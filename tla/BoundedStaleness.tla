-------------------------- MODULE BoundedStaleness --------------------------
(***************************************************************************)
(* What the read API promises its clients, with no cache in sight: every   *)
(* answer is the exact result of the request on some committed state of    *)
(* sensor_readings that was current not long ago, a "not found" is the     *)
(* result on a state that was current while the request ran, and a request *)
(* may fail or be cut short by a restart, but never invents data.          *)
(*                                                                         *)
(* `Alias` says which requests the service may take for one another.  The  *)
(* promise the documents make is the identity relation.                    *)
(***************************************************************************)
EXTENDS ReadResults

CONSTANTS Proc,          \* request goroutines
          Requests,      \* the requests clients send
          RowPool,       \* rows the generators and writers can insert
          Alias,         \* pairs of requests answered from each other's results
          Bound,         \* how old the answering state may be
          ValidRequests, \* the requests that pass validation
          MaxTime        \* bound on the clock

VARIABLES db,            \* the committed rows, oldest commit first: [row, at]
          now,
          phase,         \* "idle", "busy" or "done", per goroutine
          req,           \* its current request
          start,         \* when the request arrived
          out            \* its answer, once done

vars == <<db, now, phase, req, start, out>>

AnyRequest == CHOOSE r \in Requests : TRUE

-----------------------------------------------------------------------------
\* Rows of a recent state.  A MISS is the request's own result on a state that
\* was current while it ran; a HIT is never empty.
GoodRows(r, from, o) ==
    /\ o = OK(o.cache, o.rows)
    /\ o.cache = "HIT" => o.rows # {}
    /\ o.rows = {} => ~Unfiltered(r)
    /\ \E n \in 0..Len(db), s \in Requests :
          /\ <<s, r>> \in Alias
          /\ o.rows \in Wanted(s, Rows(db, n))
          /\ CurrentSince(db, n, from - Bound)
          /\ o.cache = "MISS" => s = r /\ CurrentSince(db, n, from)

GoodNotFound(r, from, o) ==
    /\ o = NotFound(r) /\ Unfiltered(r)
    /\ \E n \in 0..Len(db) :
          {} \in Wanted(r, Rows(db, n)) /\ CurrentSince(db, n, from)

GoodAnswer(r, from, o) ==
    GoodRows(r, from, o) \/ GoodNotFound(r, from, o) \/ o = Failed("INTERNAL_ERROR")

-----------------------------------------------------------------------------
Init ==
    /\ db = << >> /\ now = 0
    /\ phase = [p \in Proc |-> "idle"]
    /\ req = [p \in Proc |-> AnyRequest]
    /\ start = [p \in Proc |-> 0]
    /\ out = [p \in Proc |-> NoAnswer]

Commit(row) ==
    /\ \A i \in DOMAIN db : db[i].row.id # row.id
    /\ db' = Append(db, [row |-> row, at |-> now])
    /\ UNCHANGED <<now, phase, req, start, out>>

Tick == now < MaxTime /\ now' = now + 1 /\ UNCHANGED <<db, phase, req, start, out>>

Accept(p, r) ==
    /\ phase[p] = "idle" /\ r \in ValidRequests
    /\ phase' = [phase EXCEPT ![p] = "busy"]
    /\ req' = [req EXCEPT ![p] = r]
    /\ start' = [start EXCEPT ![p] = now]
    /\ UNCHANGED <<db, now, out>>

Reject(p, r) ==
    /\ phase[p] = "idle" /\ r \notin ValidRequests
    /\ phase' = [phase EXCEPT ![p] = "done"]
    /\ req' = [req EXCEPT ![p] = r]
    /\ start' = [start EXCEPT ![p] = now]
    /\ out' = [out EXCEPT ![p] = Failed("INVALID_PARAMETER")]
    /\ UNCHANGED <<db, now>>

Answers ==
    [status : {"OK", "READING_NOT_FOUND", "DEVICE_NOT_FOUND", "INTERNAL_ERROR"},
     cache : {"HIT", "MISS", ""}, rows : SUBSET RowPool]

Answer(p) ==
    /\ phase[p] = "busy"
    /\ phase' = [phase EXCEPT ![p] = "done"]
    /\ UNCHANGED <<db, now, req, start>>
    /\ \E o \in Answers :
          out' = [out EXCEPT ![p] = o] /\ GoodAnswer(req[p], start[p], o)

Collect(p) ==
    /\ phase[p] = "done"
    /\ phase' = [phase EXCEPT ![p] = "idle"]
    /\ req' = [req EXCEPT ![p] = AnyRequest]
    /\ start' = [start EXCEPT ![p] = 0]
    /\ out' = [out EXCEPT ![p] = NoAnswer]
    /\ UNCHANGED <<db, now>>

\* The API process dies: every request it was serving is gone.
Restart ==
    /\ phase' = [p \in Proc |-> "idle"]
    /\ req' = [p \in Proc |-> AnyRequest]
    /\ start' = [p \in Proc |-> 0]
    /\ out' = [p \in Proc |-> NoAnswer]
    /\ UNCHANGED <<db, now>>

Next ==
    \/ \E row \in RowPool : Commit(row)
    \/ Tick
    \/ \E p \in Proc, r \in Requests : Accept(p, r) \/ Reject(p, r)
    \/ \E p \in Proc : Answer(p) \/ Collect(p)
    \/ Restart

Spec == Init /\ [][Next]_vars
=============================================================================
