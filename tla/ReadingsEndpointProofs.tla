----------------------- MODULE ReadingsEndpointProofs -----------------------
(***************************************************************************)
(* Proofs about the answers of GET /api/v1/sensor-readings, for every set  *)
(* of goroutines, rows and query strings, every TTL and every deadline.    *)
(***************************************************************************)
EXTENDS ReadingsEndpoint, SensorServiceRefinement, FiniteSetTheorems

(***************************************************************************)
(* What a key gives away, whatever was appended to it.                     *)
(***************************************************************************)
LEMMA HeadKept ==
    ASSUME NEW S, NEW s \in Seq(S), Len(s) >= 3, NEW present \in BOOLEAN, NEW y \in S
    PROVE  /\ AddSegment(s, present, y) \in Seq(S) /\ Len(AddSegment(s, present, y)) >= 3
           /\ \A i \in 1..3 : AddSegment(s, present, y)[i] = s[i]
<1>1. CASE present
  <2>1. AddSegment(s, present, y) = Append(s, y)
    BY <1>1 DEF AddSegment
  <2>2. Append(s, y) \in Seq(S) /\ Len(Append(s, y)) = Len(s) + 1
        /\ \A i \in 1..Len(s) : Append(s, y)[i] = s[i]
    BY AppendProperties
  <2>3. Len(s) \in Nat
    BY LenProperties
  <2> QED BY <2>1, <2>2, <2>3
<1>2. CASE ~present
  BY <1>2 DEF AddSegment
<1> QED BY <1>1, <1>2

LEMMA CacheKeyHead ==
    ASSUME NEW q
    PROVE  CacheKey(q)[1] = "readings" /\ CacheKey(q)[2] = q.device /\ CacheKey(q)[3] = q.limit
<1> DEFINE S == {"readings", q.device, q.limit, q.rtype, Unix(q.from), Unix(q.to)}
           base == <<"readings", q.device, q.limit>>
           typed == AddSegment(base, q.rtype # NoType, q.rtype)
           started == AddSegment(typed, q.from # NoTime, Unix(q.from))
           ended == AddSegment(started, q.to # NoTime, Unix(q.to))
<1>1. CacheKey(q) = ended
  BY DEF CacheKey
<1>2. base \in Seq(S) /\ Len(base) >= 3
  OBVIOUS
<1>3. q.rtype \in S /\ Unix(q.from) \in S /\ Unix(q.to) \in S
  OBVIOUS
<1>4. base[1] = "readings" /\ base[2] = q.device /\ base[3] = q.limit
  OBVIOUS
<1> HIDE DEF S, base
<1>5. typed \in Seq(S) /\ Len(typed) >= 3 /\ \A i \in 1..3 : typed[i] = base[i]
  BY <1>2, <1>3, HeadKept
<1> HIDE DEF typed
<1>6. started \in Seq(S) /\ Len(started) >= 3 /\ \A i \in 1..3 : started[i] = typed[i]
  BY <1>3, <1>5, HeadKept
<1> HIDE DEF started
<1>7. \A i \in 1..3 : ended[i] = started[i]
  BY <1>3, <1>6, HeadKept
<1> HIDE DEF ended
<1> QED BY <1>1, <1>4, <1>5, <1>6, <1>7

\* Requests that share a key ask for the same id, or for as many readings of the
\* same device.
LEMMA SameKeySameSubject ==
    ASSUME NEW r, NEW s, Key(r) = Key(s)
    PROVE  /\ r.kind = "id" <=> s.kind = "id"
           /\ r.kind = "id" => r.id = s.id
           /\ r.kind # "id" => r.device = s.device /\ r.limit = s.limit
<1>1. \A q : /\ q.kind = "id" => Key(q)[1] = "id" /\ Key(q)[2] = q.id
             /\ q.kind # "id" => /\ Key(q)[1] = "readings" /\ Key(q)[2] = q.device
                                 /\ Key(q)[3] = q.limit
  BY CacheKeyHead DEF Key, PkCacheKey
<1> QED BY <1>1

(***************************************************************************)
(* Rows by id.                                                             *)
(***************************************************************************)

\* No id is in the log twice: they come from a sequence.
IdsDistinct == \A i, j \in 1..Len(db) : db[i].row.id = db[j].row.id => i = j

TableType == db \in Seq([row : RowPool, at : Nat])

\* A row that some earlier state of the table had is the one with its id.
LEMMA OneRowPerId ==
    ASSUME TableType, IdsDistinct, NEW n \in 0..Len(db), NEW id, GetByID(id, Rows(db, n)) # {}
    PROVE  /\ GetByID(id, Rows(db, n)) = GetByID(id, Rows(db, Len(db)))
           /\ Cardinality(GetByID(id, Rows(db, n))) = 1
<1>1. Len(db) \in Nat
  BY LenProperties DEF TableType
<1>2. PICK i \in 1..n : db[i].row.id = id
  BY DEF GetByID, Rows
<1>3. \A j \in 1..Len(db) : db[j].row.id = id => j = i
  BY <1>1, <1>2 DEF IdsDistinct
<1>4. GetByID(id, Rows(db, n)) = {db[i].row}
  BY <1>1, <1>2, <1>3 DEF GetByID, Rows
<1>5. GetByID(id, Rows(db, Len(db))) = {db[i].row}
  BY <1>1, <1>2, <1>3 DEF GetByID, Rows
<1> QED BY <1>4, <1>5, FS_Singleton

LEMMA IdsDistinctStep ==
    ASSUME TypeOK, IdsDistinct, [Next]_vars
    PROVE  IdsDistinct'
<1>1. TableType
  BY DEF TypeOK, TableType
<1>2. CASE db' = db
  BY <1>2 DEF IdsDistinct
<1>3. ASSUME NEW row \in RowPool, Commit(row) PROVE IdsDistinct'
  <2> DEFINE x == [row |-> row, at |-> now]
  <2>1. db' = Append(db, x) /\ \A i \in 1..Len(db) : db[i].row.id # row.id
    BY <1>1, <1>3 DEF Commit, TableType
  <2>2. x \in [row : RowPool, at : Nat]
    BY NowIsNat
  <2>3. /\ Len(db') = Len(db) + 1 /\ Len(db) \in Nat
        /\ \A i \in 1..Len(db) : db'[i] = db[i]
        /\ db'[Len(db) + 1] = x
    BY <1>1, <2>1, <2>2, AppendProperties, LenProperties DEF TableType
  <2>4. x.row = row
    OBVIOUS
  <2> HIDE DEF x
  <2> QED BY <2>1, <2>3, <2>4 DEF IdsDistinct
<1>4. (\E row \in RowPool : Commit(row)) \/ db' = db
  BY DEF Next, Step, Receive, CacheHit, CacheMiss, QueryRuns, QueryReturns, QueryFails,
         SetDone, SetFails, Collect, Deliver, Lose, Evict, Restart, Tick, env, vars
<1> QED BY <1>2, <1>3, <1>4

(***************************************************************************)
(* What the service hands back.                                            *)
(***************************************************************************)

\* A request that shares its Redis key with no other.
OwnKey(r) == \A s \in Requests : Key(s) = Key(r) => s = r

\* The rows of a 200 answer to r.
RightRows(r, cache, rows) ==
    IF r.kind = "id"
    THEN rows = GetByID(r.id, Rows(db, Len(db))) /\ Cardinality(rows) = 1
    ELSE /\ Cardinality(rows) <= r.limit
         /\ \A row \in rows : /\ r.device # NoDevice => row.device = r.device
                              /\ cache = "MISS" \/ OwnKey(r) => Matches(row, r)

RightOut(r, o) ==
    /\ o.status # "NONE" /\ (o.status = "INVALID_PARAMETER" <=> ~Valid(r))
    /\ o.status = "OK" => RightRows(r, o.cache, o.rows)
    /\ o.status \in {"READING_NOT_FOUND", "DEVICE_NOT_FOUND"} => Unfiltered(r)

AnswerSound(p) ==
    /\ pc[p] # "done" => out[p].status = "NONE"
    /\ pc[p] = "done" => RightOut(req[p], out[p])

LEMMA RowsFinite ==
    ASSUME NEW log, NEW n \in Nat
    PROVE  IsFiniteSet(Rows(log, n))
<1> DEFINE f == [i \in 1..n |-> log[i].row]
<1>1. f \in Surjection(1..n, Rows(log, n))
  BY DEF Rows, Surjection
<1>2. IsFiniteSet(1..n)
  BY FS_Interval
<1> HIDE DEF f
<1> QED BY <1>1, <1>2, FS_Surjection

\* The rows of a genuine result, seen from the request they were read for.
LEMMA GenuineIsRight ==
    ASSUME TableType, IdsDistinct, NEW rows, NEW r, NEW snap, NEW taken,
           Genuine(db, now, rows, r, snap, taken), r.kind = "id" => rows # {}
    PROVE  RightRows(r, "MISS", rows)
<1>1. snap \in 0..Len(db) /\ rows \in Wanted(r, Rows(db, snap)) /\ Valid(r)
  BY ResultsAreWanted DEF Genuine
<1>2. CASE r.kind = "id"
  <2>1. rows = GetByID(r.id, Rows(db, snap))
    BY <1>1, <1>2 DEF Wanted, GetByID
  <2> QED BY <1>1, <1>2, <2>1, OneRowPerId DEF RightRows
<1>3. CASE r.kind # "id"
  <2>1. rows \in Newest(r.limit, Matching(r, Rows(db, snap))) /\ r.limit \in 1..500
    BY <1>1, <1>3 DEF Wanted, Valid
  <2>2. rows \subseteq Matching(r, Rows(db, snap)) /\ Cardinality(rows) <= r.limit
    <3>1. rows \subseteq Rows(db, snap) /\ rows \subseteq Matching(r, Rows(db, snap))
      BY <2>1 DEF Newest, Matching
    <3>2. Cardinality(rows) \in Nat
      <4>1. snap \in Nat
        BY <1>1
      <4> QED BY <3>1, <4>1, RowsFinite, FS_Subset, FS_CardinalityType
    <3>3. Cardinality(rows) = r.limit \/ Cardinality(rows) < r.limit
      BY <2>1 DEF Newest
    <3> QED BY <2>1, <3>1, <3>2, <3>3
  <2> QED BY <1>3, <2>2 DEF RightRows, Matching, Matches
<1> QED BY <1>2, <1>3

\* The rows of an entry, seen from any request with its key.
LEMMA HitIsRight ==
    ASSUME TableType, IdsDistinct, NEW k, NEW e, e.req \in Requests, SoundEntry(k, e),
           NEW r, Key(r) = k
    PROVE  RightRows(r, "HIT", e.rows)
<1>1. RightRows(e.req, "MISS", e.rows) /\ Valid(e.req)
  BY GenuineIsRight DEF SoundEntry, Genuine
<1>2. /\ r.kind = "id" <=> e.req.kind = "id"
      /\ r.kind = "id" => r.id = e.req.id
      /\ r.kind # "id" => r.device = e.req.device /\ r.limit = e.req.limit
  BY SameKeySameSubject DEF SoundEntry
<1>3. OwnKey(r) => e.req = r
  BY DEF OwnKey, SoundEntry
<1> QED BY <1>1, <1>2, <1>3 DEF RightRows

\* An answer once right stays right: rows found by id are never joined by others.
LEMMA RightOutStable ==
    ASSUME TypeOK, IdsDistinct, IdsDistinct', [Next]_vars, TypeOK', NEW r, NEW o, RightOut(r, o)
    PROVE  RightOut(r, o)'
<1>1. TableType /\ TableType'
  BY DEF TypeOK, TableType
<1>2. ASSUME r.kind = "id", o.status = "OK" PROVE o.rows = GetByID(r.id, Rows(db, Len(db)))'
  <2>1. o.rows = GetByID(r.id, Rows(db, Len(db))) /\ Cardinality(o.rows) = 1
    BY <1>2 DEF RightOut, RightRows
  <2>2. CASE db' = db
    BY <2>1, <2>2 DEF GetByID, Rows
  <2>3. ASSUME NEW row \in RowPool, Commit(row) PROVE o.rows = GetByID(r.id, Rows(db, Len(db)))'
    <3> DEFINE x == [row |-> row, at |-> now]
    <3>1. db' = Append(db, x) /\ x \in [row : RowPool, at : Nat]
      BY <2>3, NowIsNat DEF Commit
    <3>2. Len(db') = Len(db) + 1 /\ Len(db) \in Nat
      BY <1>1, <3>1, AppendProperties, LenProperties DEF TableType
    <3>3. Rows(db', Len(db)) = Rows(db, Len(db))
      <4> HIDE DEF x
      <4> QED BY <1>1, <3>1, <3>2, PrefixKept DEF TableType
    <3>4. GetByID(r.id, Rows(db', Len(db))) = o.rows /\ o.rows # {}
      <4>1. o.rows # {}
        BY <2>1, FS_EmptySet
      <4> QED BY <2>1, <3>3, <4>1 DEF GetByID
    <3>5. Len(db) \in 0..Len(db')
      BY <3>2
    <3>6. ASSUME TableType', IdsDistinct', NEW n \in 0..Len(db'), GetByID(r.id, Rows(db', n)) # {}
          PROVE  GetByID(r.id, Rows(db', n)) = GetByID(r.id, Rows(db', Len(db')))
      <4>1. PICK i \in 1..n : db'[i].row.id = r.id
        BY <3>6 DEF GetByID, Rows
      <4>2. \A j \in 1..Len(db') : db'[j].row.id = r.id => j = i
        BY <3>2, <3>6, <4>1 DEF IdsDistinct
      <4> QED BY <3>2, <4>1, <4>2 DEF GetByID, Rows
    <3> HIDE DEF x
    <3>7. GetByID(r.id, Rows(db', Len(db'))) = o.rows
      BY <1>1, <3>4, <3>5, <3>6
    <3> QED BY <3>7 DEF GetByID, Rows
  <2>4. (\E row \in RowPool : Commit(row)) \/ db' = db
    BY DEF Next, Step, Receive, CacheHit, CacheMiss, QueryRuns, QueryReturns, QueryFails,
           SetDone, SetFails, Collect, Deliver, Lose, Evict, Restart, Tick, env, vars
  <2> QED BY <2>2, <2>3, <2>4
<1> QED BY <1>2 DEF RightOut, RightRows, Valid, IsValidDeviceID, IsValidReadingType

\* A goroutine that a step leaves alone keeps a right answer.
LEMMA AnswerByOther ==
    ASSUME TypeOK, TypeOK', IdsDistinct, IdsDistinct', [Next]_vars, NEW q \in Proc, AnswerSound(q),
           pc'[q] = pc[q], req'[q] = req[q], out'[q] = out[q]
    PROVE  AnswerSound(q)'
<1>1. PICK r : r = req[q]
  OBVIOUS
<1>2. PICK o : o = out[q]
  OBVIOUS
<1>3. RightOut(r, o) => RightOut(r, o)'
  BY RightOutStable
<1>4. RightOut(r, o) <=> RightOut(req[q], out[q])
  BY <1>1, <1>2
<1>5. RightOut(r, o)' <=> RightOut(req[q], out[q])'
  BY <1>1, <1>2 DEF RightOut, RightRows, Valid, IsValidDeviceID, IsValidReadingType, Matches
<1> QED BY <1>3, <1>4, <1>5 DEF AnswerSound

\* The end of a request, with an answer right in this state of the table.
LEMMA RespondRight ==
    ASSUME TypeOK, NEW p \in Proc, NEW o, Respond(p, o), UNCHANGED db, NEW r, req'[p] = r, RightOut(r, o)
    PROVE  AnswerSound(p)'
<1>1. pc'[p] = "done" /\ out'[p] = o
  BY DEF Respond, TypeOK
<1>2. RightOut(r, o)'
  BY DEF RightOut, RightRows, Valid, IsValidDeviceID, IsValidReadingType
<1> QED BY <1>1, <1>2 DEF AnswerSound

LEMMA AnswerSoundStep ==
    ASSUME IInv, TypeOK', IdsDistinct, IdsDistinct', \A p \in Proc : AnswerSound(p), [Next]_vars
    PROVE  \A p \in Proc : AnswerSound(p)'
<1> SUFFICES ASSUME NEW q \in Proc PROVE AnswerSound(q)'
  OBVIOUS
<1>a. TypeOK /\ TableType /\ HeldBy(q) /\ CacheSound /\ AnswerSound(q)
  BY DEF IInv, TypeOK, TableType, HeldSound, HeldBy
<1>c. CASE pc'[q] = pc[q] /\ req'[q] = req[q] /\ out'[q] = out[q]
  BY <1>a, <1>c, AnswerByOther
<1>d. CASE pc[q] # "done" /\ pc'[q] # "done" /\ out'[q] = out[q]
  BY <1>a, <1>d DEF AnswerSound
<1>1. ASSUME NEW r \in Requests, Receive(q, r) PROVE AnswerSound(q)'
  <2>1. req'[q] = r /\ UNCHANGED db /\ pc[q] = "idle"
    BY <1>1, <1>a DEF Receive, TypeOK, env
  <2>2. CASE ~Valid(r) /\ Respond(q, Failed("INVALID_PARAMETER"))
    <3>1. RightOut(r, Failed("INVALID_PARAMETER"))
      BY <2>2 DEF RightOut, Failed
    <3> QED BY <1>a, <2>1, <2>2, <3>1, RespondRight
  <2>3. CASE Goto(q, IF enabled THEN "lookup" ELSE "query") /\ UNCHANGED out
    BY <1>a, <1>d, <2>1, <2>3 DEF Goto, TypeOK
  <2> QED BY <1>1, <2>2, <2>3 DEF Receive
<1>2. ASSUME CacheHit(q) PROVE AnswerSound(q)'
  <2> DEFINE e == redis[Key(req[q])]
  <2>1. Respond(q, OK("HIT", e.rows)) /\ UNCHANGED <<db, req>> /\ e # NoEntry /\ pc[q] = "lookup"
    BY <1>2 DEF CacheHit, Live, env
  <2>2. Valid(req[q])
    BY <1>a, <2>1 DEF HeldBy, Busy
  <2>3. SoundEntry(Key(req[q]), e)
    BY <1>a, <2>1, KeyInKeys DEF CacheSound, SoundEntry, TypeOK
  <2>4. RightRows(req[q], "HIT", e.rows)
    <3>1. e.req \in Requests
      BY <1>a, <2>1, KeyInKeys DEF TypeOK, Entry
    <3> HIDE DEF e
    <3> QED BY <1>a, <2>3, <3>1, HitIsRight
  <2>5. RightOut(req[q], OK("HIT", e.rows))
    BY <2>2, <2>4 DEF RightOut, OK
  <2> QED BY <1>a, <2>1, <2>5, RespondRight
<1>3. ASSUME CacheMiss(q) \/ QueryRuns(q) PROVE AnswerSound(q)'
  <2>1. pc[q] # "done" /\ pc'[q] # "done" /\ out' = out
    BY <1>3, <1>a DEF CacheMiss, QueryRuns, Goto, TypeOK
  <2> QED BY <1>d, <2>1
<1>4. ASSUME QueryFails(q) PROVE AnswerSound(q)'
  <2>1. Respond(q, Failed("INTERNAL_ERROR")) /\ UNCHANGED <<db, req>> /\ pc[q] \in {"query", "rows"}
    BY <1>4 DEF QueryFails, env
  <2>2. Valid(req[q])
    BY <1>a, <2>1 DEF HeldBy, Busy
  <2>3. RightOut(req[q], Failed("INTERNAL_ERROR"))
    BY <2>2 DEF RightOut, Failed
  <2> QED BY <1>a, <2>1, <2>3, RespondRight
<1>5. ASSUME pc[q] \in {"rows", "store"}, got[q].rows # {} \/ req[q].kind # "id"
      PROVE  RightOut(req[q], OK("MISS", got[q].rows))
  <2>1. Valid(req[q]) /\ Genuine(db, now, got[q].rows, req[q], got[q].snap, got[q].taken)
    BY <1>a, <1>5 DEF HeldBy, Busy
  <2>2. RightRows(req[q], "MISS", got[q].rows)
    BY <1>a, <1>5, <2>1, GenuineIsRight
  <2> QED BY <2>1, <2>2 DEF RightOut, OK
<1>6. ASSUME QueryReturns(q) PROVE AnswerSound(q)'
  <2>1. UNCHANGED <<db, req>> /\ pc[q] = "rows"
    BY <1>6 DEF QueryReturns, env
  <2>2. CASE Goto(q, "store") /\ UNCHANGED out
    BY <1>a, <1>d, <2>1, <2>2 DEF Goto, TypeOK
  <2>3. CASE got[q].rows # {} /\ Respond(q, OK("MISS", got[q].rows))
    BY <1>a, <1>5, <2>1, <2>3, RespondRight
  <2>4. CASE got[q].rows = {} /\ ~Unfiltered(req[q]) /\ Respond(q, OK("MISS", {}))
    <3>1. req[q].kind # "id"
      BY <2>4 DEF Unfiltered
    <3> QED BY <1>a, <1>5, <2>1, <2>4, <3>1, RespondRight
  <2>5. CASE Unfiltered(req[q]) /\ Respond(q, NotFound(req[q]))
    <3>1. Valid(req[q])
      BY <1>a, <2>1 DEF HeldBy, Busy
    <3>2. RightOut(req[q], NotFound(req[q]))
      BY <2>5, <3>1 DEF RightOut, NotFound, Failed
    <3> QED BY <1>a, <2>1, <2>5, <3>2, RespondRight
  <2> QED BY <1>6, <2>2, <2>3, <2>4, <2>5 DEF QueryReturns
<1>7. ASSUME SetDone(q) \/ SetFails(q) PROVE AnswerSound(q)'
  <2>1. UNCHANGED <<db, req>> /\ pc[q] = "store" /\ Respond(q, OK("MISS", got[q].rows))
    BY <1>7 DEF SetDone, SetFails, env
  <2>2. got[q].rows # {}
    BY <1>a, <2>1 DEF HeldBy
  <2> QED BY <1>a, <1>5, <2>1, <2>2, RespondRight
<1>8. ASSUME Collect(q) \/ Restart PROVE AnswerSound(q)'
  <2>1. pc'[q] = "idle" /\ out'[q] = NoAnswer
    BY <1>8, <1>a DEF Collect, Restart, TypeOK
  <2>2. NoAnswer.status = "NONE"
    BY DEF NoAnswer, Failed
  <2> QED BY <2>1, <2>2 DEF AnswerSound
<1>9. ASSUME NEW p \in Proc, p # q,
             Step(p) \/ Collect(p) \/ \E r \in Requests : Receive(p, r)
      PROVE  AnswerSound(q)'
  <2>1. pc'[q] = pc[q] /\ req'[q] = req[q] /\ out'[q] = out[q]
    BY <1>9, <1>a DEF Step, Receive, CacheHit, CacheMiss, QueryRuns, QueryReturns, QueryFails,
                SetDone, SetFails, Collect, Respond, Goto, TypeOK
  <2> QED BY <1>c, <2>1
<1>10. ASSUME \/ \E w \in wire : Deliver(w) \/ Lose(w)
              \/ \E k \in Keys : Evict(k)
              \/ \E row \in RowPool : Commit(row)
              \/ Tick \/ UNCHANGED vars
      PROVE  AnswerSound(q)'
  <2>1. pc' = pc /\ req' = req /\ out' = out
    BY <1>10 DEF Deliver, Lose, Evict, Commit, Tick, vars
  <2> QED BY <1>c, <2>1
<1> QED BY <1>1, <1>2, <1>3, <1>4, <1>6, <1>7, <1>8, <1>9, <1>10 DEF Next, Step

(***************************************************************************)
(* The inductive invariant of the service, with the answers it gives.      *)
(***************************************************************************)
AnswersInv == IInv /\ IdsDistinct /\ \A p \in Proc : AnswerSound(p)

LEMMA AnswersInit == Init => AnswersInv
<1> SUFFICES ASSUME Init PROVE AnswersInv
  OBVIOUS
<1>1. IInv
  BY InitTypeOK, InitSound DEF IInv
<1>2. IdsDistinct
  <2>1. db = << >>
    BY DEF Init
  <2> QED BY <2>1 DEF IdsDistinct
<1>3. \A p \in Proc : pc[p] = "idle" /\ out[p] = NoAnswer
  BY DEF Init
<1>4. NoAnswer.status = "NONE"
  BY DEF NoAnswer, Failed
<1> QED BY <1>1, <1>2, <1>3, <1>4 DEF AnswersInv, AnswerSound

LEMMA AnswersStep == AnswersInv /\ [Next]_vars => AnswersInv'
<1> SUFFICES ASSUME AnswersInv, [Next]_vars PROVE AnswersInv'
  OBVIOUS
<1>1. IInv /\ TypeOK
  BY DEF AnswersInv, IInv
<1>2. IInv' /\ TypeOK'
  BY <1>1, TypeOKStep, HeldSoundStep, WireSoundStep, CacheSoundStep DEF IInv
<1>3. IdsDistinct'
  BY <1>1, IdsDistinctStep DEF AnswersInv
<1> QED BY <1>1, <1>2, <1>3, AnswerSoundStep DEF AnswersInv

LEMMA AnswersInvExact == AnswersInv => ByIdExact
<1> SUFFICES ASSUME AnswersInv, NEW p \in Proc, out[p].status = "OK", req[p].kind = "id"
             PROVE  /\ out[p].rows = GetByID(req[p].id, Rows(db, Len(db)))
                    /\ Cardinality(out[p].rows) = 1
  BY DEF ByIdExact
<1>1. AnswerSound(p)
  BY DEF AnswersInv
<1> QED BY <1>1 DEF AnswerSound, RightOut, RightRows

\* A 200 answer to a lookup by id, from the cache or not, is the one row with
\* that id.
THEOREM ByIdIsExact == Spec => []ByIdExact
<1>1. Spec => []AnswersInv
  BY AnswersInit, AnswersStep, PTL DEF Spec
<1> QED BY <1>1, AnswersInvExact, PTL

LEMMA AnswersInvMatch ==
    ASSUME AnswersInv, NEW p \in Proc, out[p].status = "OK", req[p].kind = "readings",
           OwnKey(req[p])
    PROVE  \A row \in out[p].rows : Matches(row, req[p])
<1>1. AnswerSound(p)
  BY DEF AnswersInv
<1>2. RightRows(req[p], out[p].cache, out[p].rows)
  BY <1>1 DEF AnswerSound, RightOut
<1> QED BY <1>2 DEF RightRows

(***************************************************************************)
(* Whatever the clients ask, a question without a time range, for no       *)
(* reading type of digits only, is answered with rows of its device and    *)
(* type only, from the cache too.                                          *)
(***************************************************************************)
THEOREM RangelessAnswersMatch ==
    ASSUME \A r \in Requests : IdRequest(r) \/ (DeviceRequest(r) /\ TimesOrNone(r))
    PROVE  Spec => []RangelessRowsMatch
<1>1. \A r \in Requests : Rangeless(r) => OwnKey(r) /\ r.kind = "readings"
  <2> SUFFICES ASSUME NEW r \in Requests, Rangeless(r) PROVE OwnKey(r) /\ r.kind = "readings"
    OBVIOUS
  <2>1. DeviceRequest(r) /\ r.kind = "readings"
    BY DEF Rangeless, IdRequest, DeviceRequest
  <2>2. ASSUME NEW s \in Requests, Key(s) = Key(r) PROVE s = r
    <3>1. s.kind # "id" => TimesOrNone(s)
      BY DEF IdRequest
    <3> QED BY <2>1, <2>2, <3>1, RangelessKeys
  <2> QED BY <2>1, <2>2 DEF OwnKey
<1>2. AnswersInv => RangelessRowsMatch
  <2> SUFFICES ASSUME AnswersInv, NEW p \in Proc, out[p].status = "OK", Rangeless(req[p])
               PROVE  \A row \in out[p].rows : Matches(row, req[p])
    BY DEF RangelessRowsMatch
  <2>1. req[p] \in Requests
    BY DEF AnswersInv, IInv, TypeOK
  <2> QED BY <1>1, <2>1, AnswersInvMatch
<1>3. Spec => []AnswersInv
  BY AnswersInit, AnswersStep, PTL DEF Spec
<1> QED BY <1>2, <1>3, PTL

(***************************************************************************)
(* What the documents say of every answer holds as long as the clients     *)
(* only send requests that their keys tell apart (whole seconds, `to` only *)
(* with `from`, no reading type of digits only): each row satisfies every  *)
(* filter of its request.                                                  *)
(***************************************************************************)
THEOREM DistinctAnswersMatch ==
    ASSUME \A r \in Requests : (DeviceRequest(r) \/ IdRequest(r)) /\ Distinguishable(r)
    PROVE  Spec => []OnlyMatchingRows
<1>1. \A r \in Requests : OwnKey(r)
  BY DistinctKeys DEF OwnKey
<1>2. AnswersInv => OnlyMatchingRows
  <2> SUFFICES ASSUME AnswersInv, NEW p \in Proc, out[p].status = "OK", req[p].kind = "readings"
               PROVE  \A row \in out[p].rows : Matches(row, req[p])
    BY DEF OnlyMatchingRows
  <2>1. req[p] \in Requests
    BY DEF AnswersInv, IInv, TypeOK
  <2> QED BY <1>1, <2>1, AnswersInvMatch
<1>3. Spec => []AnswersInv
  BY AnswersInit, AnswersStep, PTL DEF Spec
<1> QED BY <1>2, <1>3, PTL

(***************************************************************************)
(* The handler around the service.                                         *)
(***************************************************************************)
AnsweredRight(x, h) ==
    /\ h.code = 400 => ~Documented(x)
    /\ ~Documented(x) => h.code = 400 \/ LimitMisread(x)
    /\ h.code = 200 => Answers(x, h)

LEMMA TextsOf ==
    ASSUME NEW x \in Queries
    PROVE  x.id \in Text /\ x.limit \in Text /\ x.from \in Text /\ x.to \in Text
BY EndpointAssumption

\* Between them, the handler and the service refuse what breaks a documented rule,
\* a misread limit excepted, and nothing else.
LEMMA ChecksComplete ==
    ASSUME NEW x \in Queries
    PROVE  Documented(x) \/ LimitMisread(x) <=> Accepted(x) /\ Valid(Parsed(x))
<1> USE TextsOf DEF Text, Given
<1>0. 10 \in 1..500
  OBVIOUS
<1>1. CASE ~OneOf(x)
  BY <1>1 DEF Documented, LimitMisread, RulesButLimit, Accepted
<1>2. CASE OneOf(x) /\ Given(x.id)
  <2>1. Parsed(x) = [kind |-> "id", id |-> x.id.value]
    BY <1>2 DEF Parsed
  <2>2. Valid(Parsed(x)) <=> x.id.value >= 1
    BY <2>1 DEF Valid
  <2>3. x.id.value \in Int
    OBVIOUS
  <2>4. Accepted(x) <=> x.id.form = "exact" /\ x.id.value >= 1
    BY <1>2 DEF Accepted, Parses
  <2>5. Documented(x) \/ LimitMisread(x) <=> x.id.form = "exact" /\ x.id.value > 0
    BY <1>2 DEF Documented, LimitMisread, RulesButLimit
  <2> QED BY <2>2, <2>3, <2>4, <2>5
<1>3. CASE OneOf(x) /\ ~Given(x.id)
  <2>1. Parsed(x) = [kind |-> "readings", device |-> x.device, limit |-> Limit(x),
                     rtype |-> x.rtype, from |-> Time(x.from), to |-> Time(x.to)]
    BY <1>3 DEF Parsed
  <2>2. Valid(Parsed(x)) <=> /\ x.device \in DeviceIDs /\ Limit(x) \in 1..500
                             /\ x.rtype \in ReadingTypes \cup {NoType}
    BY <2>1 DEF Valid, IsValidDeviceID, IsValidReadingType
  <2>3. Limit(x) \in 1..500 <=> (x.limit.form \in {"exact", "prefix"} => x.limit.value \in 1..500)
    BY <1>0 DEF Limit, IntOrDefault
  <2>4. TimeAccepted(x.from) /\ TimeAccepted(x.to) <=> {x.from.form, x.to.form} \subseteq {"empty", "exact"}
    BY DEF TimeAccepted, Parses
  <2>5. {x.from.form, x.to.form} \subseteq {"empty", "exact"} =>
          (NotReversed(x) <=> (x.from.form = "exact" /\ x.to.form = "exact" => x.to.value >= x.from.value))
    <3>1. x.from.value \in Int /\ x.to.value \in Int
      OBVIOUS
    <3> QED BY <3>1 DEF NotReversed
  <2>6. Accepted(x) <=> Limit(x) \in 1..500 /\ TimeAccepted(x.from) /\ TimeAccepted(x.to) /\ NotReversed(x)
    BY <1>3 DEF Accepted
  <2>7. Documented(x) \/ LimitMisread(x) <=>
           /\ x.device \in DeviceIDs /\ x.rtype \in ReadingTypes \cup {NoType}
           /\ x.limit.form \in {"exact", "prefix"} => x.limit.value \in 1..500
           /\ {x.from.form, x.to.form} \subseteq {"empty", "exact"}
           /\ x.from.form = "exact" /\ x.to.form = "exact" => x.to.value >= x.from.value
    BY <1>3 DEF Documented, LimitMisread, RulesButLimit
  <2> QED BY <2>2, <2>3, <2>4, <2>5, <2>6, <2>7
<1> QED BY <1>1, <1>2, <1>3

\* What is right of the rows of a device.
LEMMA RowsRight ==
    ASSUME NEW r, NEW cache, NEW rows, RightRows(r, cache, rows),
           r.kind # "id", r.device # NoDevice
    PROVE  /\ Cardinality(rows) <= r.limit
           /\ \A row \in rows : row.device = r.device /\ (cache = "MISS" => Matches(row, r))
BY DEF RightRows

\* A right answer of the service becomes the documented answer of the handler.
LEMMA ReplyRight ==
    ASSUME NEW x \in Queries, Accepted(x), NEW o, RightOut(Parsed(x), o),
           NEW h, h.code = Code(o.status), h.cache = o.cache, h.rows = o.rows
    PROVE  AnsweredRight(x, h)
<1> DEFINE r == Parsed(x)
<1>1. h.code = 400 <=> o.status = "INVALID_PARAMETER"
  BY DEF Code
<1>2. h.code = 200 => o.status = "OK"
  BY DEF Code
<1>3. h.code = 400 <=> ~(Documented(x) \/ LimitMisread(x))
  BY <1>1, ChecksComplete DEF RightOut
<1>4. ASSUME h.code = 200 PROVE Answers(x, h)
  <2>0. RightRows(r, h.cache, h.rows)
    BY <1>2, <1>4 DEF RightOut
  <2>1. CASE Given(x.id)
    <3>1. r.kind = "id" /\ r.id = x.id.value
      BY <2>1 DEF Parsed
    <3>2. h.rows = GetByID(r.id, Rows(db, Len(db)))
      <4> HIDE DEF r
      <4> QED BY <2>0, <3>1 DEF RightRows
    <3>3. \A row \in h.rows : row.id = r.id
      <4> HIDE DEF r
      <4> QED BY <3>2 DEF GetByID
    <3> QED BY <2>1, <3>1, <3>3 DEF Answers
  <2>2. CASE ~Given(x.id)
    <3>1. /\ r.kind = "readings" /\ r.device = x.device /\ r.limit = Limit(x) /\ r.rtype = x.rtype
          /\ r.from = Time(x.from) /\ r.to = Time(x.to)
      BY <2>2 DEF Parsed
    <3>2. x.device # NoDevice
      <4>1. OneOf(x)
        BY DEF Accepted
      <4>2. Given(x.id) = FALSE
        BY <2>2 DEF Given
      <4> QED BY <4>1, <4>2, Zenon DEF OneOf
    <3>3. /\ Cardinality(h.rows) <= Limit(x)
          /\ \A row \in h.rows : row.device = x.device /\ (h.cache = "MISS" => Matches(row, r))
      <4> HIDE DEF r
      <4>1. r.kind # "id" /\ r.limit = Limit(x) /\ r.device = x.device /\ r.device # NoDevice
        BY <3>1, <3>2
      <4> QED BY <2>0, <4>1, RowsRight
    <3>4. Limit(x) = IF x.limit.form \in {"empty", "bad"} THEN 10 ELSE x.limit.value
      BY TextsOf DEF Limit, IntOrDefault, Text
    <3>5. /\ Given(x.from) => r.from = x.from.value /\ r.from # NoTime
          /\ Given(x.to) => r.to = x.to.value /\ r.to # NoTime
      <4> HIDE DEF r
      <4> QED BY <3>1, TextsOf, EndpointAssumption DEF Time, Text
    <3>6. \A row \in h.rows : h.cache = "MISS" =>
             /\ x.rtype # NoType => row.rtype = x.rtype
             /\ Given(x.from) => row.ts >= x.from.value
             /\ Given(x.to) => row.ts <= x.to.value
      <4> HIDE DEF r
      <4> QED BY <3>1, <3>3, <3>5 DEF Matches
    <3> HIDE DEF r
    <3> QED BY <2>2, <3>3, <3>4, <3>6 DEF Answers
  <2> QED BY <2>1, <2>2
<1> QED BY <1>3, <1>4 DEF AnsweredRight

\* What a goroutine's client asked, and how far it has got.
Conversation(p) ==
    /\ query[p] = NoQuery => pc[p] = "idle" /\ http[p] = NoHttp
    /\ pc[p] # "idle" => /\ query[p] \in Queries /\ Accepted(query[p])
                         /\ req[p] = Parsed(query[p]) /\ http[p] = NoHttp
    /\ http[p] # NoHttp => AnsweredRight(query[p], http[p])

EndpointInv ==
    /\ AnswersInv
    /\ query \in [Proc -> Queries \cup {NoQuery}]
    /\ http = [p \in Proc |-> http[p]]
    /\ \A p \in Proc : Conversation(p)

\* Every step of the endpoint is a step of the service or leaves it alone.
LEMMA EndpointStepIsStep == [EndpointNext]_endpointVars => [Next]_vars
BY EndpointAssumption
   DEF EndpointNext, endpointVars, Handle, Reply, Leave, Get, Surroundings, EndpointRestart, Next

LEMMA EndpointInitInv == EndpointInit => EndpointInv
<1> SUFFICES ASSUME EndpointInit PROVE EndpointInv
  OBVIOUS
<1>1. AnswersInv
  BY AnswersInit DEF EndpointInit
<1>2. \A p \in Proc : pc[p] = "idle" /\ query[p] = NoQuery /\ http[p] = NoHttp
  BY DEF EndpointInit, Init
<1>3. http = [p \in Proc |-> http[p]] /\ query \in [Proc -> Queries \cup {NoQuery}]
  BY DEF EndpointInit
<1> QED BY <1>1, <1>2, <1>3 DEF EndpointInv, Conversation

LEMMA RefusalRight ==
    ASSUME NEW x \in Queries, ~Accepted(x)
    PROVE  AnsweredRight(x, BadRequest)
BY ChecksComplete DEF AnsweredRight, BadRequest

LEMMA EndpointInvStep == EndpointInv /\ [EndpointNext]_endpointVars => EndpointInv'
<1> SUFFICES ASSUME EndpointInv, [EndpointNext]_endpointVars PROVE EndpointInv'
  OBVIOUS
<1>a. /\ AnswersInv /\ AnswersInv' /\ TypeOK /\ query \in [Proc -> Queries \cup {NoQuery}]
      /\ http = [p \in Proc |-> http[p]] /\ \A p \in Proc : Conversation(p)
  BY EndpointStepIsStep, AnswersStep DEF EndpointInv, AnswersInv, IInv
<1>u. ASSUME NEW q \in Proc, query'[q] = query[q], http'[q] = http[q],
             pc'[q] = "idle" \/ (pc'[q] = pc[q] /\ req'[q] = req[q])
      PROVE  Conversation(q)'
  <2>1. AnsweredRight(query[q], http[q]) => AnsweredRight(query[q], http[q])'
    <3>1. \A x, g : AnsweredRight(x, g) /\ query'[q] = x /\ http'[q] = g
                      => AnsweredRight(query[q], http[q])'
      BY DEF AnsweredRight, Documented, LimitMisread, RulesButLimit, Answers
    <3> QED BY <1>u, <3>1
  <2> QED BY <1>a, <1>u, <2>1 DEF Conversation
<1>1. ASSUME NEW p \in Proc, NEW x \in Queries, Get(p, x) PROVE EndpointInv'
  <2>0. /\ query[p] = NoQuery /\ query' = [query EXCEPT ![p] = x] /\ x # NoQuery
        /\ pc[p] = "idle" /\ http[p] = NoHttp
    BY <1>a, <1>1, EndpointAssumption DEF Get, Conversation
  <2>1. query' \in [Proc -> Queries \cup {NoQuery}] /\ query'[p] = x
        /\ \A q \in Proc \ {p} : query'[q] = query[q]
    BY <1>a, <2>0
  <2>2. CASE Accepted(x) /\ Receive(p, Parsed(x)) /\ UNCHANGED http
    <3>1. req'[p] = Parsed(x)
      BY <1>a, <2>2 DEF Receive, TypeOK
    <3>2. \A q \in Proc \ {p} : pc'[q] = pc[q] /\ req'[q] = req[q]
      BY <1>a, <2>2 DEF Receive, Respond, Goto, TypeOK
    <3>3. Conversation(p)'
      BY <2>0, <2>1, <2>2, <3>1 DEF Conversation
    <3>4. \A q \in Proc \ {p} : Conversation(q)'
      BY <1>u, <2>1, <2>2, <3>2
    <3> QED BY <1>a, <2>1, <2>2, <3>3, <3>4 DEF EndpointInv
  <2>3. CASE ~Accepted(x) /\ http' = [http EXCEPT ![p] = BadRequest] /\ UNCHANGED vars
    <3>1. http'[p] = BadRequest /\ http' = [q \in Proc |-> http'[q]] /\ UNCHANGED <<pc, req>>
          /\ \A q \in Proc \ {p} : http'[q] = http[q]
      BY <1>a, <2>3 DEF vars
    <3>2. AnsweredRight(x, BadRequest)'
      BY <2>3, RefusalRight DEF AnsweredRight, Documented, LimitMisread, RulesButLimit, Answers
    <3>3. Conversation(p)'
      BY <2>0, <2>1, <3>1, <3>2 DEF Conversation, AnsweredRight
    <3>4. \A q \in Proc \ {p} : Conversation(q)'
      BY <1>u, <2>1, <3>1
    <3> QED BY <1>a, <2>1, <3>1, <3>3, <3>4 DEF EndpointInv
  <2> QED BY <1>1, <2>2, <2>3 DEF Get
<1>2. ASSUME NEW p \in Proc, Reply(p) PROVE EndpointInv'
  <2> DEFINE h == [code |-> Code(out[p].status), cache |-> out[p].cache, rows |-> out[p].rows]
  <2>1. /\ http'[p] = h /\ http' = [q \in Proc |-> http'[q]] /\ UNCHANGED query
        /\ \A q \in Proc \ {p} : http'[q] = http[q]
    BY <1>a, <1>2 DEF Reply
  <2>2. /\ pc[p] = "done" /\ pc'[p] = "idle"
        /\ \A q \in Proc \ {p} : pc'[q] = pc[q] /\ req'[q] = req[q]
    BY <1>a, <1>2 DEF Reply, Collect, TypeOK
  <2>3. query[p] \in Queries /\ Accepted(query[p]) /\ req[p] = Parsed(query[p])
    BY <1>a, <2>2 DEF Conversation
  <2>4. RightOut(Parsed(query[p]), out[p])
    BY <1>a, <2>2, <2>3 DEF AnswersInv, AnswerSound
  <2>5. AnsweredRight(query[p], h)
    BY <2>3, <2>4, ReplyRight
  <2>6. query[p] # NoQuery
    BY <2>3, EndpointAssumption
  <2>7. Conversation(p)'
    <3> HIDE DEF h
    <3>1. query'[p] = query[p] /\ http'[p] = h
      BY <2>1
    <3>2. AnsweredRight(query[p], http[p])'
      <4>1. \A x, g : AnsweredRight(x, g) /\ query'[p] = x /\ http'[p] = g
                        => AnsweredRight(query[p], http[p])'
        BY DEF AnsweredRight, Documented, LimitMisread, RulesButLimit, Answers
      <4> QED BY <2>5, <3>1, <4>1
    <3> QED BY <2>2, <2>5, <2>6, <3>1, <3>2 DEF Conversation
  <2>8. \A q \in Proc \ {p} : Conversation(q)'
    BY <1>u, <2>1, <2>2
  <2> HIDE DEF h
  <2> QED BY <1>a, <2>1, <2>7, <2>8 DEF EndpointInv
<1>3. ASSUME NEW p \in Proc, Leave(p) PROVE EndpointInv'
  <2>1. /\ query'[p] = NoQuery /\ http'[p] = NoHttp /\ http' = [q \in Proc |-> http'[q]]
        /\ query' \in [Proc -> Queries \cup {NoQuery}] /\ UNCHANGED <<pc, req>>
        /\ \A q \in Proc \ {p} : query'[q] = query[q] /\ http'[q] = http[q]
    BY <1>a, <1>3 DEF Leave, vars
  <2>2. pc[p] = "idle"
    BY <1>a, <1>3 DEF Leave, Conversation
  <2>3. Conversation(p)'
    BY <2>1, <2>2 DEF Conversation
  <2>4. \A q \in Proc \ {p} : Conversation(q)'
    BY <1>u, <2>1
  <2> QED BY <1>a, <2>1, <2>3, <2>4 DEF EndpointInv
<1>4. ASSUME NEW p \in Proc, Handle(p) PROVE EndpointInv'
  <2>1. /\ UNCHANGED <<query, http, req>> /\ pc[p] # "idle"
        /\ \A q \in Proc \ {p} : pc'[q] = pc[q]
    BY <1>a, <1>4 DEF Handle, Step, CacheHit, CacheMiss, QueryRuns, QueryReturns, QueryFails,
                      SetDone, SetFails, Respond, Goto, TypeOK
  <2>2. Conversation(p)'
    BY <1>a, <2>1 DEF Conversation
  <2>3. \A q \in Proc \ {p} : Conversation(q)'
    BY <1>u, <2>1
  <2> QED BY <1>a, <2>1, <2>2, <2>3 DEF EndpointInv
<1>5. ASSUME UNCHANGED <<query, http, pc, req>> PROVE EndpointInv'
  BY <1>a, <1>u, <1>5 DEF EndpointInv
<1>6. Surroundings => UNCHANGED <<pc, req>>
  BY DEF Surroundings, Deliver, Lose, Evict, Commit, Tick
<1>7. CASE EndpointRestart
  <2>1. \A p \in Proc : pc'[p] = "idle" /\ query'[p] = NoQuery /\ http'[p] = NoHttp
    BY <1>7 DEF EndpointRestart, Restart
  <2>2. http' = [p \in Proc |-> http'[p]] /\ query' \in [Proc -> Queries \cup {NoQuery}]
    BY <1>7 DEF EndpointRestart
  <2> QED BY <1>a, <2>1, <2>2 DEF EndpointInv, Conversation
<1>8. CASE UNCHANGED endpointVars
  BY <1>5, <1>8 DEF endpointVars, vars
<1> QED BY <1>1, <1>2, <1>3, <1>4, <1>5, <1>6, <1>7, <1>8 DEF EndpointNext

(***************************************************************************)
(* From the query string to the answer, a 400 means that a documented rule *)
(* is broken, whatever breaks one gets a 400 unless the only fault is a    *)
(* limit the handler misreads, and the rows of a 200 answer the question.  *)
(***************************************************************************)
THEOREM AnswersAsDocumented == EndpointSpec => []AnsweredAsDocumented
<1>1. EndpointInv => AnsweredAsDocumented
  BY DEF EndpointInv, Conversation, AnsweredRight, AnsweredAsDocumented
<1>2. EndpointSpec => []EndpointInv
  BY EndpointInitInv, EndpointInvStep, PTL DEF EndpointSpec
<1> QED BY <1>1, <1>2, PTL

(***************************************************************************)
(* The endpoint runs the service: what is proved of every behaviour of     *)
(* SensorService holds under it.                                           *)
(***************************************************************************)
THEOREM EndpointRunsService == EndpointSpec => Spec
<1>1. EndpointInit => Init
  BY DEF EndpointInit
<1> QED BY <1>1, EndpointStepIsStep, PTL DEF EndpointSpec, Spec

(***************************************************************************)
(* So every answer of the endpoint, whatever is asked, is the exact result *)
(* of a request with the same Redis key on a recent state of the table.    *)
(***************************************************************************)
THEOREM EndpointKeepsUpToKey == EndpointSpec => KeptUpToKey
BY EndpointRunsService, RefinesUpToKey
=============================================================================
