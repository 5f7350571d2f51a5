--------------------------- MODULE GracefulServer ---------------------------
(***************************************************************************)
(* What a client and an operator may count on of the server process, with  *)
(* no middleware, pool, cache or shutdown protocol: a request that is      *)
(* taken is answered within Longest; once told to leave, the server takes  *)
(* nothing new later than Linger, is gone by Grace, and does not go while  *)
(* it owes an answer.                                                      *)
(***************************************************************************)
EXTENDS Naturals

CONSTANTS Conn,     \* connections, with at most one request each
          Longest,  \* the longest a request is worked on
          Linger,   \* how long requests are still taken after the order to leave
          Grace,    \* the longest the server takes to leave
          MaxTime   \* bound on the clock

VARIABLES now,
          life,     \* "up", "leaving" or "gone"
          ordered,  \* when the order to leave came
          stage,    \* what became of a connection's request: "none", "taken", "answered"
          taken     \* when a request that is owed an answer was taken, else 0

vars == <<now, life, ordered, stage, taken>>

Init ==
    /\ now = 0 /\ life = "up" /\ ordered = 0
    /\ stage = [c \in Conn |-> "none"]
    /\ taken = [c \in Conn |-> 0]

MayTake == life # "gone" /\ (life = "leaving" => now <= ordered + Linger)

Take(c) ==
    /\ MayTake /\ stage[c] = "none"
    /\ stage' = [stage EXCEPT ![c] = "taken"]
    /\ taken' = [taken EXCEPT ![c] = now]
    /\ UNCHANGED <<now, life, ordered>>

Answer(c) ==
    /\ life # "gone" /\ stage[c] = "taken"
    /\ stage' = [stage EXCEPT ![c] = "answered"]
    /\ taken' = [taken EXCEPT ![c] = 0]
    /\ UNCHANGED <<now, life, ordered>>

\* A request that takes no work.
AnswerAtOnce(c) ==
    /\ MayTake /\ stage[c] = "none"
    /\ stage' = [stage EXCEPT ![c] = "answered"]
    /\ UNCHANGED <<now, life, ordered, taken>>

\* The connection is free for another request.
Free(c) ==
    /\ stage[c] = "answered"
    /\ stage' = [stage EXCEPT ![c] = "none"]
    /\ UNCHANGED <<now, life, ordered, taken>>

Order ==
    /\ life = "up"
    /\ life' = "leaving" /\ ordered' = now
    /\ UNCHANGED <<now, stage, taken>>

Go ==
    /\ life = "leaving"
    /\ \A c \in Conn : stage[c] # "taken"
    /\ life' = "gone"
    /\ UNCHANGED <<now, ordered, stage, taken>>

Tick ==
    /\ now < MaxTime
    /\ \A c \in Conn : stage[c] = "taken" => now < taken[c] + Longest
    /\ life = "leaving" => now < ordered + Grace
    /\ now' = now + 1
    /\ UNCHANGED <<life, ordered, stage, taken>>

Next ==
    \/ \E c \in Conn : Take(c) \/ Answer(c) \/ AnswerAtOnce(c) \/ Free(c)
    \/ Order \/ Go \/ Tick

Spec == Init /\ [][Next]_vars
=============================================================================
