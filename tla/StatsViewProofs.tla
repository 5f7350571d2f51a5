-------------------------- MODULE StatsViewProofs --------------------------
(***************************************************************************)
(* Proofs about StatsView, for every value of its constants: any number of *)
(* runs, of detached sessions and of readers, and any arrivals.            *)
(***************************************************************************)
EXTENDS StatsView, FiniteSetTheorems, TLAPS

(***************************************************************************)
(* Counting the devices of some arrivals.                                  *)
(***************************************************************************)

\* A set with one element at most for every one of some arrivals.
LEMMA CountImage ==
    ASSUME NEW n \in Nat, NEW S \in SUBSET (1..n), NEW f, f = [i \in S |-> f[i]]
    PROVE  /\ IsFiniteSet({f[i] : i \in S})
           /\ Cardinality({f[i] : i \in S}) \in 0..n
<1>1. IsFiniteSet(S) /\ Cardinality(S) <= n
  <2>1. IsFiniteSet(1..n) /\ Cardinality(1..n) = n
    BY FS_Interval
  <2> QED BY <2>1, FS_Subset
<1>2. f \in Surjection(S, {f[i] : i \in S})
  BY DEF Surjection
<1>3. IsFiniteSet({f[i] : i \in S}) /\ Cardinality({f[i] : i \in S}) <= Cardinality(S)
  BY <1>1, <1>2, FS_Surjection
<1> QED BY <1>1, <1>3, FS_CardinalityType

\* The devices of a sample of the first n arrivals.
LEMMA CountDevices ==
    ASSUME NEW n \in Nat, NEW S \in SUBSET (1..n)
    PROVE  /\ IsFiniteSet({Arrivals[i].device : i \in S})
           /\ Cardinality({Arrivals[i].device : i \in S}) \in 0..n
<1> DEFINE f == [i \in S |-> Arrivals[i].device]
<1>1. {f[i] : i \in S} = {Arrivals[i].device : i \in S} /\ f = [i \in S |-> f[i]]
  OBVIOUS
<1> HIDE DEF f
<1> QED BY <1>1, CountImage

\* A sample has no more devices than all it is a sample of.
LEMMA SampleBelowDistinct ==
    ASSUME NEW n \in Nat, NEW S \in SUBSET (1..n)
    PROVE  Cardinality({Arrivals[i].device : i \in S}) <= Distinct(n)
<1>1. {Arrivals[i].device : i \in S} \subseteq {Arrivals[i].device : i \in 1..n}
  OBVIOUS
<1>2. IsFiniteSet({Arrivals[i].device : i \in 1..n})
  BY CountDevices
<1> QED BY <1>1, <1>2, FS_Subset DEF Distinct

LEMMA DistinctGrows ==
    ASSUME NEW m \in Nat, NEW n \in Nat, m <= n
    PROVE  Distinct(m) \in Nat /\ Distinct(m) <= Distinct(n)
<1>1. 1..m \in SUBSET (1..n)
  OBVIOUS
<1>2. Cardinality({Arrivals[i].device : i \in 1..m}) <= Distinct(n)
  BY <1>1, SampleBelowDistinct
<1>3. Cardinality({Arrivals[i].device : i \in 1..m}) \in Nat
  <2>1. 1..m \in SUBSET (1..m)
    OBVIOUS
  <2>2. Cardinality({Arrivals[i].device : i \in 1..m}) \in 0..m
    BY <2>1, CountDevices
  <2> QED BY <2>2
<1> QED BY <1>2, <1>3 DEF Distinct

\* SUM(active_devices) counts every device at least once, and no reading twice.
LEMMA SumActiveBounds ==
    ASSUME NEW n \in Nat
    PROVE  SumActive(n) \in Distinct(n)..n
<1> DEFINE f == [i \in 1..n |-> <<Arrivals[i].device, Arrivals[i].rtype>>]
           P == {f[i] : i \in 1..n}
           D == {Arrivals[i].device : i \in 1..n}
           g == [x \in P |-> x[1]]
<1>1. SumActive(n) = Cardinality(P) /\ f = [i \in 1..n |-> f[i]]
  BY DEF SumActive
<1>2. IsFiniteSet(P) /\ Cardinality(P) \in 0..n
  <2> HIDE DEF f
  <2> QED BY <1>1, CountImage
<1>3. g \in Surjection(P, D)
  <2>1. \A x \in P : g[x] \in D
    OBVIOUS
  <2>2. \A d \in D : \E x \in P : g[x] = d
    <3> TAKE d \in D
    <3>1. PICK i \in 1..n : d = Arrivals[i].device
      OBVIOUS
    <3>2. f[i] \in P /\ g[f[i]] = d
      BY <3>1
    <3> QED BY <3>2
  <2> QED BY <2>1, <2>2 DEF Surjection
<1>4. Cardinality(D) <= Cardinality(P) /\ Cardinality(D) \in Nat
  <2> HIDE DEF P, g, D
  <2>1. IsFiniteSet(D) /\ Cardinality(D) <= Cardinality(P)
    BY <1>2, <1>3, FS_Surjection
  <2> QED BY <2>1, FS_CardinalityType
<1> QED BY <1>1, <1>2, <1>4 DEF Distinct

(***************************************************************************)
(* The inductive invariant.                                                *)
(***************************************************************************)

\* A script waits for the statement of its own block, begun after it was, and
\* for no other.
SessionSound(r) ==
    /\ pc[r] = "waiting" <=> stmt[r] # NoStatement
    /\ pc[r] = "waiting" => /\ at[r] \in 1..3 /\ stmt[r].view = Blocks[at[r]]
                            /\ stmt[r].snap >= began[r]
    /\ pc[r] = "done" => at[r] = 4

\* A view that is being refreshed exists, and is raced unless the statement is lone;
\* a lone one has the view to itself, and is not behind it.
StatementSound ==
    \A o \in Session :
        /\ stmt[o] # NoStatement =>
              view[stmt[o].view] # Absent /\ (stmt[o].view \notin raced => stmt[o].lone)
        /\ stmt[o].lone =>
              /\ view[stmt[o].view] <= stmt[o].snap
              /\ \A s \in Session : stmt[s].view = stmt[o].view => s = o

\* The view holds the first n commits, unless it is raced, and no statement that has
\* it to itself can take it back behind them.  What statements do never undoes that.
Reaches(v, n) ==
    /\ v \notin raced => view[v] >= n
    /\ \A o \in Session : stmt[o].lone /\ stmt[o].view = v => stmt[o].snap >= n

\* The views of the blocks behind a run that lost nothing reach its start.
BlocksBehindFresh(r) ==
    ~lost[r] /\ pc[r] # "idle" =>
        \A i \in 1..3 : i < at[r] /\ Named(kind[r], Blocks[i]) => Reaches(Blocks[i], began[r])

\* Before it has an answer, a reader holds at most a total mv_global_stats reaches.
ReaderSound(p) ==
    /\ reading[p] # "done" => answer[p].status = "none"
    /\ reading[p] # "idle" /\ p \notin unsettled => "global" \notin raced
    /\ floor[p] <= highest
    /\ reading[p] \in {"devices", "fallback"} =>
          /\ view["global"] # Absent /\ answer[p].total \in 0..commits
          /\ Reaches("global", answer[p].total)
          /\ p \notin unsettled => floor[p] <= answer[p].total

\* No total was ever answered that the view does not reach.
HighestReached == highest = 0 \/ (highest <= commits /\ Reaches("global", highest))

IInv ==
    /\ TypeOK
    /\ \A r \in Run : SessionSound(r) /\ BlocksBehindFresh(r)
    /\ StatementSound
    /\ HighestReached
    /\ \A p \in Reader : ReaderSound(p)
    /\ TotalsNeverGoBack
    /\ StatsCoherent

(***************************************************************************)
(* What the steps are made of.                                             *)
(***************************************************************************)
LEMMA InitIInv == Init => IInv
<1> SUFFICES ASSUME Init PROVE IInv
  OBVIOUS
<1> USE DEF Init, Views, RefreshTypes, Session, Absent, NoStatement, NoStats
<1>1. TypeOK
  <2>1. commits \in 0..Len(Arrivals)
    BY StatsAssumption
  <2>6. view \in [Views -> 0..commits \cup {Absent}] /\ raced \subseteq Views /\ unsettled \subseteq Reader
    OBVIOUS
  <2>2. stmt \in [Session -> {NoStatement} \cup [view : Views, snap : 0..commits, lone : BOOLEAN]]
    OBVIOUS
  <2>3. 1 \in 1..Len(Blocks) + 1
    BY DEF Blocks
  <2>4. /\ pc \in [Run -> {"idle", "running", "waiting", "done"}] /\ kind \in [Run -> RefreshTypes]
        /\ at \in [Run -> 1..Len(Blocks) + 1] /\ began \in [Run -> 0..commits]
        /\ failedViews \in [Run -> SUBSET Views] /\ lost \in [Run -> BOOLEAN]
    BY <2>3
  <2>5. /\ reading \in [Reader -> {"idle", "total", "devices", "fallback", "done"}]
        /\ answer \in [Reader -> [status : {"none", "OK", "INTERNAL_ERROR"}, total : Nat,
                                  devices : Nat, sampled : BOOLEAN]]
        /\ highest \in Nat /\ floor \in [Reader -> Nat]
    OBVIOUS
  <2> QED BY <2>1, <2>2, <2>4, <2>5, <2>6 DEF TypeOK
<1>2. (\A r \in Run : SessionSound(r) /\ BlocksBehindFresh(r)) /\ StatementSound
  BY DEF SessionSound, BlocksBehindFresh, StatementSound
<1>3. HighestReached /\ (\A p \in Reader : ReaderSound(p)) /\ TotalsNeverGoBack /\ StatsCoherent
  BY DEF HighestReached, ReaderSound, TotalsNeverGoBack, StatsCoherent
<1> QED BY <1>1, <1>2, <1>3 DEF IInv

\* A statement under way, of a script or of nobody.
StatementType == [view : Views, snap : 0..commits, lone : BOOLEAN]

LEMMA StatementTyped ==
    ASSUME TypeOK, NEW o \in Session, stmt[o] # NoStatement
    PROVE  stmt[o] \in StatementType
BY DEF TypeOK, StatementType

LEMMA BlocksAreViews == Len(Blocks) = 3 /\ (\A i \in 1..3 : Blocks[i] \in Views)
                        /\ (\A v \in Views : \E i \in 1..3 : Blocks[i] = v)
BY DEF Blocks, Views

\* What Next can be, and what the steps of each kind leave alone.
LEMMA StepKinds ==
    ASSUME [Next]_vars
    PROVE  \/ \E r \in Run : \/ \E type \in RefreshTypes : Start(r, type)
                             \/ Block(r) \/ Summary(r) \/ Exit(r) \/ Interrupt(r)
           \/ \E o \in Session : Install(o) \/ Fails(o)
           \/ \E p \in Reader : \/ AskStats(p) \/ ReadTotal(p) \/ SampleDevices(p)
                                \/ SampleFails(p) \/ SumDevices(p) \/ StatsFail(p)
                                \/ TakeStats(p)
           \/ \E o \in Detached : CallIncremental(o)
           \/ Commit \/ CreateViews \/ UNCHANGED vars
BY DEF Next, Script, Statement, GetStats

LEMMA ReaderFrame ==
    ASSUME NEW p, \/ AskStats(p) \/ ReadTotal(p) \/ SampleDevices(p) \/ SampleFails(p)
                  \/ SumDevices(p) \/ StatsFail(p) \/ TakeStats(p)
    PROVE  UNCHANGED <<commits, view, stmt, raced, scriptVars>>
BY DEF AskStats, ReadTotal, SampleDevices, SampleFails, SumDevices, StatsFail, TakeStats,
       Tell, historyVars

LEMMA ScriptFrame ==
    ASSUME NEW r, \/ \E type \in RefreshTypes : Start(r, type)
                  \/ Block(r) \/ Summary(r) \/ Exit(r) \/ Interrupt(r)
    PROVE  UNCHANGED <<commits, view, readerVars>>
BY DEF Start, Block, Summary, Exit, Interrupt, Leave

LEMMA StatementFrame ==
    ASSUME NEW o, Install(o) \/ Fails(o)
    PROVE  /\ UNCHANGED <<commits, unsettled, readerVars>> /\ stmt[o] # NoStatement
           /\ stmt' = [stmt EXCEPT ![o] = NoStatement]
BY Zenon DEF Install, Fails, End

\* A script whose block begins a statement has none.
LEMMA BlockBegins ==
    ASSUME IInv, NEW r \in Run, Block(r)
    PROVE  /\ at[r] \in 1..3 /\ Blocks[at[r]] \in Views /\ pc[r] = "running"
           /\ r \in Session /\ stmt[r] = NoStatement
<1>1. pc[r] = "running" /\ at[r] \in 1..3
  BY BlocksAreViews DEF Block, IInv, TypeOK
<1> QED BY <1>1, BlocksAreViews DEF IInv, SessionSound, Session

(***************************************************************************)
(* What becomes of the statements in a step: nothing, or one of four.      *)
(***************************************************************************)
Begins(o, v) ==
    /\ stmt[o] = NoStatement /\ view[v] # Absent
    /\ Begin(o, v) /\ UNCHANGED <<commits, view, readerVars>>
Orphaned(r, o) ==
    /\ o # r /\ stmt[o] = NoStatement /\ stmt' = [stmt EXCEPT ![o] = stmt[r], ![r] = NoStatement]
    /\ UNCHANGED <<commits, view, historyVars, readerVars>>

LEMMA StatementKinds ==
    ASSUME IInv, [Next]_vars
    PROVE  \/ UNCHANGED <<view, stmt, raced>>
           \/ \E o \in Session, v \in Views : Begins(o, v)
           \/ \E o \in Session : Install(o) \/ Fails(o)
           \/ \E r \in Run, o \in Detached : Orphaned(r, o)
           \/ CreateViews
<1>1. ASSUME NEW r \in Run, \/ \E type \in RefreshTypes : Start(r, type)
                           \/ Summary(r) \/ Exit(r)
      PROVE  UNCHANGED <<view, stmt, raced>>
  BY <1>1 DEF Start, Summary, Exit, Leave, historyVars
<1>2. ASSUME NEW r \in Run, Block(r)
      PROVE  UNCHANGED <<view, stmt, raced>> \/ \E o \in Session, v \in Views : Begins(o, v)
  <2>1. r \in Session /\ Blocks[at[r]] \in Views /\ stmt[r] = NoStatement
    BY <1>2, BlockBegins
  <2>2. UNCHANGED <<commits, view, readerVars>>
    BY <1>2, ScriptFrame
  <2>3. CASE UNCHANGED <<stmt, historyVars>>
    BY <2>2, <2>3 DEF historyVars
  <2>4. CASE view[Blocks[at[r]]] # Absent /\ Begin(r, Blocks[at[r]])
    BY <2>1, <2>2, <2>4 DEF Begins
  <2> QED BY <1>2, <2>3, <2>4 DEF Block
<1>3. ASSUME NEW r \in Run, Interrupt(r)
      PROVE  UNCHANGED <<view, stmt, raced>> \/ \E o \in Detached : Orphaned(r, o)
  <2>1. UNCHANGED <<commits, view, historyVars, readerVars>>
    BY <1>3 DEF Interrupt, Leave
  <2>2. \A o \in Detached : o # r
    BY StatsAssumption
  <2> QED BY <1>3, <2>1, <2>2 DEF Interrupt, Orphaned, historyVars
<1>4. ASSUME NEW o \in Detached, CallIncremental(o)
      PROVE  \E q \in Session, v \in Views : Begins(q, v)
  <2>1. Begins(o, "global")
    BY <1>4 DEF CallIncremental, Begins
  <2> QED BY <2>1 DEF Session, Views
<1>5. Commit \/ UNCHANGED vars => UNCHANGED <<view, stmt, raced>>
  BY DEF Commit, vars, historyVars
<1> QED BY <1>1, <1>2, <1>3, <1>4, <1>5, StepKinds, ReaderFrame

\* The statements after each of them, one by one.
Typed == stmt \in [Session -> {NoStatement} \cup StatementType]

LEMMA NoStatementHasNoView == NoStatement.view \notin Views /\ NoStatement.lone = FALSE
BY DEF NoStatement, Views

LEMMA BeginsParts ==
    ASSUME Typed, NEW o \in Session, NEW v \in Views, Begins(o, v)
    PROVE  /\ stmt'[o].view = v /\ stmt'[o].snap = commits /\ stmt'[o] # NoStatement
           /\ stmt'[o].lone <=> Refreshing(v) = {}
           /\ \A s \in Session \ {o} :
                 /\ stmt'[s].view = stmt[s].view /\ stmt'[s].snap = stmt[s].snap
                 /\ stmt'[s].lone <=> stmt[s].lone /\ stmt[s].view # v
                 /\ stmt'[s] = NoStatement <=> stmt[s] = NoStatement
           /\ Refreshing(v) = {} <=> \A s \in Session : stmt[s].view # v
           /\ raced' = IF Refreshing(v) = {} THEN raced ELSE raced \cup {v}
<1>1. /\ stmt'[o] = [view |-> v, snap |-> commits, lone |-> Refreshing(v) = {}]
      /\ \A s \in Session \ {o} :
            stmt'[s] = IF s \in Refreshing(v) THEN [stmt[s] EXCEPT !.lone = FALSE] ELSE stmt[s]
  BY DEF Begins, Begin
<1>2. Refreshing(v) \subseteq {s \in Session : stmt[s] \in StatementType /\ stmt[s].view = v}
  BY NoStatementHasNoView DEF Refreshing, Typed
<1>3. ASSUME NEW s \in Session \ {o}
      PROVE  /\ stmt'[s].view = stmt[s].view /\ stmt'[s].snap = stmt[s].snap
             /\ stmt'[s].lone <=> stmt[s].lone /\ stmt[s].view # v
             /\ stmt'[s] = NoStatement <=> stmt[s] = NoStatement
  <2>1. CASE s \notin Refreshing(v)
    <3>1. stmt'[s] = stmt[s] /\ stmt[s].view # v
      BY <1>1, <2>1 DEF Refreshing
    <3> QED BY <3>1, Zenon
  <2>2. CASE s \in Refreshing(v)
    <3>1. stmt'[s] = [stmt[s] EXCEPT !.lone = FALSE] /\ stmt[s] \in StatementType /\ stmt[s].view = v
      BY <1>1, <1>2, <2>2
    <3>2. stmt'[s].view = stmt[s].view /\ stmt'[s].snap = stmt[s].snap /\ stmt'[s].lone = FALSE
      BY <3>1 DEF StatementType
    <3>3. stmt[s] # NoStatement /\ stmt'[s] # NoStatement
      BY <3>1, <3>2, NoStatementHasNoView
    <3> QED BY <3>1, <3>2, <3>3, Zenon
  <2> QED BY <2>1, <2>2
<1>4. Refreshing(v) = {} <=> \A s \in Session : stmt[s].view # v
  BY DEF Refreshing
<1>5. stmt'[o] # NoStatement
  BY <1>1, NoStatementHasNoView
<1>6. raced' = IF Refreshing(v) = {} THEN raced ELSE raced \cup {v}
  BY Zenon DEF Begins, Begin
<1>7. stmt'[o].view = v /\ stmt'[o].snap = commits /\ stmt'[o].lone = (Refreshing(v) = {})
  BY <1>1
<1> QED BY <1>3, <1>4, <1>5, <1>6, <1>7, Zenon

LEMMA EndParts ==
    ASSUME Typed, NEW o \in Session, Install(o) \/ Fails(o)
    PROVE  /\ stmt'[o] = NoStatement /\ \A s \in Session \ {o} : stmt'[s] = stmt[s]
           /\ stmt[o] # NoStatement /\ stmt[o] \in StatementType
BY StatementFrame DEF Typed

LEMMA OrphanedParts ==
    ASSUME Typed, NEW r \in Run, NEW o \in Detached, Orphaned(r, o)
    PROVE  /\ r \in Session /\ o \in Session /\ o # r
           /\ stmt'[o] = stmt[r] /\ stmt'[r] = NoStatement /\ stmt[o] = NoStatement
           /\ \A s \in Session \ {o, r} : stmt'[s] = stmt[s]
<1>1. stmt' = [stmt EXCEPT ![o] = stmt[r], ![r] = NoStatement] /\ o # r
  BY DEF Orphaned
<1> QED BY <1>1 DEF Typed, Session, Orphaned

(***************************************************************************)
(* Types.                                                                  *)
(***************************************************************************)
\* The variables a statement's end, or a script's step, gives new values.
LEMMA ReturnType ==
    ASSUME TypeOK, NEW r \in Run, NEW v \in Views, NEW ok \in BOOLEAN, at[r] \in 1..3,
           Return(r, v, ok)
    PROVE  /\ pc' \in [Run -> {"idle", "running", "waiting", "done"}]
           /\ kind' \in [Run -> RefreshTypes] /\ at' \in [Run -> 1..4]
           /\ failedViews' \in [Run -> SUBSET Views] /\ lost' \in [Run -> BOOLEAN]
           /\ began' \in [Run -> 0..commits]
<1> USE DEF TypeOK, Return
<1>1. lost' \in [Run -> BOOLEAN]
  OBVIOUS
<1>2. at' \in [Run -> 1..4]
  BY DEF Blocks
<1> QED BY <1>1, <1>2

ScriptTyped ==
    /\ pc \in [Run -> {"idle", "running", "waiting", "done"}] /\ kind \in [Run -> RefreshTypes]
    /\ at \in [Run -> 1..4] /\ began \in [Run -> 0..commits]
    /\ failedViews \in [Run -> SUBSET Views] /\ lost \in [Run -> BOOLEAN]
StatementsTyped == Typed /\ raced \subseteq Views /\ unsettled \subseteq Reader
ReadersTyped ==
    /\ reading \in [Reader -> {"idle", "total", "devices", "fallback", "done"}]
    /\ answer \in [Reader -> [status : {"none", "OK", "INTERNAL_ERROR"}, total : Nat,
                              devices : Nat, sampled : BOOLEAN]]
    /\ highest \in Nat /\ floor \in [Reader -> Nat]
ViewsTyped ==
    /\ commits \in 0..Len(Arrivals) /\ view \in [Views -> 0..commits \cup {Absent}]

\* The type invariant, taken apart as the steps are.
LEMMA TypeParts == TypeOK <=> ViewsTyped /\ StatementsTyped /\ ScriptTyped /\ ReadersTyped
<1>1. 1..Len(Blocks) + 1 = 1..4
  BY DEF Blocks
<1> QED BY <1>1 DEF TypeOK, ViewsTyped, StatementsTyped, ScriptTyped, ReadersTyped, Typed, StatementType

LEMMA ViewsTypedStep ==
    ASSUME IInv, [Next]_vars
    PROVE  ViewsTyped'
<1> USE DEF ViewsTyped
<1>0. ViewsTyped /\ TypeOK
  BY TypeParts DEF IInv
<1>1. CASE UNCHANGED <<commits, view>>
  BY <1>0, <1>1
<1>2. ASSUME NEW o \in Session, Install(o) PROVE ViewsTyped'
  <2>1. stmt[o] \in StatementType /\ UNCHANGED commits
    BY <1>0, <1>2, StatementFrame, StatementTyped
  <2>2. view' = [view EXCEPT ![stmt[o].view] = stmt[o].snap]
    BY <1>2 DEF Install, Replaced
  <2> QED BY <1>0, <2>1, <2>2 DEF StatementType
<1>3. CASE Commit
  BY <1>0, <1>3, StatsAssumption DEF Commit
<1>4. CASE CreateViews
  BY <1>0, <1>4 DEF CreateViews, Views
<1>5. ASSUME NEW o \in Session, Fails(o) PROVE UNCHANGED <<commits, view>>
  BY <1>5, StatementFrame, Zenon DEF Fails
<1>6. ASSUME NEW o \in Detached, CallIncremental(o) PROVE UNCHANGED <<commits, view>>
  BY <1>6 DEF CallIncremental
<1>7. UNCHANGED vars => UNCHANGED <<commits, view>>
  BY DEF vars
<1> QED BY <1>1, <1>2, <1>3, <1>4, <1>5, <1>6, <1>7, StepKinds, ReaderFrame, ScriptFrame

LEMMA CommitsGrow ==
    ASSUME IInv, [Next]_vars
    PROVE  commits' \in Nat /\ commits \in Nat /\ commits <= commits'
<1>0. ViewsTyped
  BY TypeParts DEF IInv
<1>1. ASSUME UNCHANGED commits PROVE commits' \in Nat /\ commits \in Nat /\ commits <= commits'
  BY <1>0, <1>1, StatsAssumption DEF ViewsTyped
<1>2. CASE Commit
  BY <1>0, <1>2, StatsAssumption DEF ViewsTyped, Commit
<1>3. CreateViews \/ (\E o \in Detached : CallIncremental(o)) => UNCHANGED commits
  BY DEF CreateViews, CallIncremental
<1>4. UNCHANGED vars => UNCHANGED commits
  BY DEF vars
<1> QED BY <1>1, <1>2, <1>3, <1>4, StepKinds, ReaderFrame, ScriptFrame, StatementFrame

\* Requests in progress join the unsettled ones when two statements meet on
\* mv_global_stats, new ones while it is raced, and none leaves before it is over.
SettlesNone ==
    /\ unsettled' \subseteq Reader
    /\ \A p \in Reader : reading'[p] # "idle" =>
          /\ p \notin unsettled' => "global" \notin raced'
          /\ reading[p] # "idle" /\ p \in unsettled => p \in unsettled'

LEMMA UnsettledStep ==
    ASSUME IInv, [Next]_vars
    PROVE  SettlesNone
<1>0. /\ ReadersTyped /\ unsettled \subseteq Reader
      /\ \A p \in Reader : reading[p] # "idle" /\ p \notin unsettled => "global" \notin raced
  BY TypeParts DEF IInv, StatementsTyped, ReaderSound
<1>1. CASE UNCHANGED <<reading, unsettled>> /\ raced' \subseteq raced
  BY <1>0, <1>1 DEF SettlesNone
<1>2. ASSUME NEW o, NEW v, Begin(o, v), UNCHANGED reading
      PROVE  SettlesNone
  <2>1. raced' = (IF Refreshing(v) = {} THEN raced ELSE raced \cup {v})
        /\ unsettled' = (IF Refreshing(v) = {} \/ v # "global" THEN unsettled
                         ELSE {p \in Reader : reading[p] # "idle"})
    BY <1>2 DEF Begin
  <2>2. CASE Refreshing(v) = {} \/ v # "global"
    BY <1>0, <1>2, <2>1, <2>2 DEF SettlesNone
  <2>3. CASE ~(Refreshing(v) = {} \/ v # "global")
    BY <1>2, <2>1, <2>3 DEF SettlesNone
  <2> QED BY <2>2, <2>3
<1>3. ASSUME NEW r \in Run, \/ \E type \in RefreshTypes : Start(r, type)
                           \/ Summary(r) \/ Exit(r) \/ Interrupt(r)
      PROVE  UNCHANGED <<reading, unsettled, raced>>
  BY <1>3 DEF Start, Summary, Exit, Interrupt, Leave, historyVars, readerVars
<1>4. ASSUME NEW r \in Run, Block(r)
      PROVE  UNCHANGED <<reading, unsettled, raced>>
             \/ (\E v \in Views : Begin(r, v) /\ UNCHANGED reading)
  BY <1>4, BlockBegins DEF Block, historyVars, readerVars
<1>5. ASSUME NEW o \in Session, Install(o) \/ Fails(o)
      PROVE  UNCHANGED <<reading, unsettled>> /\ raced' \subseteq raced
  <2>1. UNCHANGED <<reading, unsettled>>
    BY <1>5, StatementFrame DEF readerVars
  <2> QED BY <1>5, <2>1 DEF Install, Fails
<1>6. ASSUME NEW o \in Detached, CallIncremental(o)
      PROVE  Begin(o, "global") /\ UNCHANGED reading
  BY <1>6 DEF CallIncremental, readerVars
<1>7. Commit \/ CreateViews \/ UNCHANGED vars => UNCHANGED <<reading, unsettled, raced>>
  BY DEF Commit, CreateViews, vars, historyVars, readerVars
<1>8. ASSUME NEW p \in Reader, AskStats(p) PROVE SettlesNone
  <2>1. /\ raced' = raced /\ \A q \in Reader \ {p} : reading'[q] = reading[q]
        /\ unsettled' = IF "global" \in raced THEN unsettled \cup {p} ELSE unsettled
    BY <1>0, <1>8 DEF AskStats, ReadersTyped
  <2> QED BY <1>0, <2>1 DEF SettlesNone
<1>9. ASSUME NEW p \in Reader, TakeStats(p) PROVE SettlesNone
  <2>1. /\ raced' = raced /\ unsettled' = unsettled \ {p}
        /\ reading'[p] = "idle" /\ \A q \in Reader \ {p} : reading'[q] = reading[q]
    BY <1>0, <1>9 DEF TakeStats, ReadersTyped
  <2> QED BY <1>0, <2>1 DEF SettlesNone
<1>10. ASSUME NEW p \in Reader, \/ ReadTotal(p) \/ SampleDevices(p) \/ SampleFails(p)
                               \/ SumDevices(p) \/ StatsFail(p)
       PROVE  SettlesNone
  <2>1. /\ UNCHANGED <<unsettled, raced>> /\ reading[p] # "idle"
        /\ \A q \in Reader \ {p} : reading'[q] = reading[q]
    BY <1>0, <1>10 DEF ReadTotal, SampleDevices, SampleFails, SumDevices, StatsFail, Tell,
                       historyVars, ReadersTyped
  <2> QED BY <1>0, <2>1 DEF SettlesNone
<1> QED BY <1>1, <1>2, <1>3, <1>4, <1>5, <1>6, <1>7, <1>8, <1>9, <1>10, StepKinds

LEMMA StatementsTypedStep ==
    ASSUME IInv, [Next]_vars
    PROVE  StatementsTyped'
<1>0. Typed /\ raced \subseteq Views /\ unsettled \subseteq Reader /\ ViewsTyped
  BY TypeParts DEF IInv, StatementsTyped
<1>s. StatementType \subseteq StatementType'
  BY CommitsGrow DEF StatementType
<1>1. Typed' /\ raced' \subseteq Views
  <2>1. CASE UNCHANGED <<view, stmt, raced>>
    BY <1>0, <1>s, <2>1 DEF Typed
  <2>2. ASSUME NEW o \in Session, NEW v \in Views, Begins(o, v)
        PROVE  Typed' /\ raced' \subseteq Views
    <3>1. stmt' = [[s \in Session |-> IF s \in Refreshing(v) THEN [stmt[s] EXCEPT !.lone = FALSE]
                                                         ELSE stmt[s]]
                      EXCEPT ![o] = [view |-> v, snap |-> commits, lone |-> Refreshing(v) = {}]]
      BY <2>2, Zenon DEF Begins, Begin
    <3>2. [view |-> v, snap |-> commits, lone |-> Refreshing(v) = {}] \in StatementType
      BY <1>0, StatsAssumption DEF StatementType, ViewsTyped
    <3>3. ASSUME NEW s \in Session, s \in Refreshing(v)
          PROVE  [stmt[s] EXCEPT !.lone = FALSE] \in StatementType
      <4>1. stmt[s] \in StatementType
        BY <1>0, <2>2, <3>3, NoStatementHasNoView DEF Refreshing, Typed
      <4> QED BY <4>1 DEF StatementType
    <3>4. stmt' \in [Session -> {NoStatement} \cup StatementType]
      BY <1>0, <3>1, <3>2, <3>3 DEF Typed
    <3>5. Typed'
      BY <1>s, <3>4 DEF Typed
    <3> QED BY <1>0, <2>2, <3>5, BeginsParts
  <2>3. ASSUME NEW o \in Session, Install(o) \/ Fails(o) PROVE Typed' /\ raced' \subseteq Views
    <3>1. stmt' = [stmt EXCEPT ![o] = NoStatement]
      BY <2>3, StatementFrame
    <3>2. raced' \subseteq raced
      BY <2>3 DEF Install, Fails
    <3> QED BY <1>0, <1>s, <3>1, <3>2 DEF Typed
  <2>4. ASSUME NEW r \in Run, NEW o \in Detached, Orphaned(r, o)
        PROVE  Typed' /\ raced' \subseteq Views
    <3>1. r \in Session /\ o \in Session
      BY DEF Session
    <3> QED BY <1>0, <1>s, <2>4, <3>1 DEF Typed, Orphaned, historyVars
  <2>5. CASE CreateViews
    BY <1>0, <1>s, <2>5 DEF CreateViews, Typed, historyVars
  <2> QED BY <2>1, <2>2, <2>3, <2>4, <2>5, StatementKinds
<1>2. unsettled' \subseteq Reader
  BY UnsettledStep DEF SettlesNone
<1> QED BY <1>1, <1>2 DEF StatementsTyped

LEMMA ScriptTypedStep ==
    ASSUME IInv, [Next]_vars
    PROVE  ScriptTyped'
<1> USE DEF ScriptTyped
<1>0. ScriptTyped /\ TypeOK
  BY TypeParts DEF IInv
<1>c. 0..commits \subseteq 0..commits' /\ commits \in Nat
  BY CommitsGrow
<1>1. CASE UNCHANGED scriptVars
  BY <1>0, <1>c, <1>1 DEF scriptVars
<1>2. ASSUME NEW r \in Run, NEW v \in Views, NEW ok \in BOOLEAN, at[r] \in 1..3,
             Return(r, v, ok)
      PROVE  ScriptTyped'
  BY <1>0, <1>c, <1>2, ReturnType
<1>3. ASSUME NEW o \in Session, Install(o) \/ Fails(o) PROVE ScriptTyped'
  <2>1. \E ok \in BOOLEAN : IF o \in Run THEN Return(o, stmt[o].view, ok) ELSE UNCHANGED scriptVars
    BY <1>3, Zenon DEF Install, Fails, End
  <2>2. stmt[o].view \in Views
    BY <1>0, <1>3, StatementFrame, StatementTyped DEF StatementType
  <2>3. o \in Run => at[o] \in 1..3
    BY <1>3, StatementFrame DEF IInv, SessionSound
  <2> QED BY <1>1, <1>2, <2>1, <2>2, <2>3
<1>4. ASSUME NEW r \in Run, Block(r) PROVE ScriptTyped'
  <2>1. at[r] \in 1..3 /\ Blocks[at[r]] \in Views
    BY <1>0, <1>4, BlocksAreViews DEF Block
  <2>2. CASE Return(r, Blocks[at[r]], FALSE)
    BY <1>2, <2>1, <2>2
  <2>3. CASE at' = [at EXCEPT ![r] = @ + 1] /\ UNCHANGED <<pc, kind, failedViews, began, lost>>
    BY <1>0, <1>c, <2>1, <2>3
  <2>4. CASE pc' = [pc EXCEPT ![r] = "waiting"] /\ UNCHANGED <<kind, at, failedViews, began, lost>>
    BY <1>0, <1>c, <2>4
  <2> QED BY <1>4, <2>2, <2>3, <2>4 DEF Block
<1>5. ASSUME NEW r \in Run, NEW type \in RefreshTypes, Start(r, type) PROVE ScriptTyped'
  BY <1>0, <1>c, <1>5 DEF Start
<1>6. ASSUME NEW r \in Run, Summary(r) PROVE ScriptTyped'
  BY <1>0, <1>c, <1>6 DEF Summary
<1>7. ASSUME NEW r \in Run, Exit(r) \/ Interrupt(r) PROVE ScriptTyped'
  <2>1. Leave(r)
    BY <1>7 DEF Exit, Interrupt
  <2>2. "all" \in RefreshTypes /\ 0 \in 0..commits' /\ 1 \in 1..4
    BY <1>c DEF RefreshTypes
  <2>3. pc' \in [Run -> {"idle", "running", "waiting", "done"}] /\ kind' \in [Run -> RefreshTypes]
        /\ at' \in [Run -> 1..4]
    BY <1>0, <2>1, <2>2 DEF Leave
  <2>4. began' \in [Run -> 0..commits']
    BY <1>0, <1>c, <2>1, <2>2 DEF Leave
  <2>5. failedViews' \in [Run -> SUBSET Views] /\ lost' \in [Run -> BOOLEAN]
    BY <1>0, <2>1 DEF Leave
  <2> QED BY <2>3, <2>4, <2>5
<1>8. Commit \/ CreateViews \/ (\E o \in Detached : CallIncremental(o)) \/ UNCHANGED vars
         => UNCHANGED scriptVars
  BY DEF Commit, CreateViews, CallIncremental, vars
<1> QED BY <1>1, <1>3, <1>4, <1>5, <1>6, <1>7, <1>8, StepKinds, ReaderFrame

\* The devices a reader counts, from the sample or from the view.
LEMMA DevicesCounted ==
    ASSUME IInv, NEW p \in Reader
    PROVE  /\ \A S \in SUBSET (1..commits) :
                 Cardinality({Arrivals[i].device : i \in S}) \in 0..Distinct(commits)
           /\ view["global"] # Absent =>
                 /\ view["global"] \in 0..commits
                 /\ SumActive(view["global"]) \in Distinct(view["global"])..view["global"]
           /\ Distinct(commits) \in Nat
<1>0. ViewsTyped /\ commits \in Nat
  BY TypeParts, StatsAssumption DEF IInv, ViewsTyped
<1>1. view["global"] # Absent => view["global"] \in 0..commits
  BY <1>0 DEF ViewsTyped, Views
<1>2. \A S \in SUBSET (1..commits) : Cardinality({Arrivals[i].device : i \in S}) \in Nat
  <2> TAKE S \in SUBSET (1..commits)
  <2>1. Cardinality({Arrivals[i].device : i \in S}) \in 0..commits
    BY <1>0, CountDevices
  <2> QED BY <1>0, <2>1
<1>3. \A S \in SUBSET (1..commits) :
        Cardinality({Arrivals[i].device : i \in S}) <= Distinct(commits)
  BY <1>0, SampleBelowDistinct
<1>4. Distinct(commits) \in Nat
  BY <1>0, DistinctGrows
<1>5. \A n \in Nat : SumActive(n) \in Distinct(n)..n
  BY SumActiveBounds
<1>6. \A S \in SUBSET (1..commits) :
        Cardinality({Arrivals[i].device : i \in S}) \in 0..Distinct(commits)
  <2> TAKE S \in SUBSET (1..commits)
  <2>1. Cardinality({Arrivals[i].device : i \in S}) \in Nat
        /\ Cardinality({Arrivals[i].device : i \in S}) <= Distinct(commits)
    BY <1>2, <1>3
  <2> QED BY <1>4, <2>1
<1>7. view["global"] # Absent => SumActive(view["global"]) \in Distinct(view["global"])..view["global"]
  BY <1>0, <1>1, <1>5
<1> QED BY <1>1, <1>4, <1>6, <1>7

LEMMA ReadersTypedStep ==
    ASSUME IInv, [Next]_vars
    PROVE  ReadersTyped'
<1> USE DEF ReadersTyped
<1>0. ReadersTyped
  BY TypeParts DEF IInv
<1>1. CASE UNCHANGED readerVars
  BY <1>0, <1>1 DEF readerVars
<1>2. ASSUME NEW p \in Reader, NEW status \in {"OK", "INTERNAL_ERROR"}, NEW devices \in Nat,
             NEW sampled \in BOOLEAN, Tell(p, status, devices, sampled)
      PROVE  ReadersTyped'
  BY <1>0, <1>2 DEF Tell
<1>3. ASSUME NEW p \in Reader, AskStats(p) \/ SampleFails(p) \/ TakeStats(p) PROVE ReadersTyped'
  <2>1. CASE AskStats(p)
    BY <1>0, <2>1 DEF AskStats
  <2>2. CASE SampleFails(p)
    BY <1>0, <2>2 DEF SampleFails
  <2>3. CASE TakeStats(p)
    BY <1>0, <2>3 DEF TakeStats, NoStats
  <2> QED BY <1>3, <2>1, <2>2, <2>3
<1>4. ASSUME NEW p \in Reader, ReadTotal(p) PROVE ReadersTyped'
  <2>1. view["global"] \in Nat
    BY <1>4, CommitsGrow, DevicesCounted DEF ReadTotal
  <2> QED BY <1>0, <1>4, <2>1 DEF ReadTotal
<1>5. ASSUME NEW p \in Reader, SampleDevices(p) PROVE ReadersTyped'
  <2>1. PICK S \in SUBSET (1..commits) : Tell(p, "OK", Cardinality({Arrivals[i].device : i \in S}), TRUE)
    BY <1>5 DEF SampleDevices
  <2>2. Cardinality({Arrivals[i].device : i \in S}) \in Nat
    BY DevicesCounted
  <2> QED BY <1>2, <2>1, <2>2
<1>6. ASSUME NEW p \in Reader, SumDevices(p) PROVE ReadersTyped'
  <2>1. SumActive(view["global"]) \in Nat
    <3>1. view["global"] \in Nat /\ SumActive(view["global"]) \in Distinct(view["global"])..view["global"]
      BY <1>6, CommitsGrow, DevicesCounted DEF SumDevices
    <3> QED BY <3>1, DistinctGrows
  <2> QED BY <1>2, <1>6, <2>1 DEF SumDevices
<1>7. ASSUME NEW p \in Reader, StatsFail(p) PROVE ReadersTyped'
  BY <1>2, <1>7 DEF StatsFail
<1>8. Commit \/ CreateViews \/ (\E o \in Detached : CallIncremental(o)) \/ UNCHANGED vars
         => UNCHANGED readerVars
  BY DEF Commit, CreateViews, CallIncremental, vars
<1> QED BY <1>1, <1>3, <1>4, <1>5, <1>6, <1>7, <1>8, StepKinds, ScriptFrame, StatementFrame

LEMMA TypeStep == IInv /\ [Next]_vars => TypeOK'
<1>1. TypeOK' <=> ViewsTyped' /\ StatementsTyped' /\ ScriptTyped' /\ ReadersTyped'
  BY TypeParts, PTL
<1> QED BY <1>1, ViewsTypedStep, StatementsTypedStep, ScriptTypedStep, ReadersTypedStep

(***************************************************************************)
(* Scripts and statements.                                                 *)
(***************************************************************************)

\* A view that exists goes on existing.
LEMMA ViewsStay ==
    ASSUME IInv, [Next]_vars, NEW v \in Views, view[v] # Absent
    PROVE  view'[v] # Absent
<1>0. ViewsTyped /\ Typed /\ TypeOK /\ commits \in Nat
  BY TypeParts, StatsAssumption DEF IInv, ViewsTyped, StatementsTyped
<1>1. ASSUME NEW o \in Session, Install(o) PROVE view'[v] # Absent
  <2>1. stmt[o] \in StatementType /\ view' = [view EXCEPT ![stmt[o].view] = stmt[o].snap]
    BY <1>0, <1>1, EndParts DEF Install, Replaced
  <2>2. stmt[o].snap # Absent
    BY <1>0, <2>1 DEF StatementType, Absent
  <2> QED BY <1>0, <2>1, <2>2 DEF ViewsTyped
<1>2. CASE CreateViews
  BY <1>2 DEF CreateViews
<1>3. ASSUME NEW o \in Session, Fails(o) PROVE UNCHANGED view
  BY <1>3 DEF Fails
<1> QED BY <1>1, <1>2, <1>3, StatementKinds DEF Begins, Orphaned

LEMMA SessionSoundStep ==
    ASSUME IInv, [Next]_vars
    PROVE  \A r \in Run : SessionSound(r)'
<1> USE DEF SessionSound
<1>0. /\ \A r \in Run : SessionSound(r)
      /\ ScriptTyped /\ Typed /\ ViewsTyped /\ TypeOK /\ commits \in Nat
  BY TypeParts, StatsAssumption DEF IInv, ViewsTyped, StatementsTyped
<1>d. Run \subseteq Session /\ (\A o \in Detached : o \notin Run)
  BY StatsAssumption DEF Session
<1>1. CASE UNCHANGED <<stmt, pc, at, began>>
  BY <1>0, <1>1
<1>2. ASSUME NEW r \in Run, NEW type \in RefreshTypes, Start(r, type) PROVE \A q \in Run : SessionSound(q)'
  BY <1>0, <1>2, <1>d DEF Start, ScriptTyped
<1>b. ASSUME NEW o \in Session, NEW v \in Views, stmt[o] = NoStatement, view[v] # Absent, Begin(o, v),
             UNCHANGED <<commits, view, readerVars>>
      PROVE  /\ stmt'[o] # NoStatement /\ stmt'[o].view = v /\ stmt'[o].snap = commits
             /\ \A q \in Session \ {o} :
                   /\ stmt'[q] = NoStatement <=> stmt[q] = NoStatement
                   /\ stmt'[q].view = stmt[q].view /\ stmt'[q].snap = stmt[q].snap
  BY <1>0, <1>b, BeginsParts DEF Begins
<1>3. ASSUME NEW r \in Run, Block(r) PROVE \A q \in Run : SessionSound(q)'
  <2>1. /\ at[r] \in 1..3 /\ Blocks[at[r]] \in Views /\ pc[r] = "running"
        /\ r \in Session /\ stmt[r] = NoStatement
    BY <1>3, BlockBegins
  <2>2. CASE at' = [at EXCEPT ![r] = @ + 1] /\ UNCHANGED <<stmt, pc, began>>
    BY <1>0, <2>1, <2>2 DEF ScriptTyped
  <2>3. CASE Return(r, Blocks[at[r]], FALSE) /\ UNCHANGED stmt
    BY <1>0, <2>1, <2>3 DEF Return, ScriptTyped
  <2>4. CASE /\ view[Blocks[at[r]]] # Absent /\ Begin(r, Blocks[at[r]])
             /\ pc' = [pc EXCEPT ![r] = "waiting"] /\ UNCHANGED <<at, began>>
    <3>0. UNCHANGED <<commits, view, readerVars>>
      BY <1>3, ScriptFrame
    <3>1. /\ stmt'[r] # NoStatement /\ stmt'[r].view = Blocks[at[r]] /\ stmt'[r].snap = commits
          /\ \A q \in Run \ {r} : /\ stmt'[q] = NoStatement <=> stmt[q] = NoStatement
                                  /\ stmt'[q].view = stmt[q].view /\ stmt'[q].snap = stmt[q].snap
      BY <1>b, <1>d, <2>1, <2>4, <3>0
    <3>2. began[r] <= commits
      BY <1>0 DEF ScriptTyped
    <3>3. SessionSound(r)'
      BY <1>0, <2>1, <2>4, <3>1, <3>2 DEF ScriptTyped
    <3>4. \A q \in Run \ {r} : SessionSound(q)'
      BY <1>0, <2>1, <2>4, <3>1 DEF ScriptTyped
    <3> QED BY <3>3, <3>4
  <2> QED BY <1>3, <2>2, <2>3, <2>4 DEF Block, historyVars
<1>4. ASSUME NEW r \in Run, Summary(r) PROVE \A q \in Run : SessionSound(q)'
  BY <1>0, <1>4, BlocksAreViews DEF Summary, ScriptTyped
<1>5. ASSUME NEW r \in Run, Exit(r) \/ Interrupt(r) PROVE \A q \in Run : SessionSound(q)'
  <2>1. Leave(r) /\ pc' = [pc EXCEPT ![r] = "idle"] /\ at' = [at EXCEPT ![r] = 1]
        /\ began' = [began EXCEPT ![r] = 0]
    BY <1>5 DEF Exit, Interrupt, Leave
  <2>2. stmt'[r] = NoStatement /\ \A q \in Run \ {r} : stmt'[q] = stmt[q]
    <3>1. CASE Exit(r)
      BY <1>0, <3>1 DEF Exit
    <3>2. CASE pc[r] = "running" /\ UNCHANGED stmt
      BY <1>0, <3>2
    <3>3. CASE \E o \in Detached : stmt' = [stmt EXCEPT ![o] = stmt[r], ![r] = NoStatement]
      BY <1>0, <1>d, <3>3 DEF Typed
    <3> QED BY <1>5, <3>1, <3>2, <3>3 DEF Interrupt
  <2> QED BY <1>0, <2>1, <2>2 DEF ScriptTyped
<1>7. ASSUME NEW o \in Session, Install(o) \/ Fails(o) PROVE \A q \in Run : SessionSound(q)'
  <2>1. stmt'[o] = NoStatement /\ \A q \in Session \ {o} : stmt'[q] = stmt[q]
    BY <1>0, <1>7, EndParts
  <2>2. \E ok \in BOOLEAN : IF o \in Run THEN Return(o, stmt[o].view, ok) ELSE UNCHANGED scriptVars
    BY <1>7, Zenon DEF Install, Fails, End
  <2>3. CASE o \in Run
    <3>1. at[o] \in 1..3
      BY <1>0, <1>7, <2>3, StatementFrame
    <3> QED BY <1>0, <1>d, <2>1, <2>2, <2>3, <3>1 DEF Return, ScriptTyped
  <2>4. CASE o \notin Run
    BY <1>0, <1>d, <2>1, <2>2, <2>4 DEF scriptVars
  <2> QED BY <2>3, <2>4
<1>8. ASSUME NEW o \in Detached, CallIncremental(o) PROVE \A q \in Run : SessionSound(q)'
  <2>1. /\ o \in Session /\ "global" \in Views /\ stmt[o] = NoStatement /\ view["global"] # Absent
        /\ Begin(o, "global") /\ UNCHANGED <<commits, view, readerVars>>
        /\ UNCHANGED <<pc, at, began>>
    BY <1>8 DEF CallIncremental, Session, Views, scriptVars
  <2>2. \A q \in Run : /\ stmt'[q] = NoStatement <=> stmt[q] = NoStatement
                       /\ stmt'[q].view = stmt[q].view /\ stmt'[q].snap = stmt[q].snap
    BY <1>b, <1>d, <2>1
  <2> QED BY <1>0, <2>1, <2>2
<1>9. Commit \/ CreateViews \/ UNCHANGED vars => UNCHANGED <<stmt, pc, at, began>>
  BY DEF Commit, CreateViews, vars, scriptVars
<1>10. UNCHANGED <<stmt, scriptVars>> => UNCHANGED <<stmt, pc, at, began>>
  BY DEF scriptVars
<1> QED BY <1>1, <1>2, <1>3, <1>4, <1>5, <1>7, <1>8, <1>9, <1>10, StepKinds, ReaderFrame

LEMMA StatementSoundStep ==
    ASSUME IInv, [Next]_vars
    PROVE  StatementSound'
<1>0. StatementSound /\ Typed /\ ViewsTyped /\ TypeOK /\ commits \in Nat
  BY TypeParts, StatsAssumption DEF IInv, ViewsTyped, StatementsTyped
<1>t. \A s \in Session : /\ stmt[s] # NoStatement => stmt[s] \in StatementType /\ stmt[s].view \in Views
                         /\ stmt[s].lone => stmt[s] # NoStatement
  BY <1>0, NoStatementHasNoView, Zenon DEF Typed, StatementType
<1>1. CASE UNCHANGED <<view, stmt, raced>>
  BY <1>0, <1>1 DEF StatementSound
<1>2. ASSUME NEW o \in Session, NEW v \in Views, Begins(o, v) PROVE StatementSound'
  <2>1. /\ stmt'[o].view = v /\ stmt'[o].snap = commits /\ stmt'[o] # NoStatement
        /\ stmt'[o].lone <=> \A s \in Session : stmt[s].view # v
        /\ \A s \in Session \ {o} :
              /\ stmt'[s].view = stmt[s].view /\ stmt'[s].snap = stmt[s].snap
              /\ stmt'[s].lone <=> stmt[s].lone /\ stmt[s].view # v
              /\ stmt'[s] = NoStatement <=> stmt[s] = NoStatement
        /\ raced' = IF \A s \in Session : stmt[s].view # v THEN raced ELSE raced \cup {v}
    <3> DEFINE alone == \A s \in Session : stmt[s].view # v
    <3>1. Refreshing(v) = {} <=> alone
      BY <1>0, <1>2, BeginsParts
    <3>2. /\ stmt'[o].view = v /\ stmt'[o].snap = commits /\ stmt'[o] # NoStatement
          /\ stmt'[o].lone <=> Refreshing(v) = {}
          /\ raced' = IF Refreshing(v) = {} THEN raced ELSE raced \cup {v}
      BY <1>0, <1>2, BeginsParts
    <3>3. \A s \in Session \ {o} :
              /\ stmt'[s].view = stmt[s].view /\ stmt'[s].snap = stmt[s].snap
              /\ stmt'[s].lone <=> stmt[s].lone /\ stmt[s].view # v
              /\ stmt'[s] = NoStatement <=> stmt[s] = NoStatement
      BY <1>0, <1>2, BeginsParts
    <3> HIDE DEF alone
    <3>4. /\ stmt'[o].lone <=> alone
          /\ raced' = IF alone THEN raced ELSE raced \cup {v}
      BY <3>1, <3>2
    <3> QED BY <3>2, <3>3, <3>4 DEF alone
  <2>2. view' = view /\ view[v] # Absent /\ view[v] <= commits
    BY <1>0, <1>2 DEF Begins, ViewsTyped, Absent
  <2>3. ASSUME NEW s \in Session, s # o, stmt'[s] # NoStatement
        PROVE  /\ view'[stmt'[s].view] # Absent
               /\ stmt'[s].view \notin raced' => stmt'[s].lone
               /\ stmt'[s].lone => /\ view'[stmt'[s].view] <= stmt'[s].snap
                                   /\ \A q \in Session : stmt'[q].view = stmt'[s].view => q = s
    <3>1. view[stmt[s].view] # Absent /\ (stmt[s].view \notin raced => stmt[s].lone)
      BY <1>0, <2>1, <2>3 DEF StatementSound
    <3>2. stmt[s].lone => /\ view[stmt[s].view] <= stmt[s].snap
                          /\ \A q \in Session : stmt[q].view = stmt[s].view => q = s
      BY <1>0 DEF StatementSound
    <3> QED BY <2>1, <2>2, <2>3, <3>1, <3>2, Zenon
  <2>4. /\ view'[stmt'[o].view] # Absent
        /\ stmt'[o].view \notin raced' => stmt'[o].lone
        /\ stmt'[o].lone => /\ view'[stmt'[o].view] <= stmt'[o].snap
                            /\ \A q \in Session : stmt'[q].view = stmt'[o].view => q = o
    BY <2>1, <2>2
  <2>5. ASSUME NEW s \in Session, stmt'[s].lone PROVE stmt'[s] # NoStatement
    BY <1>t, <2>1, <2>5
  <2> QED BY <2>3, <2>4, <2>5, Zenon DEF StatementSound
<1>3. ASSUME NEW o \in Session, Install(o) \/ Fails(o) PROVE StatementSound'
  <2>1. /\ stmt'[o] = NoStatement /\ \A s \in Session \ {o} : stmt'[s] = stmt[s]
        /\ stmt[o] # NoStatement /\ stmt[o] \in StatementType /\ stmt[o].view \in Views
    BY <1>0, <1>3, <1>t, EndParts
  <2>2. /\ \A w \in Views : w # stmt[o].view => view'[w] = view[w] /\ (w \in raced' <=> w \in raced)
        /\ \A w \in Views : view[w] # Absent => view'[w] # Absent
        /\ ~stmt[o].lone => raced' = raced
        /\ raced' \subseteq raced
    <3>1. CASE Fails(o)
      BY <3>1 DEF Fails
    <3>2. CASE Install(o)
      <4>1. /\ view' = [view EXCEPT ![stmt[o].view] = stmt[o].snap]
            /\ raced' = IF stmt[o].lone THEN raced \ {stmt[o].view} ELSE raced
        BY <3>2, Zenon DEF Install, Replaced
      <4>2. stmt[o].snap # Absent
        BY <1>0, <2>1 DEF StatementType, Absent
      <4> QED BY <1>0, <2>1, <4>1, <4>2 DEF ViewsTyped
    <3> QED BY <1>3, <3>1, <3>2
  <2>3. ASSUME NEW s \in Session, s # o
        PROVE  /\ stmt[s] # NoStatement =>
                     /\ view'[stmt[s].view] # Absent
                     /\ stmt[s].view \notin raced' => stmt[s].lone
               /\ stmt[s].lone => view'[stmt[s].view] <= stmt[s].snap
    <3>1. CASE stmt[s] = NoStatement
      BY <1>t, <3>1
    <3>2. CASE stmt[s] # NoStatement
      <4>1. stmt[s].view \in Views /\ view[stmt[s].view] # Absent
            /\ (stmt[s].view \notin raced => stmt[s].lone)
        BY <1>0, <1>t, <3>2 DEF StatementSound
      <4>2. CASE stmt[s].view = stmt[o].view
        <5>1. ~stmt[o].lone /\ ~stmt[s].lone
          BY <1>0, <2>3, <4>2 DEF StatementSound
        <5> QED BY <2>2, <4>1, <5>1
      <4>3. CASE stmt[s].view # stmt[o].view
        <5>1. stmt[s].lone => view[stmt[s].view] <= stmt[s].snap
          BY <1>0 DEF StatementSound
        <5> QED BY <2>2, <4>1, <4>3, <5>1, Zenon
      <4> QED BY <4>2, <4>3
    <3> QED BY <3>1, <3>2
  <2>4. ASSUME NEW s \in Session, stmt[s].lone, s # o, NEW q \in Session, stmt'[q].view = stmt[s].view
        PROVE  q = s
    <3>1. stmt[s].view \in Views /\ stmt[s].view # NoStatement.view
      BY <1>t, <2>4, NoStatementHasNoView
    <3>2. q # o
      BY <2>1, <2>4, <3>1
    <3> QED BY <1>0, <2>1, <2>4, <3>2 DEF StatementSound
  <2>5. ~stmt'[o].lone
    BY <2>1, NoStatementHasNoView
  <2>6. ASSUME NEW s \in Session
        PROVE  /\ stmt'[s] # NoStatement =>
                     /\ view'[stmt'[s].view] # Absent
                     /\ stmt'[s].view \notin raced' => stmt'[s].lone
               /\ stmt'[s].lone => /\ view'[stmt'[s].view] <= stmt'[s].snap
                                   /\ \A q \in Session : stmt'[q].view = stmt'[s].view => q = s
    <3>1. CASE s = o
      BY <2>1, <2>5, <3>1
    <3>2. CASE s # o
      <4>1. stmt'[s] = stmt[s]
        BY <2>1, <3>2
      <4> QED BY <2>3, <2>4, <3>2, <4>1, Zenon
    <3> QED BY <3>1, <3>2
  <2> QED BY <2>6, Zenon DEF StatementSound
<1>4. ASSUME NEW r \in Run, NEW o \in Detached, Orphaned(r, o) PROVE StatementSound'
  <2>1. /\ r \in Session /\ o \in Session /\ o # r
        /\ stmt'[o] = stmt[r] /\ stmt'[r] = NoStatement /\ stmt[o] = NoStatement
        /\ \A s \in Session \ {o, r} : stmt'[s] = stmt[s]
        /\ view' = view /\ raced' = raced
    BY <1>0, <1>4, OrphanedParts DEF Orphaned, historyVars
  <2> DEFINE was(s) == IF s = o THEN r ELSE s
  <2>2. \A s \in Session \ {r} : was(s) \in Session /\ stmt'[s] = stmt[was(s)]
    BY <2>1
  <2>3. ~stmt'[r].lone
    BY <2>1, NoStatementHasNoView
  <2>4. ASSUME NEW s \in Session \ {r}
        PROVE  /\ stmt'[s] # NoStatement =>
                     /\ view'[stmt'[s].view] # Absent
                     /\ stmt'[s].view \notin raced' => stmt'[s].lone
               /\ stmt'[s].lone => view'[stmt'[s].view] <= stmt'[s].snap
    <3> DEFINE z == was(s)
    <3>1. z \in Session /\ stmt'[s] = stmt[z]
      BY <2>2
    <3> HIDE DEF z
    <3> QED BY <1>0, <2>1, <3>1 DEF StatementSound
  <2>5. ASSUME NEW s \in Session \ {r}, stmt'[s].lone,
               NEW q \in Session, stmt'[q].view = stmt'[s].view
        PROVE  q = s
    <3>1. stmt[was(s)].lone /\ was(s) \in Session /\ stmt[was(s)] # NoStatement
      BY <1>t, <2>2, <2>5
    <3>2. stmt[was(s)].view \in Views
      BY <1>t, <3>1
    <3>3. q # r
      BY <2>1, <2>2, <2>5, <3>2, NoStatementHasNoView
    <3>4. was(q) \in Session /\ stmt[was(q)].view = stmt[was(s)].view
      BY <2>2, <2>5, <3>3
    <3>5. was(q) = was(s)
      <4> HIDE DEF was
      <4> QED BY <1>0, <3>1, <3>4 DEF StatementSound
    <3> QED BY <3>3, <3>5
  <2> HIDE DEF was
  <2>6. ASSUME NEW s \in Session
        PROVE  /\ stmt'[s] # NoStatement =>
                     /\ view'[stmt'[s].view] # Absent
                     /\ stmt'[s].view \notin raced' => stmt'[s].lone
               /\ stmt'[s].lone => /\ view'[stmt'[s].view] <= stmt'[s].snap
                                   /\ \A q \in Session : stmt'[q].view = stmt'[s].view => q = s
    <3>1. CASE s = r
      BY <2>1, <2>3, <3>1
    <3>2. CASE s # r
      BY <2>4, <2>5, <3>2
    <3> QED BY <3>1, <3>2
  <2> QED BY <2>6, Zenon DEF StatementSound
<1>5. CASE CreateViews
  <2>1. \A s \in Session : stmt[s] = NoStatement
    BY <1>0, <1>5, <1>t DEF CreateViews, StatementSound
  <2>2. \A s \in Session : stmt'[s] = NoStatement /\ ~stmt'[s].lone
    BY <1>5, <2>1, NoStatementHasNoView DEF CreateViews
  <2> QED BY <2>2, Zenon DEF StatementSound
<1> QED BY <1>1, <1>2, <1>3, <1>4, <1>5, StatementKinds

\* Reaches after the step, of a view and a number before it.
ReachesNext(v, n) ==
    /\ v \notin raced' => view'[v] >= n
    /\ \A o \in Session : stmt'[o].lone /\ stmt'[o].view = v => stmt'[o].snap >= n

\* Once a view reaches some commits it always does: a lone statement brings it no
\* further back, and any other leaves it raced.
LEMMA ReachesStays ==
    ASSUME IInv, [Next]_vars, NEW v \in Views, NEW n \in 0..commits, Reaches(v, n)
    PROVE  ReachesNext(v, n)
<1>0. StatementSound /\ Typed /\ ViewsTyped /\ TypeOK /\ commits \in Nat /\ n \in Nat
  BY TypeParts, StatsAssumption DEF IInv, ViewsTyped, StatementsTyped
<1>t. \A s \in Session : stmt[s].lone => stmt[s] # NoStatement
  BY <1>0, NoStatementHasNoView, Zenon DEF Typed
<1>1. CASE UNCHANGED <<view, stmt, raced>>
  BY <1>1 DEF Reaches, ReachesNext
<1>2. ASSUME NEW o \in Session, NEW w \in Views, Begins(o, w) PROVE ReachesNext(v, n)
  <2>1. raced \subseteq raced' /\ view' = view
    BY <1>0, <1>2, BeginsParts DEF Begins
  <2>2. stmt'[o].snap >= n
    BY <1>0, <1>2, BeginsParts
  <2>3. ASSUME NEW s \in Session \ {o}, stmt'[s].lone, stmt'[s].view = v
        PROVE  stmt'[s].snap >= n
    <3>1. stmt[s].lone /\ stmt[s].view = v /\ stmt'[s].snap = stmt[s].snap
      BY <1>0, <1>2, <2>3, BeginsParts
    <3> QED BY <3>1 DEF Reaches
  <2> QED BY <2>1, <2>2, <2>3 DEF Reaches, ReachesNext
<1>3. ASSUME NEW o \in Session, Install(o) \/ Fails(o) PROVE ReachesNext(v, n)
  <2>1. /\ stmt'[o] = NoStatement /\ \A s \in Session \ {o} : stmt'[s] = stmt[s]
        /\ stmt[o] # NoStatement /\ stmt[o] \in StatementType
    BY <1>0, <1>3, EndParts
  <2>2. \A s \in Session : stmt'[s].lone /\ stmt'[s].view = v => stmt'[s].snap >= n
    BY <2>1, NoStatementHasNoView DEF Reaches
  <2>3. ASSUME v \notin raced' PROVE view'[v] >= n
    <3>1. CASE Fails(o)
      BY <2>3, <3>1 DEF Fails, Reaches
    <3>2. CASE Install(o)
      <4>1. /\ view' = [view EXCEPT ![stmt[o].view] = stmt[o].snap]
            /\ raced' = IF stmt[o].lone THEN raced \ {stmt[o].view} ELSE raced
        BY <3>2, Zenon DEF Install, Replaced
      <4>2. CASE stmt[o].view = v
        <5>1. stmt[o].lone
          BY <1>0, <2>1, <2>3, <4>1, <4>2 DEF StatementSound
        <5>2. view'[v] = stmt[o].snap
          BY <1>0, <4>1, <4>2 DEF ViewsTyped
        <5> QED BY <4>2, <5>1, <5>2 DEF Reaches
      <4>3. CASE stmt[o].view # v
        <5>1. v \notin raced /\ view'[v] = view[v]
          BY <1>0, <2>3, <4>1, <4>3 DEF ViewsTyped
        <5> QED BY <5>1 DEF Reaches
      <4> QED BY <4>2, <4>3
    <3> QED BY <1>3, <3>1, <3>2
  <2> QED BY <2>2, <2>3 DEF ReachesNext
<1>4. ASSUME NEW r \in Run, NEW o \in Detached, Orphaned(r, o) PROVE ReachesNext(v, n)
  <2>1. /\ r \in Session /\ o \in Session /\ o # r
        /\ stmt'[o] = stmt[r] /\ stmt'[r] = NoStatement
        /\ \A s \in Session \ {o, r} : stmt'[s] = stmt[s]
        /\ view' = view /\ raced' = raced
    BY <1>0, <1>4, OrphanedParts DEF Orphaned, historyVars
  <2>2. ASSUME NEW s \in Session, stmt'[s].lone, stmt'[s].view = v PROVE stmt'[s].snap >= n
    <3>1. s # r
      BY <2>1, <2>2, NoStatementHasNoView
    <3>2. PICK z \in Session : stmt'[s] = stmt[z]
      BY <2>1, <3>1
    <3> QED BY <2>2, <3>2 DEF Reaches
  <2> QED BY <2>1, <2>2 DEF Reaches, ReachesNext
<1>5. CASE CreateViews
  <2>1. \A s \in Session : stmt[s] = NoStatement
    BY <1>0, <1>5, StatementTyped DEF CreateViews, StatementSound, StatementType
  <2>2. \A s \in Session : ~stmt'[s].lone
    BY <1>5, <2>1, NoStatementHasNoView DEF CreateViews
  <2>3. v \in raced /\ raced' = raced
    <3>1. view[v] = Absent
      BY <1>5 DEF CreateViews
    <3> QED BY <1>0, <1>5, <3>1 DEF CreateViews, historyVars, Reaches, Absent
  <2> QED BY <2>2, <2>3 DEF ReachesNext
<1> QED BY <1>1, <1>2, <1>3, <1>4, <1>5, StatementKinds

\* A run that stays where it is, or loses a statement, or leaves behind a block
\* whose view is fresh if its type names it, leaves only fresh blocks behind.
LEMMA BlocksStayFresh ==
    ASSUME IInv, [Next]_vars, NEW r \in Run,
           began'[r] = began[r], kind'[r] = kind[r], lost[r] => lost'[r], pc[r] # "idle",
           \/ lost'[r]
           \/ at'[r] = at[r]
           \/ /\ at'[r] = at[r] + 1
              /\ at[r] \in 1..3 /\ Named(kind[r], Blocks[at[r]])
                    => ReachesNext(Blocks[at[r]], began[r])
    PROVE  BlocksBehindFresh(r)'
<1>0. BlocksBehindFresh(r) /\ ScriptTyped
  BY TypeParts DEF IInv
<1>1. lost[r] \in BOOLEAN /\ began[r] \in 0..commits /\ at[r] \in 1..4
  BY <1>0 DEF ScriptTyped
<1>2. \A i \in 1..3 : Blocks[i] \in Views
  BY BlocksAreViews
<1> SUFFICES ASSUME ~lost'[r], NEW i \in 1..3, i < at'[r], Named(kind[r], Blocks[i])
             PROVE  ReachesNext(Blocks[i], began[r])
  BY DEF BlocksBehindFresh, Named, Reaches, ReachesNext
<1>3. ~lost[r]
  OBVIOUS
<1>4. CASE i < at[r]
  BY <1>0, <1>1, <1>2, <1>3, <1>4, ReachesStays DEF BlocksBehindFresh
<1>5. CASE ~(i < at[r])
  BY <1>1, <1>5
<1> QED BY <1>4, <1>5

\* Once a statement is over its view reaches its snapshot: a lone one leaves no other,
\* and a raced one leaves the view raced, and no other lone.
LEMMA InstallReaches ==
    ASSUME IInv, NEW o \in Session, Install(o), NEW n \in Int, stmt[o].snap >= n
    PROVE  ReachesNext(stmt[o].view, n)
<1>0. StatementSound /\ Typed /\ ViewsTyped
  BY TypeParts DEF IInv, StatementsTyped
<1>1. /\ stmt'[o] = NoStatement /\ \A s \in Session \ {o} : stmt'[s] = stmt[s]
      /\ stmt[o] \in StatementType
  BY <1>0, EndParts
<1>2. view' = [view EXCEPT ![stmt[o].view] = stmt[o].snap]
  BY Zenon DEF Install, Replaced
<1>3. view'[stmt[o].view] = stmt[o].snap
  BY <1>0, <1>1, <1>2 DEF ViewsTyped, StatementType
<1>4. \A s \in Session : stmt'[s].lone => stmt'[s].view # stmt[o].view
  BY <1>0, <1>1, NoStatementHasNoView DEF StatementSound
<1> QED BY <1>3, <1>4 DEF ReachesNext

LEMMA BlocksBehindFreshStep ==
    ASSUME IInv, [Next]_vars
    PROVE  \A r \in Run : BlocksBehindFresh(r)'
<1>0. /\ \A r \in Run : SessionSound(r) /\ BlocksBehindFresh(r)
      /\ ScriptTyped /\ ViewsTyped /\ Typed /\ TypeOK
  BY TypeParts DEF IInv, StatementsTyped
<1>d. Run \subseteq Session
  BY DEF Session
<1>1. ASSUME NEW r \in Run, pc'[r] = "idle" \/ at'[r] = 1 PROVE BlocksBehindFresh(r)'
  BY <1>1 DEF BlocksBehindFresh
<1>2. ASSUME NEW r \in Run, pc'[r] = pc[r], kind'[r] = kind[r], at'[r] = at[r],
             lost'[r] = lost[r], began'[r] = began[r]
      PROVE  BlocksBehindFresh(r)'
  <2>1. CASE pc[r] = "idle"
    BY <1>1, <1>2, <2>1
  <2>2. CASE pc[r] # "idle"
    BY <1>2, <2>2, BlocksStayFresh
  <2> QED BY <2>1, <2>2
<1>3. CASE UNCHANGED scriptVars
  BY <1>2, <1>3 DEF scriptVars
<1>4. ASSUME NEW r \in Run, NEW type \in RefreshTypes, Start(r, type)
      PROVE  \A q \in Run : BlocksBehindFresh(q)'
  <2>1. at'[r] = 1
    BY <1>0, <1>4 DEF Start, ScriptTyped
  <2>2. \A q \in Run \ {r} : /\ pc'[q] = pc[q] /\ kind'[q] = kind[q] /\ at'[q] = at[q]
                             /\ lost'[q] = lost[q] /\ began'[q] = began[q]
    BY <1>0, <1>4 DEF Start, ScriptTyped
  <2> QED BY <1>1, <1>2, <2>1, <2>2
<1>5. ASSUME NEW r \in Run, Exit(r) \/ Interrupt(r) PROVE \A q \in Run : BlocksBehindFresh(q)'
  <2>1. Leave(r)
    BY <1>5 DEF Exit, Interrupt
  <2>2. pc'[r] = "idle"
    BY <1>0, <2>1 DEF Leave, ScriptTyped
  <2>3. \A q \in Run \ {r} : /\ pc'[q] = pc[q] /\ kind'[q] = kind[q] /\ at'[q] = at[q]
                             /\ lost'[q] = lost[q] /\ began'[q] = began[q]
    BY <1>0, <2>1 DEF Leave, ScriptTyped
  <2> QED BY <1>1, <1>2, <2>2, <2>3
<1>6. ASSUME NEW r \in Run, Summary(r) PROVE \A q \in Run : BlocksBehindFresh(q)'
  <2>1. pc[r] # "idle" /\ UNCHANGED <<kind, at, began, lost>> /\ \A q \in Run \ {r} : pc'[q] = pc[q]
    BY <1>0, <1>6 DEF Summary, ScriptTyped
  <2> QED BY <1>2, <2>1, BlocksStayFresh
<1>7. ASSUME NEW r \in Run, NEW v \in Views, NEW ok \in BOOLEAN, at[r] \in 1..3,
             pc[r] # "idle", Return(r, v, ok), v = Blocks[at[r]],
             ok => ReachesNext(v, began[r])
      PROVE  \A q \in Run : BlocksBehindFresh(q)'
  <2>1. /\ at'[r] = at[r] + 1 /\ (lost'[r] <=> lost[r] \/ ~ok) /\ UNCHANGED <<kind, began>>
        /\ \A q \in Run \ {r} : pc'[q] = pc[q] /\ at'[q] = at[q] /\ lost'[q] = lost[q]
    BY <1>0, <1>7 DEF Return, ScriptTyped
  <2>2. BlocksBehindFresh(r)'
    <3>1. CASE ok
      BY <1>7, <2>1, <3>1, BlocksStayFresh
    <3>2. CASE ~ok
      BY <1>7, <2>1, <3>2, BlocksStayFresh
    <3> QED BY <3>1, <3>2
  <2> QED BY <1>2, <2>1, <2>2
<1>8. ASSUME NEW r \in Run, Block(r) PROVE \A q \in Run : BlocksBehindFresh(q)'
  <2>1. at[r] \in 1..3 /\ Blocks[at[r]] \in Views /\ pc[r] = "running"
    BY <1>0, <1>8, BlocksAreViews DEF Block, ScriptTyped
  <2>2. CASE /\ ~Named(kind[r], Blocks[at[r]]) /\ at' = [at EXCEPT ![r] = @ + 1]
             /\ UNCHANGED <<pc, kind, began, lost>>
    <3>1. at'[r] = at[r] + 1 /\ \A q \in Run \ {r} : at'[q] = at[q]
      BY <1>0, <2>2 DEF ScriptTyped
    <3>2. BlocksBehindFresh(r)'
      BY <2>1, <2>2, <3>1, BlocksStayFresh
    <3> QED BY <1>2, <2>2, <3>1, <3>2
  <2>3. CASE Return(r, Blocks[at[r]], FALSE)
    BY <1>7, <2>1, <2>3
  <2>4. CASE pc' = [pc EXCEPT ![r] = "waiting"] /\ UNCHANGED <<kind, at, began, lost>>
    <3>1. \A q \in Run \ {r} : pc'[q] = pc[q]
      BY <1>0, <2>4 DEF ScriptTyped
    <3>2. BlocksBehindFresh(r)'
      BY <2>1, <2>4, BlocksStayFresh
    <3> QED BY <1>2, <2>4, <3>1, <3>2
  <2> QED BY <1>8, <2>2, <2>3, <2>4 DEF Block
<1>9. ASSUME NEW o \in Session, Install(o) \/ Fails(o) PROVE \A q \in Run : BlocksBehindFresh(q)'
  <2>1. CASE o \notin Run
    BY <1>3, <1>9, <2>1, Zenon DEF Install, Fails, End
  <2>2. CASE o \in Run
    <3>1. stmt[o] \in StatementType /\ stmt[o] # NoStatement
      BY <1>0, <1>9, StatementFrame, StatementTyped
    <3>2. /\ pc[o] = "waiting" /\ at[o] \in 1..3 /\ stmt[o].view = Blocks[at[o]]
          /\ stmt[o].snap >= began[o]
      BY <1>0, <2>2, <3>1 DEF SessionSound
    <3>3. CASE Return(o, stmt[o].view, FALSE)
      BY <1>7, <2>2, <3>1, <3>2, <3>3 DEF StatementType
    <3>4. CASE Return(o, stmt[o].view, TRUE) /\ Install(o)
      <4>1. ReachesNext(stmt[o].view, began[o])
        BY <1>0, <2>2, <3>2, <3>4, InstallReaches DEF ScriptTyped
      <4> QED BY <1>7, <2>2, <3>1, <3>2, <3>4, <4>1 DEF StatementType
    <3> QED BY <1>9, <2>2, <3>3, <3>4, Zenon DEF Install, Fails, End
  <2> QED BY <2>1, <2>2
<1>10. Commit \/ CreateViews \/ (\E o \in Detached : CallIncremental(o)) \/ UNCHANGED vars
         => UNCHANGED scriptVars
  BY DEF Commit, CreateViews, CallIncremental, vars
<1> QED BY <1>3, <1>4, <1>5, <1>6, <1>8, <1>9, <1>10, StepKinds, ReaderFrame

(***************************************************************************)
(* Readers.                                                                *)
(***************************************************************************)

\* Three things true of a reader's answer, and of every answer together.
TotalKept(p) == answer[p].status = "OK" /\ p \notin unsettled => answer[p].total >= floor[p]
CoherentAnswer(p) ==
    answer[p].status = "OK" =>
        /\ answer[p].total \in 0..commits
        /\ answer[p].sampled => answer[p].devices <= Distinct(commits)
        /\ ~answer[p].sampled /\ p \notin unsettled =>
              answer[p].devices \in Distinct(answer[p].total)..commits

LEMMA ReadersApart ==
    /\ TotalsNeverGoBack <=> \A p \in Reader : TotalKept(p)
    /\ StatsCoherent <=> \A p \in Reader : CoherentAnswer(p)
BY DEF TotalsNeverGoBack, StatsCoherent, TotalKept, CoherentAnswer

AllSound(p) == ReaderSound(p) /\ TotalKept(p) /\ CoherentAnswer(p)

\* What others do leaves a reader sound: the view goes on reaching what it did, the
\* table only grows, and who is unsettled stays so.
LEMMA ReaderUndisturbed ==
    ASSUME IInv, [Next]_vars, NEW p \in Reader, AllSound(p),
           reading'[p] = reading[p], answer'[p] = answer[p], floor'[p] = floor[p],
           highest <= highest'
    PROVE  AllSound(p)'
<1>0. ReadersTyped /\ ReadersTyped' /\ SettlesNone
  BY TypeParts, ReadersTypedStep, UnsettledStep DEF IInv
<1>1. commits \in Nat /\ commits' \in Nat /\ commits <= commits'
  BY CommitsGrow
<1>2. Distinct(commits) \in Nat /\ Distinct(commits') \in Nat /\ Distinct(commits) <= Distinct(commits')
  BY <1>1, DistinctGrows
<1>3. /\ answer[p].total \in Nat /\ answer[p].devices \in Nat /\ floor[p] \in Nat
      /\ highest \in Nat /\ highest' \in Nat
      /\ Distinct(answer[p].total) \in Nat
  BY <1>0, DistinctGrows DEF ReadersTyped
<1>4. /\ reading[p] # "idle" /\ p \notin unsettled' => p \notin unsettled /\ "global" \notin raced'
  BY <1>0 DEF SettlesNone
<1>5. reading[p] = "idle" => answer[p].status = "none"
  BY DEF AllSound, ReaderSound
<1>6. ReaderSound(p)'
  <2>1. CASE ~(reading[p] \in {"devices", "fallback"})
    BY <1>3, <1>4, <2>1 DEF AllSound, ReaderSound
  <2>2. CASE reading[p] \in {"devices", "fallback"}
    <3>1. /\ view["global"] # Absent /\ answer[p].total \in 0..commits
          /\ Reaches("global", answer[p].total)
          /\ p \notin unsettled => floor[p] <= answer[p].total
      BY <2>2 DEF AllSound, ReaderSound
    <3>2. ReachesNext("global", answer[p].total) /\ view'["global"] # Absent
      BY <3>1, ReachesStays, ViewsStay DEF Views
    <3>3. Reaches("global", answer[p].total)'
      BY <3>2 DEF Reaches, ReachesNext
    <3> QED BY <1>1, <1>3, <1>4, <2>2, <3>1, <3>2, <3>3 DEF AllSound, ReaderSound
  <2> QED BY <2>1, <2>2
<1>7. TotalKept(p)'
  BY <1>4, <1>5 DEF AllSound, TotalKept
<1>8. CoherentAnswer(p)'
  <2> SUFFICES ASSUME answer[p].status = "OK" PROVE CoherentAnswer(p)'
    BY DEF CoherentAnswer
  <2>1. answer[p].total \in 0..commits'
    BY <1>1 DEF AllSound, CoherentAnswer
  <2>2. answer[p].sampled => answer[p].devices <= Distinct(commits')
    BY <1>2, <1>3 DEF AllSound, CoherentAnswer
  <2>3. ~answer[p].sampled /\ p \notin unsettled' =>
            answer[p].devices \in Distinct(answer[p].total)..commits'
    BY <1>1, <1>3, <1>4, <1>5 DEF AllSound, CoherentAnswer
  <2> QED BY <2>1, <2>2, <2>3 DEF CoherentAnswer
<1> QED BY <1>6, <1>7, <1>8 DEF AllSound

\* The largest total stays reached.
LEMMA HighestStays ==
    ASSUME IInv, [Next]_vars, UNCHANGED highest
    PROVE  HighestReached'
<1>0. highest \in Nat /\ HighestReached
  BY TypeParts DEF IInv, ReadersTyped
<1>1. commits \in Nat /\ commits' \in Nat /\ commits <= commits'
  BY CommitsGrow
<1>2. CASE highest = 0
  BY <1>2 DEF HighestReached
<1>3. CASE highest # 0
  <2>1. highest <= commits /\ Reaches("global", highest)
    BY <1>0, <1>3 DEF HighestReached
  <2>2. ReachesNext("global", highest)
    BY <1>0, <1>1, <2>1, ReachesStays DEF Views
  <2>3. Reaches("global", highest)'
    BY <2>2 DEF Reaches, ReachesNext
  <2> QED BY <1>0, <1>1, <2>1, <2>3 DEF HighestReached
<1> QED BY <1>2, <1>3

\* The end of a request, with a total the view reaches.
LEMMA TellSound ==
    ASSUME IInv, [Next]_vars, NEW p \in Reader, NEW status \in {"OK", "INTERNAL_ERROR"},
           NEW devices \in Nat, NEW sampled \in BOOLEAN, Tell(p, status, devices, sampled),
           status = "OK" =>
              /\ reading[p] \in {"devices", "fallback"}
              /\ sampled => devices <= Distinct(commits)
              /\ ~sampled /\ p \notin unsettled => devices \in Distinct(answer[p].total)..commits,
           reading[p] # "idle"
    PROVE  HighestReached' /\ \A q \in Reader : AllSound(q)'
<1>0. /\ ReadersTyped /\ HighestReached
      /\ \A q \in Reader : AllSound(q) /\ ReaderSound(q)
  BY TypeParts, ReadersApart DEF IInv, AllSound
<1>1. UNCHANGED <<commits, view, stmt, raced, unsettled, floor>>
  BY DEF Tell, historyVars
<1>2. /\ reading'[p] = "done" /\ answer'[p].status = status /\ answer'[p].total = answer[p].total
      /\ answer'[p].devices = devices /\ answer'[p].sampled = sampled
      /\ \A q \in Reader \ {p} : reading'[q] = reading[q] /\ answer'[q] = answer[q]
  BY <1>0 DEF Tell, ReadersTyped
<1>3. /\ answer[p].total \in Nat /\ highest \in Nat /\ floor[p] \in Nat /\ commits \in Nat
  BY <1>0, CommitsGrow DEF ReadersTyped
<1>4. highest' = (IF status = "OK" /\ answer[p].total > highest THEN answer[p].total ELSE highest)
  BY DEF Tell
<1>5. highest <= highest' /\ highest' \in Nat
  BY <1>3, <1>4
<1>6. HighestReached'
  <2>1. CASE highest' = highest
    BY <2>1, HighestStays
  <2>2. CASE highest' = answer[p].total /\ status = "OK"
    <3>1. answer[p].total <= commits /\ Reaches("global", answer[p].total)
      BY <1>0, <1>3, <2>2 DEF ReaderSound
    <3>2. Reaches("global", highest)'
      BY <1>1, <2>2, <3>1 DEF Reaches
    <3> QED BY <1>1, <2>2, <3>1, <3>2 DEF HighestReached
  <2> QED BY <1>4, <2>1, <2>2
<1>7. AllSound(p)'
  <2>1. ReaderSound(p)'
    BY <1>0, <1>1, <1>2, <1>3, <1>5 DEF ReaderSound
  <2>2. TotalKept(p)'
    BY <1>0, <1>1, <1>2, <1>3 DEF TotalKept, ReaderSound
  <2>3. CoherentAnswer(p)'
    BY <1>0, <1>1, <1>2, <1>3 DEF CoherentAnswer, ReaderSound
  <2> QED BY <2>1, <2>2, <2>3 DEF AllSound
<1>8. \A q \in Reader \ {p} : AllSound(q)'
  BY <1>0, <1>1, <1>2, <1>5, ReaderUndisturbed
<1> QED BY <1>6, <1>7, <1>8

LEMMA ReadersStep ==
    ASSUME IInv, [Next]_vars
    PROVE  HighestReached' /\ \A q \in Reader : AllSound(q)'
<1>0. /\ ReadersTyped /\ ViewsTyped /\ HighestReached /\ SettlesNone /\ StatementSound /\ Typed
      /\ \A q \in Reader : AllSound(q) /\ ReaderSound(q)
  BY TypeParts, ReadersApart, UnsettledStep DEF IInv, AllSound, StatementsTyped
<1>1. commits \in Nat /\ highest \in Nat /\ view["global"] \in Int
  BY <1>0, CommitsGrow DEF ReadersTyped, ViewsTyped, Views, Absent
<1>3. CASE UNCHANGED readerVars
  BY <1>0, <1>1, <1>3, ReaderUndisturbed, HighestStays DEF readerVars
<1>4. ASSUME NEW p \in Reader, UNCHANGED highest, AllSound(p)',
             \A q \in Reader \ {p} : /\ reading'[q] = reading[q] /\ answer'[q] = answer[q]
                                    /\ floor'[q] = floor[q]
      PROVE  HighestReached' /\ \A q \in Reader : AllSound(q)'
  BY <1>0, <1>1, <1>4, ReaderUndisturbed, HighestStays
<1>5. ASSUME NEW p \in Reader, AskStats(p) PROVE HighestReached' /\ \A q \in Reader : AllSound(q)'
  <2>1. /\ reading'[p] = "total" /\ floor'[p] = highest /\ UNCHANGED <<answer, highest>>
        /\ reading[p] = "idle"
        /\ \A q \in Reader \ {p} : reading'[q] = reading[q] /\ floor'[q] = floor[q]
    BY <1>0, <1>5 DEF AskStats, ReadersTyped
  <2>2. p \notin unsettled' => "global" \notin raced'
    BY <1>0, <2>1 DEF SettlesNone
  <2>3. AllSound(p)'
    BY <1>0, <1>1, <2>1, <2>2 DEF AllSound, ReaderSound, TotalKept, CoherentAnswer
  <2> QED BY <1>4, <2>1, <2>3
<1>6. ASSUME NEW p \in Reader, ReadTotal(p) PROVE HighestReached' /\ \A q \in Reader : AllSound(q)'
  <2>1. /\ reading'[p] = "devices" /\ reading[p] = "total" /\ answer'[p].total = view["global"]
        /\ answer'[p].status = answer[p].status /\ view["global"] # Absent
        /\ UNCHANGED <<commits, view, stmt, raced, unsettled, floor, highest>>
        /\ \A q \in Reader \ {p} : reading'[q] = reading[q] /\ answer'[q] = answer[q]
    <3>1. answer' = [answer EXCEPT ![p] = [answer[p] EXCEPT !.total = view["global"]]]
      BY <1>6, Zenon DEF ReadTotal
    <3>2. /\ reading' = [reading EXCEPT ![p] = "devices"] /\ reading[p] = "total"
          /\ view["global"] # Absent
          /\ UNCHANGED <<commits, view, stmt, raced, unsettled, floor, highest>>
      BY <1>6 DEF ReadTotal, historyVars
    <3> QED BY <1>0, <3>1, <3>2 DEF ReadersTyped
  <2>2. view["global"] \in 0..commits
    BY <2>1, DevicesCounted
  <2>3. /\ answer[p].status = "none" /\ floor[p] <= highest /\ floor[p] \in Nat
        /\ p \notin unsettled => "global" \notin raced
    BY <1>0, <2>1 DEF ReaderSound, ReadersTyped
  <2>4. Reaches("global", view["global"])
    BY <1>0, <1>1, <2>2 DEF Reaches, StatementSound
  <2>5. p \notin unsettled => floor[p] <= view["global"]
    BY <1>0, <1>1, <2>2, <2>3 DEF HighestReached, Reaches
  <2>6. ReaderSound(p)'
    <3>1. Reaches("global", answer[p].total)'
      BY <2>1, <2>4 DEF Reaches
    <3> QED BY <2>1, <2>2, <2>3, <2>5, <3>1 DEF ReaderSound
  <2>7. AllSound(p)'
    BY <2>1, <2>3, <2>6 DEF AllSound, TotalKept, CoherentAnswer
  <2> QED BY <1>4, <2>1, <2>7
<1>7. ASSUME NEW p \in Reader, SampleDevices(p) PROVE HighestReached' /\ \A q \in Reader : AllSound(q)'
  <2>1. PICK S \in SUBSET (1..commits) : Tell(p, "OK", Cardinality({Arrivals[i].device : i \in S}), TRUE)
    BY <1>7 DEF SampleDevices
  <2>2. Cardinality({Arrivals[i].device : i \in S}) \in 0..Distinct(commits)
        /\ Distinct(commits) \in Nat
    BY DevicesCounted
  <2>3. reading[p] = "devices"
    BY <1>7 DEF SampleDevices
  <2> DEFINE n == Cardinality({Arrivals[i].device : i \in S})
  <2>4. Tell(p, "OK", n, TRUE) /\ n \in 0..Distinct(commits)
    BY <2>1, <2>2, Zenon
  <2> HIDE DEF n
  <2>5. n \in Nat /\ n <= Distinct(commits)
    BY <2>2, <2>4
  <2> QED BY <2>3, <2>4, <2>5, TellSound
<1>8. ASSUME NEW p \in Reader, SampleFails(p) PROVE HighestReached' /\ \A q \in Reader : AllSound(q)'
  <2>1. /\ reading'[p] = "fallback" /\ reading[p] = "devices"
        /\ UNCHANGED <<commits, view, stmt, raced, unsettled, floor, highest, answer>>
        /\ \A q \in Reader \ {p} : reading'[q] = reading[q]
    BY <1>0, <1>8 DEF SampleFails, ReadersTyped, historyVars
  <2>2. AllSound(p)'
    BY <1>0, <2>1 DEF AllSound, ReaderSound, TotalKept, CoherentAnswer, Reaches
  <2> QED BY <1>4, <2>1, <2>2
<1>9. ASSUME NEW p \in Reader, SumDevices(p) PROVE HighestReached' /\ \A q \in Reader : AllSound(q)'
  <2> DEFINE n == SumActive(view["global"])
  <2>1. reading[p] = "fallback" /\ view["global"] # Absent /\ Tell(p, "OK", n, FALSE)
    BY <1>9 DEF SumDevices
  <2>2. view["global"] \in 0..commits /\ n \in Distinct(view["global"])..view["global"]
    BY <2>1, DevicesCounted
  <2>3. Distinct(view["global"]) \in Nat
    BY <2>2, <1>1, DistinctGrows
  <2>4. n \in Nat /\ n <= commits
    BY <1>1, <2>2, <2>3
  <2>5. p \notin unsettled => n \in Distinct(answer[p].total)..commits
    <3>1. p \notin unsettled => answer[p].total \in Nat /\ answer[p].total <= view["global"]
      BY <1>0, <1>1, <2>1 DEF ReaderSound, ReadersTyped, Reaches
    <3>2. p \notin unsettled => /\ Distinct(answer[p].total) \in Nat
                                /\ Distinct(answer[p].total) <= Distinct(view["global"])
      BY <1>1, <2>2, <3>1, DistinctGrows
    <3> HIDE DEF n
    <3> QED BY <1>1, <2>2, <2>3, <2>4, <3>2
  <2> HIDE DEF n
  <2> QED BY <2>1, <2>4, <2>5, TellSound
<1>10. ASSUME NEW p \in Reader, StatsFail(p) PROVE HighestReached' /\ \A q \in Reader : AllSound(q)'
  BY <1>10, TellSound DEF StatsFail
<1>11. ASSUME NEW p \in Reader, TakeStats(p) PROVE HighestReached' /\ \A q \in Reader : AllSound(q)'
  <2>1. /\ reading'[p] = "idle" /\ answer'[p].status = "none" /\ floor'[p] = 0 /\ UNCHANGED highest
        /\ \A q \in Reader \ {p} : /\ reading'[q] = reading[q] /\ answer'[q] = answer[q]
                                   /\ floor'[q] = floor[q]
    BY <1>0, <1>11 DEF TakeStats, NoStats, ReadersTyped
  <2>2. AllSound(p)'
    BY <1>1, <2>1 DEF AllSound, ReaderSound, TotalKept, CoherentAnswer
  <2> QED BY <1>4, <2>1, <2>2
<1>12. Commit \/ CreateViews \/ (\E o \in Detached : CallIncremental(o)) \/ UNCHANGED vars
         => UNCHANGED readerVars
  BY DEF Commit, CreateViews, CallIncremental, vars
<1> QED BY <1>3, <1>5, <1>6, <1>7, <1>8, <1>9, <1>10, <1>11, <1>12, StepKinds, ScriptFrame, StatementFrame

(***************************************************************************)
(* The theorems.                                                           *)
(***************************************************************************)
LEMMA IInvStep == IInv /\ [Next]_vars => IInv'
<1> SUFFICES ASSUME IInv, [Next]_vars PROVE IInv'
  OBVIOUS
<1>1. HighestReached' /\ \A p \in Reader : AllSound(p)'
  BY ReadersStep
<1>2. TotalsNeverGoBack' /\ StatsCoherent'
  BY <1>1 DEF TotalsNeverGoBack, StatsCoherent, AllSound, TotalKept, CoherentAnswer
<1>3. \A p \in Reader : ReaderSound(p)'
  BY <1>1 DEF AllSound
<1> QED
  BY <1>1, <1>2, <1>3, TypeStep, SessionSoundStep, StatementSoundStep, BlocksBehindFreshStep DEF IInv

LEMMA Invariance == Spec => []IInv
BY InitIInv, IInvStep, PTL DEF Spec

\* Every variable keeps its type; a view is never ahead of the table, a run never
\* outside its three blocks.
THEOREM TypeCorrect == Spec => []TypeOK
<1>1. IInv => TypeOK
  BY DEF IInv
<1> QED BY <1>1, Invariance, PTL

\* A run that ends without losing a statement leaves fresh every view its type names,
\* but for one that two statements met on and none that was alone there has replaced.
THEOREM RunsFreshen == Spec => []RunFreshens
<1>1. IInv => RunFreshens
  <2> SUFFICES ASSUME IInv, NEW r \in Run, pc[r] = "done", ~lost[r],
                      NEW v \in Views \ raced, kind[r] \in {v, "all"}
               PROVE  view[v] >= began[r]
    BY DEF RunFreshens
  <2>1. PICK i \in 1..3 : Blocks[i] = v
    BY BlocksAreViews
  <2>2. i < at[r]
    BY DEF IInv, SessionSound
  <2> QED BY <2>1, <2>2 DEF IInv, BlocksBehindFresh, Named, Reaches
<1> QED BY <1>1, Invariance, PTL

\* No total is smaller than one answered before it was asked for, unless the view was
\* raced when the request came or while it was answered.
THEOREM TotalsGrow == Spec => []TotalsNeverGoBack
<1>1. IInv => TotalsNeverGoBack
  BY DEF IInv
<1> QED BY <1>1, Invariance, PTL

\* The two numbers of one answer agree with the table and with one another as far
\* as two statements can.
THEOREM AnswersCohere == Spec => []StatsCoherent
<1>1. IInv => StatsCoherent
  BY DEF IInv
<1> QED BY <1>1, Invariance, PTL
=============================================================================
