----------------------------- MODULE StatsView -----------------------------
(***************************************************************************)
(* The materialized views of 004_materialized_views.sql, what refreshes    *)
(* them (scripts/refresh_materialized_views.sh and the function            *)
(* refresh_global_stats_incremental of 005) and who reads them             *)
(* (SensorRepository.GetStatsFromMV behind GET /api/v1/stats), with        *)
(* writers that insert readings all the while.                             *)
(*                                                                         *)
(* sensor_readings only grows, so the contents of a view are told by the   *)
(* number of commits they were computed from.  A REFRESH takes its         *)
(* snapshot when it starts, then waits for the view's lock, then replaces  *)
(* the contents: PostgreSQL plans it that way, and two of them can meet.   *)
(***************************************************************************)
EXTENDS Integers, Sequences, FiniteSets

CONSTANTS Run,           \* invocations of the script that may overlap
          Reader,        \* requests for /api/v1/stats
          Detached,      \* sessions no script waits for: psql left behind by an
                         \* interrupted script, or an operator's own
          Arrivals       \* the readings inserted, [device, rtype], in the order of
                         \* their commits

ASSUME StatsAssumption ==
    /\ Detached \cap Run = {}
    /\ Len(Arrivals) \in Nat


VARIABLES commits,       \* how many arrivals are in the table
          view,          \* view -> commits its contents are computed from, or Absent
          stmt,          \* session -> the REFRESH it is waiting for
          pc, kind, at,  \* script: "idle", "running", "waiting", "done"; its type; its block
          failedViews,   \* script: failed_views
          reading,       \* reader: "idle", "total", "devices", "fallback", "done"
          answer,        \* reader: what it has so far
          began,         \* history: commits when the script started
          lost,          \* history: a REFRESH failed during the run
          raced,         \* history: views that two statements refreshed at a time, and
                         \* none that had the view to itself has replaced since
          highest, floor,\* history: the largest total answered, ever and before a request
          unsettled      \* history: requests during which mv_global_stats was raced

scriptVars == <<pc, kind, at, failedViews, began, lost>>
readerVars == <<reading, answer, highest, floor>>
historyVars == <<raced, unsettled>>
vars == <<commits, view, stmt, historyVars, scriptVars, readerVars>>

-----------------------------------------------------------------------------
Blocks == <<"hourly", "daily", "global">>
Views == {"hourly", "daily", "global"}
RefreshTypes == Views \cup {"all"}
Session == Run \cup Detached

Absent == -1
NoStatement == [view |-> "none", snap |-> 0, lone |-> FALSE]
NoStats == [status |-> "none", total |-> 0, devices |-> 0, sampled |-> FALSE]

\* The rows of mv_global_stats computed from n commits: SUM(total_readings) is n,
\* SUM(active_devices) counts a device once for every type it reports.
Distinct(n) == Cardinality({Arrivals[i].device : i \in 1..n})

\* (mutant) The count of the type with most devices.
LargestActive(n) ==
    LET active(t) == Cardinality({Arrivals[i].device : i \in {j \in 1..n : Arrivals[j].rtype = t}})
    IN  CHOOSE k \in 0..n : (k = 0 /\ n = 0) \/
            (\E i \in 1..n : active(Arrivals[i].rtype) = k /\ \A j \in 1..n : active(Arrivals[j].rtype) <= k)

SumActive(n) == Cardinality({<<Arrivals[i].device, Arrivals[i].rtype>> : i \in 1..n})

\* (mutant) "all" was written before the daily view was.
NamedWithoutDaily(type, v) == type = v \/ (type = "all" /\ v # "daily")

\* [ "$REFRESH_TYPE" = v ] || [ "$REFRESH_TYPE" = "all" ]
Named(type, v) == type = v \/ type = "all"

\* refresh_mv is called as an if condition, where set -e is off: its status is
\* that of its last command, the log_success, whatever became of the REFRESH.
RefreshStatus(ok) == 0

ExitStatus(r) == IF failedViews[r] = {} THEN 0 ELSE 1

-----------------------------------------------------------------------------
(* Statements.                                                              *)

Refreshing(v) == {o \in Session : stmt[o].view = v}

\* The statement starts, and takes its snapshot.  It is alone on its view (history,
\* like raced and unsettled) until another one meets it there.
Begin(o, v) ==
    /\ stmt' = [[s \in Session |-> IF s \in Refreshing(v) THEN [stmt[s] EXCEPT !.lone = FALSE]
                                                      ELSE stmt[s]]
                   EXCEPT ![o] = [view |-> v, snap |-> commits, lone |-> Refreshing(v) = {}]]
    /\ raced' = IF Refreshing(v) = {} THEN raced ELSE raced \cup {v}
    /\ unsettled' = IF Refreshing(v) = {} \/ v # "global" THEN unsettled
                     ELSE {p \in Reader : reading[p] # "idle"}

\* (mutant) A block that has counted its view falls through the next one.
ReturnAndSkip(r, v, ok) ==
    /\ pc' = [pc EXCEPT ![r] = "running"]
    /\ at' = [at EXCEPT ![r] = @ + 2]
    /\ failedViews' = failedViews
    /\ lost' = [lost EXCEPT ![r] = @ \/ ~ok]
    /\ UNCHANGED <<kind, began>>

\* refresh_mv v returns, and the script goes on to the next block.
Return(r, v, ok) ==
    /\ pc' = [pc EXCEPT ![r] = "running"]
    /\ at' = [at EXCEPT ![r] = @ + 1]
    /\ failedViews' = IF RefreshStatus(ok) = 0 THEN failedViews
                      ELSE [failedViews EXCEPT ![r] = @ \cup {v}]
    /\ lost' = [lost EXCEPT ![r] = @ \/ ~ok]
    /\ UNCHANGED <<kind, began>>

\* The statement is over; the script that waits for it, if any, goes on.
End(o, ok) ==
    /\ stmt' = [stmt EXCEPT ![o] = NoStatement]
    /\ IF o \in Run THEN Return(o, stmt[o].view, ok) ELSE UNCHANGED scriptVars
    /\ UNCHANGED <<commits, unsettled, readerVars>>

\* The contents are those of the snapshot, and nothing else.
Replaced(v, n) == [view EXCEPT ![v] = n]

\* CONCURRENTLY takes an EXCLUSIVE lock, so that statements on one view replace it one
\* at a time, in any order, and readers go on.
Install(o) ==
    /\ stmt[o] # NoStatement
    /\ view' = Replaced(stmt[o].view, stmt[o].snap)
    /\ raced' = IF stmt[o].lone THEN raced \ {stmt[o].view} ELSE raced
    /\ End(o, TRUE)

\* It is cancelled, runs out of space, loses its connection, ...
Fails(o) ==
    /\ stmt[o] # NoStatement
    /\ UNCHANGED <<view, raced>> /\ End(o, FALSE)

-----------------------------------------------------------------------------
(* scripts/refresh_materialized_views.sh                                    *)

Start(r, type) ==
    /\ pc[r] = "idle"
    /\ pc' = [pc EXCEPT ![r] = "running"]
    /\ kind' = [kind EXCEPT ![r] = type]
    /\ at' = [at EXCEPT ![r] = 1]
    /\ began' = [began EXCEPT ![r] = commits]
    /\ UNCHANGED <<commits, view, stmt, historyVars, failedViews, lost, readerVars>>

\* One of the three blocks: skipped, refused because there is no such view, or
\* entered.
Block(r) ==
    /\ pc[r] = "running" /\ at[r] <= Len(Blocks)
    /\ LET v == Blocks[at[r]]
       IN  \/ /\ ~Named(kind[r], v)
              /\ at' = [at EXCEPT ![r] = @ + 1]
              /\ UNCHANGED <<stmt, historyVars, pc, kind, failedViews, began, lost>>
           \/ /\ Named(kind[r], v) /\ view[v] = Absent
              /\ Return(r, v, FALSE) /\ UNCHANGED <<stmt, historyVars>>
           \/ /\ Named(kind[r], v) /\ view[v] # Absent
              /\ Begin(r, v)
              /\ pc' = [pc EXCEPT ![r] = "waiting"]
              /\ UNCHANGED <<kind, at, failedViews, began, lost>>
    /\ UNCHANGED <<commits, view, readerVars>>

\* The summary, and the exit status.
Summary(r) ==
    /\ pc[r] = "running" /\ at[r] > Len(Blocks)
    /\ pc' = [pc EXCEPT ![r] = "done"]
    /\ UNCHANGED <<commits, view, stmt, historyVars, kind, at, failedViews, began, lost, readerVars>>

Leave(r) ==
    /\ pc' = [pc EXCEPT ![r] = "idle"]
    /\ kind' = [kind EXCEPT ![r] = "all"]
    /\ at' = [at EXCEPT ![r] = 1]
    /\ failedViews' = [failedViews EXCEPT ![r] = {}]
    /\ began' = [began EXCEPT ![r] = 0]
    /\ lost' = [lost EXCEPT ![r] = FALSE]
    /\ UNCHANGED <<commits, view, historyVars, readerVars>>

Exit(r) == pc[r] = "done" /\ Leave(r) /\ UNCHANGED stmt

\* Ctrl+C, in the countdown or later: docker exec dies with the script, the psql
\* it started in the container does not, and its statement runs on.
Interrupt(r) ==
    /\ pc[r] \in {"running", "waiting"}
    /\ \/ pc[r] = "running" /\ UNCHANGED stmt
       \/ \E o \in Detached :
             /\ pc[r] = "waiting" /\ stmt[o] = NoStatement
             /\ stmt' = [stmt EXCEPT ![o] = stmt[r], ![r] = NoStatement]
    /\ Leave(r)

\* SELECT refresh_global_stats_incremental();
CallIncremental(o) ==
    /\ stmt[o] = NoStatement /\ view["global"] # Absent
    /\ Begin(o, "global")
    /\ UNCHANGED <<commits, view, scriptVars, readerVars>>

-----------------------------------------------------------------------------
(* SensorRepository.GetStatsFromMV: three statements, none in a transaction. *)

Tell(p, status, devices, sampled) ==
    /\ reading' = [reading EXCEPT ![p] = "done"]
    /\ answer' = [answer EXCEPT ![p] = [status |-> status, total |-> @.total,
                                        devices |-> devices, sampled |-> sampled]]
    /\ highest' = IF status = "OK" /\ answer[p].total > highest THEN answer[p].total
                                                                 ELSE highest
    /\ UNCHANGED <<commits, view, stmt, historyVars, scriptVars, floor>>

AskStats(p) ==
    /\ reading[p] = "idle"
    /\ reading' = [reading EXCEPT ![p] = "total"]
    /\ floor' = [floor EXCEPT ![p] = highest]
    /\ unsettled' = IF "global" \in raced THEN unsettled \cup {p} ELSE unsettled
    /\ UNCHANGED <<commits, view, stmt, raced, scriptVars, answer, highest>>

ReadTotal(p) ==
    /\ reading[p] = "total" /\ view["global"] # Absent
    /\ reading' = [reading EXCEPT ![p] = "devices"]
    /\ answer' = [answer EXCEPT ![p].total = view["global"]]
    /\ UNCHANGED <<commits, view, stmt, historyVars, scriptVars, highest, floor>>

\* TABLESAMPLE SYSTEM (0.5): the devices of some pages of the table as it is now.
SampleDevices(p) ==
    /\ reading[p] = "devices"
    /\ \E sample \in SUBSET (1..commits) :
          Tell(p, "OK", Cardinality({Arrivals[i].device : i \in sample}), TRUE)

SampleFails(p) ==
    /\ reading[p] = "devices"
    /\ reading' = [reading EXCEPT ![p] = "fallback"]
    /\ UNCHANGED <<commits, view, stmt, historyVars, scriptVars, answer, highest, floor>>

SumDevices(p) ==
    /\ reading[p] = "fallback" /\ view["global"] # Absent
    /\ Tell(p, "OK", SumActive(view["global"]), FALSE)

\* (mutant) The errors of GetStatsFromMV are ignored, and what was scanned is sent.
StatsFailUnnoticed(p) ==
    /\ reading[p] \in {"total", "fallback"}
    /\ Tell(p, "OK", 0, FALSE)

StatsFail(p) ==
    /\ reading[p] \in {"total", "fallback"}
    /\ Tell(p, "INTERNAL_ERROR", 0, FALSE)

TakeStats(p) ==
    /\ reading[p] = "done"
    /\ reading' = [reading EXCEPT ![p] = "idle"]
    /\ answer' = [answer EXCEPT ![p] = NoStats]
    /\ floor' = [floor EXCEPT ![p] = 0]
    /\ unsettled' = unsettled \ {p}
    /\ UNCHANGED <<commits, view, stmt, raced, scriptVars, highest>>

-----------------------------------------------------------------------------
Commit ==
    /\ commits < Len(Arrivals)
    /\ commits' = commits + 1
    /\ UNCHANGED <<view, stmt, historyVars, scriptVars, readerVars>>

\* 004 is one transaction, whose three statements read the table one after another.
CreateViews ==
    /\ \A v \in Views : view[v] = Absent
    /\ \E h, d, g \in 0..commits :
          /\ h <= d /\ d <= g
          /\ view' = [hourly |-> h, daily |-> d, global |-> g]
    /\ UNCHANGED <<commits, stmt, historyVars, scriptVars, readerVars>>

Init ==
    /\ commits = 0 /\ view = [v \in Views |-> Absent]
    /\ stmt = [o \in Session |-> NoStatement] /\ raced = {} /\ unsettled = {}
    /\ pc = [r \in Run |-> "idle"] /\ kind = [r \in Run |-> "all"]
    /\ at = [r \in Run |-> 1]
    /\ failedViews = [r \in Run |-> {}] /\ lost = [r \in Run |-> FALSE]
    /\ began = [r \in Run |-> 0]
    /\ reading = [p \in Reader |-> "idle"] /\ answer = [p \in Reader |-> NoStats]
    /\ highest = 0 /\ floor = [p \in Reader |-> 0]

Script(r) == Block(r) \/ Summary(r) \/ Exit(r)
Statement(o) == Install(o) \/ Fails(o)
GetStats(p) ==
    \/ ReadTotal(p) \/ SampleDevices(p) \/ SampleFails(p) \/ SumDevices(p)
    \/ StatsFail(p) \/ TakeStats(p)

Next ==
    \/ \E r \in Run : Script(r) \/ Interrupt(r) \/ \E type \in RefreshTypes : Start(r, type)
    \/ \E o \in Session : Statement(o)
    \/ \E p \in Reader : AskStats(p) \/ GetStats(p)
    \/ \E o \in Detached : CallIncremental(o)
    \/ Commit \/ CreateViews

Spec == Init /\ [][Next]_vars

-----------------------------------------------------------------------------
TypeOK ==
    /\ commits \in 0..Len(Arrivals)
    /\ view \in [Views -> 0..commits \cup {Absent}]
    /\ stmt \in [Session -> {NoStatement} \cup
                             [view : Views, snap : 0..commits, lone : BOOLEAN]]
    /\ raced \subseteq Views /\ unsettled \subseteq Reader
    /\ pc \in [Run -> {"idle", "running", "waiting", "done"}]
    /\ kind \in [Run -> RefreshTypes]
    /\ at \in [Run -> 1..Len(Blocks) + 1]
    /\ failedViews \in [Run -> SUBSET Views] /\ lost \in [Run -> BOOLEAN]
    /\ began \in [Run -> 0..commits]
    /\ reading \in [Reader -> {"idle", "total", "devices", "fallback", "done"}]
    /\ answer \in [Reader -> [status : {"none", "OK", "INTERNAL_ERROR"}, total : Nat,
                              devices : Nat, sampled : BOOLEAN]]
    /\ highest \in Nat /\ floor \in [Reader -> Nat]

(***************************************************************************)
(* A run that ends, none of whose statements failed, leaves every view its *)
(* type names (show_help) no older than its own start, whatever earlier    *)
(* runs, interrupted ones and their orphaned statements included, left     *)
(* behind.  The exception is a view two statements refreshed at the same   *)
(* time, until one that had it to itself has replaced it again.            *)
(***************************************************************************)
RunFreshens ==
    \A r \in Run : pc[r] = "done" /\ ~lost[r] =>
        \A v \in Views \ raced : kind[r] \in {v, "all"} => view[v] >= began[r]

(***************************************************************************)
(* total_readings of /api/v1/stats never goes back: an answer is at least  *)
(* as large as every answer given before it was asked for.  The exception  *)
(* is a request during which mv_global_stats is raced: two statements that *)
(* refresh it at a time may install the older snapshot last.               *)
(***************************************************************************)
TotalsNeverGoBack ==
    \A p \in Reader : answer[p].status = "OK" /\ p \notin unsettled =>
        answer[p].total >= floor[p]

(***************************************************************************)
(* The two numbers of one answer, read by separate statements: the total   *)
(* is one the table had; devices counted from the sample exist; devices    *)
(* taken from the view when the sample fails are no fewer than those of    *)
(* the readings the answer counts, even if a refresh came in between.      *)
(***************************************************************************)
StatsCoherent ==
    \A p \in Reader : answer[p].status = "OK" =>
        /\ answer[p].total \in 0..commits
        /\ answer[p].sampled => answer[p].devices <= Distinct(commits)
        /\ ~answer[p].sampled /\ p \notin unsettled =>
              answer[p].devices \in Distinct(answer[p].total)..commits

-----------------------------------------------------------------------------
(***************************************************************************)
(* What the script itself announces for a view it could not refresh:       *)
(* "Failed to refresh:", and an exit status of 1.                          *)
(***************************************************************************)
FailuresReported ==
    \A r \in Run : pc[r] = "done" /\ lost[r] => ExitStatus(r) = 1
=============================================================================
