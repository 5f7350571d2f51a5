---------------------------- MODULE ReadResults ----------------------------
(***************************************************************************)
(* The vocabulary the promise (BoundedStaleness) and the program           *)
(* (SensorService) share: the history of sensor_readings, the results a    *)
(* request has on a table, and the answers of the service.                 *)
(*                                                                         *)
(* sensor_readings only ever grows: nothing under cmd/, internal/ or       *)
(* scripts/ updates or deletes a row.  Its history is therefore the log of *)
(* its commits, and a state of the table is a prefix of that log.          *)
(***************************************************************************)
EXTENDS SensorRepository

\* The table after the first n commits.
Rows(log, n) == {log[i].row : i \in 1..n}

\* State n was still current at time t or later.
CurrentSince(log, n, t) == n = Len(log) \/ log[n + 1].at >= t

\* Every result the repository can return for a request on a table, ...
Results(r, rows) == IF r.kind = "id" THEN {GetByID(r.id, rows)} ELSE Query(r, rows)

\* ... and every result the client asked for, said without SQL.
Wanted(r, rows) == IF r.kind = "id" THEN {{row \in rows : row.id = r.id}}
                                    ELSE Newest(r.limit, Matching(r, rows))

\* (mutant) A missing row is not told from a found one.
UnfilteredDevice(r) == r.kind # "id" /\ r.from = NoTime /\ r.to = NoTime

\* Requests for which an empty result is an error and not an empty list.
Unfiltered(r) == r.kind = "id" \/ (r.from = NoTime /\ r.to = NoTime)

OK(cache, rows) == [status |-> "OK", cache |-> cache, rows |-> rows]
Failed(why) == [status |-> why, cache |-> "", rows |-> {}]
NotFound(r) == Failed(IF r.kind = "id" THEN "READING_NOT_FOUND" ELSE "DEVICE_NOT_FOUND")

NoAnswer == Failed("NONE")
=============================================================================
