---------------------------- MODULE MCStatsView ----------------------------
(* The instance of StatsView for TLC: two devices of different types, so    *)
(* that a count by type and a count by device are not the same.             *)
EXTENDS StatsView

MCArrivals == <<[device |-> "d1", rtype |-> "temperature"], [device |-> "d2", rtype |-> "humidity"]>>
=============================================================================
