---------------------------- MODULE MCApiServer ----------------------------
(* Instances of ApiServer for TLC.                                          *)
EXTENDS ApiServer, TLC

Requests(endpoints, gzip) == [endpoint : endpoints, gzip : gzip]

MCKinds == Requests({"readings", "stats", "health", "live", "options"}, {FALSE})
             \cup Requests({"stats"}, {TRUE})
MCFewKinds == Requests({"readings", "stats"}, {TRUE})

Symmetry == Permutations(Conn)
=============================================================================
