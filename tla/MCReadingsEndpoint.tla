------------------------- MODULE MCReadingsEndpoint -------------------------
(* The instance of ReadingsEndpoint for TLC.  Time runs in half seconds.    *)
EXTENDS ReadingsEndpoint

CONSTANTS d1, d2, temp, hum

MCSubSec == 2
MCDeviceIDs == {d1, d2}
MCReadingTypes == {temp, hum} \cup 0..9

\* A late row (2) older than an early one (1), of another type.
MCRows == {[id |-> 1, device |-> d1, ts |-> 5, rtype |-> temp],
           [id |-> 2, device |-> d1, ts |-> 2, rtype |-> hum]}

Ask(i, d, k, t, from, to) ==
    [id |-> i, device |-> d, limit |-> k, rtype |-> t, from |-> from, to |-> to]
Of(k, t, from, to) == Ask(Absent, d1, k, t, from, to)

\* Two queries with every filter end half a second apart, row 1 between them,
\* and have one key; "abc" is a limit Go makes 10 of, and "1;" the same as 1.
Noon == Exact(4)
Accepting == {
    Of(Bad, temp, Exact(2), Noon),
    Of(Absent, temp, Exact(2), Exact(5)),
    Of(Prefix(1), NoType, Absent, Absent),
    Of(Exact(1), hum, Absent, Absent),
    Ask(Exact(2), NoDevice, Absent, NoType, Absent, Absent)}
Refusing == {
    Ask(Exact(2), d1, Absent, NoType, Absent, Absent),
    Ask(Absent, NoDevice, Absent, NoType, Absent, Absent),
    Ask(Prefix(2), NoDevice, Absent, NoType, Absent, Absent),
    Ask(Exact(0), NoDevice, Absent, NoType, Absent, Absent),
    Ask(Absent, "sensor 1", Absent, NoType, Absent, Absent),
    Of(Exact(501), NoType, Absent, Absent),
    Of(Absent, NoType, Bad, Absent),
    Of(Absent, NoType, Exact(6), Noon)}

MCQueries == Accepting \cup Refusing
MCRequests == {Parsed(x) : x \in {y \in MCQueries : Accepted(y)}}
=============================================================================
