-------------------------- MODULE MCSensorService --------------------------
(* Instances of SensorService for TLC.  Time runs in half seconds.          *)
EXTENDS SensorService, TLC

CONSTANTS d1, d2, temp, hum

Device(d, k, t, from, to) ==
    [kind |-> "readings", device |-> d, limit |-> k, rtype |-> t, from |-> from, to |-> to]
Row(i, d, ts, t) == [id |-> i, device |-> d, ts |-> ts, rtype |-> t]

MCSubSec == 2
MCDeviceIDs == {d1, d2}
MCReadingTypes == {temp, hum} \cup 0..9

\* A late row (2) older than an early one (1), of another type.
MCRows == {Row(1, d1, 6, temp), Row(2, d1, 2, hum)}

Newest1 == Device(d1, 1, NoType, NoTime, NoTime)

\* From noon and up to noon: two requests with one key.
Noon == 4
FromNoon == Device(d1, 2, NoType, Noon, NoTime)
UpToNoon == Device(d1, 2, NoType, NoTime, Noon)

MCOneRequest == {Newest1}
MCCollidingRequests == {FromNoon, UpToNoon}

Symmetry == Permutations(Proc)
=============================================================================
