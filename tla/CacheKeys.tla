----------------------------- MODULE CacheKeys -----------------------------
(***************************************************************************)
(* The Redis keys of internal/service/sensor_service.go.  A key is the     *)
(* sequence of its colon-separated segments: no segment can hold a colon,  *)
(* because device ids and reading types are validated before a key is made *)
(* of them.  A reading type of digits only, which isValidReadingType lets  *)
(* through, is the number it spells: as a segment it is the same text as a *)
(* Unix time.  All other reading types and the device ids are not numbers. *)
(***************************************************************************)
EXTENDS ReadResults

CONSTANT SubSec                \* units of time in one second

ASSUME SubSecAssumption == SubSec \in Nat \ {0}

\* time.Time.Unix: whole seconds, the fraction dropped.
Unix(t) == t \div SubSec

AddSegment(key, present, s) == IF present THEN Append(key, s) ELSE key

\* (mutant) The reading type is left out of the key.
CacheKeyUntyped(q) ==
    LET started == AddSegment(<<"readings", q.device, q.limit>>, q.from # NoTime, Unix(q.from))
    IN  AddSegment(started, q.to # NoTime, Unix(q.to))

CacheKey(q) ==
    LET typed   == AddSegment(<<"readings", q.device, q.limit>>, q.rtype # NoType, q.rtype)
        started == AddSegment(typed, q.from # NoTime, Unix(q.from))
    IN  AddSegment(started, q.to # NoTime, Unix(q.to))

PkCacheKey(id) == <<"id", id>>

Key(r) == IF r.kind = "id" THEN PkCacheKey(r.id) ELSE CacheKey(r)

(***************************************************************************)
(* The requests whose keys tell them apart: no digits-only reading type,   *)
(* time bounds on whole seconds, and no upper bound without a lower one.   *)
(***************************************************************************)
WholeSecond(t) == t % SubSec = 0

Distinguishable(r) ==
    r.kind # "id" =>
        /\ r.rtype \notin Int
        /\ r.from # NoTime => r.from \in Nat /\ WholeSecond(r.from)
        /\ r.to # NoTime => r.to \in Nat /\ WholeSecond(r.to)
        /\ r.to # NoTime => r.from # NoTime

\* Requests without a time range, for all types or for one that is no number.
Rangeless(r) == r.kind # "id" /\ r.from = NoTime /\ r.to = NoTime /\ r.rtype \notin Int
=============================================================================
