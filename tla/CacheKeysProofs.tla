-------------------------- MODULE CacheKeysProofs --------------------------
(***************************************************************************)
(* Which requests never share a Redis key.                                 *)
(***************************************************************************)
EXTENDS CacheKeys, SequenceTheorems, TLAPS

\* Requests as the handler makes them.
DeviceRequest(r) ==
    \E d, k, t, f, u : r = [kind |-> "readings", device |-> d, limit |-> k,
                            rtype |-> t, from |-> f, to |-> u]
IdRequest(r) == \E i : r = [kind |-> "id", id |-> i]

\* One more segment at the end of a key.
LEMMA Append3 == ASSUME NEW a, NEW b, NEW c, NEW y PROVE Append(<<a, b, c>>, y) = <<a, b, c, y>>
<1> DEFINE S == {a, b, c, y}
           s == <<a, b, c>>
           t == <<a, b, c, y>>
<1>1. s \in Seq(S) /\ Len(s) = 3 /\ y \in S
  OBVIOUS
<1>2. t \in Seq(S) /\ Len(t) = 4
  OBVIOUS
<1>3. Append(s, y) \in Seq(S) /\ Len(Append(s, y)) = 4
  BY <1>1, AppendProperties
<1>4. \A i \in 1..4 : Append(s, y)[i] = t[i]
  <2>1. Append(s, y)[4] = y /\ \A i \in 1..3 : Append(s, y)[i] = s[i]
    BY <1>1, AppendProperties
  <2>2. t[4] = y /\ \A i \in 1..3 : t[i] = s[i]
    OBVIOUS
  <2>3. \A i \in 1..4 : i \in 1..3 \/ i = 4
    OBVIOUS
  <2> HIDE DEF s, t
  <2> QED BY <2>1, <2>2, <2>3
<1> HIDE DEF s, t, S
<1>5. Append(s, y) = t
  BY <1>2, <1>3, <1>4, SeqEqual
<1> QED BY <1>5 DEF s, t

LEMMA Append4 == ASSUME NEW a, NEW b, NEW c, NEW x, NEW y PROVE Append(<<a, b, c, x>>, y) = <<a, b, c, x, y>>
<1> DEFINE S == {a, b, c, x, y}
           s == <<a, b, c, x>>
           t == <<a, b, c, x, y>>
<1>1. s \in Seq(S) /\ Len(s) = 4 /\ y \in S
  OBVIOUS
<1>2. t \in Seq(S) /\ Len(t) = 5
  OBVIOUS
<1>3. Append(s, y) \in Seq(S) /\ Len(Append(s, y)) = 5
  BY <1>1, AppendProperties
<1>4. \A i \in 1..5 : Append(s, y)[i] = t[i]
  <2>1. Append(s, y)[5] = y /\ \A i \in 1..4 : Append(s, y)[i] = s[i]
    BY <1>1, AppendProperties
  <2>2. t[5] = y /\ \A i \in 1..4 : t[i] = s[i]
    OBVIOUS
  <2>3. \A i \in 1..5 : i \in 1..4 \/ i = 5
    OBVIOUS
  <2> HIDE DEF s, t
  <2> QED BY <2>1, <2>2, <2>3
<1> HIDE DEF s, t, S
<1>5. Append(s, y) = t
  BY <1>2, <1>3, <1>4, SeqEqual
<1> QED BY <1>5 DEF s, t

LEMMA Append5 == ASSUME NEW a, NEW b, NEW c, NEW x, NEW z, NEW y PROVE Append(<<a, b, c, x, z>>, y) = <<a, b, c, x, z, y>>
<1> DEFINE S == {a, b, c, x, z, y}
           s == <<a, b, c, x, z>>
           t == <<a, b, c, x, z, y>>
<1>1. s \in Seq(S) /\ Len(s) = 5 /\ y \in S
  OBVIOUS
<1>2. t \in Seq(S) /\ Len(t) = 6
  OBVIOUS
<1>3. Append(s, y) \in Seq(S) /\ Len(Append(s, y)) = 6
  BY <1>1, AppendProperties
<1>4. \A i \in 1..6 : Append(s, y)[i] = t[i]
  <2>1. Append(s, y)[6] = y /\ \A i \in 1..5 : Append(s, y)[i] = s[i]
    BY <1>1, AppendProperties
  <2>2. t[6] = y /\ \A i \in 1..5 : t[i] = s[i]
    OBVIOUS
  <2>3. \A i \in 1..6 : i \in 1..5 \/ i = 6
    OBVIOUS
  <2> HIDE DEF s, t
  <2> QED BY <2>1, <2>2, <2>3
<1> HIDE DEF s, t, S
<1>5. Append(s, y) = t
  BY <1>2, <1>3, <1>4, SeqEqual
<1> QED BY <1>5 DEF s, t

\* The eight shapes of a key.  A lower and an upper bound that stand alone
\* make a key of the same shape.
LEMMA KeyShapes ==
    ASSUME NEW q
    PROVE  LET d == q.device  k == q.limit  t == q.rtype
               f == Unix(q.from)  u == Unix(q.to)
           IN  /\ q.rtype = NoType /\ q.from = NoTime /\ q.to = NoTime
                     => CacheKey(q) = <<"readings", d, k>>
               /\ q.rtype # NoType /\ q.from = NoTime /\ q.to = NoTime
                     => CacheKey(q) = <<"readings", d, k, t>>
               /\ q.rtype = NoType /\ q.from # NoTime /\ q.to = NoTime
                     => CacheKey(q) = <<"readings", d, k, f>>
               /\ q.rtype = NoType /\ q.from = NoTime /\ q.to # NoTime
                     => CacheKey(q) = <<"readings", d, k, u>>
               /\ q.rtype # NoType /\ q.from # NoTime /\ q.to = NoTime
                     => CacheKey(q) = <<"readings", d, k, t, f>>
               /\ q.rtype # NoType /\ q.from = NoTime /\ q.to # NoTime
                     => CacheKey(q) = <<"readings", d, k, t, u>>
               /\ q.rtype = NoType /\ q.from # NoTime /\ q.to # NoTime
                     => CacheKey(q) = <<"readings", d, k, f, u>>
               /\ q.rtype # NoType /\ q.from # NoTime /\ q.to # NoTime
                     => CacheKey(q) = <<"readings", d, k, t, f, u>>
<1> DEFINE d == q.device
           k == q.limit
           t == q.rtype
           f == Unix(q.from)
           u == Unix(q.to)
           base == <<"readings", d, k>>
<1>1. CacheKey(q) = AddSegment(AddSegment(AddSegment(base, q.rtype # NoType, t),
                                          q.from # NoTime, f), q.to # NoTime, u)
  BY DEF CacheKey
<1>2. /\ Append(base, t) = <<"readings", d, k, t>> /\ Append(base, f) = <<"readings", d, k, f>>
      /\ Append(base, u) = <<"readings", d, k, u>>
  BY Append3
<1>3. /\ Append(<<"readings", d, k, t>>, f) = <<"readings", d, k, t, f>>
      /\ Append(<<"readings", d, k, t>>, u) = <<"readings", d, k, t, u>>
      /\ Append(<<"readings", d, k, f>>, u) = <<"readings", d, k, f, u>>
  BY Append4
<1>4. Append(<<"readings", d, k, t, f>>, u) = <<"readings", d, k, t, f, u>>
  BY Append5
<1> HIDE DEF base, d, k, t, f, u
<1> QED BY <1>1, <1>2, <1>3, <1>4 DEF AddSegment, base, d, k, t, f, u

\* What a key keeps of the time range: how many bounds there are and the second
\* each of them falls in, but not which of the two a lone one is.
BoundSegments(q) ==
    IF q.from # NoTime
    THEN IF q.to # NoTime THEN <<Unix(q.from), Unix(q.to)>> ELSE <<Unix(q.from)>>
    ELSE IF q.to # NoTime THEN <<Unix(q.to)>> ELSE << >>

\* The same shapes, by what a key keeps.
LEMMA UntypedKeys ==
    ASSUME NEW q, q.rtype = NoType
    PROVE  LET d == q.device  k == q.limit  b == BoundSegments(q)
           IN  \/ b = << >> /\ CacheKey(q) = <<"readings", d, k>>
               \/ \E x : b = <<x>> /\ CacheKey(q) = <<"readings", d, k, x>>
               \/ \E x, y : b = <<x, y>> /\ CacheKey(q) = <<"readings", d, k, x, y>>
<1>1. CASE q.from # NoTime /\ q.to # NoTime
  <2>1. CacheKey(q) = <<"readings", q.device, q.limit, Unix(q.from), Unix(q.to)>>
    BY <1>1, KeyShapes
  <2>2. BoundSegments(q) = <<Unix(q.from), Unix(q.to)>>
    BY <1>1 DEF BoundSegments
  <2> QED BY <2>1, <2>2
<1>2. CASE q.from # NoTime /\ q.to = NoTime
  <2>1. CacheKey(q) = <<"readings", q.device, q.limit, Unix(q.from)>>
    BY <1>2, KeyShapes
  <2>2. BoundSegments(q) = <<Unix(q.from)>>
    BY <1>2 DEF BoundSegments
  <2> QED BY <2>1, <2>2
<1>3. CASE q.from = NoTime /\ q.to # NoTime
  <2>1. CacheKey(q) = <<"readings", q.device, q.limit, Unix(q.to)>>
    BY <1>3, KeyShapes
  <2>2. BoundSegments(q) = <<Unix(q.to)>>
    BY <1>3 DEF BoundSegments
  <2> QED BY <2>1, <2>2
<1>4. CASE q.from = NoTime /\ q.to = NoTime
  BY <1>4, KeyShapes DEF BoundSegments
<1> QED BY <1>1, <1>2, <1>3, <1>4

LEMMA TypedKeys ==
    ASSUME NEW q, q.rtype # NoType
    PROVE  LET d == q.device  k == q.limit  t == q.rtype  b == BoundSegments(q)
           IN  \/ b = << >> /\ CacheKey(q) = <<"readings", d, k, t>>
               \/ \E x : b = <<x>> /\ CacheKey(q) = <<"readings", d, k, t, x>>
               \/ \E x, y : b = <<x, y>> /\ CacheKey(q) = <<"readings", d, k, t, x, y>>
<1>1. CASE q.from # NoTime /\ q.to # NoTime
  <2>1. CacheKey(q) = <<"readings", q.device, q.limit, q.rtype, Unix(q.from), Unix(q.to)>>
    BY <1>1, KeyShapes
  <2>2. BoundSegments(q) = <<Unix(q.from), Unix(q.to)>>
    BY <1>1 DEF BoundSegments
  <2> QED BY <2>1, <2>2
<1>2. CASE q.from # NoTime /\ q.to = NoTime
  <2>1. CacheKey(q) = <<"readings", q.device, q.limit, q.rtype, Unix(q.from)>>
    BY <1>2, KeyShapes
  <2>2. BoundSegments(q) = <<Unix(q.from)>>
    BY <1>2 DEF BoundSegments
  <2> QED BY <2>1, <2>2
<1>3. CASE q.from = NoTime /\ q.to # NoTime
  <2>1. CacheKey(q) = <<"readings", q.device, q.limit, q.rtype, Unix(q.to)>>
    BY <1>3, KeyShapes
  <2>2. BoundSegments(q) = <<Unix(q.to)>>
    BY <1>3 DEF BoundSegments
  <2> QED BY <2>1, <2>2
<1>4. CASE q.from = NoTime /\ q.to = NoTime
  BY <1>4, KeyShapes DEF BoundSegments
<1> QED BY <1>1, <1>2, <1>3, <1>4

\* On whole seconds Unix loses nothing.
LEMMA UnixExact ==
    ASSUME NEW a \in Nat, NEW b \in Nat, WholeSecond(a), WholeSecond(b), Unix(a) = Unix(b)
    PROVE  a = b
<1>1. a = SubSec * (a \div SubSec) + (a % SubSec) /\ b = SubSec * (b \div SubSec) + (b % SubSec)
  BY SubSecAssumption
<1> QED BY <1>1 DEF WholeSecond, Unix

LEMMA UnixIsInt == \A t \in Int : Unix(t) \in Int
BY SubSecAssumption DEF Unix

\* Keys of devices and keys of rows are apart.
LEMMA KindsApart ==
    ASSUME NEW a, NEW b, DeviceRequest(a), IdRequest(b)
    PROVE  Key(a) # Key(b)
<1>1. a.kind = "readings" /\ b.kind = "id"
  BY DEF DeviceRequest, IdRequest
<1>2. Key(b) = <<"id", b.id>> /\ Key(a) = CacheKey(a)
  BY <1>1 DEF Key, PkCacheKey
<1>3. CacheKey(a)[1] = "readings"
  BY KeyShapes
<1> QED BY <1>2, <1>3

TimesOrNone(q) == q.from \in Int \cup {NoTime} /\ q.to \in Int \cup {NoTime}

\* A key with a reading type that is no number differs from any without one,
\* and from any with one that is a number.
LEMMA TypeTold ==
    ASSUME NEW r, NEW s, TimesOrNone(s), r.rtype \notin Int, r.rtype # NoType,
           s.rtype \in Int \cup {NoType}
    PROVE  CacheKey(r) # CacheKey(s)
<1> DEFINE c == BoundSegments(s)
<1>1. /\ \A x : c = <<x>> => x \in Int
      /\ \A x, y : c = <<x, y>> => x \in Int
  <2>1. /\ s.from # NoTime => Unix(s.from) \in Int
        /\ s.to # NoTime => Unix(s.to) \in Int
    BY UnixIsInt DEF TimesOrNone
  <2>2. c = << >> \/ (\E x \in Int : c = <<x>>) \/ (\E x, y \in Int : c = <<x, y>>)
    BY <2>1 DEF BoundSegments
  <2> HIDE DEF c
  <2> QED BY <2>2
<1>2. CacheKey(r)[4] = r.rtype /\ Len(CacheKey(r)) >= 4
  BY TypedKeys
<1>3. Len(CacheKey(s)) = 3 \/ CacheKey(s)[4] \in Int
  <2>1. CASE s.rtype = NoType
    <3>1. \/ CacheKey(s) = <<"readings", s.device, s.limit>>
          \/ \E x : c = <<x>> /\ CacheKey(s) = <<"readings", s.device, s.limit, x>>
          \/ \E x, y : c = <<x, y>> /\ CacheKey(s) = <<"readings", s.device, s.limit, x, y>>
      BY <2>1, UntypedKeys
    <3> HIDE DEF c
    <3> QED BY <1>1, <3>1
  <2>2. CASE s.rtype # NoType
    BY <2>2, TypedKeys
  <2> QED BY <2>1, <2>2
<1> QED BY <1>2, <1>3

\* With the reading types alike in kind, keys are equal segment by segment.
LEMMA SegmentsTold ==
    ASSUME NEW r, NEW s, r.rtype = NoType <=> s.rtype = NoType
    PROVE  CacheKey(r) = CacheKey(s) <=>
               /\ r.device = s.device /\ r.limit = s.limit /\ r.rtype = s.rtype
               /\ BoundSegments(r) = BoundSegments(s)
<1> DEFINE b == BoundSegments(r)
           c == BoundSegments(s)
<1>1. CASE r.rtype = NoType /\ s.rtype = NoType
  <2>1. \/ b = << >> /\ CacheKey(r) = <<"readings", r.device, r.limit>>
        \/ \E x : b = <<x>> /\ CacheKey(r) = <<"readings", r.device, r.limit, x>>
        \/ \E x, y : b = <<x, y>> /\ CacheKey(r) = <<"readings", r.device, r.limit, x, y>>
    BY <1>1, UntypedKeys
  <2>2. \/ c = << >> /\ CacheKey(s) = <<"readings", s.device, s.limit>>
        \/ \E x : c = <<x>> /\ CacheKey(s) = <<"readings", s.device, s.limit, x>>
        \/ \E x, y : c = <<x, y>> /\ CacheKey(s) = <<"readings", s.device, s.limit, x, y>>
    BY <1>1, UntypedKeys
  <2> HIDE DEF b, c
  <2>3. CacheKey(r) = CacheKey(s) =>
            r.device = s.device /\ r.limit = s.limit /\ b = c
    BY <2>1, <2>2
  <2>4. r.device = s.device /\ r.limit = s.limit /\ b = c => CacheKey(r) = CacheKey(s)
    BY <2>1, <2>2
  <2> QED BY <1>1, <2>3, <2>4 DEF b, c
<1>2. CASE r.rtype # NoType /\ s.rtype # NoType
  <2>1. \A q : q.rtype # NoType =>
            LET K == CacheKey(q)  m == BoundSegments(q)
            IN  /\ K[2] = q.device /\ K[3] = q.limit /\ K[4] = q.rtype
                /\ \/ m = << >> /\ Len(K) = 4
                   \/ m = <<K[5]>> /\ Len(K) = 5
                   \/ m = <<K[5], K[6]>> /\ Len(K) = 6
    BY TypedKeys
  <2>2. CacheKey(r) = CacheKey(s) =>
            r.device = s.device /\ r.limit = s.limit /\ r.rtype = s.rtype /\ b = c
    BY <1>2, <2>1
  <2>3. ASSUME r.device = s.device, r.limit = s.limit, r.rtype = s.rtype, b = c
        PROVE  CacheKey(r) = CacheKey(s)
    <3> DEFINE d == r.device  k == r.limit  t == r.rtype
    <3>1. \/ b = << >> /\ CacheKey(r) = <<"readings", d, k, t>>
          \/ Len(b) = 1 /\ CacheKey(r) = <<"readings", d, k, t, b[1]>>
          \/ Len(b) = 2 /\ CacheKey(r) = <<"readings", d, k, t, b[1], b[2]>>
      BY <1>2, TypedKeys
    <3>2. \/ b = << >> /\ CacheKey(s) = <<"readings", d, k, t>>
          \/ Len(b) = 1 /\ CacheKey(s) = <<"readings", d, k, t, b[1]>>
          \/ Len(b) = 2 /\ CacheKey(s) = <<"readings", d, k, t, b[1], b[2]>>
      BY <1>2, <2>3, TypedKeys
    <3>3. Len(<< >>) = 0
      OBVIOUS
    <3> HIDE DEF b, d, k, t
    <3> QED BY <3>1, <3>2, <3>3
  <2> QED BY <2>2, <2>3
<1> QED BY <1>1, <1>2

(***************************************************************************)
(* Exactly which requests share a key, when no reading type is a number:   *)
(* those for the same device, limit and type whose time ranges have as     *)
(* many bounds, in the same seconds.  So `from` and `to` are mistaken for  *)
(* each other when one stands alone, and times within one second always.   *)
(***************************************************************************)
THEOREM CollidingKeys ==
    ASSUME NEW r, NEW s, DeviceRequest(r), DeviceRequest(s), TimesOrNone(r), TimesOrNone(s),
           r.rtype \notin Int, s.rtype \notin Int
    PROVE  Key(r) = Key(s) <=>
               /\ r.device = s.device /\ r.limit = s.limit /\ r.rtype = s.rtype
               /\ BoundSegments(r) = BoundSegments(s)
<1>1. Key(r) = CacheKey(r) /\ Key(s) = CacheKey(s)
  BY DEF DeviceRequest, Key
<1>2. CASE r.rtype = NoType <=> s.rtype = NoType
  BY <1>1, <1>2, SegmentsTold
<1>3. CASE r.rtype # NoType /\ s.rtype = NoType
  BY <1>1, <1>3, TypeTold
<1>4. CASE r.rtype = NoType /\ s.rtype # NoType
  <2>1. CacheKey(s) # CacheKey(r)
    BY <1>4, TypeTold
  <2> QED BY <1>1, <1>4, <2>1
<1> QED BY <1>2, <1>3, <1>4

(***************************************************************************)
(* Requests without a digits-only reading type, without a lone upper bound *)
(* and with bounds on whole seconds have the same Redis key only if they   *)
(* are the same request: nobody is ever served another request's entry.    *)
(***************************************************************************)
THEOREM DistinctKeys ==
    ASSUME NEW r, NEW s, DeviceRequest(r) \/ IdRequest(r), DeviceRequest(s) \/ IdRequest(s),
           Distinguishable(r), Distinguishable(s), Key(r) = Key(s)
    PROVE  r = s
<1>1. CASE IdRequest(r) /\ IdRequest(s)
  BY <1>1 DEF IdRequest, Key, PkCacheKey
<1>2. CASE DeviceRequest(r) /\ DeviceRequest(s)
  <2>1. r.kind # "id" /\ s.kind # "id"
    BY <1>2 DEF DeviceRequest
  <2>2. /\ r.rtype \notin Int /\ s.rtype \notin Int
        /\ r.from # NoTime => r.from \in Nat /\ WholeSecond(r.from)
        /\ s.from # NoTime => s.from \in Nat /\ WholeSecond(s.from)
        /\ r.to # NoTime => r.to \in Nat /\ WholeSecond(r.to) /\ r.from # NoTime
        /\ s.to # NoTime => s.to \in Nat /\ WholeSecond(s.to) /\ s.from # NoTime
    BY <2>1 DEF Distinguishable
  <2>3. TimesOrNone(r) /\ TimesOrNone(s)
    BY <2>2 DEF TimesOrNone
  <2>4. /\ r.device = s.device /\ r.limit = s.limit /\ r.rtype = s.rtype
        /\ BoundSegments(r) = BoundSegments(s)
    BY <1>2, <2>2, <2>3, CollidingKeys
  <2>5. /\ r.from = NoTime <=> s.from = NoTime
        /\ r.to = NoTime <=> s.to = NoTime
        /\ r.from # NoTime => Unix(r.from) = Unix(s.from)
        /\ r.to # NoTime => Unix(r.to) = Unix(s.to)
    BY <2>2, <2>4 DEF BoundSegments
  <2>6. r.from = s.from /\ r.to = s.to
    BY <2>2, <2>5, UnixExact
  <2> QED BY <1>2, <2>4, <2>6 DEF DeviceRequest
<1> QED BY <1>1, <1>2, KindsApart

(***************************************************************************)
(* A request without a time range, its reading type not a number, has a    *)
(* key no other request has, whatever the others ask.                      *)
(***************************************************************************)
THEOREM RangelessKeys ==
    ASSUME NEW r, NEW s, DeviceRequest(r), Rangeless(r), DeviceRequest(s) \/ IdRequest(s),
           s.kind # "id" => TimesOrNone(s), Key(r) = Key(s)
    PROVE  r = s
<1>1. r.kind = "readings" /\ r.from = NoTime /\ r.to = NoTime /\ r.rtype \notin Int
  BY DEF Rangeless, DeviceRequest
<1>2. DeviceRequest(s) /\ s.kind = "readings"
  BY KindsApart DEF DeviceRequest
<1>3. CacheKey(r) = CacheKey(s) /\ TimesOrNone(s) /\ TimesOrNone(r)
  BY <1>1, <1>2 DEF Key, TimesOrNone
<1>4. CASE s.rtype \in Int
  <2>1. CASE r.rtype # NoType
    BY <1>1, <1>3, <1>4, <2>1, TypeTold
  <2>2. CASE r.rtype = NoType
    <3>1. CacheKey(r) = <<"readings", r.device, r.limit>>
      BY <1>1, <2>2, KeyShapes
    <3>2. \/ CacheKey(s) = <<"readings", s.device, s.limit, s.rtype>>
          \/ \E x : CacheKey(s) = <<"readings", s.device, s.limit, s.rtype, x>>
          \/ \E x, y : CacheKey(s) = <<"readings", s.device, s.limit, s.rtype, x, y>>
      <4>1. s.rtype # NoType
        BY <1>1, <1>4, <2>2
      <4> QED BY <4>1, TypedKeys
    <3> QED BY <1>3, <3>1, <3>2
  <2> QED BY <2>1, <2>2
<1>5. CASE s.rtype \notin Int
  <2>1. /\ r.device = s.device /\ r.limit = s.limit /\ r.rtype = s.rtype
        /\ BoundSegments(r) = BoundSegments(s)
    BY <1>1, <1>2, <1>3, <1>5, CollidingKeys
  <2>2. s.from = NoTime /\ s.to = NoTime
    BY <1>1, <2>1 DEF BoundSegments
  <2> QED BY <1>1, <1>2, <2>1, <2>2 DEF DeviceRequest
<1> QED BY <1>4, <1>5
=============================================================================
