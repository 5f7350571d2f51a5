----------------------- MODULE SensorRepositoryProofs -----------------------
(***************************************************************************)
(* The SQL that Query builds means what its caller asked for, whichever of *)
(* the optional filters are present.                                       *)
(***************************************************************************)
EXTENDS SensorRepository, SequenceTheorems, TLAPS

Columns == {"device", "ts", "rtype"}
Operators == {"=", ">=", "<="}
Cond == [col : Columns, op : Operators, ph : Nat]

\* A builder whose argument values come from V: every condition has a
\* placeholder that an argument stands behind, and argIdx is the next free one.
Builder(b, V) ==
    /\ b.where \in Seq(Cond) /\ b.args \in Seq(V)
    /\ b.argIdx = Len(b.args) + 1
    /\ \A i \in 1..Len(b.where) : b.where[i].ph \in 1..Len(b.args)

Meets(row, b) == \A i \in 1..Len(b.where) : Satisfies(row, b.where[i], b.args)

LEMMA EmptyBuilder ==
    ASSUME NEW V
    PROVE  Builder(EmptyQuery, V) /\ \A row : Meets(row, EmptyQuery)
BY DEF Builder, Meets, EmptyQuery, Cond

\* Adding an argument does not change what the earlier placeholders stand for.
LEMMA ArgsExtend ==
    ASSUME NEW V, NEW b, Builder(b, V), NEW val \in V, NEW row, NEW i \in 1..Len(b.where)
    PROVE  Satisfies(row, b.where[i], Append(b.args, val))
               <=> Satisfies(row, b.where[i], b.args)
<1>1. Append(b.args, val)[b.where[i].ph] = b.args[b.where[i].ph]
  BY AppendProperties DEF Builder
<1> QED BY <1>1 DEF Satisfies

\* A builder after one more condition.
Added(b, col, op, val) ==
    [where  |-> Append(b.where, [col |-> col, op |-> op, ph |-> b.argIdx]),
     args   |-> Append(b.args, val),
     argIdx |-> b.argIdx + 1]

\* A row meets the longer query when it met the shorter one and compares well
\* with the new value.
LEMMA AddedMeaning ==
    ASSUME NEW V, NEW b, Builder(b, V), NEW col \in Columns, NEW op \in Operators, NEW val \in V
    PROVE  /\ Builder(Added(b, col, op, val), V)
           /\ \A row : Meets(row, Added(b, col, op, val))
                <=> Meets(row, b) /\ Compares(row, col, op, val)
<1> DEFINE c == [col |-> col, op |-> op, ph |-> b.argIdx]
           n == Len(b.where)
           a == Append(b.args, val)
           e == Added(b, col, op, val)
<1>0. n \in Nat /\ Len(b.args) \in Nat /\ b.argIdx = Len(b.args) + 1
  BY LenProperties DEF Builder
<1>1. c \in Cond
  BY <1>0 DEF Cond
<1>2. /\ Append(b.where, c) \in Seq(Cond) /\ Len(Append(b.where, c)) = n + 1
      /\ \A i \in 1..n : Append(b.where, c)[i] = b.where[i]
      /\ Append(b.where, c)[n + 1] = c
  BY <1>1, AppendProperties DEF Builder
<1>3. a \in Seq(V) /\ Len(a) = Len(b.args) + 1 /\ a[Len(b.args) + 1] = val
  BY AppendProperties DEF Builder
<1>4. e.where = Append(b.where, c) /\ e.args = a /\ e.argIdx = b.argIdx + 1
  BY DEF Added
<1>5. \A i \in 1..(n + 1) : i \in 1..n \/ i = n + 1
  BY <1>0
<1>6. Builder(e, V)
  <2>1. \A i \in 1..n : e.where[i].ph \in 1..Len(b.args)
    BY <1>2, <1>4 DEF Builder
  <2>2. e.where[n + 1].ph = Len(b.args) + 1
    BY <1>0, <1>2, <1>4
  <2>3. \A i \in 1..Len(e.where) : e.where[i].ph \in 1..Len(a)
    BY <1>0, <1>2, <1>3, <1>4, <1>5, <2>1, <2>2
  <2> QED BY <1>0, <1>2, <1>3, <1>4, <2>3 DEF Builder
<1>7. ASSUME NEW row
      PROVE  Meets(row, e) <=> Meets(row, b) /\ Compares(row, col, op, val)
  <2>1. \A i \in 1..n : Satisfies(row, e.where[i], e.args) <=> Satisfies(row, b.where[i], b.args)
    <3> TAKE i \in 1..n
    <3>1. e.where[i] = b.where[i] /\ e.args = Append(b.args, val)
      BY <1>2, <1>4
    <3>2. Satisfies(row, b.where[i], Append(b.args, val)) <=> Satisfies(row, b.where[i], b.args)
      BY ArgsExtend
    <3> QED BY <3>1, <3>2
  <2>2. Satisfies(row, e.where[n + 1], e.args) <=> Compares(row, col, op, val)
    BY <1>0, <1>2, <1>3, <1>4 DEF Satisfies
  <2>3. n + 1 \in 1..(n + 1) /\ \A i \in 1..n : i \in 1..(n + 1)
    BY <1>0
  <2> QED BY <1>2, <1>4, <1>5, <2>1, <2>2, <2>3 DEF Meets
<1> QED BY <1>6, <1>7

(***************************************************************************)
(* For every query and every table, the rows Query can return are the      *)
(* newest `limit` of those matching the filters: each placeholder of the   *)
(* statement stands for its own argument, LIMIT's included.                *)
(***************************************************************************)
THEOREM BuildQueryCorrect ==
    ASSUME NEW q, NEW rows
    PROVE  Query(q, rows) = Newest(q.limit, Matching(q, rows))
<1> DEFINE V == {q.device, q.from, q.to, q.rtype, q.limit}
           b == WithType(q)
           sql == BuildQuery(q)
<1>0. q.device \in V /\ q.from \in V /\ q.to \in V /\ q.rtype \in V /\ q.limit \in V
  OBVIOUS
<1> HIDE DEF V
<1>1. Builder(WithDevice(q), V)
      /\ \A row : Meets(row, WithDevice(q))
           <=> (q.device # NoDevice => Compares(row, "device", "=", q.device))
  <2>1. Builder(EmptyQuery, V) /\ q.device \in V /\ "device" \in Columns /\ "=" \in Operators
    BY <1>0, EmptyBuilder DEF Columns, Operators
  <2>2. /\ Builder(Added(EmptyQuery, "device", "=", q.device), V)
        /\ \A row : Meets(row, Added(EmptyQuery, "device", "=", q.device))
             <=> Meets(row, EmptyQuery) /\ Compares(row, "device", "=", q.device)
    BY <2>1, AddedMeaning
  <2> QED BY <2>1, <2>2, EmptyBuilder DEF WithDevice, AddCond, Added
<1>2. Builder(WithFrom(q), V)
      /\ \A row : Meets(row, WithFrom(q))
           <=> Meets(row, WithDevice(q)) /\ (q.from # NoTime => Compares(row, "ts", ">=", q.from))
  <2>1. Builder(WithDevice(q), V) /\ q.from \in V /\ "ts" \in Columns /\ ">=" \in Operators
    BY <1>0, <1>1 DEF Columns, Operators
  <2>2. /\ Builder(Added(WithDevice(q), "ts", ">=", q.from), V)
        /\ \A row : Meets(row, Added(WithDevice(q), "ts", ">=", q.from))
             <=> Meets(row, WithDevice(q)) /\ Compares(row, "ts", ">=", q.from)
    BY <2>1, AddedMeaning
  <2> QED BY <2>1, <2>2, <1>1 DEF WithFrom, AddCond, Added
<1>3. Builder(WithTo(q), V)
      /\ \A row : Meets(row, WithTo(q))
           <=> Meets(row, WithFrom(q)) /\ (q.to # NoTime => Compares(row, "ts", "<=", q.to))
  <2>1. Builder(WithFrom(q), V) /\ q.to \in V /\ "ts" \in Columns /\ "<=" \in Operators
    BY <1>0, <1>2 DEF Columns, Operators
  <2>2. /\ Builder(Added(WithFrom(q), "ts", "<=", q.to), V)
        /\ \A row : Meets(row, Added(WithFrom(q), "ts", "<=", q.to))
             <=> Meets(row, WithFrom(q)) /\ Compares(row, "ts", "<=", q.to)
    BY <2>1, AddedMeaning
  <2> QED BY <2>1, <2>2, <1>2 DEF WithTo, AddCond, Added
<1>4. Builder(b, V)
      /\ \A row : Meets(row, b)
           <=> Meets(row, WithTo(q)) /\ (q.rtype # NoType => Compares(row, "rtype", "=", q.rtype))
  <2>1. Builder(WithTo(q), V) /\ q.rtype \in V /\ "rtype" \in Columns /\ "=" \in Operators
    BY <1>0, <1>3 DEF Columns, Operators
  <2>2. /\ Builder(Added(WithTo(q), "rtype", "=", q.rtype), V)
        /\ \A row : Meets(row, Added(WithTo(q), "rtype", "=", q.rtype))
             <=> Meets(row, WithTo(q)) /\ Compares(row, "rtype", "=", q.rtype)
    BY <2>1, AddedMeaning
  <2> QED BY <2>1, <2>2, <1>3 DEF WithType, AddCond, Added
<1>5. \A row : Meets(row, b) <=> Matches(row, q)
  BY <1>1, <1>2, <1>3, <1>4 DEF Matches, Compares
<1> HIDE DEF b
<1>6. sql.where = b.where /\ sql.args = Append(b.args, q.limit) /\ sql.limitPh = b.argIdx
  BY DEF BuildQuery, b
<1>7. sql.args[sql.limitPh] = q.limit
  BY <1>4, <1>6, <1>0, AppendProperties DEF Builder
<1>8. DOMAIN sql.where = 1..Len(b.where)
  BY <1>4, <1>6, LenProperties DEF Builder
<1>9. Selected(sql, rows) = Matching(q, rows)
  <2>1. ASSUME NEW row PROVE (\A i \in DOMAIN sql.where : Satisfies(row, sql.where[i], sql.args))
                               <=> Matches(row, q)
    BY <1>4, <1>5, <1>6, <1>0, <1>8, ArgsExtend DEF Meets
  <2> QED BY <2>1 DEF Selected, Matching
<1> QED BY <1>7, <1>9 DEF Query
=============================================================================
