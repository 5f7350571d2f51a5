-------------------------- MODULE SensorRepository --------------------------
(***************************************************************************)
(* internal/repository/sensor_repo.go: how SensorRepository.Query builds   *)
(* its SQL text and argument list, what PostgreSQL makes of the two, and   *)
(* GetByID.                                                                *)
(*                                                                         *)
(* A row is [id, device, ts, rtype]; value, unit and metadata never decide *)
(* anything and are left out.  A device query is                           *)
(* [kind |-> "readings", device, limit, rtype, from, to]; a primary-key    *)
(* lookup is [kind |-> "id", id].  Times are naturals, in fractions of a   *)
(* second.  The empty string of the code is NoDevice / NoType and the nil  *)
(* *time.Time is NoTime.                                                   *)
(***************************************************************************)
EXTENDS Integers, Sequences, FiniteSets

CONSTANTS NoDevice, NoType, NoTime

-----------------------------------------------------------------------------
(* The SQL builder: a list of conditions, each naming a column, an operator *)
(* and the placeholder $n of its value, beside the argument list.           *)

EmptyQuery == [where |-> << >>, args |-> << >>, argIdx |-> 1]

\* One "if <present> { baseQuery += ...$argIdx; args = append(...); argIdx++ }"
AddCond(b, present, col, op, val) ==
    IF present
    THEN [where  |-> Append(b.where, [col |-> col, op |-> op, ph |-> b.argIdx]),
          args   |-> Append(b.args, val),
          argIdx |-> b.argIdx + 1]
    ELSE b

WithDevice(q) == AddCond(EmptyQuery, q.device # NoDevice, "device", "=", q.device)
WithFrom(q)   == AddCond(WithDevice(q), q.from # NoTime, "ts", ">=", q.from)

\* (mutant) The block of `from`, copied and not adapted.
WithToCopied(q) == AddCond(WithFrom(q), q.to # NoTime, "ts", ">=", q.to)

WithTo(q)     == AddCond(WithFrom(q), q.to # NoTime, "ts", "<=", q.to)
WithType(q)   == AddCond(WithTo(q), q.rtype # NoType, "rtype", "=", q.rtype)

\* The finished statement: ORDER BY timestamp DESC LIMIT $argIdx.
BuildQuery(q) ==
    LET b == WithType(q)
    IN  [where |-> b.where, args |-> Append(b.args, q.limit), limitPh |-> b.argIdx]

-----------------------------------------------------------------------------
(* What PostgreSQL answers.                                                 *)

Compares(row, col, op, val) ==
    \/ op = "="  /\ row[col] = val
    \/ op = ">=" /\ row[col] >= val
    \/ op = "<=" /\ row[col] <= val

Satisfies(row, c, args) == Compares(row, c.col, c.op, args[c.ph])

Selected(sql, rows) ==
    {row \in rows : \A i \in DOMAIN sql.where : Satisfies(row, sql.where[i], sql.args)}

\* ORDER BY timestamp DESC LIMIT k.  The order of rows with equal timestamps
\* is not defined, so which of them the limit cuts off is not either.
Newest(k, rows) ==
    {top \in SUBSET rows :
        /\ \/ Cardinality(top) = k
           \/ top = rows /\ Cardinality(rows) < k
        /\ \A r \in top, s \in rows \ top : r.ts >= s.ts}

\* Every result Query can return on a table holding exactly `rows`.
Query(q, rows) ==
    LET sql == BuildQuery(q)
    IN  Newest(sql.args[sql.limitPh], Selected(sql, rows))

\* GetByID: the row, or nil when there is none (pgx.ErrNoRows).
GetByID(id, rows) == {row \in rows : row.id = id}

-----------------------------------------------------------------------------
(* What a caller means by a device query, independent of how the SQL is put *)
(* together: the reference BuildQuery is compared with.                     *)

Matches(row, q) ==
    /\ q.device # NoDevice => row.device = q.device
    /\ q.rtype # NoType => row.rtype = q.rtype
    /\ q.from # NoTime => row.ts >= q.from
    /\ q.to # NoTime => row.ts <= q.to

Matching(q, rows) == {row \in rows : Matches(row, q)}
=============================================================================
