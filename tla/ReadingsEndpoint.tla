-------------------------- MODULE ReadingsEndpoint --------------------------
(***************************************************************************)
(* GET /api/v1/sensor-readings from the query string to the HTTP answer:   *)
(* SensorHandler.GetSensorReadings (internal/handler/sensor_handler.go)    *)
(* parses and checks the parameters, calls the service (SensorService),    *)
(* and turns what it returns into a status and a body.                     *)
(*                                                                         *)
(* A parameter is a text, told by what Go's parsers make of it: "empty"    *)
(* (or not given), "exact" (all of it is a number, or an RFC 3339 time, of *)
(* this value), "prefix" (a number with something after it), or "bad"      *)
(* (anything else, a number out of range of the integer type included).    *)
(***************************************************************************)
EXTENDS SensorService

CONSTANTS Queries,       \* the query strings clients send
          NoQuery

VARIABLES query,         \* what each goroutine's client asked, or NoQuery
          http           \* and was answered: [code, cache, rows]

endpointVars == <<vars, query, http>>

-----------------------------------------------------------------------------
(* The query string: [id, device, limit, rtype, from, to], device and rtype *)
(* as the service gets them, the others texts.                              *)

Absent == [form |-> "empty", value |-> 0]
Exact(n) == [form |-> "exact", value |-> n]
Prefix(n) == [form |-> "prefix", value |-> n]
Bad == [form |-> "bad", value |-> 0]

Given(text) == text.form # "empty"

\* strconv.ParseInt takes the whole text, time.Parse as well.
Parses(text) == text.form = "exact"

\* fmt.Sscanf("%d") stops after the number; whatever it cannot scan is the default.
IntOrDefault(text, default) ==
    IF text.form \in {"exact", "prefix"} THEN text.value ELSE default

Limit(x) == IntOrDefault(x.limit, 10)
Time(text) == IF Given(text) THEN text.value ELSE NoTime

OneOf(x) == Given(x.id) # (x.device # NoDevice)
TimeAccepted(text) == Given(text) => Parses(text)
NotReversed(x) == Given(x.from) /\ Given(x.to) => x.from.value <= x.to.value

\* Every check before the call of the service; each refusal is the same 400.
Accepted(x) ==
    /\ OneOf(x)
    /\ Given(x.id) => Parses(x.id) /\ x.id.value >= 1
    /\ ~Given(x.id) => /\ Limit(x) \in 1..500
                       /\ TimeAccepted(x.from) /\ TimeAccepted(x.to)
                       /\ NotReversed(x)

\* (mutant) The upper bound is parsed and not passed on.
ParsedUnbounded(x) ==
    IF Given(x.id) THEN [kind |-> "id", id |-> x.id.value]
    ELSE [kind |-> "readings", device |-> x.device, limit |-> Limit(x), rtype |-> x.rtype,
          from |-> Time(x.from), to |-> NoTime]

\* The call of the service.
Parsed(x) ==
    IF Given(x.id) THEN [kind |-> "id", id |-> x.id.value]
    ELSE [kind |-> "readings", device |-> x.device, limit |-> Limit(x), rtype |-> x.rtype,
          from |-> Time(x.from), to |-> Time(x.to)]

Text == [form : {"empty", "exact", "prefix", "bad"}, value : Int]

ASSUME EndpointAssumption ==
    /\ NoQuery \notin Queries /\ NoTime \notin Int
    /\ \A x \in Queries : /\ {x.id, x.limit, x.from, x.to} \subseteq Text
                          /\ Accepted(x) => Parsed(x) \in Requests

-----------------------------------------------------------------------------
NoHttp == [code |-> 0, cache |-> "", rows |-> {}]
BadRequest == [code |-> 400, cache |-> "", rows |-> {}]

\* writeResponse and handleServiceError.
Code(status) ==
    CASE status = "OK" -> 200
      [] status = "INVALID_PARAMETER" -> 400
      [] status \in {"DEVICE_NOT_FOUND", "READING_NOT_FOUND"} -> 404
      [] OTHER -> 500

EndpointInit ==
    /\ Init
    /\ query = [p \in Proc |-> NoQuery]
    /\ http = [p \in Proc |-> NoHttp]

Get(p, x) ==
    /\ query[p] = NoQuery
    /\ query' = [query EXCEPT ![p] = x]
    /\ \/ Accepted(x) /\ Receive(p, Parsed(x)) /\ UNCHANGED http
       \/ ~Accepted(x) /\ http' = [http EXCEPT ![p] = BadRequest] /\ UNCHANGED vars

\* The service returns, and the handler answers.
Reply(p) ==
    /\ http' = [http EXCEPT ![p] = [code |-> Code(out[p].status), cache |-> out[p].cache,
                                    rows |-> out[p].rows]]
    /\ Collect(p)
    /\ UNCHANGED query

\* The client has its answer; the goroutine ends.
Leave(p) ==
    /\ http[p] # NoHttp
    /\ query' = [query EXCEPT ![p] = NoQuery]
    /\ http' = [http EXCEPT ![p] = NoHttp]
    /\ UNCHANGED vars

EndpointRestart ==
    /\ Restart
    /\ query' = [p \in Proc |-> NoQuery]
    /\ http' = [p \in Proc |-> NoHttp]

Surroundings ==
    \/ \E w \in wire : Deliver(w) \/ Lose(w)
    \/ \E k \in Keys : Evict(k)
    \/ \E row \in RowPool : Commit(row)
    \/ Tick

Handle(p) == Step(p) /\ UNCHANGED <<query, http>>

EndpointNext ==
    \/ \E p \in Proc : Handle(p) \/ Reply(p) \/ Leave(p) \/ \E x \in Queries : Get(p, x)
    \/ Surroundings /\ UNCHANGED <<query, http>>
    \/ EndpointRestart

\* The Go scheduler runs every goroutine that can move, and every call it makes
\* returns: all of them have timeouts.
EndpointSpec ==
    /\ EndpointInit /\ [][EndpointNext]_endpointVars
    /\ \A p \in Proc : WF_endpointVars(Handle(p) \/ Reply(p))

-----------------------------------------------------------------------------
(* The rules README.md ("Validation Rules") and docs/api-spec.md give for   *)
(* the parameters; an invalid one is to be answered 400.                    *)

RulesButLimit(x) ==
    /\ OneOf(x)
    /\ Given(x.id) => x.id.form = "exact" /\ x.id.value > 0
    /\ ~Given(x.id) => /\ x.device \in DeviceIDs
                       /\ x.rtype \in ReadingTypes \cup {NoType}
                       /\ {x.from.form, x.to.form} \subseteq {"empty", "exact"}
                       /\ x.from.form = "exact" /\ x.to.form = "exact" =>
                             x.to.value >= x.from.value

Documented(x) ==
    /\ RulesButLimit(x)
    /\ ~Given(x.id) /\ Given(x.limit) => x.limit.form = "exact" /\ x.limit.value \in 1..500

\* Nothing is wrong but a limit that is no integer, and it begins with none out
\* of range: the handler makes one of it.
LimitMisread(x) ==
    /\ RulesButLimit(x)
    /\ ~Given(x.id)
    /\ x.limit.form \in {"prefix", "bad"}
    /\ x.limit.form = "prefix" => x.limit.value \in 1..500

Answers(x, h) ==
    IF Given(x.id) THEN \A row \in h.rows : row.id = x.id.value
    ELSE /\ Cardinality(h.rows) <= (IF x.limit.form \in {"empty", "bad"} THEN 10 ELSE x.limit.value)
         /\ \A row \in h.rows :
               /\ row.device = x.device
               /\ h.cache = "MISS" =>
                     /\ x.rtype # NoType => row.rtype = x.rtype
                     /\ Given(x.from) => row.ts >= x.from.value
                     /\ Given(x.to) => row.ts <= x.to.value

(***************************************************************************)
(* Handler and service between them answer 400 only to what breaks a rule, *)
(* and to all that does but a misread limit, for which the documents want  *)
(* a 400 and parseIntOrDefault finds a number.                             *)
(* The rows of a 200 answer the question: one row of this id, or no more   *)
(* than the limit, all of the device.  Type and time range are promised of *)
(* a MISS only: entries of Redis can be those of a request with other      *)
(* filters (KeptUpToKey, RangelessRowsMatch, OnlyMatchingRows).            *)
(***************************************************************************)
AnsweredAsDocumented ==
    \A p \in Proc : http[p] # NoHttp =>
        /\ http[p].code = 400 => ~Documented(query[p])
        /\ ~Documented(query[p]) => http[p].code = 400 \/ LimitMisread(query[p])
        /\ http[p].code = 200 => Answers(query[p], http[p])

(***************************************************************************)
(* Every question is answered, whatever Redis and PostgreSQL do, unless    *)
(* the process restarts under it.                                          *)
(***************************************************************************)
Asked(p) == query[p] # NoQuery /\ http[p] = NoHttp
Answered == \A p \in Proc : Asked(p) ~> ~Asked(p)

=============================================================================
