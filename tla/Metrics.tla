------------------------------- MODULE Metrics -------------------------------
(* The counters and gauges of pkg/prometheus, and the handlers that move     *)
(* them: HandleMessage (kafkaHandler/handler.go), Middleware, GetOrderByUID  *)
(* of delivery/http/httpHandler.go and of cachedRepo.go.  A scrape collects  *)
(* the counters one by one, each at a moment of its own, so what a dashboard *)
(* divides by one another was read between different steps of the messages   *)
(* and requests under way.                                                   *)
EXTENDS Integers, FiniteSets

CONSTANTS
  Requests,   \* HTTP requests served at a time
  Scraped,    \* bound: counters whose moment is free; the others are read
              \* as the scrape starts
  MaxEvents,  \* bound: messages and requests
  Mixed,      \* bound: how many of the first of them may be messages
  MaxSpent    \* bound: seconds a message takes

ASSUME MetricsAssumption ==
  IsFiniteSet(Requests) /\ IsFiniteSet(Scraped) /\ MaxEvents \in Nat /\ Mixed \in Nat
  /\ MaxSpent \in Nat

VARIABLES
  cached,    \* the repository is a CachedRepo
  worker,    \* what the consumer's goroutine does next
  spent,     \* seconds since startTime of HandleMessage
  deferred,  \* the argument Observe is deferred with
  rpc,       \* rpc[r]: what request r does next
  status,    \* status[r]: the answer it will be given
  count,     \* the counters, by metric and label
  busy,      \* KafkaWorkersBusy
  inFlight,  \* HttpRequestsInFlight
  observed,  \* the last value of KafkaProcessingDuration
  took,      \* history: how long that message really took
  failed,    \* history: messages that ended with an error
  panics,    \* history: order requests whose handler panicked
  events,    \* messages and requests so far
  pending,   \* counters the scrape under way has still to collect
  seen,      \* the values of the last scrape
  during     \* history: requests in flight at some time of that scrape

kafkaVars == <<worker, spent, deferred, busy, observed, took, failed>>
httpVars == <<rpc, status, inFlight, panics>>
scrapeVars == <<pending, seen, during>>
metricVars == <<cached, kafkaVars, httpVars, scrapeVars, count, events>>

(* OrderStatusSuccess and so on, with the code they go with. *)
Outcome == [c \in {200, 400, 404, 500} |->
  CASE c = 200 -> "orders_success" [] c = 400 -> "orders_invalid_uid"
    [] c = 404 -> "orders_not_found" [] c = 500 -> "orders_internal_error"]
(* http_requests_total of path /order/:order_uid. *)
Answer == [c \in {200, 400, 404, 500} |->
  CASE c = 200 -> "http_200" [] c = 400 -> "http_400"
    [] c = 404 -> "http_404" [] c = 500 -> "http_500"]

Codes == DOMAIN Outcome
Counters ==
  {Outcome[c] : c \in Codes} \cup {Answer[c] : c \in Codes}
  \cup {"http_other", "cache_hit", "cache_miss", "cache_error",
        "messages_success", "messages_error_parsing", "errors_processing"}

MetricsTypeOK ==
  /\ cached \in BOOLEAN
  /\ worker \in {"idle", "parse", "create", "return"}
  /\ spent \in 0 .. MaxSpent /\ deferred \in 0 .. MaxSpent
  /\ rpc \in [Requests -> {"idle", "other", "order", "cache", "database",
                           "deferred", "unwind", "count", "leave"}]
  /\ status \in [Requests -> Codes]
  /\ count \in [Counters -> 0 .. MaxEvents]
  /\ busy \in 0 .. 1 /\ inFlight \in 0 .. Cardinality(Requests)
  /\ observed \in 0 .. MaxSpent /\ took \in 0 .. MaxSpent
  /\ failed \in 0 .. MaxEvents /\ events \in 0 .. MaxEvents
  /\ panics \in 0 .. MaxEvents
  /\ pending \subseteq Scraped
  /\ seen \in [Counters -> 0 .. MaxEvents] /\ during \in Nat

MetricsInit ==
  /\ cached \in BOOLEAN
  /\ worker = "idle" /\ spent = 0 /\ deferred = 0
  /\ rpc = [r \in Requests |-> "idle"]
  /\ status = [r \in Requests |-> 200]
  /\ count = [c \in Counters |-> 0]
  /\ busy = 0 /\ inFlight = 0
  /\ observed = 0 /\ took = 0 /\ failed = 0 /\ events = 0
  /\ panics = 0 /\ pending = {} /\ during = 0
  /\ seen = [c \in Counters |-> 0]

Inc(S) == count' = [c \in Counters |-> IF c \in S THEN count[c] + 1 ELSE count[c]]

Event == events < MaxEvents /\ events' = events + 1

---------------------------------------------------------------------------
(* HandleMessage.                                                            *)

(* Arguments of a deferred call are evaluated where it stands: Observe will  *)
(* be given the time since startTime of this moment.                         *)
Receive ==
  /\ worker = "idle" /\ Event /\ events < Mixed
  /\ worker' = "parse" /\ busy' = busy + 1
  /\ spent' = 0 /\ deferred' = spent'
  /\ UNCHANGED <<cached, httpVars, scrapeVars, count, observed, took, failed>>

TimePasses ==
  /\ worker # "idle" /\ spent < MaxSpent
  /\ spent' = spent + 1
  /\ UNCHANGED <<cached, worker, deferred, busy, observed, took, failed,
                 httpVars, scrapeVars, count, events>>

ParseOrder ==
  /\ worker = "parse"
  /\ \/ Inc({"messages_error_parsing", "errors_processing"}) /\ worker' = "return"
     \/ Inc({"messages_success"}) /\ worker' = "create"
  /\ UNCHANGED <<cached, spent, deferred, busy, observed, took, failed,
                 httpVars, scrapeVars, events>>

(* Its error is logged and returned, and not counted. *)
CreateOrder ==
  /\ worker = "create"
  /\ worker' = "return"
  /\ failed' \in {failed, failed + 1}
  /\ UNCHANGED <<cached, spent, deferred, busy, observed, took, httpVars,
                 scrapeVars, count, events>>

(* The deferred calls. *)
Return ==
  /\ worker = "return"
  /\ worker' = "idle" /\ busy' = busy - 1
  /\ observed' = deferred /\ took' = spent
  /\ UNCHANGED <<cached, spent, deferred, failed, httpVars, scrapeVars, count,
                 events>>

---------------------------------------------------------------------------
(* An HTTP request, of /order/:order_uid or of another route.                *)

Goto(r, from, to) == rpc[r] = from /\ rpc' = [rpc EXCEPT ![r] = to]
Give(r, c) == status' = [status EXCEPT ![r] = c]

(* The handler starts from OrderStatusSuccess. *)
Enter(r) ==
  /\ \E route \in {"order", "other"} : Goto(r, "idle", route)
  /\ Event /\ inFlight' = inFlight + 1 /\ Give(r, 200)
  /\ during' = IF pending = {} THEN during ELSE during + 1
  /\ UNCHANGED <<cached, kafkaVars, panics, count, pending, seen>>

CheckUID(r) ==
  /\ \/ Goto(r, "order", "deferred") /\ Give(r, 400)
     \/ Goto(r, "order", IF cached THEN "cache" ELSE "database") /\ UNCHANGED status
  /\ UNCHANGED <<cached, kafkaVars, scrapeVars, inFlight, panics, count, events>>

(* Seeded bug: a cache that fails is not counted as a miss. *)
LookErrorOnly(r) ==
  /\ \/ Goto(r, "cache", "deferred") /\ Give(r, 200) /\ Inc({"cache_hit"})
     \/ /\ Goto(r, "cache", "database") /\ UNCHANGED status
        /\ Inc({"cache_miss"}) \/ Inc({"cache_error"})
  /\ UNCHANGED <<cached, kafkaVars, scrapeVars, inFlight, panics, events>>

(* CachedRepo.GetOrderByUID: a cache that fails is an error and a miss. *)
Look(r) ==
  /\ \/ Goto(r, "cache", "deferred") /\ Give(r, 200) /\ Inc({"cache_hit"})
     \/ /\ Goto(r, "cache", "database") /\ UNCHANGED status
        /\ Inc({"cache_miss"}) \/ Inc({"cache_miss", "cache_error"})
  /\ UNCHANGED <<cached, kafkaVars, scrapeVars, inFlight, panics, events>>

Query(r) ==
  /\ Goto(r, "database", "deferred")
  /\ \E c \in {200, 404, 500} : Give(r, c)
  /\ UNCHANGED <<cached, kafkaVars, scrapeVars, inFlight, panics, count, events>>

(* Seeded bug: the gauge is moved back after c.Next(), not in a defer. *)
PanicKeepsInFlight(r) ==
  /\ \/ Goto(r, "other", "idle") /\ UNCHANGED panics
     \/ /\ \E s \in {"order", "cache", "database"} : Goto(r, s, "unwind")
        /\ panics' = panics + 1
  /\ UNCHANGED <<cached, kafkaVars, scrapeVars, status, inFlight, count, events>>

(* Something the handler calls panics before it has an answer; gin.Recovery, *)
(* outside Middleware, answers.  What is deferred runs, what stands after    *)
(* c.Next() does not.                                                        *)
Panic(r) ==
  /\ \/ Goto(r, "other", "leave") /\ UNCHANGED panics
     \/ /\ \E s \in {"order", "cache", "database"} : Goto(r, s, "unwind")
        /\ panics' = panics + 1
  /\ UNCHANGED <<cached, kafkaVars, scrapeVars, status, inFlight, count, events>>

(* The deferred function of the handler, with the status it was left with. *)
Processed(r) ==
  /\ Goto(r, "deferred", "count") \/ Goto(r, "unwind", "leave")
  /\ Inc({Outcome[status[r]]})
  /\ UNCHANGED <<cached, kafkaVars, scrapeVars, status, inFlight, panics, events>>

(* Seeded bug: the status of the answer is read before c.Next(). *)
CountBefore(r) ==
  /\ \/ Goto(r, "count", "leave") /\ Inc({Answer[200]})
     \/ Goto(r, "other", "leave") /\ Inc({"http_other"})
  /\ UNCHANGED <<cached, kafkaVars, scrapeVars, status, inFlight, panics, events>>

(* Middleware after c.Next(). *)
CountRequest(r) ==
  /\ \/ Goto(r, "count", "leave") /\ Inc({Answer[status[r]]})
     \/ Goto(r, "other", "leave") /\ Inc({"http_other"})
  /\ UNCHANGED <<cached, kafkaVars, scrapeVars, status, inFlight, panics, events>>

Leave(r) ==
  /\ Goto(r, "leave", "idle")
  /\ inFlight' = inFlight - 1
  /\ UNCHANGED <<cached, kafkaVars, scrapeVars, status, panics, count, events>>

---------------------------------------------------------------------------
(* A scrape: Gather of the registry.                                         *)

BeginScrape ==
  /\ pending = {} /\ pending' = Scraped
  /\ seen' = count /\ during' = inFlight
  /\ UNCHANGED <<cached, kafkaVars, httpVars, count, events>>

Collect(k) ==
  /\ k \in pending /\ pending' = pending \ {k}
  /\ seen' = [seen EXCEPT ![k] = count[k]]
  /\ UNCHANGED <<cached, kafkaVars, httpVars, during, count, events>>

Scrape == BeginScrape \/ \E k \in Scraped : Collect(k)

---------------------------------------------------------------------------

HandleMessage == Receive \/ TimePasses \/ ParseOrder \/ CreateOrder \/ Return
Serve(r) ==
  Enter(r) \/ CheckUID(r) \/ Look(r) \/ Query(r) \/ Panic(r) \/ Processed(r)
  \/ CountRequest(r) \/ Leave(r)

MetricsNext == HandleMessage \/ (\E r \in Requests : Serve(r)) \/ Scrape

MetricsSpec == MetricsInit /\ [][MetricsNext]_metricVars

---------------------------------------------------------------------------
(* Properties.                                                               *)

(* The difference of two readings that were not taken together is explained  *)
(* by the requests in flight during the scrape, and by the panics so far.    *)

(* However many requests overtake one another between the readings of a      *)
(* scrape, each kind of outcome and the answer that goes with it differ by   *)
(* no more than the requests in flight while it was taken; outcomes without  *)
(* an answer are left by panics only (httpHandler.go:53, prometheus.go:148). *)
AnswersAgree ==
  pending = {} =>
    \A c \in Codes :
      seen[Outcome[c]] - seen[Answer[c]] \in - during .. during + panics

Lookups(f) == f["cache_hit"] + f["cache_miss"]
Outcomes(f) ==
  f["orders_success"] + f["orders_not_found"] + f["orders_internal_error"]

(* Nor do the hits and misses of a scrape and its lookups of orders, so that *)
(* the hit rate of the dashboard is a rate of lookups, whatever the cache    *)
(* fails with; lookups are missing for panics only (cachedRepo.go:65-82).    *)
HitRateSound ==
  pending = {} /\ cached =>
    Lookups(seen) - Outcomes(seen) \in - (during + panics) .. during

(* When nothing is under way the gauges are back at zero, on whatever path   *)
(* messages and requests ended, be it a panic (handler.go:31-32,             *)
(* prometheus.go:141-142).                                                   *)
GaugesReturn ==
  /\ worker = "idle" => busy = 0
  /\ (\A r \in Requests : rpc[r] = "idle") => inFlight = 0

(* What makes them inductive: the requests that account for a difference.    *)

At(steps) == {r \in Requests : rpc[r] \in steps}

Steps == {"other", "order", "cache", "database", "deferred", "unwind", "count",
          "leave"}

Answering(c) == {r \in Requests : rpc[r] = "count" /\ status[r] = c}

(* Requests whose lookup is counted and whose outcome is not.                *)
LookedUp ==
  {r \in Requests :
     rpc[r] = "database" \/ (rpc[r] = "deferred" /\ status[r] # 400)}

Unwinding == Cardinality(At({"unwind"}))

(* At any moment, but for the panics. *)
Differences ==
  /\ \A c \in Codes :
       count[Outcome[c]] - count[Answer[c]] - Cardinality(Answering(c))
         \in 0 .. panics - Unwinding
  /\ cached =>
       Lookups(count) - Outcomes(count) - Cardinality(LookedUp)
         \in Unwinding - panics .. Unwinding
  /\ inFlight = Cardinality(At(Steps))
  /\ busy = IF worker = "idle" THEN 0 ELSE 1
  /\ \A r \in Requests :
       rpc[r] \in {"order", "cache", "database", "unwind"} => status[r] = 200

(* Each message and each request counts at most once in a counter; these are *)
(* the steps at which a request may still be counted.                        *)
Before(k) ==
  CASE k \in {"cache_hit", "cache_miss", "cache_error"} -> {"order", "cache"}
    [] k \in {Outcome[c] : c \in Codes} ->
         {"order", "cache", "database", "deferred", "unwind"}
    [] k \in {Answer[c] : c \in Codes} ->
         {"order", "cache", "database", "deferred", "count"}
    [] k = "http_other" -> {"other"}
    [] OTHER -> {}

(* What a scrape may still read, against what it has read or will: the       *)
(* values as it started, or as they were collected.                          *)
Readings ==
  /\ \A k \in Counters : seen[k] <= count[k]
  /\ \A c \in Codes :
       /\ count[Outcome[c]] + Cardinality(At(Before(Outcome[c])))
            - seen[Answer[c]] <= during + panics
       /\ count[Answer[c]] + Cardinality(At(Before(Answer[c])))
            - seen[Outcome[c]] <= during
  /\ cached =>
       /\ Lookups(count) + Cardinality(At(Before("cache_hit")))
            - Outcomes(seen) <= during
       /\ Outcomes(count) + Cardinality(At(Before("orders_success")))
            - Lookups(seen) <= during + panics

CountsBounded ==
  /\ events <= MaxEvents
  /\ \A k \in Counters : count[k] + Cardinality(At(Before(k))) <= events
  /\ panics + Cardinality(At({"order", "cache", "database"})) <= events
  /\ worker = "parse" =>
       /\ count["messages_success"] < events
       /\ count["messages_error_parsing"] < events
       /\ count["errors_processing"] < events
  /\ worker \in {"parse", "create"} => failed < events
  /\ failed <= events

MetricsInv ==
  /\ MetricsTypeOK /\ Differences /\ CountsBounded
  /\ pending # {} => Readings
  /\ AnswersAgree /\ HitRateSound

(* Said but not so: kafka_processing_duration_seconds is the duration of the *)
(* message (prometheus.go:61).                                               *)
DurationObserved == worker = "idle" => observed = took

(* Said but not so: kafka_errors_total counts the processing errors          *)
(* (prometheus.go:70).                                                       *)
ErrorsCounted == worker = "idle" => count["errors_processing"] >= failed
=============================================================================
