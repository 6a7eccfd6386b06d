------------------------------ MODULE Service ------------------------------
(* Run (app/wbOrderSaver/wbOrderSaver.go): the life of one process.  It      *)
(* connects to PostgreSQL (postgres/postgres.go), starts the consumer and    *)
(* the HTTP servers, waits for a signal and then closes database, consumer   *)
(* and servers IN PARALLEL, for at most Grace seconds, while a save, its     *)
(* retries and HTTP requests may be under way.                               *)
(*                                                                           *)
(* The consumer's messages and offsets are OrderConsumer's subject; here one *)
(* message after the other carries the same order, and what matters is what  *)
(* the closed connection pool does to its saves and to the readers.  Time is *)
(* counted in seconds from the signal on.                                    *)
EXTENDS Naturals

CONSTANTS
  Retries,     \* cfg.DB.Retries
  RetryCount,  \* OrderUsecase.retryCount, which Run sets to 3
  Delay,       \* Delay[i]: 1 << i, in seconds
  Grace,       \* the 5 s of shutdownCtx
  Lag,         \* bound: how late after its timer the main goroutine runs
  Requests,    \* concurrent HTTP requests for the order
  Joined,      \* whether payment.transaction of the order is its order_uid
  MaxFaults    \* bound: failures that are not caused by the shutdown

ASSUME RetryAssumption == Retries \in Nat \ {0} /\ RetryCount \in Nat \ {0}
ASSUME JoinedAssumption == Joined \in BOOLEAN
ASSUME TimeAssumption == Grace \in Nat /\ Lag \in Nat
ASSUME DelayAssumption ==
  /\ Delay \in [0 .. RetryCount - 1 -> Nat]
  /\ Delay[0] = 1
  /\ \A k \in 1 .. RetryCount - 1 : Delay[k] = 2 * Delay[k - 1]
(* All the delays of one message, 1 + 2 + 4 s, outlast the shutdown. *)
ASSUME OutlastAssumption == 2 * Delay[RetryCount - 1] > Grace + Lag + 1

VARIABLES
  main,       \* where Run is, or how the process ended
  tries,      \* Connect's i
  pools,      \* connection pools that are open (sql.DB)
  cached,     \* Redis answered: the repository is a CachedRepo
  con,        \* the consumer goroutine
  fails,      \* CreateOrder's i: failed attempts for this message
  wake,       \* when time.Sleep returns
  offset,     \* an offset is stored and not committed
  saved,      \* the order is in the database
  abandoned,  \* history: a message ran out of retries
  closer,     \* the four goroutines of the shutdown
  rpc,        \* rpc[r]: what GetOrderByUID does next
  expects,    \* history: the order was saved when the request began
  server,     \* server[s]: what ListenAndServe does, or why it returned
  status,     \* status[r]: the last answer
  now,        \* seconds since the signal
  faults

mainVars == <<main, tries, pools, cached>>
conVars == <<con, fails, wake, offset, saved, abandoned>>
rpcVars == <<rpc, expects, status>>
httpVars == <<rpcVars, server>>
vars == <<mainVars, conVars, closer, httpVars, now, faults>>

Starting == {"open", "ping", "cache", "consumer", "notify"}
Ended == {"completed", "forced", "exited", "killed"}
Servers == {"http", "metrics"}
Closers == {"db", "consumer"} \cup Servers

TypeOK ==
  /\ main \in Starting \cup {"serve", "stopping"} \cup Ended
  /\ tries \in 0 .. Retries
  /\ pools \in Nat
  /\ cached \in BOOLEAN
  /\ con \in {"off", "check", "read", "attempt", "save", "sleep", "stopped"}
  /\ fails \in 0 .. RetryCount
  /\ fails > 0 => con \in {"attempt", "save", "sleep"}
  /\ con = "sleep" => fails > 0
  /\ con \in {"attempt", "save"} => fails < RetryCount
  /\ wake \in Nat /\ now \in Nat /\ faults \in Nat
  /\ offset \in BOOLEAN /\ saved \in BOOLEAN /\ abandoned \in BOOLEAN
  /\ closer \in [Closers -> {"off", "begin", "wait", "done", "failed"}]
  /\ rpc \in [Requests -> {"idle", "cache", "order", "items"}]
  /\ expects \in [Requests -> BOOLEAN]
  /\ status \in [Requests -> {0, 200, 400, 404, 500}]
  /\ server \in [Servers -> {"off", "listen", "failed", "closed"}]

Init ==
  /\ main = "open" /\ tries = 0 /\ pools = 0 /\ cached = FALSE
  /\ con = "off" /\ fails = 0 /\ wake = 0
  /\ offset = FALSE /\ saved \in BOOLEAN /\ abandoned = FALSE
  /\ closer = [s \in Closers |-> "off"]
  /\ rpc = [r \in Requests |-> "idle"]
  /\ expects = [r \in Requests |-> FALSE]
  /\ status = [r \in Requests |-> 0]
  /\ server = [s \in Servers |-> "off"]
  /\ now = 0 /\ faults = 0

Alive == main \notin Ended
Begun(s) == closer[s] \notin {"off", "begin"}
PoolOpen == pools > 0
Fault == faults < MaxFaults /\ faults' = faults + 1

---------------------------------------------------------------------------
(* Startup.                                                                  *)

(* Connect: a configuration that cannot be parsed ends Run before any try.   *)
ParseConfigFails ==
  /\ main = "open" /\ tries = 0
  /\ main' = "exited"
  /\ UNCHANGED <<tries, pools, cached, conVars, closer, httpVars, now, faults>>

(* A try has failed: after a pause another is made, or Run exits. *)
TryFails ==
  /\ tries' = tries + 1
  /\ main' = IF tries' = Retries THEN "exited" ELSE "open"

(* openConnection: sql.Open, which may fail. *)
OpenPool ==
  /\ main = "open"
  /\ \/ main' = "ping" /\ pools' = pools + 1 /\ UNCHANGED tries
     \/ TryFails /\ UNCHANGED pools
  /\ UNCHANGED <<cached, conVars, closer, httpVars, now, faults>>

(* Seeded bug: a pool that does not answer is left open. *)
PingWithoutClose ==
  /\ main = "ping"
  /\ \/ main' = "cache" /\ tries' = 0 /\ UNCHANGED pools
     \/ TryFails /\ UNCHANGED pools
  /\ UNCHANGED <<cached, conVars, closer, httpVars, now, faults>>

(* Seeded bug: i is not incremented. *)
PingForEver ==
  /\ main = "ping"
  /\ \/ main' = "cache" /\ tries' = 0 /\ UNCHANGED pools
     \/ main' = "open" /\ pools' = pools - 1 /\ UNCHANGED tries
  /\ UNCHANGED <<cached, conVars, closer, httpVars, now, faults>>

(* The ping is answered, or the pool is closed and, after a pause, another   *)
(* opened, until the tries are used up and Run exits.                        *)
Ping ==
  /\ main = "ping"
  /\ \/ main' = "cache" /\ tries' = 0 /\ UNCHANGED pools
     \/ TryFails /\ pools' = pools - 1
  /\ UNCHANGED <<cached, conVars, closer, httpVars, now, faults>>

(* NewCache: without Redis the service works on the database alone. *)
NewCache ==
  /\ main = "cache"
  /\ cached' \in BOOLEAN
  /\ main' = "consumer"
  /\ UNCHANGED <<tries, pools, conVars, closer, httpVars, now, faults>>

(* NewConsumer, and the goroutines of consumer and servers; or Run exits. *)
StartServing ==
  /\ main = "consumer"
  /\ \/ /\ main' = "notify" /\ con' = "check"
        /\ server' = [s \in Servers |-> "listen"]
     \/ main' = "exited" /\ UNCHANGED <<con, server>>
  /\ UNCHANGED <<tries, pools, cached, fails, wake, offset, saved, abandoned,
                 closer, rpcVars, now, faults>>

Notify ==
  /\ main = "notify" /\ main' = "serve"
  /\ UNCHANGED <<tries, pools, cached, conVars, closer, httpVars, now, faults>>

(* A signal before signal.Notify ends the process. *)
EarlySignal ==
  /\ main \in Starting /\ main' = "killed"
  /\ UNCHANGED <<tries, pools, cached, conVars, closer, httpVars, now, faults>>

(* Seeded bug: any error of ListenAndServe ends the process. *)
ExitsOnAny(err) == err \in {"failed", "closed"}

ExitsOn(err) == err # "closed"

(* ListenAndServe returns: with a failure to listen or to accept, or, once   *)
(* Shutdown has begun, with ErrServerClosed.  The goroutine looks at the     *)
(* error and calls os.Exit(1), whatever the rest of the process is doing.    *)
ServeEnds(s) ==
  /\ Alive /\ server[s] = "listen"
  /\ \E err \in {"failed", "closed"} :
       /\ server' = [server EXCEPT ![s] = err]
       /\ IF Begun(s) THEN err = "closed" /\ UNCHANGED faults
                      ELSE err = "failed" /\ Fault
       /\ main' = IF ExitsOn(err) THEN "exited" ELSE main
  /\ UNCHANGED <<tries, pools, cached, conVars, closer, rpcVars, now>>

---------------------------------------------------------------------------
(* The consumer: Consumer.Start, HandleMessage, CreateOrder.                 *)

(* Seeded bug: one second between two attempts. *)
ConstantDelay(i) == Delay[0]

Backoff(i) == Delay[i]

(* The loop looks at stop once per message, and reads until Close. *)
CheckStop ==
  /\ Alive /\ con = "check"
  /\ con' = IF Begun("consumer") THEN "stopped" ELSE "read"
  /\ UNCHANGED <<mainVars, fails, wake, offset, saved, abandoned, closer,
                 httpVars, now, faults>>

Read ==
  /\ Alive /\ con = "read"
  /\ con' = IF closer["consumer"] = "done" THEN "check" ELSE "attempt"
  /\ UNCHANGED <<mainVars, fails, wake, offset, saved, abandoned, closer, httpVars,
                 now, faults>>

(* The pause after a failed attempt, the last one included. *)
FailAttempt ==
  /\ con' = "sleep" /\ fails' = fails + 1 /\ wake' = now + Backoff(fails)

(* The store looks the order up: a closed pool refuses. *)
Attempt ==
  /\ Alive /\ con = "attempt"
  /\ IF PoolOpen THEN con' = "save" /\ UNCHANGED <<fails, wake>>
                 ELSE FailAttempt
  /\ UNCHANGED <<mainVars, offset, saved, abandoned, closer, httpVars, now,
                 faults>>

(* The transaction that has begun commits, though the pool be closed in the  *)
(* meantime; one that has not begun is refused; or the database fails, which *)
(* the commit may not be told.  StoreMessage fails on a closed consumer.     *)
Save ==
  /\ Alive /\ con = "save"
  /\ \/ /\ con' = "check" /\ fails' = 0 /\ saved' = TRUE
        /\ offset' = IF closer["consumer"] = "done" THEN offset ELSE TRUE
        /\ UNCHANGED <<wake, faults>>
     \/ /\ FailAttempt
        /\ \/ ~PoolOpen /\ UNCHANGED <<saved, faults>>
           \/ Fault /\ saved' \in BOOLEAN /\ (saved => saved')
        /\ UNCHANGED offset
  /\ UNCHANGED <<mainVars, abandoned, closer, httpVars, now>>

Wake ==
  /\ Alive /\ con = "sleep" /\ fails < RetryCount
  /\ main = "stopping" => now >= wake
  /\ con' = "attempt" /\ wake' = 0
  /\ UNCHANGED <<mainVars, fails, offset, saved, abandoned, closer, httpVars,
                 now, faults>>

(* The message is skipped: the last pause is over, or (a fault) the 30 s of  *)
(* its context are.                                                          *)
GiveUp ==
  /\ Alive
  /\ \/ /\ con = "sleep" /\ fails = RetryCount
        /\ main = "stopping" => now >= wake
        /\ UNCHANGED faults
     \/ con \in {"attempt", "save"} /\ Fault
  /\ abandoned' = TRUE /\ con' = "check" /\ fails' = 0 /\ wake' = 0
  /\ UNCHANGED <<mainVars, offset, saved, closer, httpVars, now>>

AutoCommit ==
  /\ Alive /\ offset /\ closer["consumer"] # "done"
  /\ offset' = FALSE
  /\ UNCHANGED <<mainVars, con, fails, wake, saved, abandoned, closer,
                 httpVars, now, faults>>

---------------------------------------------------------------------------
(* HTTP: OrderHandler.GetOrderByUID.                                         *)

Request(r) ==
  /\ Alive /\ server["http"] = "listen" /\ ~Begun("http")
  /\ rpc[r] = "idle"
  /\ \/ /\ rpc' = [rpc EXCEPT ![r] = IF cached THEN "cache" ELSE "order"]
        /\ expects' = [expects EXCEPT ![r] = saved]
        /\ status' = [status EXCEPT ![r] = 0]
     \/ status' = [status EXCEPT ![r] = 400] /\ UNCHANGED <<rpc, expects>>
  /\ UNCHANGED <<mainVars, conVars, closer, server, now, faults>>

Answer(r, code) ==
  /\ rpc' = [rpc EXCEPT ![r] = "idle"]
  /\ status' = [status EXCEPT ![r] = code]

GoOn(r, step) == rpc' = [rpc EXCEPT ![r] = step] /\ UNCHANGED status

(* A hit only when the order was saved; anything else asks the database. *)
LookInCache(r) ==
  /\ Alive /\ rpc[r] = "cache"
  /\ (saved /\ Answer(r, 200)) \/ GoOn(r, "order")
  /\ UNCHANGED <<mainVars, conVars, closer, expects, server, now,
                 faults>>

(* Seeded bug: every error of the store is answered with 404. *)
ReadOrderAnyError(r) ==
  /\ Alive /\ rpc[r] = "order"
  /\ IF PoolOpen /\ saved THEN GoOn(r, "items") ELSE Answer(r, 404)
  /\ UNCHANGED <<mainVars, conVars, closer, expects, server, now,
                 faults>>

(* The order joined with the payment whose transaction it is, which may be   *)
(* another order's payment; 404 for ErrRecordNotFound only.                  *)
ReadOrder(r) ==
  /\ Alive /\ rpc[r] = "order"
  /\ \/ /\ PoolOpen /\ UNCHANGED faults
        /\ \/ saved /\ GoOn(r, "items")
           \/ ~(saved /\ Joined) /\ Answer(r, 404)
     \/ Answer(r, 500) /\ IF PoolOpen THEN Fault ELSE UNCHANGED faults
  /\ UNCHANGED <<mainVars, conVars, closer, expects, server, now>>

(* The second statement, which the shutdown may come before. *)
ReadItems(r) ==
  /\ Alive /\ rpc[r] = "items"
  /\ \/ PoolOpen /\ Answer(r, 200) /\ UNCHANGED faults
     \/ Answer(r, 500) /\ IF PoolOpen THEN Fault ELSE UNCHANGED faults
  /\ UNCHANGED <<mainVars, conVars, closer, expects, server, now>>

---------------------------------------------------------------------------
(* Shutdown.                                                                 *)

(* The clock starts; of a pause under way some part is left. *)
Signal ==
  /\ main = "serve" /\ main' = "stopping"
  /\ closer' = [s \in Closers |-> "begin"]
  /\ wake' \in 0 .. wake
  /\ UNCHANGED <<tries, pools, cached, con, fails, offset, saved, abandoned,
                 httpVars, now, faults>>

Move(s, from, to) ==
  /\ main = "stopping" /\ closer[s] = from
  /\ closer' = [closer EXCEPT ![s] = to]

(* db.Disconnect: Close refuses new queries; it may return before those      *)
(* under way have.                                                           *)
Disconnect ==
  /\ \/ Move("db", "begin", "wait") /\ pools' = pools - 1
     \/ Move("db", "wait", "done") /\ UNCHANGED pools
  /\ UNCHANGED <<main, tries, cached, conVars, httpVars, now, faults>>

(* Consumer.Stop sets stop, commits what is stored and closes; with nothing  *)
(* to commit it returns the error, and does not close.  Run drops the error. *)
StopConsumer ==
  /\ \/ Move("consumer", "begin", "wait") /\ UNCHANGED <<offset, faults>>
     \/ /\ offset /\ Move("consumer", "wait", "done")
        /\ offset' = FALSE /\ UNCHANGED faults
     \/ /\ Move("consumer", "wait", "failed") /\ UNCHANGED offset
        /\ IF offset THEN Fault ELSE UNCHANGED faults
  /\ UNCHANGED <<mainVars, con, fails, wake, saved, abandoned, httpVars, now>>

(* Shutdown closes the listeners, and waits for the requests under way       *)
(* without a time limit.                                                     *)
ShutdownServers ==
  /\ \/ Move("http", "begin", "wait")
     \/ Move("http", "wait", "done") /\ \A r \in Requests : rpc[r] = "idle"
     \/ Move("metrics", "begin", "done")
  /\ UNCHANGED <<mainVars, conVars, httpVars, now, faults>>

(* Run returns when all four are done, or when the timer says so. *)
Completed ==
  /\ main = "stopping" /\ \A s \in Closers : closer[s] \in {"done", "failed"}
  /\ main' = "completed"
  /\ UNCHANGED <<tries, pools, cached, conVars, closer, httpVars, now, faults>>

(* Seeded bug: no timer. *)
NeverForced == FALSE /\ UNCHANGED vars

Forced ==
  /\ main = "stopping" /\ now >= Grace
  /\ main' = "forced"
  /\ UNCHANGED <<tries, pools, cached, conVars, closer, httpVars, now, faults>>

Tick ==
  /\ main = "stopping" /\ now < Grace + Lag
  /\ now' = now + 1
  /\ UNCHANGED <<mainVars, conVars, closer, httpVars, faults>>

Startup ==
  ParseConfigFails \/ OpenPool \/ Ping \/ NewCache \/ StartServing \/ Notify

Consumer ==
  CheckStop \/ Read \/ Attempt \/ Save \/ Wake \/ GiveUp \/ AutoCommit

Closing == Disconnect \/ StopConsumer \/ ShutdownServers

Return == Completed \/ Forced

Over == ~Alive /\ UNCHANGED vars

Next ==
  \/ Startup \/ EarlySignal
  \/ \E s \in Servers : ServeEnds(s)
  \/ Consumer
  \/ \E r \in Requests :
       Request(r) \/ LookInCache(r) \/ ReadOrder(r) \/ ReadItems(r)
  \/ Signal \/ Closing \/ Return \/ Tick \/ Over

Spec == Init /\ [][Next]_vars

(* Only the main goroutine, the timer and the clock: the database, Kafka and *)
(* the clients may leave every call without an answer.                       *)
FairSpec ==
  Spec /\ WF_vars(Startup) /\ WF_vars(Return) /\ WF_vars(Tick)

---------------------------------------------------------------------------
(* Properties.                                                               *)

(* However often the first connections fail, one pool is open while the      *)
(* service runs, none before or after, and none is leaked                    *)
(* (postgres.go:60-78, 103-106; wbOrderSaver.go:106).                        *)
OnePool ==
  /\ pools <= 1
  /\ main \in {"cache", "consumer", "notify", "serve"} => pools = 1
  /\ main = "stopping" => (pools = 1 <=> ~Begun("db"))

(* The shutdown alone costs no message: the database is closed under the     *)
(* consumer's feet, possibly long before Stop, but the process ends before   *)
(* the doubling pauses of CreateOrder (usecase/order.go:70) have used up its *)
(* retries, so the message is not skipped and will be read again.            *)
ShutdownSparesMessages == faults = 0 => ~abandoned

(* A reader whose request began after the order was saved is never told that *)
(* it does not exist, whatever is closed or fails meanwhile                  *)
(* (httpHandler.go:86, postgres/order.go:249); unless the order's payment    *)
(* names another transaction, for the join then finds nothing                *)
(* (order.go:221).                                                           *)
NoFalse404 ==
  \A r \in Requests : Joined => ~(expects[r] /\ status[r] = 404)

(* After the signal the process exits with status 1 only when one of the     *)
(* servers had failed by itself: the goroutines of both must tell the        *)
(* ErrServerClosed that every shutdown gives them from a failure             *)
(* (wbOrderSaver.go:72, 87).                                                 *)
OrderlyExit ==
  main = "exited" /\ (\E s \in Closers : closer[s] # "off") =>
    \E s \in Servers : server[s] = "failed"

(* Startup is decided: Run serves, or the process has ended. *)
StartDecides == <>(main \notin Starting)

(* After the signal Run returns, though a request, a query or the consumer   *)
(* never ends (wbOrderSaver.go:143-148).                                     *)
RunReturns == main = "stopping" ~> main \in Ended

(* Said but not so: "All services correctly stopped" (wbOrderSaver.go:145).  *)
(* The consumer need not be closed, nor its loop have ended.                 *)
CleanStop ==
  main = "completed" => closer["consumer"] = "done" /\ con = "stopped"
=============================================================================
