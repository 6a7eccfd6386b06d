# wbOrderSaver in TLA+

wbOrderSaver reads orders from a Kafka topic, validates them, saves them in
PostgreSQL, keeps recent ones in Redis and serves them over HTTP.  This
directory holds a TLA+ model of the parts of it in which something runs
concurrently, fails halfway or is repeated, the TLC instances that check it, and
TLAPS proofs of its main properties.

Run everything here:

    tlc -workers 2 -config MCOrderConsumer_group.cfg MCOrderConsumer.tla
    tlapm OrderConsumerProofs.tla

## 1. Inventory

| Component | State | Operations | Talks to | Hard because | What makes it correct |
|---|---|---|---|---|---|
| Kafka consumer loop (`delivery/kafka/consumer.go`) | `stop`; in Kafka: assignment, position, stored and committed offset | `Start` (one goroutine), `Stop` (another) | handler (call), Kafka | session loss and rebalance during a handler, crash between save and commit, `Stop` at any point, unsynchronised `stop` | no message below the committed offset is unhandled; every message is eventually handled |
| Message handler (`kafkaHandler/handler.go`) | a 30 s context | `HandleMessage` | use case (call) | timeout racing the save; the error decides whether the offset is stored | unreadable messages are consumed, failures reported |
| Order use case (`usecase/order.go`) | `i`, the last error | `CreateOrder`, `GetOrder` | repository (call) | retries, back-off, ambiguous failures | an order is lost only when it was given up; no loss within the retry budget |
| Redis cache (`redisCache/redis.go`) | key per order, sorted set `recent_orders` | `SaveOrder`, `GetOrderByUID`, `CountOrders` | Redis (commands) | five to seven separate commands per save, concurrent savers, resends | bounded size; keys and sorted set agree; a key only holds what was saved under it |
| Cached repository (`cachedRepo/cachedRepo.go`) | none of its own: database and cache together | `GetOrderByUID`, `SaveOrder`, `DeleteOrder`, warm-up goroutine | store, cache (calls) | two stores updated one after the other, readers that fill the cache, warm-up beside both | a saved order is found; nothing is served that is not stored; copies agree where the rows can be read back as they were sent |
| PostgreSQL store (`postgres/order.go`) | nine tables | `SaveOrder`, `GetOrderByUID`, `DeleteOrder`, `GetLastOrdersUIDs` | PostgreSQL | existence check outside the transaction, shared `items` rows, payment joined by transaction, two-statement read | an order is saved whole; read back, it is whole as well, and as it was sent if it shares no item |
| Start and shutdown (`app/wbOrderSaver`) | goroutines, a 5 s timer | `Run` | all of them | closes database, consumer and servers in parallel, while saves and requests run | no order is acknowledged and lost, and no message given up, on the way down; `Run` returns |
| Connection (`postgres/postgres.go`) | the pool | `Connect`, `Disconnect` | PostgreSQL | retries at start, closing while in use | one pool, none leaked; the start comes to a decision |
| HTTP delivery (`delivery/http`) | none | `GetOrderByUID`, `HealthCheck`, static pages | use case | requests under way when everything is closed | a stored order whose payment names it is never answered 404 |
| Validation (`domain/validator.go`, `entities.go`) | none | `Validate` | use case | rules weaker than the table constraints, texts PostgreSQL does not store, integer sum | a valid order can be stored, or it is known why not |
| Producer script (`kafka/producer.go`, `cmd/KafkaProducer`) | semaphore of 100, loop variable | `main`, `Produce` | Kafka | delivery errors, tokens, an end that flushes nothing | every order is in the topic once, but for the failures; the script ends |
| Configuration (`configs`) | none | `MustLoad` | environment, `.env` | two sources, one of which may be unreadable, defaults, order of reading | a start is refused only for a setting that is at fault |
| Metrics and logging (`pkg`) | counters and gauges; the logger | `Middleware`, `NewLogger` | Prometheus (scrapes) | a scrape collects one metric after the other while requests go on; panics and other paths out of a handler | counters of one scrape agree up to what was in flight, gauges come back |
| Web pages, API docs, deployment | none | | | | |

The path of an order is: Kafka -> `Consumer.Start` -> `HandleMessage` ->
`CreateOrder` -> `CachedRepo.SaveOrder` -> `Store.SaveOrder`, then
`RedisRepo.SaveOrder`; the offset is stored when `HandleMessage` returns nil and
committed in the background.  A reader goes HTTP -> `GetOrder` ->
`CachedRepo.GetOrderByUID` -> cache, and on a miss database, then cache.

`PROJECT.json` lists the hazards of this code, each at its line, with the
properties that cover it.

## 2. Modules

| Module | What it is |
|---|---|
| `OrderConsumer` | consumer loop, handler, use case and the consumer group |
| `AtLeastOnce` | what the group promises the topic; `OrderConsumer` implements it |
| `OrderConsumerProofs` | its theorems |
| `RedisCache` | `RedisRepo.SaveOrder`, one action per Redis command |
| `LossyCache` | what the repository relies on: a map that may lose keys; `RedisCache` implements it |
| `RedisCacheProofs` | its theorems |
| `CachedRepo` | the cached repository over a `LossyCache` and a database whose rows several saves may have written |
| `CachedRepoProofs` | its theorems |
| `WarmedCache` | the warm-up driving `RedisCache` beside other savers: which orders stay (its theorems are in `RedisCacheProofs`) |
| `OrderStore` | the PostgreSQL store, one action per SQL statement |
| `OrderArchive` | what callers of the store rely on: atomic saves; the first one's row stays, items are added by saves that raced with it; `OrderStore` implements it |
| `OrderStoreProofs` | its theorems |
| `SharedItems` | the columns of items that orders share, between database and cache |
| `Service` | `Run`: start, shutdown, and the consumer and the requests that it cuts |
| `ServiceProofs` | its theorems |
| `Producer`, `ProducerProofs` | the producer script; its theorems |
| `OrderValidation` | the rules of `Validate` against the tables |
| `OrderDataProofs` | theorems about what an order holds: of `OrderValidation` and `SharedItems` |
| `Config` | the settings of a process |
| `Metrics` | the counters and gauges, and a scrape that collects them one by one |
| `ConfigMetricsProofs` | theorems of `Config` and `Metrics` |
| `MC...` | TLC instances, one for each of the above that is run |

How they fit together: `OrderConsumer` takes the store as "a save succeeds or
fails, and may have been carried out"; `OrderStore` with `OrderArchive` shows
what a save is.  `CachedRepo` writes the cache with the actions of `LossyCache`,
which `RedisCache` implements, and takes of the database what `OrderArchive`
says, which `OrderStore` implements: the first save's order row, with the items
of a racing one linked to it.  `WarmedCache` extends `RedisCache` and stays
within `LossyCache` too.
`Service` is one process from start to end, `OrderConsumer` many processes over
the topic.  `Config` guarantees what `Service`, `RedisCache` and `WarmedCache`
assume of their constants, `OrderValidation` what `OrderStore` assumes of its
orders (at least one item) and does not: that the tables take them.

Operators marked *Seeded bug* are deliberate errors (a dropped guard, an
off-by-one, a swallowed error).  Nothing uses them; putting one in place of the
definition it follows or precedes makes TLC violate a property, which shows
that the property depends on that line.  `PROJECT.json`, "mutants", pairs them.

### OrderConsumer

Each member of `Consumers` is a service process.  `pc[c]` is where its `Start`
goroutine is: `check` (reads `stop`), `read` (in `ReadMessage`), `handle` (in
`HandleMessage` before `CreateOrder`), `attempt` (top of the retry loop), `save`
(in `SaveOrder`), `store` (before `StoreMessage`), or `down`/`exited`.
`phase[c]` is the progress of `Stop`, which another goroutine runs; `stop` is
`phase # "running"`, and since nothing synchronises it `CheckStop` may still
read the old value.

| Code | Actions |
|---|---|
| `Start`, lines 54-72 | `CheckStop`, `ReadMessage`, `ReadError`, `StoreMessage` |
| `HandleMessage`, parse error (returns nil) | `ParseFailure` |
| `CreateOrder`, validation error | `ValidationFailure` |
| `CreateOrder`, loop | `CreateOrder`, `SaveOrder`, `SaveOk`, `SaveFail`, `GiveUp` |
| 30 s context | `Expire` |
| `Stop` | `StopBegin`, `StopCommit`, `StopCommitFail`, `StopClose` |
| end of `Run`, death of the process | `Exit`, `Crash`, then `Join` |

Kafka is modelled from the options `NewConsumer` sets.  `Assign` gives a polling
member a partition, resumed at the committed offset or at the start
(`earliest`); it may take it from a member that is in the middle of a handler
(its session expired).  `AutoCommit` commits what is stored.  A member without
the partition cannot store or commit for it.  Back-off sleeps take no action of
their own: any other action may happen between two attempts, and a sleep cut
by nothing changes no state.  `SaveFail` leaves it open whether the order reached
the database.  A message is its kind (malformed, invalid, valid) and its uid.

`handled` and `abandoned` are history variables: what `HandleMessage` has
returned from, and what `CreateOrder` gave up on.

### RedisCache

`data` holds the keys of the orders, `stamp` the scores of `recent_orders`.
`SaveOrder` of client `c` is `Set`, `TakeStamp` (`time.Now`), `ZAdd`, `ZCard`,
`ZRange`, `ZRemRangeByRank`, `Del`, each one atomic Redis command (or the
clock), interleaved with those of the other clients.  The reply to a write may
be lost, after which go-redis sends the write again (`Reply`); a save may stop
anywhere (`Abort`: an error, an expired context, the end of the process).
A command that fails without effect is an `Abort` before it, one that fails
after taking effect a lost reply followed by an `Abort`.  `overlapped` is a
history variable: two saves have been under way at once.

### CachedRepo

`Callers` are goroutines in `GetOrderByUID` or `SaveOrder`, `Warmer` is the
warm-up.  A call to the cache's `SaveOrder` begins with the step before it
(`Cache!Begin`) and ends with `Cache!Put` or `Cache!Abandon`, as `LossyCache`
allows; `Evict` may drop any keys at any time.  `SaveDbError` leaves it open
whether the row was written.  `Restart` ends every call and allows another
warm-up; it is `Crash` of both stores.  The condition under which `NewCachedRepo` starts the warm-up (fewer
members than the capacity, or an error) is left open: the warm-up may start
or not.

`db[u]` is the content whose order row is stored, `mixed` the orders to which a
save with another content, begun before the first had ended, linked its items
(`Store`; `OrderArchive`'s `Complete` in a race).  What a read of the rows gives
(`Returned`) is a content only under three conditions: the payment names the
order itself (`Joined`; else the join of order.go:221 finds nothing, and the
answer is "not found"), it shares and repeats no item (`Apart`; else items are
rows that other orders overwrite or that are merged), and the order is not
`mixed`.  Without the last two a read returns any content.  `SharedItems` says
what the items of such an order may be.

### OrderStore

`orders` (with `delivery`), `payment`, `items` and `links` (`order_items`) are
the committed rows; `work[w]` is what writer `w` has written in its open
transaction.  A row is abstracted to what later steps ask of it: for which
order it was written, whether it exists, a quantity.

| Code | Actions |
|---|---|
| `SaveOrder`, `checkOrderExists` | `Save`, `CheckExists` (not in the transaction) |
| `INSERT`s into orders, delivery, payment | `InsertOrder`, `InsertDelivery`, `InsertPayment` |
| loop over the items | `UpsertItem`, `LinkItem` |
| `tx.Commit` | `Commit`; `CommitError` leaves it open whether it took effect |
| errors, deferred `tx.Rollback` | `ForeignKeyError`, `Fail`, `AbortDeadlock` |
| `DeleteOrder` | `DeleteOrder`, one step, once no transaction holds rows of the order |
| `GetOrderByUID` | `Get`, `ReadOrder` or `NotFound`, `ReadItems`; `ReadError` |

PostgreSQL at READ COMMITTED (`BeginTx(ctx, nil)`) is modelled by three
operators: `Visible` (a foreign key sees committed rows and its own),
`Blockers` (whom a statement waits for: an open transaction that inserted the
same key or updated the same item) and `Deadlocked` (a cycle of those, which
PostgreSQL ends by aborting one member).  The lookup tables (`brands`,
`delivery_services`, `payment_providers`), the CHECK constraints and the columns
of `items` are left out; a statement that fails for their sake is a `Fail`.
`rows.Scan` errors, which `getOrderItems` skips, cannot occur for the
column types of the schema.  The pool (10 connections) cannot block a call
forever: no call takes a second connection while it holds one.

### WarmedCache

`NewCachedRepo` and `warmUpCache` as actions of one more goroutine over the
commands of `RedisCache`: `CountOrders`, `GetLastOrdersUIDs`, `WarmOrder` (the
order is read, and its save begins), `WarmDone`.  `SaveLive` is the cache save
of any other goroutine, after the order was stored; `fresh` remembers them.
`TimePasses` sets the clock to any time since `Boot`, the start of the process:
scores may repeat and the clock may go back, though not to before the start.
Redis starts with any keys, any members and any scores below `Boot`: an earlier
process may have left members without keys, keys without members (`orphans`)
and more members than the capacity.
`REDIS_WARMUP=false` is not modelled here: there is no warm-up then.

### Service

| Code | Actions |
|---|---|
| `Connect`, `openConnection` | `ParseConfigFails`, `OpenPool`, `Ping`, with `TryFails` |
| `Run` up to `signal.Notify` | `NewCache`, `StartServing`, `Notify`; `EarlySignal` before it |
| `ListenAndServe` of both servers returns, and its goroutine tests the error | `ServeEnds`, with `ExitsOn` |
| `Consumer.Start`, `CreateOrder`, `SaveOrder` | `CheckStop`, `Read`, `Attempt` (the existence check), `Save` (the transaction), `Wake`, `GiveUp` |
| `GetOrderByUID` | `Request`, `LookInCache`, `ReadOrder`, `ReadItems` |
| the four goroutines of the shutdown | `Signal`, `Disconnect`, `StopConsumer`, `ShutdownServers` |
| the `select` at the end | `Completed`, `Forced` |

A closed pool refuses a statement that begins, and lets one finish that has
begun.  `Tick` counts seconds from the signal; a `time.Sleep` under way at the
signal has some part left.  The timer may be noticed `Lag` seconds late.
`Joined` says whether the payment of the order is its own: if not, `ReadOrder`
finds no row and the request is answered 404, saved or not.

### Producer, OrderValidation, Config

`Producer` has one goroutine per order, from its token to `wg.Done`.  A message
may be refused, lost, in the topic although the report says otherwise, or there
twice because librdkafka sent it again.  `OrderValidation` is a function of an
order in two steps, `Validate` and `Insert`; a text is one of the classes its
rule and its column tell apart (`other`: any text the rule takes and the CHECK
does not match; `NUL`: a text with a NUL byte, which no column takes), a number
an integer of the width `GoMax`, columns have the width `IntMax`.  `Config` is
the sequence of `MustLoad`: `ReadEnv` (`APP_ENV` or `-env`), `Load` (a file that
cannot be parsed is dropped whole), `Build`, `Validate`, then `NewLogger` and
`FirstLine`, the line of `Connect` that needs a logger.

### Metrics, SharedItems

`Metrics` has one action for each place that moves a counter or a gauge, in the
order of the handlers and their deferred calls; `spent` is what
`time.Since(startTime)` would say.  `Panic` leaves the handler or the page and
skips what stands after `c.Next()`.  A scrape is `BeginScrape`, then one
`Collect` for each counter of `Scraped`, each at a moment of its own (the others
are read as it begins); `seen` is what it has
read, `during` counts the requests that were in flight at some time since it
began, `panics` those that panicked so far.  `SharedItems` keeps the rows of `items`
by `chrt_id`, the links, and what the cache was given; a transaction of
`OrderStore` is one step in it.

## 3. Properties and runs

| Run | Instance | Properties | What it shows |
|---|---|---|---|
| `consumer_group` | 2 processes, 2 partitions holding the same order, in one of them before an unreadable message; 2 attempts, 2 failed saves, 1 crash, 1 lost session, 1 `Stop` | `CommittedHandled`, `LossOnlyByGivingUp`, `NoLossWithinBudget`, `ImplementsDelivery` | 1.7 M states. The committed offset passes only handled messages and never moves back; a committed order missing in the database was given up; with fewer failures than attempts none is; one process may own both partitions, lose one while handling the other, and both may save the same order |
| `consumer_progress` | 2 processes, 1 partition with a valid, an invalid and a valid message, 2 attempts, 2 failed saves, 1 expiry, 1 crash, 1 lost session, no `Stop` | `TypeOK`; `EveryMessageHandled`, `EveryOrderSaved` under `FairSpec` | 0.15 M states. Every produced message is handled in the end, and every valid order saved while the failures stay within the retries of a message |
| `redis_concurrent` | 2 clients, 3 orders, capacity 1, 2 clock values, 1 fault | `TypeOK`, `IndexBounded`, `CacheExact`, `ImplementsLossyCache` | 0.3 M states. The sorted set exceeds the capacity by at most the saves still evicting plus the faults; as long as no two saves overlapped and nothing failed, keys and sorted set are equal between saves and within the capacity |
| `repo_concurrent` | 2 callers and the warm-up, 1 order with 2 contents, `plain` (`Joined` and `Apart`) and `odd` (neither), 1 error or restart, 1 deletion | `ReadYourWrites`, `ServedIsStored`, `CopiesAgree`, `GoneForGood` | 0.5 M states. A reader that starts after the database's save (so after `SaveOrder`) returned finds the order, nobody is shown an order that is not stored, cache and database agree while the saves of an order agree and its rows are its own, and a deleted order whose last copy is gone does not come back |
| `store_concurrent` | 2 writers, 1 reader, 3 orders over 2 uids and 2 items (A and B with the items in opposite order, C with B's uid, A's transaction and one item twice), 1 failure, 1 deletion, 1 read | `WholeOrder`, `ReadWhole`, `ImplementsArchive`; `EverySaveReturns` under `FairSpec` | 0.2 M states. What is committed or returned is a whole order; a save is atomic, the first one's order row stays, and only saves that looked before it was there add items to it; waiting and deadlocks end |
| `warmup_cache` | capacity 2, 3 orders, the warm-up and one other saver of 2 orders, 1 fault; Redis left with an orphan key and a member without one, with a member of its own, or with 3 members (`MCStarts`) | `WarmedAreLast`, `WarmIndexBounded`; `WarmUpEnds` under `MCFairSpec` | 0.3 M states. After a warm-up only the newest orders and those saved since are in the cache, whatever was left there that is stored, and the newest have their keys; the sorted set grows no further than its bound; the warm-up ends |
| `service_shutdown` | 3 pings; 2 attempts with pauses of 1 and 2 s and 2 s of grace; no lag, 1 request, 1 failure, an order whose payment is its own | `OnePool`, `ShutdownSparesMessages`, `NoFalse404`, `OrderlyExit`; `StartDecides`, `RunReturns` under `FairSpec` | 0.9 M states. Closing the database first costs no message and denies no saved order; no pool is leaked; the `ErrServerClosed` that a shutdown gives both servers is not taken for a failure; the start is decided, and `Run` returns though nothing else does |
| `producer_script` | 4 orders, 2 tokens, 2 faults | `SlotsConserved`, `EachOrderOnce`; `ProducerEnds` under `FairSpec` | 34 000 states. Tokens are conserved; every order is in the topic once, but for one order per fault; the script ends |
| `validation_rules` | `int` of 4 bits, `INTEGER` of 3; any set of texts of a class only the rules take, any three amounts, any two numbers | `AmountExact`, `GapKnown` | 25 000 states. An accepted amount is exact though the sum wraps; the orders the tables refuse after validation are exactly those of a known list |
| `config_settings` | environment or file complete, the file perhaps unreadable, one variable changed in each to absent, empty, unreadable or a number | `FatalDeserved` | 0.7 M states. A process that stops was given a bad setting |
| `metrics_scrape` | 2 events: requests, which may panic, or first a message; a scrape of 5 counters (`Scraped`: hits, misses, two outcomes, one answer) | `AnswersAgree`, `HitRateSound`, `GaugesReturn` | 0.8 M states. The outcomes, answers, hits and misses of a scrape differ by at most the requests in flight during it and the panics; the gauges come back |
| `items_shared` | 2 savers, 1 reader, orders A and B that share an item with other columns, B having it twice, and D that shares nothing | `PrivateItemsFaithful`, `NothingInvented` | 0.6 M states. An order without shared items is read as it was sent; one with them is given whole items of its own chrt_ids, though perhaps another order's version of them |

Why the bounds suffice.  *Consumer:* what can go wrong needs a message that is
skipped and one after it, a second process to take the partition over, a
second partition for a process that loses one and keeps the other, and as many
failures as a message has attempts, spread over two messages or two processes;
the two instances give all of these, with a crash, a takeover and a stop in any
order.  The expiry of the context, which ends a save as a failure does, is in
the second.  *Cache:*
two savers suffice for an old count and an old range, three orders for a
victim that is not one of the two being saved; equal scores occur with two
clock values.  *Repository:* two callers are a writer and a reader or two
writers; with the warm-up there are three ways to write the cache at once.  Two
contents make every save of one and the other race, and every read of the odd
one return either.
*Store:* a key or an item is contended by two transactions, two items give the
deadlock; a third order names the uid of one and the transaction of the
other.  One read is enough: readers change no table.
*Warm-up:* three orders in a cache of two make the warm-up or a later save
evict, with the victim held by the warm-up, by the other saver or by neither;
the four starts hold what overlapping saves, a killed process and a lowered
capacity leave (the theorems cover every start).  Of the orders the other
goroutine saves (`Live`) one may be stored already, and one is the newest.
*Service:* the pauses are longer than the grace, but not without the last one,
as in the code (1 + 2 against 2 s for 1 + 2 + 4 against 5 s: the wait after the
last failed attempt is what saves the message); the safety properties are
theorems for the code's numbers too, with a timer up to one second late, where
`Lag` is 0 here; pings are a setting, and three have a first, a middle and a
last; the consumer can be at any step when any of the four parts closes;
one message after the other is the same order, as only its saves matter;
a single failure distinguishes a shutdown from a fault.  *Producer:* more
orders than tokens, and as many failures as tokens.  *Validation:* the widths
keep what matters of 64 and 32 bits: the sum of two legal parts can wrap, and
there are numbers between the two.  *Config:* two changes at a time show what
one layer does to the other; the fields are read and checked one by one.
*Metrics:* two requests overtake each other between any two readings of a
scrape, and reach the bounds of both properties; counters of one status stand
for those of the others, whose steps are the same.  `Mixed` bounds the
events after which a message may come: the consumer moves no counter of the
scrape and no gauge of the requests.
*Items:* two orders share an item, one order has an item twice, a reader fills
the cache between the two saves.
Bounds on failures, crashes, stops, clock and deletions are constants in
the guards (`Max...`); the theorems hold for all their values.

Symmetry is used in the runs without liveness only (processes, clients,
callers and requests are interchangeable).  `consumer_group` checks a
refinement that is a safety property, whose behaviours symmetry does not change;
so does `redis_concurrent`.  Deadlock checking is on except where something
really ends: the script, the start of a process and the bounded events of
`Metrics`.  Elsewhere a process can always be polling, callers can always call
again, and a process that has ended is a stuttering step.

Fairness (`FairSpec`).  Weak fairness of the steps of a process's own
goroutine, as the Go scheduler and returning calls give it; weak fairness of
`Join`, as docker-compose.yml restarts the service on failure; strong fairness of
assigning an unowned partition to a polling member and of reading a message
that is there, since a process keeps alternating between `ReadMessage` and the
rest of the loop, and polls that end in an error do not go on for ever.
In `OrderStore`, strong fairness of each writer's statements: PostgreSQL queues
the transactions that wait for a row and checks for deadlocks.
In `WarmedCache`, weak fairness of the warm-up goroutine, whose Redis commands
return or time out, and of nothing else.  In `Service`, of the main goroutine while it
starts (a ping ends at its timeout), of the timer's `Return` and of the clock,
and of nothing else: consumer, database, requests and the four closing
goroutines may hang, and `Run` returns all the same.  In `Producer`, of the loop
and of every goroutine; librdkafka reports on each message, at the latest when
its timeout ends.
No fairness is assumed of failures, crashes, commits, `Stop` or of
`SaveOk` against `SaveFail`.

### Statements the code does not satisfy

Comments, tests and documents say more of the program than it keeps.  Each such
statement is a definition, marked *Said but not so*, that no run lists.  Added
to the invariants of the configuration below, TLC finds a behaviour that
violates it.

| Statement | Add it to |
|---|---|
| `CapacityHolds` | `MCRedisCache_concurrent.cfg` |
| `DuplicatesIgnored` | `MCCachedRepo_concurrent.cfg` |
| `DuplicateSkipped` | `MCOrderStore_concurrent.cfg` |
| `OldOrdersRemoved` | `MCWarmedCache_warmup.cfg` |
| `CleanStop` | `MCService_shutdown.cfg` |
| `LossesReported`, `DocumentedRange` | `MCProducer_script.cfg` |
| `ZeroAccepted`, `ExampleAccepted` | `MCOrderValidation_rules.cfg` |
| `IdleFromIdle`, `EnvFromFile` | `MCConfig_settings.cfg` |
| `DurationObserved`, `ErrorsCounted` | `MCMetrics_scrape.cfg` |

* **The cache outgrows its capacity** (`CapacityHolds`, redis.go:98-125).
  README.md:27 calls `REDIS_CAPACITY` the number of orders held in the cache.
  Two concurrent saves both count the same excess and read the same victims;
  the second `ZREMRANGEBYRANK` then removes members nobody reads the keys of,
  and their keys stay in Redis for good.
* **A duplicate with another content is served** (`DuplicatesIgnored`,
  cachedRepo.go:113).  postgres/order_test.go:214 says duplicates are ignored
  without an error; the store does so, but the cache is overwritten, and
  `GetOrderByUID` answers a content that is not in the database until the key
  is evicted.
* **A concurrent duplicate raises the quantities and adds its items**
  (`DuplicateSkipped`, postgres/order.go:171).  order.go:28 says that an order
  which exists is skipped.  Two concurrent saves of one order, as after a lost
  Kafka session, both pass the check, which is outside the transaction; the
  second inserts no order but adds one to the quantity of every item, and if its
  items are others they are updated and linked to the order as well.
  `OrderArchive` bounds this: only a save that looked before the order was there
  does it.
* **The warm-up evicts the newest first** (`OldOrdersRemoved`, cachedRepo.go:149).
  redis.go:96 says that a save over the limit removes old orders.  The warm-up
  saves the newest order first, which gives it the oldest score; the next saves
  evict the orders warmed up in the order of their dates, the newest first.
* **"All services correctly stopped" when they are not** (`CleanStop`,
  wbOrderSaver.go:145).  `Stop` does not close the consumer when there was
  nothing to commit (consumer.go:78), line 111 tests the wrong error variable,
  and the loop may still be inside a save when `Run` returns.
* **A lost message is not reported** (`LossesReported`, producer.go:47).  A
  delivery report that carries an error is taken for success.
* **The script's orders are not the documented ones** (`DocumentedRange`,
  main.go:51).  README.md:9 says 1 to 95 hexadecimal; the code makes 1000, from
  500000001 on.
* **A legal zero is rejected** (`ZeroAccepted`, entities.go:39, 19).  `required`
  refuses the 0 that `min=0` and the table (`>= 0`) allow.
* **The example order is rejected** (`ExampleAccepted`, validator.go:12 against
  order_example.txt:2).
* **HTTP_IDLE_TIMEOUT has no effect** (`IdleFromIdle`, config.go:111, against
  example.env:34).
* **APP_ENV in `.env` has no effect outside docker-compose** (`EnvFromFile`,
  config.go:63, against README.md:5 and example.env:1): it is read before the file.
* **The message duration is measured before the message is processed**
  (`DurationObserved`, handler.go:33, against prometheus.go:61).
* **Failed messages are counted as successes** (`ErrorsCounted`, handler.go:61,
  against prometheus.go:70).

## 4. Proofs

For every value of the constants, from the named assumptions of each module
(finite sets of clients and uids where cardinalities are counted, values kept
apart from their "none"):

| Theorem | Statement |
|---|---|
| `TypeCorrect`, `NothingSkipped`, `LossNeedsGivingUp`, `BudgetSuffices` | `Spec => []TypeOK`, `[]CommittedHandled`, `[]LossOnlyByGivingUp`, `[]NoLossWithinBudget` |
| `Refinement` | `OrderConsumer!Spec => AtLeastOnce!Spec` with the committed offset as frontier |
| `CacheTypeCorrect`, `IndexStaysBounded`, `LoneSavesExact` | `Spec => []TypeOK`, `[]IndexBounded`, `[]CacheExact` |
| `RefinesLossyCache` | `RedisCache!Spec => LossyCache!Spec` |
| `RepoTypeCorrect`, `SavedIsFound`, `NothingUnstored`, `CacheAgrees` | `Spec => []TypeOK`, `[]ReadYourWrites`, `[]ServedIsStored`, `[]CopiesAgree` |
| `DeletedStaysGone` | `Spec => GoneForGood`, an action property |
| `StoreTypeCorrect`, `StoredWhole`, `ReturnedWhole` | `Spec => []TypeOK`, `[]WholeOrder`, `[]ReadWhole` |
| `RefinesArchive` | `OrderStore!Spec => OrderArchive!Spec` |
| `WarmTypeCorrect`, `WarmIndexStaysBounded`, `WarmUpLeavesTheLast` (in `RedisCacheProofs`) | `WarmSpec => []WarmTypeOK`, `[]WarmIndexBounded`, `[]WarmedAreLast` |
| `WarmUpWithinPromise` (there too) | `WarmSpec => [][LossyCache!Next]`: the commands of the warm-up are steps of `LossyCache` |
| `ServiceProofs`: `TypeCorrect`, `NoPoolLeaked`, `ShutdownLosesNothing`, `SavedIsNever404`, `ExitOnlyOnFailure` | `Spec => []TypeOK`, `[]OnePool`, `[]ShutdownSparesMessages`, `[]NoFalse404`, `[]OrderlyExit` |
| `ProducerProofs`: `TypeCorrect`, `TokensConserved`, `OrdersOnce` | `Spec => []TypeOK`, `[]SlotsConserved`, `[]EachOrderOnce` |
| `OrderDataProofs`: `TypeCorrect`, `AmountsAddUp`, `GapIsComplete` | `Spec => []TypeOK`, `[]AmountExact`, `[]GapKnown` |
| `ItemsTypeCorrect`, `PrivateItemsStay`, `NothingIsInvented` (there too) | `ItemsSpec => []ItemsTypeOK`, `[]PrivateItemsFaithful`, `[]NothingInvented` |
| `ConfigMetricsProofs`: `TypeCorrect`, `RefusalDeserved`, `LoggerPresent` | `Spec => []TypeOK`, `[]FatalDeserved`, `[]PanicOnlyUnknown` |
| `MetricsTypeCorrect`, `AnswersAlwaysAgree`, `HitRateIsSound`, `GaugesComeBack` (there too) | `MetricsSpec => []MetricsTypeOK`, `[]AnswersAgree`, `[]HitRateSound`, `[]GaugesReturn` |

*OrderConsumer.*  `CommittedHandled` is not inductive: a commit takes the stored
offset, which must be covered (`StoredHandled`); it is stored from the message
in hand (`HandledBeforeStore`, `LastRead`), and everything before that message
must be handled (`PositionCovered`: what the owner has read is handled, but
for the message it is handling).  A member that lost its partition keeps its
message but not the ownership, which is why the parts speak of `owner[p]`.
`HandledSavedOrAbandoned` turns "handled" into "saved or given up", and
`BudgetInv` bounds the attempts of each process by the failures so far, so
that nobody gives up within the budget.  `IInv` is their conjunction.

*RedisCache.*  `IndexBounded` is inductive with `TypeOK`: a `ZADD` adds at most
one member and makes its client an evicting one, a client that leaves the
eviction after `ZCARD` has seen the bound, and one that leaves it by
`ZREMRANGEBYRANK` has removed at least one member or all above the capacity.
`CacheExact` speaks of saves that never overlapped, by whichever goroutines:
`ExactInv` says that a save under way is then `Alone`, and `Stage` how keys and
members are related before each command of the one that is.  The refinement maps `SET` to the write, `DEL` to a loss
and every other command to a stutter.

*CachedRepo.*  `IInv` extends the properties to what a call carries
(`WriteStored`, `ContentSent`), relates what readers expect to the rows
(`ExpectsSaved`, `SavedStored`) and the rows to what was sent (`RowsSent`), and
rests on one fact about every step: a row and its content stay until deleted
(`GrowsStep`).  For `CopiesAgree` a read must return the content of the row.
The condition on the contents (`Alike`) gives that, since an order becomes
`mixed` only when two contents of it were sent (`MixedDiffer`); and a save with
another content ends `Alike`, so the agreement is lost only together with its
precondition.  `GoneForGood` follows from `WriteStored`: a write that ends is of
another order than one that is `Gone`, and a reader can only begin one with what
it has just read.  `saved` counts a save from the moment the database's
`SaveOrder` returned; were it counted from the return of the whole call,
`ReadYourWrites` would say less.

*OrderStore.*  `WholeOrder` speaks of committed rows only.  What makes it
inductive is what an open transaction has done when it reaches a statement
(`Progress`), that the rows it inserted are still new and what they refer to is
still there (`Uncommitted`), that no two transactions inserted the same key
(`Exclusive`, which `Blockers` maintains) and the foreign keys of committed rows
(`References`).  At a commit they give a whole order, or one that was there
before; the latter is where `Len(items) > 0`, from validation, is needed.
`RowRead` relates what a reader holds between its two reads to the tables.
The archive's `db` is the order row with the items linked to it (`Placed`), and
`racing` are the writers past `checkOrderExists` (`Racing`).  Only a commit
changes it: what the transaction adds are the links of its own order
(`Progress`), its order row if it inserted one, and nothing of other orders; all
other statements are stutters, but for `CheckExists`, which is the look.

*WarmedCache.*  Each of its steps is a step of `RedisCache` or changes nothing
of it but the number of faults (`WarmStepOfCache`), so what holds there holds
here for any start, `LossyCache` included; only the index `i` of the warm-up
needs an argument of its own.  `WarmIndexBounded` is the bound of `RedisCache`
for the larger of the capacity and what was left.  `WarmedAreLast` needs more
than what is true between saves.  `WarmInv` follows a warm-up without failures:
every listed order is stored, and the list is the newest orders while nobody
else saves (`ListCovers`); what an earlier process left scores lower than every
order warmed so far and than every score in flight (`LeftoversLast`, where the
clock not being set back to before `Boot` is needed), so an eviction takes it
first; the warm-up began with fewer members than the capacity, or counted none
(`RoomFound`); and while nobody else saves, the keys and the counts of the one
save under way are known at each command (`LoneSave`), with orphan keys set
apart, and nothing warmed is evicted (`WarmedKept`).  At the end the members are
at most the capacity: either the list has as many orders as the cache and one
more member would be one too many, or it has fewer and then only listed orders,
those saved meanwhile, and leftovers that are not stored are there.

*SharedItems.*  What a reader is given was read from `order`, `links` and `rows`
or from the cache, so `ItemsInv` says of each of them that it leads back to an
order that was sent (`StoredSent`, `LinksSent`, `RowsSent`), and of each copy,
in the cache, in a reader's hands or answered, that it is `Faithful`: made of
items that were sent, and for an order that shares none, exactly its own.
`Faithful` stays true when another order is sent, since an order with the same uid
or one of its items ends the privacy that the last clause asks for.

*Metrics.*  The differences of counters at one moment are cardinalities of sets
of requests: those that have their outcome but are not counted yet
(`Answering`), those looked up but without an outcome (`LookedUp`), those in
flight; and panics, of which those still `Unwinding` have no outcome yet.  Every
action moves one request between these sets and one counter with it
(`Differences`).  A scrape reads two counters at two moments.  `Readings` bounds
what the counter read later can still become by what was read first: the
requests that may yet add to it (`Before`) were in flight when the scrape began
or have come in since, and `during` counts both.  At the end of the scrape that
is the property.  That no counter exceeds the number of events, part of the
type, counts the same requests (`CountsBounded`).

*Service.*  `ShutdownSparesMessages` rests on `PauseInv`: without failures an
attempt fails only on the pool that the shutdown has closed, and after `k` failed
ones `Delay[k] - 1` seconds have passed since the signal, which after the last
(`OutlastAssumption`: twice the last pause is more than grace, lag and one second)
is more than the process has.  `PhaseInv` says what is there in each
phase, `ExitInv` and `AnswerInv` what the last two theorems need of it: a server
that has failed has ended the process, so a process that still closes its parts
has none; and a request that began after the save finds the row if the payment
is its own (`JoinedAssumption`: `Joined` is a Boolean).

*Producer.*  `SlotsConserved` is inductive with the type; the cardinalities
are those of a set that gains or loses one goroutine.  `OrderInv` relates each
iteration's id to what is in the topic; an order is `Amiss` only after a fault
that paid for it (`FaultPays`).

*OrderValidation.*  The sum of two parts that are not negative wraps to a negative
number or not at all, so the equation with the signs is exact at every width.
`GapTexts` is the difference of what the rules and the columns take, field by
field (`TextGap`), so that no refusal is outside it.

*Config.*  `StageInv` says what each stage has computed; that a default is
never at fault (`DefaultsPositive`) makes a refusal the user's own.

Only proved: the type invariants that no run lists, `PanicOnlyUnknown`, and that the warm-up stays within `LossyCache`.  Only
model-checked: the liveness properties `EveryMessageHandled`, `EveryOrderSaved`,
`EverySaveReturns`, `WarmUpEnds`, `StartDecides`, `RunReturns` and `ProducerEnds`,
since fairness and ENABLED are outside the prover.  Every other property of a
run is a theorem.

## 5. Not modelled, and why

* Static pages, Swagger and `HealthCheck` change nothing but the request
  counters, where they are the other routes.  Routes registered before the
  middleware (`/static`) are not counted at all.  README.md:35 names
  /api/v1/health where http.go:28 has /health, a wording no state depends on.
* Generated API docs (`docs`), deployment files and the dashboards.
* Histogram contents other than the last message's duration, and the metrics
  that no code moves.
* Which partition a message of the producer goes to: `OrderConsumer` takes any
  log in any partition.
* Message contents beyond what the properties tell apart, and length limits,
  where no rule allows more than its column.
* In `CachedRepo`, when readers stop finding an order after `DeleteOrder`, which
  leaves it in the cache: nothing in the service calls it and the code promises
  nothing.  `GoneForGood` says only that no copy comes back after the last.
* A Redis command that takes effect after go-redis has given it up: in
  `RedisCache` and `LossyCache` it has taken effect by then or never does.
* Expiry of Redis keys (the code sets none) and eviction by Redis itself, which
  `LossyCache` would allow.

## 6. Plan

Done, in this order: `OrderConsumer` with `AtLeastOnce` and its proofs,
`RedisCache`, `LossyCache` and their refinement, `CachedRepo` and its proofs,
`OrderStore`, `OrderArchive` and their refinement; then `WarmedCache`, `Service`,
`Producer`, `OrderValidation` and `Config` with their proofs, `Metrics` and
`SharedItems`; then the proofs of `WarmedAreLast`, of `SharedItems` and of `Metrics`,
and `CachedRepo` over rows that several saves have written.

Worth doing next: `OrderConsumer` over `OrderArchive`; a `Stop` that fails in
the run with liveness, for the partition of a member that left without closing;
the columns of items in `CachedRepo`, where they are any content;
`Service` with two messages in hand, for the offset that is committed while the
database closes.
