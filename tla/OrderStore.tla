----------------------------- MODULE OrderStore -----------------------------
(* Store (postgres/order.go): SaveOrder is one check outside a transaction   *)
(* and then a transaction of several statements at READ COMMITTED, DeleteOrder*)
(* removes an order with its rows, GetOrderByUID reads in two statements.    *)
(* One action is one SQL statement.  A row is what a later step asks of it:  *)
(* orders (with its delivery) and payment hold the order they were written   *)
(* for, items whether it exists, order_items a quantity.  The lookup tables  *)
(* (brands, delivery_services, payment_providers) and the CHECK constraints  *)
(* are left out: a statement they fail is a Fail.                            *)
EXTENDS Naturals, Sequences

CONSTANTS
  Writers,    \* goroutines that call SaveOrder
  Readers,    \* goroutines that call GetOrderByUID
  Uids,       \* order_uid values
  Items,      \* chrt_id values
  Orders,     \* orders: records with uid, transaction and items
  None,       \* no order: a missing row
  MaxErrors,  \* bound: failed statements and commits
  MaxDeletes, \* bound: calls of DeleteOrder
  MaxReads    \* bound: calls of GetOrderByUID

(* Validation asks that the items are not empty and that the transaction is  *)
(* formed like a uid.                                                        *)
ASSUME StoreAssumption ==
  /\ None \notin Orders \cup [order : Orders, items : SUBSET Items]
  /\ \A o \in Orders :
       /\ o.uid \in Uids
       /\ o.transaction \in Uids
       /\ o.items \in Seq(Items)
       /\ o.items # <<>>

VARIABLES
  orders,   \* orders[u]: committed row of orders and delivery, or None
  payment,  \* payment[t]: committed row with transaction t, or None
  items,    \* chrt_ids of the committed rows of items
  links,    \* links[u][i]: committed quantity of order_items, 0 if no row
  work,     \* work[w]: rows written in w's transaction, not yet committed
  pc,       \* pc[w]: the next statement of w
  arg,      \* arg[w]: the order w is saving, or None
  next,     \* next[w]: index of the item in the loop
  reading,  \* reading[r]: the uid r asks for, or None
  row,      \* row[r]: orders and payment as the first read found them
  answers,  \* history: the <<order row, payment row, items>> returned
  saved,    \* history: uids for which SaveOrder has returned nil
  deleted,  \* history: uids that were deleted
  used      \* how much of each bound has been spent

tables == <<orders, payment, items, links>>
writerVars == <<work, pc, arg, next>>
readerVars == <<reading, row, answers>>
vars == <<orders, payment, items, links, work, pc, arg, next, reading, row,
          answers, saved, deleted, used>>

Transaction == {"order", "delivery", "payment", "item", "link", "commit"}

(* Whether the orders and payment rows were inserted, the items upserted,    *)
(* and what was added to the quantities.                                     *)
Work == [order : BOOLEAN, payment : BOOLEAN, items : SUBSET Items,
         links : [Items -> Nat]]

NoWork == [order |-> FALSE, payment |-> FALSE, items |-> {},
           links |-> [i \in Items |-> 0]]

NoRow == [order |-> None, payment |-> None]

ItemsOf(o) == {o.items[k] : k \in DOMAIN o.items}

TypeOK ==
  /\ orders \in [Uids -> Orders \cup {None}]
  /\ \A u \in Uids : orders[u] # None => orders[u].uid = u
  /\ payment \in [Uids -> Orders \cup {None}]
  /\ items \subseteq Items
  /\ links \in [Uids -> [Items -> Nat]]
  /\ work \in [Writers -> Work]
  /\ pc \in [Writers -> {"idle", "check"} \cup Transaction]
  /\ arg \in [Writers -> Orders \cup {None}]
  /\ next \in [Writers -> Nat \ {0}]
  /\ \A w \in Writers :
       /\ (arg[w] = None) <=> (pc[w] = "idle")
       /\ pc[w] \in {"item", "link"} => next[w] \in DOMAIN arg[w].items
  /\ reading \in [Readers -> Uids \cup {None}]
  /\ row \in [Readers -> {NoRow} \cup [order : Orders, payment : Orders]]
  /\ \A r \in Readers : row[r] # NoRow => reading[r] # None
  /\ answers \subseteq Orders \X Orders \X SUBSET Items
  /\ saved \subseteq Uids
  /\ deleted \subseteq Uids
  /\ used \in [{"errors", "deletes", "reads"} -> Nat]

Init ==
  /\ orders = [u \in Uids |-> None]
  /\ payment = [u \in Uids |-> None]
  /\ items = {}
  /\ links = [u \in Uids |-> [i \in Items |-> 0]]
  /\ work = [w \in Writers |-> NoWork]
  /\ pc = [w \in Writers |-> "idle"]
  /\ arg = [w \in Writers |-> None]
  /\ next = [w \in Writers |-> 1]
  /\ reading = [r \in Readers |-> None]
  /\ row = [r \in Readers |-> NoRow]
  /\ answers = {}
  /\ saved = {} /\ deleted = {}
  /\ used = [b \in {"errors", "deletes", "reads"} |-> 0]

---------------------------------------------------------------------------
(* Rows, locks and waiting.                                                  *)

Item(w) == arg[w].items[next[w]]

(* The orders row a foreign key of w's statement refers to: committed, or    *)
(* inserted by w itself.                                                     *)
Visible(w, u) ==
  orders[u] # None \/ (work[w].order /\ arg[w].uid = u)

(* The transactions that w's next statement waits for: those that have       *)
(* inserted a row with the same key, or updated the same row.  order_items   *)
(* needs no line, whoever links an item holds its row of items.              *)
Blockers(w) ==
  {v \in Writers \ {w} :
     \/ /\ pc[w] = "order"
        /\ work[v].order
        /\ arg[v].uid = arg[w].uid
     \/ /\ pc[w] = "delivery"
        /\ ~Visible(w, arg[w].uid)
        /\ work[v].order
        /\ arg[v].uid = arg[w].uid
        /\ pc[v] # "delivery"
     \/ /\ pc[w] = "payment"
        /\ work[v].payment
        /\ arg[v].transaction = arg[w].transaction
     \/ /\ pc[w] = "item"
        /\ Item(w) \in work[v].items}

(* v waits for a transaction of S, and one of S waits for v. *)
Deadlocked(w) ==
  \E S \in SUBSET Writers :
    /\ w \in S
    /\ \A v \in S : Blockers(v) \cap S # {}
    /\ \A v \in S : \E x \in S : v \in Blockers(x)

Error ==
  /\ used.errors < MaxErrors
  /\ used' = [used EXCEPT !.errors = @ + 1]

Goto(w, step) == pc' = [pc EXCEPT ![w] = step]

(* The deferred tx.Rollback, or the end of a committed transaction. *)
EndTx(w) == work' = [work EXCEPT ![w] = NoWork]

(* Seeded bug: without the deferred tx.Rollback an error leaves the          *)
(* transaction open.                                                         *)
ReturnLeaving(w) ==
  /\ work' = IF pc[w] \in {"check", "commit"}
             THEN [work EXCEPT ![w] = NoWork] ELSE work
  /\ Goto(w, "idle")
  /\ UNCHANGED <<arg, next>>

Return(w) ==
  /\ EndTx(w)
  /\ Goto(w, "idle")
  /\ arg' = [arg EXCEPT ![w] = None]
  /\ next' = [next EXCEPT ![w] = 1]

---------------------------------------------------------------------------
(* SaveOrder.                                                                *)

Save(w, o) ==
  /\ pc[w] = "idle"
  /\ Goto(w, "check")
  /\ arg' = [arg EXCEPT ![w] = o]
  /\ UNCHANGED <<tables, work, next, readerVars, saved, deleted, used>>

(* checkOrderExists, outside the transaction. *)
CheckExists(w) ==
  /\ pc[w] = "check"
  /\ \/ /\ orders[arg[w].uid] # None
        /\ saved' = saved \cup {arg[w].uid}
        /\ Return(w)
     \/ /\ orders[arg[w].uid] = None
        /\ Goto(w, "order")
        /\ UNCHANGED <<work, arg, next, saved>>
  /\ UNCHANGED <<tables, readerVars, deleted, used>>

(* A statement of the transaction is done and has set work'. *)
Then(w, step) ==
  /\ Goto(w, step)
  /\ UNCHANGED <<tables, arg, readerVars, saved, deleted, used>>

(* Seeded bug: the row is inserted with s.db, outside the transaction. *)
InsertOrderAlone(w) ==
  /\ pc[w] = "order"
  /\ Blockers(w) = {}
  /\ orders' = IF orders[arg[w].uid] = None
               THEN [orders EXCEPT ![arg[w].uid] = arg[w]] ELSE orders
  /\ Goto(w, "delivery")
  /\ UNCHANGED <<payment, items, links, work, arg, next, readerVars, saved,
                 deleted, used>>

(* Seeded bug: ON CONFLICT DO UPDATE. *)
UpsertOrder(w) ==
  /\ pc[w] = "order"
  /\ Blockers(w) = {}
  /\ work' = [work EXCEPT ![w].order = TRUE]
  /\ UNCHANGED next
  /\ Then(w, "delivery")

(* ON CONFLICT DO NOTHING, after waiting for another insertion of the uid. *)
InsertOrder(w) ==
  /\ pc[w] = "order"
  /\ Blockers(w) = {}
  /\ work' = [work EXCEPT ![w].order = (orders[arg[w].uid] = None)]
  /\ UNCHANGED next
  /\ Then(w, "delivery")

InsertDelivery(w) ==
  /\ pc[w] = "delivery"
  /\ Visible(w, arg[w].uid)
  /\ UNCHANGED <<work, next>>
  /\ Then(w, "payment")

(* The key is the transaction, which refers to the uid of an order. *)
InsertPayment(w) ==
  /\ pc[w] = "payment"
  /\ Blockers(w) = {}
  /\ Visible(w, arg[w].transaction)
  /\ work' = [work EXCEPT ![w].payment = (payment[arg[w].transaction] = None)]
  /\ UNCHANGED next
  /\ Then(w, "item")

UpsertItem(w) ==
  /\ pc[w] = "item"
  /\ Blockers(w) = {}
  /\ work' = [work EXCEPT ![w].items = @ \cup {Item(w)}]
  /\ UNCHANGED next
  /\ Then(w, "link")

(* Seeded bug: the loop ends one item early. *)
MoreThanOneItem(w) == next[w] + 1 < Len(arg[w].items)

MoreItems(w) == next[w] < Len(arg[w].items)

(* The quantity is 1, or one more than it was. *)
LinkItem(w) ==
  /\ pc[w] = "link"
  /\ Visible(w, arg[w].uid)
  /\ work' = [work EXCEPT ![w].links[Item(w)] = @ + 1]
  /\ \/ MoreItems(w) /\ next' = [next EXCEPT ![w] = @ + 1] /\ Then(w, "item")
     \/ ~MoreItems(w) /\ UNCHANGED next /\ Then(w, "commit")

(* The orders row the statement refers to is not there. *)
ForeignKeyError(w) ==
  /\ \/ pc[w] \in {"delivery", "link"} /\ ~Visible(w, arg[w].uid)
     \/ pc[w] = "payment" /\ ~Visible(w, arg[w].transaction)
  /\ Blockers(w) = {}
  /\ Return(w)
  /\ UNCHANGED <<tables, readerVars, saved, deleted, used>>

(* What the tables are once w's transaction is committed. *)
Apply(w) ==
  /\ orders' = IF work[w].order
               THEN [orders EXCEPT ![arg[w].uid] = arg[w]] ELSE orders
  /\ payment' = IF work[w].payment
                THEN [payment EXCEPT ![arg[w].transaction] = arg[w]]
                ELSE payment
  /\ items' = items \cup work[w].items
  /\ links' = [links EXCEPT ![arg[w].uid] =
                 [i \in Items |-> @[i] + work[w].links[i]]]

Commit(w) ==
  /\ pc[w] = "commit"
  /\ Apply(w)
  /\ saved' = saved \cup {arg[w].uid}
  /\ Return(w)
  /\ UNCHANGED <<readerVars, deleted, used>>

(* The answer to COMMIT is an error; the transaction may be committed. *)
CommitError(w) ==
  /\ pc[w] = "commit"
  /\ Error
  /\ Apply(w) \/ UNCHANGED tables
  /\ Return(w)
  /\ UNCHANGED <<readerVars, saved, deleted>>

(* Any other failure of a statement, the end of the context, a lost          *)
(* connection.                                                               *)
Fail(w) ==
  /\ pc[w] # "idle"
  /\ Error
  /\ Return(w)
  /\ UNCHANGED <<tables, readerVars, saved, deleted>>

(* PostgreSQL ends a cycle of waiting transactions by failing one of them. *)
AbortDeadlock(w) ==
  /\ Deadlocked(w)
  /\ Return(w)
  /\ UNCHANGED <<tables, readerVars, saved, deleted, used>>

---------------------------------------------------------------------------
(* DeleteOrder.  The rows that refer to the order go with it; the deletion   *)
(* waits for the transactions that have inserted or updated such rows.  An   *)
(* order that is not there is an error that changes nothing.                 *)

Holds(w, u) ==
  \/ work[w].payment /\ arg[w].transaction = u
  \/ arg[w] # None /\ arg[w].uid = u /\ \E i \in Items : work[w].links[i] > 0

DeleteOrder(u) ==
  /\ used.deletes < MaxDeletes
  /\ used' = [used EXCEPT !.deletes = @ + 1]
  /\ orders[u] # None
  /\ \A w \in Writers : ~Holds(w, u)
  /\ orders' = [orders EXCEPT ![u] = None]
  /\ payment' = [payment EXCEPT ![u] = None]
  /\ links' = [links EXCEPT ![u] = [i \in Items |-> 0]]
  /\ deleted' = deleted \cup {u}
  /\ UNCHANGED <<items, writerVars, readerVars, saved>>

---------------------------------------------------------------------------
(* GetOrderByUID: the joined rows of orders and payment, then the items.     *)

Get(r, u) ==
  /\ reading[r] = None
  /\ used.reads < MaxReads
  /\ used' = [used EXCEPT !.reads = @ + 1]
  /\ reading' = [reading EXCEPT ![r] = u]
  /\ UNCHANGED <<tables, writerVars, row, answers, saved, deleted>>

ReadOrder(r) ==
  /\ reading[r] # None
  /\ row[r] = NoRow
  /\ orders[reading[r]] # None
  /\ payment[reading[r]] # None
  /\ row' = [row EXCEPT ![r] = [order |-> orders[reading[r]],
                                payment |-> payment[reading[r]]]]
  /\ UNCHANGED <<tables, writerVars, reading, answers, saved, deleted, used>>

Done(r) ==
  /\ reading' = [reading EXCEPT ![r] = None]
  /\ row' = [row EXCEPT ![r] = NoRow]
  /\ UNCHANGED <<tables, writerVars, saved, deleted, used>>

(* ErrRecordNotFound. *)
NotFound(r) ==
  /\ reading[r] # None
  /\ row[r] = NoRow
  /\ orders[reading[r]] = None \/ payment[reading[r]] = None
  /\ UNCHANGED answers
  /\ Done(r)

Linked(u) == {i \in Items : links[u][i] > 0}

(* getOrderItems. *)
ReadItems(r) ==
  /\ row[r] # NoRow
  /\ answers' = answers \cup
       {<<row[r].order, row[r].payment, Linked(reading[r]) \cap items>>}
  /\ Done(r)

ReadError(r) ==
  /\ reading[r] # None
  /\ UNCHANGED answers
  /\ Done(r)

---------------------------------------------------------------------------

Step(w) ==
  \/ CheckExists(w) \/ InsertOrder(w) \/ InsertDelivery(w)
  \/ InsertPayment(w) \/ UpsertItem(w) \/ LinkItem(w)
  \/ ForeignKeyError(w) \/ Commit(w) \/ AbortDeadlock(w)

Next ==
  \/ \E w \in Writers :
       \/ \E o \in Orders : Save(w, o)
       \/ Step(w) \/ CommitError(w) \/ Fail(w)
  \/ \E u \in Uids : DeleteOrder(u)
  \/ \E r \in Readers :
       \/ \E u \in Uids : Get(r, u)
       \/ ReadOrder(r) \/ NotFound(r) \/ ReadItems(r) \/ ReadError(r)

Spec == Init /\ [][Next]_vars

(* A statement that can run does, and one that waits gets its turn:          *)
(* PostgreSQL queues the transactions that wait for a row.                   *)
FairSpec == Spec /\ \A w \in Writers : SF_vars(Step(w))
---------------------------------------------------------------------------
(* Properties.                                                               *)

(* An order whose row is committed has all that was saved with it, however   *)
(* its transaction interleaved with, waited for, or deadlocked with others:  *)
(* a quantity for each of its items, whose rows exist, and, when its         *)
(* transaction is its uid, its own payment and not another order's.          *)
WholeOrder ==
  \A u \in Uids : orders[u] # None =>
    /\ ItemsOf(orders[u]) \subseteq Linked(u) \cap items
    /\ orders[u].transaction = u => payment[u] = orders[u]

(* What GetOrderByUID returns has every item of the order and, when its      *)
(* transaction is its uid, its payment, although the order and its items are *)
(* read in two statements outside a transaction; only a deletion of the      *)
(* order can make it come back short of items.                               *)
ReadWhole ==
  \A a \in answers :
    /\ a[1].uid \notin deleted => ItemsOf(a[1]) \subseteq a[3]
    /\ a[1].transaction = a[1].uid => a[2] = a[1]

(* Every call of SaveOrder returns, although transactions wait for each      *)
(* other's rows of orders, payment and items: whatever fails, the locks it   *)
(* held are released.                                                        *)
EverySaveReturns ==
  \A w \in Writers : pc[w] # "idle" ~> pc[w] = "idle"

(* The orders with the items linked to them, and the saves that have passed  *)
(* the check.                                                                *)
Placed ==
  [u \in Uids |->
     IF orders[u] = None THEN None
       ELSE [order |-> orders[u], items |-> Linked(u)]]

Racing == {w \in Writers : pc[w] \notin {"idle", "check"}}

Archive == INSTANCE OrderArchive
             WITH db <- Placed, call <- arg, racing <- Racing

(* The store is the archive CachedRepo relies on, in its orders and the      *)
(* items linked to them: each transaction takes effect in one step, the      *)
(* order of the first save stays, a save that begins later changes nothing,  *)
(* one that passed the check before it links its items too, nil means that   *)
(* the order is there, and an error leaves all of a save or nothing.         *)
ImplementsArchive == Archive!Spec

Quantity(o, i) == Len(SelectSeq(o.items, LAMBDA x : x = i))

(* Said but not so: an order that exists is skipped (postgres/order.go:28),  *)
(* so that a stored order has the quantities it was saved with. Two          *)
(* concurrent saves of one order double them.                                *)
DuplicateSkipped ==
  \A u \in Uids : orders[u] # None =>
    \A i \in Items : links[u][i] = Quantity(orders[u], i)
---------------------------------------------------------------------------
(* What makes them inductive.                                                *)

(* What w's transaction has done when it reaches a statement. *)
Progress(w) ==
  /\ pc[w] \in {"idle", "check", "order"} => work[w] = NoWork
  /\ pc[w] \notin {"item", "link", "commit"} => next[w] = 1
  /\ pc[w] = "link" => Item(w) \in work[w].items
  /\ pc[w] # "idle" => \A k \in DOMAIN arg[w].items :
       k < next[w] \/ pc[w] = "commit" => work[w].links[arg[w].items[k]] > 0
  /\ \A i \in Items : work[w].links[i] > 0 =>
       i \in work[w].items /\ i \in ItemsOf(arg[w])

(* Rows written and not committed: they are new, and refer to rows that the  *)
(* transaction can see.                                                      *)
Uncommitted(w) ==
  /\ work[w].order => orders[arg[w].uid] = None
  /\ work[w].payment => /\ payment[arg[w].transaction] = None
                        /\ Visible(w, arg[w].transaction)
  /\ \A i \in Items : work[w].links[i] > 0 => Visible(w, arg[w].uid)
  /\ /\ pc[w] \in {"item", "link", "commit"}
     /\ work[w].order
     /\ arg[w].transaction = arg[w].uid
     => work[w].payment

(* No two transactions have inserted a row with the same key. *)
Exclusive(w, v) ==
  /\ work[w].order /\ work[v].order => arg[w].uid # arg[v].uid
  /\ work[w].payment /\ work[v].payment =>
       arg[w].transaction # arg[v].transaction

(* Foreign keys of the committed rows. *)
References(u) ==
  /\ payment[u] # None => orders[u] # None
  /\ \A i \in Items : links[u][i] > 0 => orders[u] # None

(* What a reader has of an order is the order, unless it was deleted. *)
RowRead(r) ==
  row[r] # NoRow =>
    /\ row[r].order.uid = reading[r]
    /\ reading[r] \notin deleted => orders[reading[r]] = row[r].order
    /\ row[r].order.transaction = reading[r] => row[r].payment = row[r].order

IInv ==
  /\ TypeOK
  /\ \A w \in Writers : Progress(w) /\ Uncommitted(w)
  /\ \A w \in Writers : \A v \in Writers \ {w} : Exclusive(w, v)
  /\ \A u \in Uids : References(u)
  /\ WholeOrder
  /\ \A r \in Readers : RowRead(r)
  /\ ReadWhole
=============================================================================
