----------------------------- MODULE SharedItems -----------------------------
(* The columns of items, which OrderStore leaves out: a row of items belongs *)
(* to a chrt_id and not to an order, so saving one order changes what a later*)
(* read of another returns (postgres/order.go), while the cache keeps what   *)
(* it was given (cachedRepo.go).  A transaction is one step here: its row    *)
(* locks make the upserts of two transactions follow their commits           *)
(* (OrderStore), and one that fails changes nothing.                         *)
EXTENDS Naturals, Sequences

CONSTANTS
  Writers,  \* goroutines that save orders
  Readers,  \* goroutines that read orders
  Uids,     \* order_uid values
  Chrts,    \* chrt_id values
  Columns,  \* the other columns of an item: price, name, status and so on
  Orders,   \* orders: records with uid and items, a sequence of items
  None      \* no order, no row, no key

Items == [chrt : Chrts, columns : Columns]

ASSUME OrderAssumption ==
  /\ None \notin Orders /\ None \notin Columns /\ None \notin Uids
  /\ \A o \in Orders : o.uid \in Uids /\ o.items \in Seq(Items)

VARIABLES
  order,    \* order[u]: the row of orders, or None
  links,    \* links[u]: the chrt_ids order_items links u to
  rows,     \* rows[i]: the columns of the row of items, or None
  cache,    \* cache[u]: the items in the cached order, or None
  pc,       \* pc[w]: what SaveOrder does next
  arg,      \* arg[w]: the order w saves
  reading,  \* reading[r]: the uid r asks for, or None
  found,    \* found[r]: the items the database returned, or None
  answers,  \* history: what readers were given
  sent      \* history: the orders that were saved

writerVars == <<pc, arg>>
readerVars == <<reading, found, answers>>
itemVars == <<order, links, rows, cache, writerVars, readerVars, sent>>

(* The items of an order, as it was sent. *)
ItemsOf(o) == {o.items[k] : k \in DOMAIN o.items}

ItemsTypeOK ==
  /\ order \in [Uids -> Orders \cup {None}]
  /\ links \in [Uids -> SUBSET Chrts]
  /\ \A u \in Uids : \A i \in links[u] : rows[i] # None
  /\ rows \in [Chrts -> Columns \cup {None}]
  /\ cache \in [Uids -> {None} \cup SUBSET Items]
  /\ pc \in [Writers -> {"idle", "check", "commit", "cache"}]
  /\ arg \in [Writers -> Orders \cup {None}]
  /\ reading \in [Readers -> Uids \cup {None}]
  /\ found \in [Readers -> {None} \cup SUBSET Items]
  /\ answers \subseteq Uids \X SUBSET Items
  /\ sent \subseteq Orders

ItemsInit ==
  /\ order = [u \in Uids |-> None]
  /\ links = [u \in Uids |-> {}]
  /\ rows = [i \in Chrts |-> None]
  /\ cache = [u \in Uids |-> None]
  /\ pc = [w \in Writers |-> "idle"]
  /\ arg = [w \in Writers |-> None]
  /\ reading = [r \in Readers |-> None]
  /\ found = [r \in Readers |-> None]
  /\ answers = {} /\ sent = {}

Goto(w, from, to) == pc[w] = from /\ pc' = [pc EXCEPT ![w] = to]

---------------------------------------------------------------------------
(* CachedRepo.SaveOrder over Store.SaveOrder.                                *)

SaveOrder(w, o) ==
  /\ Goto(w, "idle", "check")
  /\ arg' = [arg EXCEPT ![w] = o]
  /\ sent' = sent \cup {o}
  /\ UNCHANGED <<order, links, rows, cache, readerVars>>

(* checkOrderExists, before the transaction. *)
Check(w) ==
  /\ Goto(w, "check", IF order[arg[w].uid] = None THEN "commit" ELSE "cache")
  /\ UNCHANGED <<order, links, rows, cache, arg, readerVars, sent>>

(* ON CONFLICT (chrt_id) DO UPDATE, item after item. *)
Upsert(o) ==
  [i \in Chrts |->
     LET K == {k \in DOMAIN o.items : o.items[k].chrt = i}
     IN IF K = {} THEN rows[i]
        ELSE o.items[CHOOSE k \in K : \A l \in K : l <= k].columns]

(* Seeded bug: the loop ends before the last item is linked. *)
LinkAllButLast(o) == {o.items[k].chrt : k \in 1 .. Len(o.items) - 1}

(* INSERT INTO order_items ... ON CONFLICT: one row for each chrt_id. *)
Link(o) == {o.items[k].chrt : k \in DOMAIN o.items}

(* An order that another transaction inserted since the check is kept, but   *)
(* the items of this one are upserted and linked to it all the same.         *)
Commit(w) ==
  LET o == arg[w] IN
  /\ Goto(w, "commit", "cache")
  /\ order' = [order EXCEPT ![o.uid] = IF @ = None THEN o ELSE @]
  /\ links' = [links EXCEPT ![o.uid] = @ \cup Link(o)]
  /\ rows' = Upsert(o)
  /\ UNCHANGED <<cache, arg, readerVars, sent>>

(* The cache is given the order as it was sent. *)
CacheSave(w) ==
  /\ Goto(w, "cache", "idle")
  /\ cache' = [cache EXCEPT ![arg[w].uid] = ItemsOf(arg[w])]
  /\ arg' = [arg EXCEPT ![w] = None]
  /\ UNCHANGED <<order, links, rows, readerVars, sent>>

---------------------------------------------------------------------------
(* CachedRepo.GetOrderByUID over Store.GetOrderByUID.                        *)

Read(r, u) ==
  /\ reading[r] = None
  /\ IF cache[u] # None
       THEN answers' = answers \cup {<<u, cache[u]>>} /\ UNCHANGED reading
       ELSE reading' = [reading EXCEPT ![r] = u] /\ UNCHANGED answers
  /\ UNCHANGED <<order, links, rows, cache, writerVars, found, sent>>

(* Seeded bug: no WHERE oi.order_uid = $1. *)
RowsOfAll(u) ==
  {[chrt |-> i, columns |-> rows[i]] : i \in UNION {links[v] : v \in Uids}}

(* getOrderItems: quantity is read and dropped. *)
RowsOf(u) == {[chrt |-> i, columns |-> rows[i]] : i \in links[u]}

GetOrder(r) ==
  /\ reading[r] # None /\ found[r] = None
  /\ IF order[reading[r]] # None
       THEN found' = [found EXCEPT ![r] = RowsOf(reading[r])] /\ UNCHANGED reading
       ELSE reading' = [reading EXCEPT ![r] = None] /\ UNCHANGED found
  /\ UNCHANGED <<order, links, rows, cache, writerVars, answers, sent>>

(* What was read then is put into the cache now, and returned. *)
Fill(r) ==
  /\ found[r] # None
  /\ cache' = [cache EXCEPT ![reading[r]] = found[r]]
  /\ answers' = answers \cup {<<reading[r], found[r]>>}
  /\ reading' = [reading EXCEPT ![r] = None]
  /\ found' = [found EXCEPT ![r] = None]
  /\ UNCHANGED <<order, links, rows, writerVars, sent>>

Evict(u) ==
  /\ cache[u] # None
  /\ cache' = [cache EXCEPT ![u] = None]
  /\ UNCHANGED <<order, links, rows, writerVars, readerVars, sent>>

Write(w) ==
  (\E o \in Orders : SaveOrder(w, o)) \/ Check(w) \/ Commit(w) \/ CacheSave(w)
Get(r) == (\E u \in Uids : Read(r, u)) \/ GetOrder(r) \/ Fill(r)

ItemsNext ==
  \/ \E w \in Writers : Write(w)
  \/ \E r \in Readers : Get(r)
  \/ \E u \in Uids : Evict(u)

ItemsSpec == ItemsInit /\ [][ItemsNext]_itemVars

---------------------------------------------------------------------------
(* Properties.                                                               *)

Carries(o) == {item.chrt : item \in ItemsOf(o)}

(* No other order carries its chrt_ids, and it carries each once. *)
Private(o) ==
  /\ \A k, l \in DOMAIN o.items : o.items[k].chrt = o.items[l].chrt => k = l
  /\ \A p \in sent \ {o} : p.uid # o.uid /\ Carries(p) \cap Carries(o) = {}

(* An order that shares no item is read as it was sent, from the cache and   *)
(* from the database, whatever is saved, read and evicted beside it          *)
(* (order.go:128-170, 299-345; cachedRepo.go:65-120).                        *)
PrivateItemsFaithful ==
  \A o \in sent : Private(o) =>
    \A a \in answers : a[1] = o.uid => a[2] = ItemsOf(o)

(* An item of an answer is a whole item that some order was sent with, of a  *)
(* chrt_id that an order of the uid asked for was sent with: columns change  *)
(* between two saves, but never mix (order.go:142-152).                      *)
NothingInvented ==
  \A a \in answers : \A item \in a[2] :
    /\ \E o \in sent : item \in ItemsOf(o)
    /\ \E o \in sent : o.uid = a[1] /\ item.chrt \in Carries(o)

(* What makes both inductive.                                                *)

SavesSent == \A w \in Writers : pc[w] # "idle" => arg[w] \in sent

(* A stored order is linked to every item it was sent with; a link is of an  *)
(* item sent with an order of that uid; a row is an item of some order.      *)
StoredSent ==
  \A u \in Uids : order[u] # None =>
    /\ order[u] \in sent /\ order[u].uid = u
    /\ Link(order[u]) \subseteq links[u]

LinksSent ==
  \A u \in Uids : \A i \in links[u] : \E o \in sent : o.uid = u /\ i \in Link(o)

RowsSent ==
  \A i \in Chrts : rows[i] # None =>
    \E o \in sent : [chrt |-> i, columns |-> rows[i]] \in ItemsOf(o)

(* What may be returned for u, now and as long as it is kept.                *)
Faithful(u, S) ==
  /\ \E o \in sent : o.uid = u
  /\ \A item \in S :
       /\ \E o \in sent : item \in ItemsOf(o)
       /\ \E o \in sent : o.uid = u /\ item.chrt \in Carries(o)
  /\ \A o \in sent : Private(o) /\ o.uid = u => S = ItemsOf(o)

CopiesFaithful ==
  /\ \A u \in Uids : cache[u] # None => Faithful(u, cache[u])
  /\ \A r \in Readers : found[r] # None =>
       reading[r] # None /\ Faithful(reading[r], found[r])
  /\ \A a \in answers : Faithful(a[1], a[2])

ItemsInv ==
  /\ ItemsTypeOK /\ SavesSent /\ StoredSent /\ LinksSent /\ RowsSent
  /\ CopiesFaithful
=============================================================================
