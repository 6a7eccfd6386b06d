----------------------------- MODULE CachedRepo -----------------------------
(* CachedRepo (cachedRepo/cachedRepo.go): PostgreSQL behind the Redis cache, *)
(* used at the same time by HTTP requests (GetOrderByUID), the consumer      *)
(* (SaveOrder) and the warm-up goroutine.  The cache is a LossyCache, which  *)
(* RedisCache implements.  The database keeps the row of the first save of a *)
(* uid, to which concurrent saves may still link their items: an             *)
(* OrderArchive, which OrderStore implements.  What a read returns depends   *)
(* on two things validation does not ask for: that payment.transaction is    *)
(* the order's uid (Joined), and that its items are its own (Apart).         *)
EXTENDS Naturals, FiniteSets

CONSTANTS
  Callers,    \* goroutines that call the repository
  Warmer,     \* the warm-up goroutine
  Uids,       \* order_uid values
  Orders,     \* contents of an order
  Joined,     \* those whose payment.transaction is the order's uid
  Apart,      \* those that repeat no item and share none with another content
  NoOrder,    \* no content: a missing row or key
  NoWrite,    \* a client that writes nothing to the cache
  Capacity,   \* cfg.RD.Capacity, the limit of GetLastOrdersUIDs
  MaxErrors,  \* bound: failed calls, and restarts of the process
  MaxDeletes  \* bound: calls of DeleteOrder

ASSUME RepoAssumption ==
  /\ Warmer \notin Callers
  /\ NoOrder \notin Orders \cup Uids
  /\ Joined \subseteq Orders /\ Apart \subseteq Orders
  /\ NoWrite \notin Uids \X Orders
  /\ Capacity \in Nat \ {0}

Clients == Callers \cup {Warmer}

VARIABLES
  db,        \* db[u]: the content of the order's rows in PostgreSQL
  mixed,     \* uids that another content's items were linked to as well
  cache,     \* LossyCache: what the cache holds
  writing,   \* LossyCache: the cache write under way
  pc,        \* pc[c]: the call c makes next
  uid,       \* uid[c]: the order the call is, or was, about
  order,     \* order[c]: SaveOrder's argument, or what was read
  todo,      \* uids the warm-up has still to load
  listed,    \* the warm-up of this process has its list
  missed,    \* missed[c]: c's last GetOrderByUID answered "not found"
  sent,      \* history: sent[u], the contents passed to SaveOrder
  saved,     \* history: uids whose save in the database returned nil
  deleted,   \* history: uids DeleteOrder removed
  expects,   \* history: expects[c], saved when c called GetOrderByUID
  answers,   \* history: the <<uid, content>> readers were given
  used       \* how much of each bound has been spent

dbVars == <<db, mixed>>
cacheVars == <<cache, writing>>
callVars == <<pc, uid, order>>
warmVars == <<todo, listed>>
readVars == <<missed, expects, answers>>
saveVars == <<sent, saved, deleted>>
vars == <<db, mixed, cache, writing, pc, uid, order, todo, listed, missed,
          sent, saved, deleted, expects, answers, used>>

Cache == INSTANCE LossyCache

States == {"idle", "getcache", "getdb", "fill", "savedb", "savecache"}

TypeOK ==
  /\ db \in [Uids -> Orders \cup {NoOrder}]
  /\ mixed \subseteq Uids
  /\ cache \in [Uids -> Orders \cup {NoOrder}]
  /\ writing \in [Clients -> (Uids \X Orders) \cup {NoWrite}]
  /\ pc \in [Clients -> States]
  /\ uid \in [Clients -> Uids \cup {NoOrder}]
  /\ order \in [Clients -> Orders \cup {NoOrder}]
  /\ \A c \in Clients :
       /\ pc[c] # "idle" => uid[c] \in Uids
       /\ pc[c] \in {"fill", "savedb", "savecache"} => order[c] \in Orders
       /\ (writing[c] # NoWrite) <=> (pc[c] \in {"fill", "savecache"})
  /\ todo \subseteq Uids
  /\ listed \in BOOLEAN
  /\ missed \in [Clients -> BOOLEAN]
  /\ sent \in [Uids -> SUBSET Orders]
  /\ saved \subseteq Uids
  /\ deleted \subseteq Uids
  /\ expects \in [Clients -> SUBSET Uids]
  /\ answers \subseteq Uids \X Orders
  /\ used \in [{"errors", "deletes"} -> Nat]

Init ==
  /\ db = [u \in Uids |-> NoOrder] /\ mixed = {}
  /\ Cache!Init
  /\ pc = [c \in Clients |-> "idle"]
  /\ uid = [c \in Clients |-> NoOrder]
  /\ order = [c \in Clients |-> NoOrder]
  /\ todo = {} /\ listed = FALSE
  /\ missed = [c \in Clients |-> FALSE]
  /\ sent = [u \in Uids |-> {}]
  /\ saved = {} /\ deleted = {}
  /\ expects = [c \in Clients |-> {}]
  /\ answers = {}
  /\ used = [b \in {"errors", "deletes"} |-> 0]

---------------------------------------------------------------------------

Error ==
  /\ used.errors < MaxErrors
  /\ used' = [used EXCEPT !.errors = @ + 1]

Goto(c, step) == pc' = [pc EXCEPT ![c] = step]

(* The locals of the call are gone, but for what it was about. *)
Return(c) ==
  /\ Goto(c, "idle")
  /\ order' = [order EXCEPT ![c] = NoOrder]
  /\ UNCHANGED uid

(* A reader's caller gets v; the warm-up has no caller. *)
Answer(c, v) ==
  answers' = IF c = Warmer THEN answers ELSE answers \cup {<<uid[c], v>>}

(* Seeded bug: the call does not wait for the cache, go cache.SaveOrder.     *)
WriteInBackground(c) == UNCHANGED cacheVars

(* CacheRepository.SaveOrder, begun by the step before: it succeeds, or it   *)
(* fails and the error is only logged; either way the call then goes on.     *)
WriteEnds(c) ==
  (Cache!Put(c) /\ writing'[c] = NoWrite) \/ Cache!Abandon(c)

(* The write reached Redis, its reply did not: the client sends it again.    *)
WriteAgain(c) ==
  /\ Cache!Put(c)
  /\ writing'[c] # NoWrite
  /\ UNCHANGED <<dbVars, callVars, warmVars, readVars, saveVars, used>>

---------------------------------------------------------------------------
(* GetOrderByUID.                                                            *)

GetOrder(c, u) ==
  /\ c \in Callers
  /\ pc[c] = "idle"
  /\ Goto(c, "getcache")
  /\ uid' = [uid EXCEPT ![c] = u]
  /\ missed' = [missed EXCEPT ![c] = FALSE]
  /\ expects' = [expects EXCEPT ![c] = saved]
  /\ UNCHANGED <<dbVars, cacheVars, order, warmVars, answers, saveVars, used>>

CacheHit(c) ==
  /\ pc[c] = "getcache"
  /\ cache[uid[c]] # NoOrder
  /\ Answer(c, cache[uid[c]])
  /\ Return(c)
  /\ UNCHANGED <<dbVars, cacheVars, warmVars, missed, expects, saveVars, used>>

(* A key that is missing, or an error of the cache. *)
CacheMiss(c) ==
  /\ pc[c] = "getcache"
  /\ \/ cache[uid[c]] = NoOrder /\ UNCHANGED used
     \/ Error
  /\ Goto(c, "getdb")
  /\ UNCHANGED <<dbVars, cacheVars, uid, order, warmVars, readVars, saveVars>>

(* What Store.GetOrderByUID returns for u.  The rows of a content that is    *)
(* Joined and Apart come back as they were saved, unless items of another    *)
(* content were linked to them.  Otherwise the items are what other orders   *)
(* made of their rows, repeated ones are one, and the payment is that of any *)
(* order with the transaction u: another content, in short.                  *)
Returned(u) ==
  IF db[u] \in Joined \cap Apart /\ u \notin mixed THEN {db[u]} ELSE Orders

ReadDb(c) ==
  /\ pc[c] = "getdb"
  /\ db[uid[c]] # NoOrder
  /\ \E v \in Returned(uid[c]) :
       /\ order' = [order EXCEPT ![c] = v]
       /\ Cache!Begin(c, uid[c], v)
  /\ Goto(c, "fill")
  /\ UNCHANGED <<dbVars, uid, warmVars, readVars, saveVars, used>>

(* No row, or none that joins it in payment. *)
NotFound(c) ==
  /\ pc[c] = "getdb"
  /\ db[uid[c]] \notin Joined
  /\ missed' = [missed EXCEPT ![c] = TRUE]
  /\ Return(c)
  /\ UNCHANGED <<dbVars, cacheVars, warmVars, expects, answers, saveVars, used>>

ReadDbError(c) ==
  /\ pc[c] = "getdb"
  /\ Error
  /\ Return(c)
  /\ UNCHANGED <<dbVars, cacheVars, warmVars, readVars, saveVars>>

Fill(c) ==
  /\ pc[c] = "fill"
  /\ WriteEnds(c)
  /\ Answer(c, order[c])
  /\ Return(c)
  /\ UNCHANGED <<dbVars, warmVars, missed, expects, saveVars, used>>

---------------------------------------------------------------------------
(* SaveOrder and DeleteOrder.                                                *)

Save(c, u, v) ==
  /\ c \in Callers
  /\ pc[c] = "idle"
  /\ Goto(c, "savedb")
  /\ uid' = [uid EXCEPT ![c] = u]
  /\ order' = [order EXCEPT ![c] = v]
  /\ missed' = [missed EXCEPT ![c] = FALSE]
  /\ sent' = [sent EXCEPT ![u] = @ \cup {v}]
  /\ UNCHANGED <<dbVars, cacheVars, warmVars, expects, answers, saved, deleted,
                 used>>

(* Store.SaveOrder.  The rows of an order that is already in the database    *)
(* are left as they are; a save that found none when it checked upserts its  *)
(* items all the same and links them to the order.                           *)
Store(c) ==
  LET u == uid[c] IN
  \/ /\ db[u] = NoOrder
     /\ db' = [db EXCEPT ![u] = order[c]]
     /\ UNCHANGED mixed
  \/ /\ db[u] # NoOrder
     /\ UNCHANGED db
     /\ mixed' \in {mixed, IF db[u] = order[c] THEN mixed ELSE mixed \cup {u}}

SaveDb(c) ==
  /\ pc[c] = "savedb"
  /\ Store(c)
  /\ saved' = saved \cup {uid[c]}
  /\ Cache!Begin(c, uid[c], order[c])
  /\ Goto(c, "savecache")
  /\ UNCHANGED <<uid, order, warmVars, readVars, sent, deleted, used>>

(* Seeded bug: the error is logged and SaveOrder goes on to the cache. *)
SaveDbErrorIgnored(c) ==
  /\ pc[c] = "savedb"
  /\ Error
  /\ UNCHANGED dbVars
  /\ saved' = saved \cup {uid[c]}
  /\ Cache!Begin(c, uid[c], order[c])
  /\ Goto(c, "savecache")
  /\ UNCHANGED <<uid, order, warmVars, readVars, sent, deleted>>

(* The error may come after the transaction was committed. *)
SaveDbError(c) ==
  /\ pc[c] = "savedb"
  /\ Error
  /\ Store(c) \/ UNCHANGED dbVars
  /\ Return(c)
  /\ UNCHANGED <<cacheVars, warmVars, readVars, saveVars>>

SaveCache(c) ==
  /\ pc[c] = "savecache"
  /\ WriteEnds(c)
  /\ Return(c)
  /\ UNCHANGED <<dbVars, warmVars, readVars, saveVars, used>>

(* DeleteOrder does not touch the cache.  An order that is not there is an   *)
(* error that changes nothing.                                               *)
DeleteOrder(u) ==
  /\ db[u] # NoOrder
  /\ used.deletes < MaxDeletes
  /\ used' = [used EXCEPT !.deletes = @ + 1]
  /\ db' = [db EXCEPT ![u] = NoOrder]
  /\ mixed' = mixed \ {u}
  /\ deleted' = deleted \cup {u}
  /\ UNCHANGED <<cacheVars, callVars, warmVars, readVars, sent, saved>>

---------------------------------------------------------------------------
(* The warm-up (NewCachedRepo, warmUpCache).                                 *)

StoredUids == {u \in Uids : db[u] # NoOrder}

GetLastOrdersUIDs ==
  /\ ~listed
  /\ pc[Warmer] = "idle"
  /\ listed' = TRUE
  /\ \E S \in SUBSET StoredUids :
       /\ Cardinality(S) <= Capacity
       /\ Cardinality(S) < Capacity => S = StoredUids
       /\ todo' = S
  /\ UNCHANGED <<dbVars, cacheVars, callVars, readVars, saveVars, used>>

WarmNext(u) ==
  /\ u \in todo
  /\ pc[Warmer] = "idle"
  /\ todo' = todo \ {u}
  /\ Goto(Warmer, "getdb")
  /\ uid' = [uid EXCEPT ![Warmer] = u]
  /\ UNCHANGED <<dbVars, cacheVars, order, listed, readVars, saveVars, used>>

---------------------------------------------------------------------------

(* The cache evicts orders, or Redis loses them. *)
Evict(S) ==
  /\ Cache!Drop(S)
  /\ UNCHANGED <<dbVars, callVars, warmVars, readVars, saveVars, used>>

(* The process dies with every call under way, and starts again. *)
Restart ==
  /\ Error
  /\ pc' = [c \in Clients |-> "idle"]
  /\ order' = [c \in Clients |-> NoOrder]
  /\ Cache!Crash
  /\ todo' = {} /\ listed' = FALSE
  /\ UNCHANGED <<dbVars, uid, readVars, saveVars>>

Reader(c) ==
  \/ \E u \in Uids : GetOrder(c, u)
  \/ CacheHit(c) \/ CacheMiss(c)
  \/ ReadDb(c) \/ NotFound(c) \/ ReadDbError(c) \/ Fill(c)

Writer(c) ==
  \/ \E u \in Uids, v \in Orders : Save(c, u, v)
  \/ SaveDb(c) \/ SaveDbError(c) \/ SaveCache(c)

Next ==
  \/ \E c \in Clients : Reader(c) \/ Writer(c) \/ WriteAgain(c)
  \/ \E u \in Uids : DeleteOrder(u) \/ WarmNext(u)
  \/ GetLastOrdersUIDs
  \/ \E S \in SUBSET Uids : S # {} /\ Evict(S)
  \/ Restart

Spec == Init /\ [][Next]_vars

---------------------------------------------------------------------------
(* Properties.                                                               *)

(* A reader that calls GetOrderByUID after the order was saved in the        *)
(* database, so also after SaveOrder has returned nil, is never told that    *)
(* the order does not exist, whatever was evicted, whichever cache write was *)
(* lost, and across restarts, when every content the uid was saved with has  *)
(* the uid for its transaction; others the join of order.go:221 may miss.    *)
ReadYourWrites ==
  \A c \in Callers : missed[c] =>
    \/ uid[c] \notin expects[c] \/ uid[c] \in deleted
    \/ ~(sent[uid[c]] \subseteq Joined)

(* Nobody is shown an order before it is in the database: what the cache     *)
(* holds, and what a reader was given, is stored (SaveOrder writes the       *)
(* database first), unless the order was deleted.                            *)
ServedIsStored ==
  \A u \in Uids \ deleted :
    (cache[u] # NoOrder \/ \E v \in Orders : <<u, v>> \in answers) =>
      db[u] # NoOrder

SameContent(u) == \A v, w \in sent[u] : v = w

(* Every save of u carries one content, as the redelivery of a message does, *)
(* and its rows can be read back as that content.                            *)
Alike(u) == SameContent(u) /\ sent[u] \subseteq Joined \cap Apart

(* Of an order that shares no item, names its own uid as transaction and is  *)
(* always sent with one content, cache and database agree and readers are    *)
(* given nothing else, however cache fills, saves, failed saves, evictions,  *)
(* the warm-up and other orders interleave.  Any of the three left out, the  *)
(* copies may differ: a concurrent duplicate links its items to the stored   *)
(* order (order.go:125-184), items are rows other orders overwrite           *)
(* (order.go:142-152).                                                       *)
CopiesAgree ==
  \A u \in Uids \ deleted : Alike(u) =>
    /\ cache[u] \in {NoOrder, db[u]}
    /\ \A v \in Orders : <<u, v>> \in answers => v = db[u]

(* Neither store has the order, and no call is on its way to write it.       *)
Gone(u) ==
  /\ db[u] = NoOrder /\ cache[u] = NoOrder
  /\ \A c \in Clients :
       uid[c] = u => pc[c] \notin {"savedb", "savecache", "fill"}

(* DeleteOrder leaves the order in the cache, and a reader, the warm-up or a *)
(* resent write may put it back (cachedRepo.go:92, 113, 125).  But once the  *)
(* last copy is gone it stays gone: only a new SaveOrder brings an order     *)
(* back, whatever readers began before the deletion.                         *)
GoneForGood ==
  [][\A u \in Uids : Gone(u) =>
       Gone(u)' \/ \E c \in Callers, v \in Orders : Save(c, u, v)]_vars

(* Said but not so: duplicates are ignored without an error                  *)
(* (postgres/order_test.go:214), so that between calls the order read back   *)
(* is the stored one. A duplicate with another content replaces the cached   *)
(* order.                                                                    *)
DuplicatesIgnored ==
  \A u \in Uids \ deleted :
    (\A c \in Clients : pc[c] = "idle") => cache[u] \in {NoOrder, db[u]}

---------------------------------------------------------------------------
(* What makes them inductive: the same, of the content on its way to the     *)
(* cache, and that rows hold, and orders that are Alike show, only what was  *)
(* sent.                                                                     *)

WriteStored ==
  \A c \in Clients : writing[c] # NoWrite =>
    /\ writing[c] = <<uid[c], order[c]>>
    /\ uid[c] \notin deleted => db[uid[c]] # NoOrder

SavedStored == saved \ deleted \subseteq StoredUids

ExpectsSaved == \A c \in Clients : expects[c] \subseteq saved

RowsSent ==
  /\ \A u \in Uids : db[u] \in sent[u] \cup {NoOrder}
  /\ \A c \in Clients : pc[c] \in {"savedb", "savecache"} =>
       order[c] \in sent[uid[c]]

MixedDiffer == \A u \in mixed : ~SameContent(u)

ContentSent ==
  \A u \in Uids : Alike(u) =>
    /\ cache[u] \in sent[u] \cup {NoOrder}
    /\ \A c \in Clients : pc[c] = "fill" /\ uid[c] = u => order[c] \in sent[u]
    /\ \A v \in Orders : <<u, v>> \in answers => v \in sent[u]

IInv ==
  /\ TypeOK
  /\ ReadYourWrites
  /\ ServedIsStored
  /\ WriteStored
  /\ SavedStored
  /\ ExpectsSaved
  /\ RowsSent
  /\ MixedDiffer
  /\ ContentSent
=============================================================================
