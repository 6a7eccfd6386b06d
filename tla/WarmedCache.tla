---------------------------- MODULE WarmedCache ----------------------------
(* The warm-up of the cache on top of the real cache: NewCachedRepo and      *)
(* warmUpCache (cachedRepo/cachedRepo.go) drive RedisCache's SaveOrder while *)
(* the consumer and HTTP readers drive it too.  CachedRepo answers which     *)
(* content a reader is given; here the question is which orders the warm-up  *)
(* leaves in the cache, and which of them go first.                          *)
(*                                                                           *)
(* The process has just started.  Redis may hold anything an earlier process *)
(* can leave: members without a key and keys without a member (overlapping   *)
(* saves, a process killed between two commands), more members than this     *)
(* process's capacity, orders that are not stored any more.  The one thing   *)
(* assumed is that the wall clock is never set back to before the start of   *)
(* the process, so that what is left has lower scores than what is saved.    *)
EXTENDS RedisCache, Sequences

CONSTANTS
  Warmer,     \* the warm-up goroutine, one of the Clients
  Date,       \* Date[u]: date_created of the order, no two alike
  Boot,       \* the time the process starts at
  Live        \* bound: the orders the other goroutines save

ASSUME WarmerAssumption == Warmer \in Clients /\ Capacity > 0 /\ Orders # {}
ASSUME DateAssumption ==
  /\ Date \in [Uids -> Nat]
  /\ \A u, w \in Uids : Date[u] = Date[w] => u = w
ASSUME BootAssumption == Boot \in Nat \ {0}

VARIABLES
  stored,     \* uids in the orders table
  fresh,      \* history: uids other goroutines saved in the cache
  orderUIDs,  \* what GetLastOrdersUIDs returned
  i,          \* the warm-up's next index
  warm,       \* the warm-up: "count", "list", "load", "done" or "off"
  left,       \* history: the members an earlier process left
  orphans     \* history: the keys it left that are no members

warmVars == <<stored, fresh, orderUIDs, i, warm, left, orphans>>
allVars == <<vars, warmVars>>

Content == CHOOSE v \in Orders : TRUE

(* The newest limit orders of U. *)
LastOrders(U, limit) ==
  {u \in U : Cardinality({w \in U : Date[w] > Date[u]}) < limit}

WarmTypeOK ==
  /\ TypeOK
  /\ stored \subseteq Uids /\ fresh \subseteq Uids
  /\ orderUIDs \in Seq(Uids)
  /\ i \in 1 .. Len(orderUIDs) + 1
  /\ warm \in {"count", "list", "load", "done", "off"}
  /\ warm \in {"count", "list"} => i = 1
  /\ left \subseteq Uids /\ orphans \subseteq Uids

WarmInit ==
  /\ stored \in SUBSET Uids
  /\ data \in [Uids -> {Content, NoOrder}]
  /\ stamp \in [Uids -> 0 .. Boot - 1]
  /\ clock = Boot
  /\ left = Members /\ orphans = DataKeys \ Members
  /\ pc = [c \in Clients |-> "idle"]
  /\ call = [c \in Clients |-> NoCall]
  /\ faults = 0 /\ overlapped = FALSE
  /\ fresh = {} /\ orderUIDs = <<>> /\ i = 1 /\ warm = "count"

---------------------------------------------------------------------------

TimePasses == Tick /\ clock' >= Boot /\ UNCHANGED warmVars

(* Redis commands of a SaveOrder that has begun. *)
Command(c) ==
  /\ \/ Set(c) \/ TakeStamp(c) \/ ZAdd(c) \/ ZCard(c) \/ ZRange(c)
     \/ ZRemRangeByRank(c) \/ Del(c) \/ Abort(c)
  /\ UNCHANGED warmVars

(* NewCachedRepo: no warm-up when the cache is full.  CountOrders returns 0  *)
(* with its error, and the error is only logged.                             *)
CountOrders ==
  /\ warm = "count"
  /\ \/ /\ warm' = IF Cardinality(Members) < Capacity THEN "list" ELSE "off"
        /\ UNCHANGED faults
     \/ warm' = "list" /\ Fault
  /\ UNCHANGED <<data, stamp, clock, pc, call, overlapped, stored, fresh,
                 orderUIDs, i, left, orphans>>

(* Seeded bug: ORDER BY date_created, without DESC. *)
GetFirstOrdersUIDs ==
  /\ warm = "list"
  /\ orderUIDs' \in
       LET L == {u \in stored :
                   Cardinality({w \in stored : Date[w] < Date[u]}) < Capacity}
       IN  {s \in [1 .. Cardinality(L) -> L] :
              \A j, k \in DOMAIN s : j < k => Date[s[j]] < Date[s[k]]}
  /\ warm' = "load"
  /\ UNCHANGED <<vars, stored, fresh, i, left, orphans>>

(* SELECT ... ORDER BY date_created DESC LIMIT capacity, the newest first;   *)
(* when it fails there is no warm-up.                                        *)
GetLastOrdersUIDs ==
  /\ warm = "list"
  /\ \/ /\ orderUIDs' \in
             LET L == LastOrders(stored, Capacity)
             IN  {s \in [1 .. Cardinality(L) -> L] :
                    \A j, k \in DOMAIN s : j < k => Date[s[j]] > Date[s[k]]}
        /\ warm' = "load"
        /\ UNCHANGED faults
     \/ warm' = "off" /\ Fault /\ UNCHANGED orderUIDs
  /\ UNCHANGED <<data, stamp, clock, pc, call, overlapped, stored, fresh, i,
                 left, orphans>>

(* Seeded bug: an order is loaded until it is found in the cache, which      *)
(* another save may have evicted it from.                                    *)
WarmUntilHeld ==
  /\ warm = "load" /\ i <= Len(orderUIDs)
  /\ pc[Warmer] = "idle"
  /\ IF orderUIDs[i] \in Members
       THEN i' = i + 1 /\ UNCHANGED vars
       ELSE SaveOrder(Warmer, orderUIDs[i], Content) /\ UNCHANGED i
  /\ UNCHANGED <<stored, fresh, orderUIDs, warm, left, orphans>>

(* The loop of warmUpCache: the order is read and saved in the cache; an     *)
(* order that cannot be read is passed over.                                 *)
WarmOrder ==
  /\ warm = "load" /\ i <= Len(orderUIDs)
  /\ pc[Warmer] = "idle"
  /\ i' = i + 1
  /\ \/ SaveOrder(Warmer, orderUIDs[i], Content)
     \/ Fault /\ UNCHANGED <<data, stamp, clock, pc, call, overlapped>>
  /\ UNCHANGED <<stored, fresh, orderUIDs, warm, left, orphans>>

WarmDone ==
  /\ warm = "load" /\ i > Len(orderUIDs)
  /\ pc[Warmer] = "idle"
  /\ warm' = "done"
  /\ UNCHANGED <<vars, stored, fresh, orderUIDs, i, left, orphans>>

(* Another goroutine saves u in the cache: the consumer, after it stored u   *)
(* or found it stored, or a reader that missed the stored u.  None of them   *)
(* runs before NewCachedRepo has returned.                                   *)
SaveLive(c, u) ==
  /\ c # Warmer /\ warm # "count" /\ u \in Live
  /\ stored' = stored \cup {u}
  /\ fresh' = fresh \cup {u}
  /\ SaveOrder(c, u, Content)
  /\ UNCHANGED <<orderUIDs, i, warm, left, orphans>>

WarmUp ==
  CountOrders \/ GetLastOrdersUIDs \/ WarmOrder \/ WarmDone
    \/ Command(Warmer)

WarmNext ==
  \/ TimePasses
  \/ CountOrders \/ GetLastOrdersUIDs \/ WarmOrder \/ WarmDone
  \/ \E c \in Clients : Command(c) \/ \E u \in Uids : SaveLive(c, u)

WarmSpec == WarmInit /\ [][WarmNext]_allVars

(* The warm-up goroutine runs and its commands return. *)
FairSpec == WarmSpec /\ WF_allVars(WarmUp)

---------------------------------------------------------------------------
(* Properties.                                                               *)

Quiet == warm = "done" /\ faults = 0 /\ \A c \in Clients : pc[c] = "idle"

Listed == {orderUIDs[j] : j \in DOMAIN orderUIDs}

(* A warm-up without failures throws out what an earlier process left: when  *)
(* no save is under way, recent_orders holds only orders that are among the  *)
(* newest the warm-up found, that this process has saved or read, or that    *)
(* were left and are not stored; when nobody else saved meanwhile it holds   *)
(* all the newest, each with its key, and no key is without a member but     *)
(* those that were so before (cachedRepo.go:149 with the eviction of         *)
(* redis.go:97).                                                             *)
WarmedAreLast ==
  Quiet =>
    /\ Members \subseteq fresh \cup Listed \cup (left \ stored)
    /\ fresh = {} =>
         /\ LastOrders(stored, Capacity) \subseteq Members \cap DataKeys
         /\ DataKeys \subseteq Members \cup orphans

(* However many members were left, the warm-up and the saves beside it add   *)
(* no more than one per save under way and per fault to them or to the       *)
(* capacity, whichever is more.                                              *)
WarmIndexBounded ==
  \/ IndexWithin(Capacity)
  \/ IndexWithin(Cardinality(left))

(* What makes WarmedAreLast inductive.                                       *)

(* The listed orders the warm-up has made members of recent_orders. *)
Warmed ==
  {orderUIDs[j] :
     j \in 1 .. IF pc[Warmer] \in {"set", "stamp", "zadd"} THEN i - 2 ELSE i - 1}

(* A save under way is the warm-up's of the order before the index, or of an *)
(* order counted as fresh.                                                   *)
CallsKnown ==
  \A c \in Clients : pc[c] # "idle" =>
    IF c = Warmer
      THEN warm = "load" /\ i > 1 /\ call[c].uid = orderUIDs[i - 1]
      ELSE call[c].uid \in fresh

MembersKnown ==
  fresh \cup Listed \subseteq stored /\ Members \subseteq stored \cup left

(* Before the list there is nothing on it; then it holds as many orders as   *)
(* the cache, or all that are stored.                                        *)
ListCovers ==
  /\ warm \in {"count", "list"} => orderUIDs = <<>>
  /\ warm \in {"load", "done"} =>
       /\ Cardinality(Listed) <= Capacity
       /\ Cardinality(Listed) >= Capacity \/ stored \subseteq fresh \cup Listed
       /\ fresh = {} => Listed = LastOrders(stored, Capacity)
  /\ warm = "done" => i = Len(orderUIDs) + 1

(* What an earlier process left scores lower than everything warmed up, and  *)
(* than every score that is still to be given.                               *)
LeftoversLast ==
  /\ clock >= Boot
  /\ \A c \in Clients : pc[c] = "zadd" => call[c].score >= Boot
  /\ \A x \in Members \ (Warmed \cup fresh) :
       stamp[x] < Boot /\ \A w \in Warmed : stamp[x] < stamp[w]

(* The warm-up was not entered with a full cache.                            *)
RoomFound == warm \in {"list", "load", "done"} => IndexWithin(Capacity)

(* Keys the warm-up's save has still to make members or to delete.           *)
Passing ==
  IF pc[Warmer] \in {"stamp", "zadd"} THEN {call[Warmer].uid}
  ELSE IF pc[Warmer] = "del" THEN call[Warmer].victims ELSE {}

(* While nobody else saves, the warm-up keeps what it has warmed. *)
WarmedKept == fresh = {} => Warmed \subseteq Members

(* It has the keys of what it has warmed, and evicts keys with members.      *)
LoneSave ==
  fresh = {} =>
    /\ Warmed \subseteq DataKeys
    /\ DataKeys \subseteq Members \cup orphans \cup Passing
    /\ pc[Warmer] \in {"stamp", "zadd"} => call[Warmer].uid \in DataKeys
    /\ pc[Warmer] \in {"zrange", "zrem"} =>
         call[Warmer].count = Cardinality(Members)
    /\ pc[Warmer] = "zrem" => call[Warmer].victims \in Lowest(Excess(Warmer))
    /\ pc[Warmer] = "del" => call[Warmer].victims \cap Members = {}

WarmedSoFar ==
  CallsKnown /\ MembersKnown /\ ListCovers /\ LeftoversLast /\ WarmedKept

WarmInv == faults = 0 => WarmedSoFar /\ RoomFound /\ LoneSave

(* The warm-up ends, however the saves of other goroutines evict what it has *)
(* just written and whatever fails (cachedRepo.go:149-182).                  *)
WarmUpEnds == <>(warm \in {"done", "off"})

(* Said but not so: what a save over the limit removes is the old orders     *)
(* (redis.go:96). When only the newest order of all was saved after the      *)
(* warm-up, every order still held would have been created after every       *)
(* stored order that is not; the warm-up gives the newest order the lowest   *)
(* score.                                                                    *)
OldOrdersRemoved ==
  Quiet /\ (\E n \in stored : fresh = {n} /\ LastOrders(stored, 1) = {n}) =>
    \A u \in Members, w \in stored \ Members : Date[w] < Date[u]
=============================================================================
