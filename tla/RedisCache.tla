----------------------------- MODULE RedisCache -----------------------------
(* RedisRepo (redisCache/redis.go): the order cache.  An order is a key of   *)
(* its own (data) and a member of the sorted set "recent_orders" (stamp),    *)
(* whose scores say when it was saved.  SaveOrder is a sequence of separate  *)
(* Redis commands; the callers (the consumer, every HTTP request, the        *)
(* warm-up) run it concurrently, and between two commands of one caller any  *)
(* command of another may be executed.                                       *)
(*                                                                           *)
(* Redis and the go-redis client are external: a command is atomic, its      *)
(* reply may be lost, and the client then sends it again (MaxRetries) or     *)
(* gives up.  A uid is a number, so that "<" is the lexicographic order that *)
(* breaks ties of the sorted set.                                            *)
EXTENDS Naturals, FiniteSets

CONSTANTS
  Clients,    \* goroutines that save orders
  Uids,       \* order_uid values
  Orders,     \* contents of an order
  NoOrder,    \* the content of a missing key
  NoCall,     \* a client that saves nothing
  Capacity,   \* RedisRepo.capacity
  MaxStamp,   \* bound: the clock
  MaxFaults   \* bound: lost replies and given-up saves

ASSUME UidAssumption == Uids \subseteq Nat /\ IsFiniteSet(Uids)
ASSUME ClientAssumption == IsFiniteSet(Clients) /\ Clients # {}
ASSUME OrderAssumption == NoOrder \notin Orders
ASSUME CapacityAssumption == Capacity \in Nat

VARIABLES
  data,      \* data[u]: what the key of u holds
  stamp,     \* stamp[u]: u's score in recent_orders, 0 when not a member
  clock,     \* time.Now().UnixNano()
  pc,        \* pc[c]: what SaveOrder does next
  call,      \* call[c]: the argument and the locals of SaveOrder
  faults,    \* lost replies and given-up saves so far
  overlapped \* history: two saves have been under way at once

vars == <<data, stamp, clock, pc, call, faults, overlapped>>

Steps == {"idle", "set", "stamp", "zadd", "zcard", "zrange", "zrem", "del"}

(* score is timestamp, count is ZCARD's answer, victims is uidsToRemove. *)
Calls == [uid : Uids, order : Orders, score : Nat, count : Nat,
          victims : SUBSET Uids]

ASSUME CallAssumption == NoCall \notin Calls \cup (Uids \X Orders)

Members == {u \in Uids : stamp[u] > 0}
DataKeys == {u \in Uids : data[u] # NoOrder}

(* The order of recent_orders: by score, then by member. *)
Before(u, w) == stamp[u] < stamp[w] \/ (stamp[u] = stamp[w] /\ u < w)

(* The members of rank 0 .. n - 1, as the one element of a set. *)
Lowest(n) ==
  {R \in SUBSET Members :
     /\ Cardinality(R) =
          IF n < Cardinality(Members) THEN n ELSE Cardinality(Members)
     /\ \A u \in R, w \in Members \ R : Before(u, w)}

TypeOK ==
  /\ data \in [Uids -> Orders \cup {NoOrder}]
  /\ stamp \in [Uids -> Nat]
  /\ clock \in Nat \ {0}
  /\ pc \in [Clients -> Steps]
  /\ call \in [Clients -> Calls \cup {NoCall}]
  /\ \A c \in Clients :
       /\ pc[c] # "idle" => call[c] \in Calls
       /\ pc[c] = "zadd" => call[c].score > 0
       /\ pc[c] \in {"zrange", "zrem"} => call[c].count > Capacity
  /\ faults \in Nat
  /\ overlapped \in BOOLEAN

Init ==
  /\ data = [u \in Uids |-> NoOrder]
  /\ stamp = [u \in Uids |-> 0]
  /\ clock = 1
  /\ pc = [c \in Clients |-> "idle"]
  /\ call = [c \in Clients |-> NoCall]
  /\ faults = 0
  /\ overlapped = FALSE

---------------------------------------------------------------------------

(* The wall clock: it may stand still, and may be set back. *)
Tick ==
  /\ clock' \in 1 .. MaxStamp
  /\ UNCHANGED <<data, stamp, pc, call, faults, overlapped>>

Fault == faults < MaxFaults /\ faults' = faults + 1

(* SaveOrder goes on at step with locals l, or returns. *)
Goto(c, step, l) ==
  /\ pc' = [pc EXCEPT ![c] = step]
  /\ call' = [call EXCEPT ![c] = IF step = "idle" THEN NoCall ELSE l]

(* The reply to a write arrives, or it is lost and the write is sent again. *)
Reply(c, step) ==
  \/ Goto(c, step, call[c]) /\ UNCHANGED faults
  \/ Fault /\ UNCHANGED <<pc, call>>

(* A caller enters SaveOrder. *)
SaveOrder(c, u, v) ==
  /\ pc[c] = "idle"
  /\ Goto(c, "set", [uid |-> u, order |-> v, score |-> 0, count |-> 0,
                     victims |-> {}])
  /\ overlapped' = (overlapped \/ \E d \in Clients : pc[d] # "idle")
  /\ UNCHANGED <<data, stamp, clock, faults>>

(* Seeded bug: SaveOrder goes on before SET is done. *)
SetLate(c) ==
  /\ pc[c] \in {"set", "stamp"}
  /\ data' = [data EXCEPT ![call[c].uid] = call[c].order]
  /\ Reply(c, "stamp")
  /\ UNCHANGED <<stamp, clock, overlapped>>

Set(c) ==
  /\ pc[c] = "set"
  /\ data' = [data EXCEPT ![call[c].uid] = call[c].order]
  /\ Reply(c, "stamp")
  /\ UNCHANGED <<stamp, clock, overlapped>>

(* time.Now is read before ZADD is sent: stamps can reach Redis out of order. *)
TakeStamp(c) ==
  /\ pc[c] = "stamp"
  /\ Goto(c, "zadd", [call[c] EXCEPT !.score = clock])
  /\ UNCHANGED <<data, stamp, clock, faults, overlapped>>

ZAdd(c) ==
  /\ pc[c] = "zadd"
  /\ stamp' = [stamp EXCEPT ![call[c].uid] = call[c].score]
  /\ Reply(c, IF Capacity > 0 THEN "zcard" ELSE "idle")
  /\ UNCHANGED <<data, clock, overlapped>>

(* Seeded bug: count >= capacity. *)
ZCardAtLeast(c) ==
  /\ pc[c] = "zcard"
  /\ LET n == Cardinality(Members) IN
       Goto(c, IF n >= Capacity THEN "zrange" ELSE "idle",
            [call[c] EXCEPT !.count = n])
  /\ UNCHANGED <<data, stamp, clock, faults, overlapped>>

ZCard(c) ==
  /\ pc[c] = "zcard"
  /\ LET n == Cardinality(Members) IN
       Goto(c, IF n > Capacity THEN "zrange" ELSE "idle",
            [call[c] EXCEPT !.count = n])
  /\ UNCHANGED <<data, stamp, clock, faults, overlapped>>

(* Seeded bug: the inclusive end of the range is taken for exclusive. *)
ExcessLessOne(c) == call[c].count - Capacity - 1

Excess(c) == call[c].count - Capacity

(* Seeded bug: ZREVRANGE, the newest orders. *)
ZRevRange(c) ==
  /\ pc[c] = "zrange"
  /\ \E R \in SUBSET Members :
       /\ Cardinality(R) = Excess(c)
       /\ \A u \in R, w \in Members \ R : Before(w, u)
       /\ Goto(c, "zrem", [call[c] EXCEPT !.victims = R])
  /\ UNCHANGED <<data, stamp, clock, faults, overlapped>>

ZRange(c) ==
  /\ pc[c] = "zrange"
  /\ \E R \in Lowest(Excess(c)) :
       Goto(c, "zrem", [call[c] EXCEPT !.victims = R])
  /\ UNCHANGED <<data, stamp, clock, faults, overlapped>>

(* ZREMRANGEBYRANK removes what is lowest now, not what ZRANGE returned. *)
ZRemRangeByRank(c) ==
  /\ pc[c] = "zrem"
  /\ \E R \in Lowest(Excess(c)) :
       stamp' = [u \in Uids |-> IF u \in R THEN 0 ELSE stamp[u]]
  /\ Reply(c, IF call[c].victims # {} THEN "del" ELSE "idle")
  /\ UNCHANGED <<data, clock, overlapped>>

Del(c) ==
  /\ pc[c] = "del"
  /\ data' = [u \in Uids |->
                IF u \in call[c].victims THEN NoOrder ELSE data[u]]
  /\ Reply(c, "idle")
  /\ UNCHANGED <<stamp, clock, overlapped>>

(* A command fails for good, the caller's context ends, or the process dies: *)
(* SaveOrder stops where it is (for DEL the error is only logged).           *)
Abort(c) ==
  /\ pc[c] # "idle"
  /\ Fault
  /\ Goto(c, "idle", NoCall)
  /\ UNCHANGED <<data, stamp, clock, overlapped>>

Next ==
  \/ Tick
  \/ \E c \in Clients :
       \/ \E u \in Uids, v \in Orders : SaveOrder(c, u, v)
       \/ Set(c) \/ TakeStamp(c) \/ ZAdd(c) \/ ZCard(c) \/ ZRange(c)
       \/ ZRemRangeByRank(c) \/ Del(c) \/ Abort(c)

Spec == Init /\ [][Next]_vars

---------------------------------------------------------------------------
(* Properties.                                                               *)

(* The clients that added a member and have not yet removed the excess.      *)
Evicting == {c \in Clients : pc[c] \in {"zcard", "zrange", "zrem"}}

(* One member over B per save on its way to ZREMRANGEBYRANK and per fault.   *)
IndexWithin(B) ==
  Cardinality(Members) <= B + Cardinality(Evicting) + faults

(* The sorted set outgrows the capacity by at most one member per save that  *)
(* is still on its way to ZREMRANGEBYRANK and one per fault, however the     *)
(* commands of concurrent saves interleave (redis.go reads ZCARD, and        *)
(* removes by a rank computed from that old count).                          *)
IndexBounded == Capacity > 0 => IndexWithin(Capacity)

(* As long as no two saves have been under way at once and nothing has       *)
(* failed, whichever goroutines save, the orders held between two saves are  *)
(* exactly those the sorted set can evict, and no more than the capacity.    *)
CacheExact ==
  ~overlapped /\ faults = 0 /\ Capacity > 0
  /\ (\A c \in Clients : pc[c] = "idle") =>
    DataKeys = Members /\ Cardinality(DataKeys) <= Capacity

(* How the keys relate to the sorted set before each command of the only     *)
(* save under way.                                                           *)
Stage(c) ==
  /\ pc[c] \in {"idle", "set"} =>
       DataKeys = Members /\ Cardinality(Members) <= Capacity
  /\ pc[c] \in {"stamp", "zadd"} =>
       /\ DataKeys = Members \cup {call[c].uid}
       /\ Cardinality(Members) <= Capacity
  /\ pc[c] \in {"zcard", "zrange", "zrem"} => DataKeys = Members
  /\ pc[c] \in {"zrange", "zrem"} => call[c].count = Cardinality(Members)
  /\ pc[c] = "zrem" => call[c].victims \in Lowest(Excess(c))
  /\ pc[c] = "del" =>
       /\ DataKeys = Members \cup call[c].victims
       /\ Members \cap call[c].victims = {}
       /\ Cardinality(Members) <= Capacity

Alone(c) == \A d \in Clients \ {c} : pc[d] = "idle"

(* What makes CacheExact inductive. *)
ExactInv ==
  ~overlapped /\ faults = 0 /\ Capacity > 0 =>
    /\ \A c \in Clients : pc[c] # "idle" => Alone(c)
    /\ \A c \in Clients : Alone(c) => Stage(c)

(* Said but not so: REDIS_CAPACITY is the number of orders held in the cache *)
(* (README.md:27). Overlapping saves leave keys that nothing evicts.         *)
CapacityHolds ==
  (\A c \in Clients : pc[c] = "idle") => Cardinality(DataKeys) <= Capacity
---------------------------------------------------------------------------
(* What CachedRepo relies on: a key holds what some SaveOrder wrote there    *)
(* while it was under way, or nothing; SET and its resends are the only      *)
(* writes, DEL the only removal.                                             *)
Pending(c) ==
  IF pc[c] = "set" THEN <<call[c].uid, call[c].order>> ELSE NoCall

Lossy == INSTANCE LossyCache
           WITH cache <- data, writing <- [c \in Clients |-> Pending(c)],
                NoWrite <- NoCall

(* Concurrent sequences of Redis commands are, for CachedRepo, a map whose   *)
(* keys hold what was written there or nothing.                              *)
ImplementsLossyCache == Lossy!Spec
=============================================================================
