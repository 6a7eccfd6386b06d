-------------------------- MODULE RedisCacheProofs --------------------------
(* Theorems about RedisCache, alone and under the warm-up (WarmedCache), for  *)
(* every set of clients, orders and uids and every capacity.                 *)
EXTENDS WarmedCache, FiniteSetTheorems, TLAPS

LEMMA MembersFinite ==
  /\ IsFiniteSet(Members)
  /\ Cardinality(Members) \in Nat
  /\ \A R \in SUBSET Members : IsFiniteSet(R) /\ Cardinality(R) \in Nat
  <1>1. Members \subseteq Uids
    BY DEF Members
  <1> QED
    BY <1>1, UidAssumption, FS_Subset, FS_CardinalityType

(* How a save goes on. *)
LEMMA GotoStep ==
  ASSUME TypeOK, NEW c \in Clients, NEW step \in Steps, NEW l,
         step # "idle" => l \in Calls, Goto(c, step, l)
  PROVE  /\ pc' \in [Clients -> Steps]
         /\ call' \in [Clients -> Calls \cup {NoCall}]
         /\ pc'[c] = step
         /\ call'[c] = IF step = "idle" THEN NoCall ELSE l
         /\ \A d \in Clients \ {c} : pc'[d] = pc[d] /\ call'[d] = call[d]
  BY DEF Goto, TypeOK

LEMMA InitType == Init => TypeOK
  <1> SUFFICES ASSUME Init PROVE TypeOK
    OBVIOUS
  <1>1. overlapped \in BOOLEAN
    BY DEF Init
  <1> QED
    BY <1>1 DEF Init, TypeOK, Steps

LEMMA TypeStep == TypeOK /\ [Next]_vars => TypeOK'
  <1> SUFFICES ASSUME TypeOK, [Next]_vars PROVE TypeOK'
    OBVIOUS
  <1>0. overlapped' \in BOOLEAN
    BY DEF TypeOK, Next, Tick, SaveOrder, Set, TakeStamp, ZAdd, ZCard, ZRange,
           ZRemRangeByRank, Del, Abort, vars
  <1> DEFINE CallOK(c) == /\ pc[c] # "idle" => call[c] \in Calls
                          /\ pc[c] = "zadd" => call[c].score > 0
                          /\ pc[c] \in {"zrange", "zrem"} =>
                               call[c].count > Capacity
  <1>1. ASSUME data' \in [Uids -> Orders \cup {NoOrder}],
               stamp' \in [Uids -> Nat],
               clock' \in Nat \ {0},
               faults' \in Nat,
               UNCHANGED <<pc, call>>
        PROVE  TypeOK'
    BY <1>0, <1>1 DEF TypeOK
  <1>2. ASSUME NEW c \in Clients, NEW step \in Steps, NEW l,
               step # "idle" => l \in Calls,
               step = "zadd" => l.score > 0,
               step \in {"zrange", "zrem"} => l.count > Capacity,
               Goto(c, step, l),
               data' \in [Uids -> Orders \cup {NoOrder}],
               stamp' \in [Uids -> Nat],
               UNCHANGED clock,
               faults' \in Nat
        PROVE  TypeOK'
    <2>1. /\ pc' \in [Clients -> Steps]
          /\ call' \in [Clients -> Calls \cup {NoCall}]
          /\ pc'[c] = step
          /\ call'[c] = IF step = "idle" THEN NoCall ELSE l
          /\ \A d \in Clients \ {c} : pc'[d] = pc[d] /\ call'[d] = call[d]
      BY <1>2, GotoStep
    <2>2. CallOK(c)'
      BY <1>2, <2>1
    <2>3. ASSUME NEW d \in Clients, d # c PROVE CallOK(d)'
      BY <2>1, <2>3 DEF TypeOK
    <2>4. \A d \in Clients : CallOK(d)'
      BY <2>2, <2>3
    <2> QED
      BY <1>0, <1>2, <2>1, <2>4 DEF TypeOK
  <1>3. ASSUME NEW c \in Clients, NEW step \in {"stamp", "zcard", "del", "idle"},
               pc[c] # "idle", Reply(c, step),
               data' \in [Uids -> Orders \cup {NoOrder}],
               stamp' \in [Uids -> Nat],
               UNCHANGED clock
        PROVE  TypeOK'
    <2>1. CASE Goto(c, step, call[c]) /\ UNCHANGED faults
      BY <1>2, <1>3, <2>1 DEF TypeOK, Steps
    <2>2. CASE Fault /\ UNCHANGED <<pc, call>>
      BY <1>1, <1>3, <2>2 DEF TypeOK, Fault
    <2> QED
      BY <1>3, <2>1, <2>2 DEF Reply
  <1>4. CASE Tick
    BY <1>1, <1>4 DEF Tick, TypeOK
  <1>5. ASSUME NEW c \in Clients, NEW u \in Uids, NEW v \in Orders,
               SaveOrder(c, u, v)
        PROVE  TypeOK'
    <2> DEFINE l == [uid |-> u, order |-> v, score |-> 0, count |-> 0,
                     victims |-> {}]
    <2>1. l \in Calls /\ "set" \in Steps
      BY DEF Calls, Steps
    <2>2. Goto(c, "set", l) /\ UNCHANGED <<data, stamp, clock, faults>>
      BY <1>5 DEF SaveOrder
    <2> HIDE DEF l
    <2> QED
      BY <1>2, <2>1, <2>2 DEF TypeOK
  <1>6. ASSUME NEW c \in Clients, Set(c) PROVE TypeOK'
    <2>1. call[c] \in Calls
      BY <1>6 DEF Set, TypeOK
    <2>2. data' \in [Uids -> Orders \cup {NoOrder}]
      BY <1>6, <2>1 DEF Set, TypeOK, Calls
    <2> QED
      BY <1>3, <1>6, <2>2 DEF Set, TypeOK
  <1>7. ASSUME NEW c \in Clients, TakeStamp(c) PROVE TypeOK'
    <2> DEFINE l == [call[c] EXCEPT !.score = clock]
    <2>1. l \in Calls /\ l.score > 0
      BY <1>7 DEF TakeStamp, TypeOK, Calls
    <2>2. Goto(c, "zadd", l) /\ UNCHANGED <<data, stamp, clock, faults>>
      BY <1>7 DEF TakeStamp
    <2>3. "zadd" \in Steps
      BY DEF Steps
    <2> HIDE DEF l
    <2> QED
      BY <1>2, <2>1, <2>2, <2>3 DEF TypeOK
  <1>8. ASSUME NEW c \in Clients, ZAdd(c) PROVE TypeOK'
    <2>1. call[c] \in Calls
      BY <1>8 DEF ZAdd, TypeOK
    <2>2. stamp' \in [Uids -> Nat]
      BY <1>8, <2>1 DEF ZAdd, TypeOK, Calls
    <2> QED
      BY <1>3, <1>8, <2>2 DEF ZAdd, TypeOK
  <1>9. ASSUME NEW c \in Clients, ZCard(c) PROVE TypeOK'
    <2> DEFINE n == Cardinality(Members)
               l == [call[c] EXCEPT !.count = n]
               step == IF n > Capacity THEN "zrange" ELSE "idle"
    <2>1. call[c] \in Calls /\ n \in Nat
      BY <1>9, MembersFinite DEF ZCard, TypeOK
    <2> HIDE DEF n
    <2>2. l \in Calls /\ l.count = n
      BY <2>1 DEF Calls
    <2>3. Goto(c, step, l) /\ UNCHANGED <<data, stamp, clock, faults>>
      BY <1>9 DEF ZCard, n
    <2>4. step \in Steps /\ (step \in {"zrange", "zrem"} => n > Capacity)
          /\ step # "zadd"
      BY DEF Steps
    <2> HIDE DEF l, step
    <2> QED
      BY <1>2, <2>2, <2>3, <2>4 DEF TypeOK
  <1>10. ASSUME NEW c \in Clients, ZRange(c) PROVE TypeOK'
    <2>1. PICK R \in Lowest(Excess(c)) :
            Goto(c, "zrem", [call[c] EXCEPT !.victims = R])
      BY <1>10 DEF ZRange
    <2>2. R \in SUBSET Uids
      BY <2>1 DEF Lowest, Members
    <2> DEFINE l == [call[c] EXCEPT !.victims = R]
    <2>3. l \in Calls /\ l.count = call[c].count /\ "zrem" \in Steps
      BY <1>10, <2>2 DEF ZRange, TypeOK, Calls, Steps
    <2>4. call[c].count > Capacity /\ UNCHANGED <<data, stamp, clock, faults>>
      BY <1>10 DEF ZRange, TypeOK
    <2>5. Goto(c, "zrem", l)
      BY <2>1
    <2> HIDE DEF l
    <2> QED
      BY <1>2, <2>3, <2>4, <2>5 DEF TypeOK
  <1>11. ASSUME NEW c \in Clients, ZRemRangeByRank(c) PROVE TypeOK'
    <2>1. stamp' \in [Uids -> Nat]
      BY <1>11 DEF ZRemRangeByRank, TypeOK
    <2> QED
      BY <1>3, <1>11, <2>1 DEF ZRemRangeByRank, TypeOK
  <1>12. ASSUME NEW c \in Clients, Del(c) PROVE TypeOK'
    <2>1. data' \in [Uids -> Orders \cup {NoOrder}]
      BY <1>12 DEF Del, TypeOK
    <2> QED
      BY <1>3, <1>12, <2>1 DEF Del, TypeOK
  <1>13. ASSUME NEW c \in Clients, Abort(c) PROVE TypeOK'
    BY <1>2, <1>13 DEF Abort, Fault, TypeOK, Steps
  <1>14. CASE UNCHANGED vars
    BY <1>1, <1>14 DEF vars, TypeOK
  <1> QED
    BY <1>4, <1>5, <1>6, <1>7, <1>8, <1>9, <1>10, <1>11, <1>12, <1>13, <1>14
    DEF Next

(* Type correctness: in particular, a save that evicts has seen the sorted   *)
(* set above the capacity, so its rank range is never empty or negative.     *)
THEOREM CacheTypeCorrect == Spec => []TypeOK
  BY InitType, TypeStep, PTL DEF Spec

---------------------------------------------------------------------------
(* The size of the sorted set.                                               *)

LEMMA LowestFacts ==
  ASSUME NEW n \in Nat, NEW R \in Lowest(n)
  PROVE  /\ R \subseteq Members /\ IsFiniteSet(R)
         /\ Cardinality(R) =
              IF n < Cardinality(Members) THEN n ELSE Cardinality(Members)
         /\ IsFiniteSet(Members \ R)
         /\ Cardinality(Members \ R) = Cardinality(Members) - Cardinality(R)
  <1>1. /\ R \subseteq Members
        /\ Cardinality(R) =
             IF n < Cardinality(Members) THEN n ELSE Cardinality(Members)
    BY DEF Lowest
  <1>2. Members \cap R = R
    BY <1>1
  <1>3. IsFiniteSet(R)
    BY <1>1, MembersFinite
  <1>4. /\ IsFiniteSet(Members \ R)
        /\ Cardinality(Members \ R) =
             Cardinality(Members) - Cardinality(Members \cap R)
    BY MembersFinite, FS_Difference
  <1> QED
    BY <1>1, <1>2, <1>3, <1>4

LEMMA EvictingFinite ==
  IsFiniteSet(Evicting) /\ Cardinality(Evicting) \in Nat
  BY ClientAssumption, FS_Subset, FS_CardinalityType DEF Evicting

(* A client enters, stays in or leaves the commands that evict.              *)
LEMMA EvictingStep ==
  ASSUME TypeOK, NEW c \in Clients, NEW step \in Steps, NEW l,
         step # "idle" => l \in Calls, Goto(c, step, l)
  PROVE  /\ step \in {"zcard", "zrange", "zrem"} /\ c \notin Evicting =>
              Cardinality(Evicting') = Cardinality(Evicting) + 1
         /\ step \in {"zcard", "zrange", "zrem"} /\ c \in Evicting =>
              Cardinality(Evicting') = Cardinality(Evicting)
         /\ step \notin {"zcard", "zrange", "zrem"} /\ c \in Evicting =>
              Cardinality(Evicting') = Cardinality(Evicting) - 1
         /\ step \notin {"zcard", "zrange", "zrem"} /\ c \notin Evicting =>
              Cardinality(Evicting') = Cardinality(Evicting)
  <1>1. pc'[c] = step /\ \A d \in Clients \ {c} : pc'[d] = pc[d]
    BY GotoStep
  <1>2. Evicting' = IF step \in {"zcard", "zrange", "zrem"}
                    THEN Evicting \cup {c} ELSE Evicting \ {c}
    BY <1>1 DEF Evicting
  <1>3. /\ c \notin Evicting => Cardinality(Evicting \cup {c}) = Cardinality(Evicting) + 1
        /\ c \in Evicting => Cardinality(Evicting \cup {c}) = Cardinality(Evicting)
        /\ c \in Evicting => Cardinality(Evicting \ {c}) = Cardinality(Evicting) - 1
        /\ c \notin Evicting => Cardinality(Evicting \ {c}) = Cardinality(Evicting)
    BY EvictingFinite, FS_AddElement, FS_RemoveElement
  <1> QED
    BY <1>2, <1>3

(* ZADD adds at most the member it names. *)
LEMMA ZAddMembers ==
  ASSUME TypeOK, NEW c \in Clients, pc[c] = "zadd",
         stamp' = [stamp EXCEPT ![call[c].uid] = call[c].score]
  PROVE  /\ Members' = Members \cup {call[c].uid}
         /\ Cardinality(Members') <= Cardinality(Members) + 1
  <1>1. call[c] \in Calls /\ call[c].uid \in Uids /\ call[c].score > 0
    BY DEF TypeOK, Calls
  <1>2. Members' = Members \cup {call[c].uid}
    BY <1>1 DEF Members, TypeOK, Calls
  <1>3. Cardinality(Members \cup {call[c].uid}) <= Cardinality(Members) + 1
    BY MembersFinite, FS_AddElement
  <1> QED
    BY <1>2, <1>3

LEMMA InitIndex == Init => IndexBounded
  <1> SUFFICES ASSUME Init, Capacity > 0
               PROVE  Cardinality(Members) <= Capacity + Cardinality(Evicting) + faults
    BY DEF IndexBounded, IndexWithin
  <1>1. Members = {} /\ faults = 0
    BY DEF Init, Members
  <1>2. Cardinality(Members) = 0
    BY <1>1, FS_EmptySet
  <1> QED
    BY <1>1, <1>2, EvictingFinite, CapacityAssumption

(* Any bound that is no less than the capacity is kept.                      *)
LEMMA WithinStep ==
  ASSUME NEW B \in Nat, B >= Capacity, Capacity > 0,
         TypeOK, TypeOK', IndexWithin(B), [Next]_vars
  PROVE  IndexWithin(B)'
  <1> SUFFICES Cardinality(Members') <= B + Cardinality(Evicting') + faults'
    BY DEF IndexWithin
  <1> DEFINE M == Cardinality(Members)
             E == Cardinality(Evicting)
  <1>0. /\ M \in Nat /\ E \in Nat /\ M' \in Nat /\ E' \in Nat
        /\ faults \in Nat /\ faults' \in Nat /\ Capacity \in Nat
        /\ M <= B + E + faults
    <2>1. M' \in Nat
      BY MembersFinite, UidAssumption, FS_Subset, FS_CardinalityType DEF Members
    <2>2. E' \in Nat
      BY ClientAssumption, FS_Subset, FS_CardinalityType DEF Evicting
    <2> QED
      BY <2>1, <2>2, MembersFinite, EvictingFinite, CapacityAssumption
      DEF TypeOK, IndexWithin
  <1>1. ASSUME UNCHANGED <<stamp, pc>>, faults' >= faults
        PROVE  M' <= B + E' + faults'
    <2>1. M' = M /\ E' = E
      BY <1>1 DEF Members, Evicting
    <2> QED
      BY <1>0, <1>1, <2>1
  <1>2. ASSUME UNCHANGED stamp, E' >= E, faults' >= faults
        PROVE  M' <= B + E' + faults'
    <2>1. M' = M
      BY <1>2 DEF Members
    <2> QED
      BY <1>0, <1>2, <2>1
  <1>3. CASE Tick
    BY <1>0, <1>1, <1>3 DEF Tick
  <1>4. ASSUME NEW c \in Clients, NEW step \in {"idle", "set", "stamp", "zadd"},
               NEW l, step # "idle" => l \in Calls, c \notin Evicting,
               Goto(c, step, l), UNCHANGED <<stamp, faults>>
        PROVE  M' <= B + E' + faults'
    <2>1. E' = E
      BY <1>4, EvictingStep DEF Steps
    <2> QED
      BY <1>0, <1>2, <1>4, <2>1
  <1>5. ASSUME NEW c \in Clients, c \notin Evicting, pc[c] \in {"set", "del"},
               NEW step \in {"idle", "stamp"}, Reply(c, step), UNCHANGED stamp
        PROVE  M' <= B + E' + faults'
    <2>1. CASE Goto(c, step, call[c]) /\ UNCHANGED faults
      BY <1>4, <1>5, <2>1 DEF TypeOK
    <2>2. CASE Fault /\ UNCHANGED <<pc, call>>
      BY <1>0, <1>1, <1>5, <2>2 DEF Fault
    <2> QED
      BY <1>5, <2>1, <2>2 DEF Reply
  <1>6. ASSUME NEW c \in Clients, NEW u \in Uids, NEW v \in Orders,
               SaveOrder(c, u, v)
        PROVE  M' <= B + E' + faults'
    <2> DEFINE l == [uid |-> u, order |-> v, score |-> 0, count |-> 0,
                     victims |-> {}]
    <2>1. l \in Calls /\ c \notin Evicting
      BY <1>6 DEF Calls, SaveOrder, Evicting
    <2>2. Goto(c, "set", l) /\ UNCHANGED <<stamp, faults>>
      BY <1>6 DEF SaveOrder
    <2> HIDE DEF l
    <2> QED
      BY <1>4, <2>1, <2>2
  <1>7. ASSUME NEW c \in Clients, Set(c) \/ Del(c)
        PROVE  M' <= B + E' + faults'
    <2>1. pc[c] \in {"set", "del"} /\ c \notin Evicting /\ UNCHANGED stamp
      BY <1>7 DEF Set, Del, Evicting
    <2> QED
      BY <1>5, <1>7, <2>1 DEF Set, Del
  <1>8. ASSUME NEW c \in Clients, TakeStamp(c)
        PROVE  M' <= B + E' + faults'
    <2> DEFINE l == [call[c] EXCEPT !.score = clock]
    <2>1. l \in Calls /\ c \notin Evicting
      BY <1>8 DEF TakeStamp, TypeOK, Calls, Evicting
    <2>2. Goto(c, "zadd", l) /\ UNCHANGED <<stamp, faults>>
      BY <1>8 DEF TakeStamp
    <2> HIDE DEF l
    <2> QED
      BY <1>4, <2>1, <2>2
  <1>9. ASSUME NEW c \in Clients, ZAdd(c)
        PROVE  M' <= B + E' + faults'
    <2>1. M' <= M + 1
      BY <1>9, ZAddMembers DEF ZAdd
    <2>2. c \notin Evicting /\ call[c] \in Calls
      BY <1>9 DEF ZAdd, Evicting, TypeOK
    <2>3. CASE Goto(c, "zcard", call[c]) /\ UNCHANGED faults
      <3>1. E' = E + 1
        BY <2>2, <2>3, EvictingStep DEF Steps
      <3> HIDE DEF M, E
      <3> QED
        BY <1>0, <2>1, <2>3, <3>1
    <2>4. CASE Fault /\ UNCHANGED <<pc, call>>
      <3>1. E' = E /\ faults' = faults + 1
        BY <2>4 DEF Evicting, Fault
      <3> HIDE DEF M, E
      <3> QED
        BY <1>0, <2>1, <3>1
    <2> QED
      BY <1>9, <2>3, <2>4 DEF ZAdd, Reply
  <1>10. ASSUME NEW c \in Clients, ZCard(c)
         PROVE  M' <= B + E' + faults'
    <2> DEFINE l == [call[c] EXCEPT !.count = M]
    <2>1. /\ c \in Evicting /\ l \in Calls /\ M' = M /\ faults' = faults
          /\ Goto(c, IF M > Capacity THEN "zrange" ELSE "idle", l)
      BY <1>0, <1>10 DEF ZCard, Evicting, TypeOK, Calls, Members
    <2> HIDE DEF l
    <2>2. CASE M > Capacity
      <3>1. E' = E
        BY <2>1, <2>2, EvictingStep DEF Steps
      <3> HIDE DEF M, E
      <3> QED
        BY <1>0, <2>1, <3>1
    <2>3. CASE ~(M > Capacity)
      <3> QED
        BY <1>0, <2>1, <2>3
    <2> QED
      BY <2>2, <2>3
  <1>11. ASSUME NEW c \in Clients, ZRange(c)
         PROVE  M' <= B + E' + faults'
    <2>1. PICK R \in Lowest(Excess(c)) :
            Goto(c, "zrem", [call[c] EXCEPT !.victims = R])
      BY <1>11 DEF ZRange
    <2> DEFINE l == [call[c] EXCEPT !.victims = R]
    <2>2. l \in Calls /\ c \in Evicting /\ UNCHANGED <<stamp, faults>>
      BY <1>11 DEF ZRange, TypeOK, Calls, Lowest, Members, Evicting
    <2>3. Goto(c, "zrem", l)
      BY <2>1
    <2> HIDE DEF l
    <2>4. E' = E
      BY <2>2, <2>3, EvictingStep DEF Steps
    <2> QED
      BY <1>0, <1>2, <2>2, <2>4
  <1>12. ASSUME NEW c \in Clients, ZRemRangeByRank(c)
         PROVE  M' <= B + E' + faults'
    <2>1. PICK R \in Lowest(Excess(c)) :
            stamp' = [u \in Uids |-> IF u \in R THEN 0 ELSE stamp[u]]
      BY <1>12 DEF ZRemRangeByRank
    <2>2. c \in Evicting /\ call[c] \in Calls /\ call[c].count > Capacity
      BY <1>12 DEF ZRemRangeByRank, Evicting, TypeOK
    <2>3. Excess(c) \in Nat \ {0}
      BY <1>0, <2>2 DEF Excess, Calls
    <2>4. Members' = Members \ R
      BY <2>1 DEF Members
    <2>5. M' = M - IF Excess(c) < M THEN Excess(c) ELSE M
      BY <2>1, <2>3, <2>4, LowestFacts
    <2>6. CASE Goto(c, IF call[c].victims # {} THEN "del" ELSE "idle", call[c])
               /\ UNCHANGED faults
      <3>1. E' = E - 1
        BY <2>2, <2>6, EvictingStep DEF Steps
      <3> HIDE DEF M, E
      <3> QED
        BY <1>0, <2>3, <2>5, <2>6, <3>1
    <2>7. CASE Fault /\ UNCHANGED <<pc, call>>
      <3>1. E' = E /\ faults' = faults + 1
        BY <2>7 DEF Evicting, Fault
      <3> HIDE DEF M, E
      <3> QED
        BY <1>0, <2>3, <2>5, <3>1
    <2> QED
      BY <1>12, <2>6, <2>7 DEF ZRemRangeByRank, Reply
  <1>13. ASSUME NEW c \in Clients, Abort(c)
         PROVE  M' <= B + E' + faults'
    <2>1. M' = M /\ faults' = faults + 1
      BY <1>13 DEF Abort, Fault, Members
    <2>2. E' >= E - 1
      BY <1>0, <1>13, EvictingStep DEF Abort, Steps
    <2> QED
      BY <1>0, <2>1, <2>2
  <1>14. CASE UNCHANGED vars
    BY <1>0, <1>1, <1>14 DEF vars
  <1> QED
    BY <1>3, <1>6, <1>7, <1>8, <1>9, <1>10, <1>11, <1>12, <1>13, <1>14 DEF Next

LEMMA IndexStep == TypeOK /\ TypeOK' /\ IndexBounded /\ [Next]_vars => IndexBounded'
  BY WithinStep, CapacityAssumption DEF IndexBounded

(* The sorted set outgrows the capacity by no more than the saves still on   *)
(* their way to ZREMRANGEBYRANK and the faults, for any number of concurrent *)
(* callers of SaveOrder.                                                     *)
THEOREM IndexStaysBounded == Spec => []IndexBounded
  <1>1. Init => TypeOK /\ IndexBounded
    BY InitType, InitIndex
  <1>2. TypeOK /\ IndexBounded /\ [Next]_vars => (TypeOK /\ IndexBounded)'
    BY TypeStep, IndexStep
  <1> QED
    BY <1>1, <1>2, PTL DEF Spec

---------------------------------------------------------------------------
(* Saves that never overlap, and no fault.                                   *)

LEMMA LowestUnique ==
  ASSUME TypeOK, NEW n \in Nat, NEW R \in Lowest(n), NEW S \in Lowest(n)
  PROVE  R = S
  <1>1. /\ R \subseteq Members /\ S \subseteq Members
        /\ IsFiniteSet(R) /\ IsFiniteSet(S)
        /\ Cardinality(R) = Cardinality(S)
    BY LowestFacts
  <1>2. ASSUME NEW u \in R \ S, NEW w \in S \ R PROVE FALSE
    <2>1. Before(u, w) /\ Before(w, u)
      BY <1>1, <1>2 DEF Lowest
    <2>2. /\ u \in Nat /\ w \in Nat /\ stamp[u] \in Nat /\ stamp[w] \in Nat
      BY <1>1, <1>2, UidAssumption DEF Members, TypeOK
    <2> QED
      BY <2>1, <2>2 DEF Before
  <1>3. CASE S \subseteq R
    BY <1>1, <1>3, FS_Subset
  <1>4. CASE R \subseteq S
    BY <1>1, <1>4, FS_Subset
  <1> QED
    BY <1>2, <1>3, <1>4

LEMMA InitExact == Init => ExactInv
  <1> SUFFICES ASSUME Init PROVE ExactInv
    OBVIOUS
  <1>1. Members = {} /\ DataKeys = {} /\ \A c \in Clients : pc[c] = "idle"
    BY DEF Init, Members, DataKeys
  <1>2. Cardinality({}) = 0
    BY FS_EmptySet
  <1> QED
    BY <1>1, <1>2, CapacityAssumption DEF ExactInv, Stage

(* A command of c leaves the other clients where they are. *)
LEMMA OthersStay ==
  ASSUME TypeOK, NEW c \in Clients,
         \/ \E u \in Uids, v \in Orders : SaveOrder(c, u, v)
         \/ Set(c) \/ TakeStamp(c) \/ ZAdd(c) \/ ZCard(c) \/ ZRange(c)
         \/ ZRemRangeByRank(c) \/ Del(c)
  PROVE  \A d \in Clients \ {c} : pc'[d] = pc[d]
  BY DEF TypeOK, SaveOrder, Set, TakeStamp, ZAdd, ZCard, ZRange,
         ZRemRangeByRank, Del, Reply, Goto

LEMMA ExactStep == TypeOK /\ TypeOK' /\ ExactInv /\ [Next]_vars => ExactInv'
  <1> SUFFICES ASSUME TypeOK, TypeOK', ExactInv, [Next]_vars,
                      ~overlapped', faults' = 0, Capacity > 0
               PROVE  ExactInv'
    BY DEF ExactInv
  <1> DEFINE M == Cardinality(Members)
  <1>1. faults = 0 /\ ~overlapped
    <2>1. faults \in Nat /\ faults' \in {faults, faults + 1}
      BY DEF TypeOK, Next, Tick, SaveOrder, Set, TakeStamp, ZAdd, ZCard, ZRange,
             ZRemRangeByRank, Del, Abort, Reply, Fault, vars
    <2>2. overlapped => overlapped'
      BY DEF Next, Tick, SaveOrder, Set, TakeStamp, ZAdd, ZCard, ZRange,
             ZRemRangeByRank, Del, Abort, vars
    <2> QED
      BY <2>1, <2>2
  <1>2. /\ M \in Nat /\ Capacity \in Nat
        /\ \A c \in Clients : pc[c] # "idle" => Alone(c) /\ Stage(c)
        /\ \A c \in Clients : Alone(c) => Stage(c)
    BY <1>1, MembersFinite, CapacityAssumption DEF ExactInv
  <1>3. ~Fault
    BY <1>1 DEF Fault
  (* It is enough to look at the client that acts. *)
  <1>4. ASSUME NEW c \in Clients, Alone(c), Stage(c)',
               \A d \in Clients \ {c} : pc'[d] = pc[d]
        PROVE  ExactInv'
    <2>1. \A d \in Clients \ {c} : pc'[d] = "idle"
      BY <1>4 DEF Alone
    <2>2. \A d \in Clients : pc'[d] # "idle" => Alone(d)'
      BY <2>1 DEF Alone
    <2>3. ASSUME NEW d \in Clients, d # c, Alone(d)' PROVE Stage(d)'
      <3>1. pc'[d] = "idle" /\ pc'[c] = "idle"
        BY <2>1, <2>3 DEF Alone
      <3> QED
        BY <1>4, <3>1 DEF Stage
    <2> QED
      BY <1>4, <2>2, <2>3 DEF ExactInv
  <1>5. ASSUME NEW c \in Clients, NEW u \in Uids, NEW v \in Orders,
               SaveOrder(c, u, v)
        PROVE  ExactInv'
    <2>0. Alone(c) /\ Stage(c)
      <3>1. \A d \in Clients : pc[d] = "idle"
        BY <1>5 DEF SaveOrder
      <3> QED
        BY <1>2, <3>1 DEF Alone
    <2>1. /\ pc[c] = "idle" /\ pc'[c] = "set"
          /\ Members' = Members /\ DataKeys' = DataKeys
      BY <1>5 DEF SaveOrder, Goto, TypeOK, Members, DataKeys
    <2>9. Stage(c)'
      BY <1>2, <2>0, <2>1 DEF Stage
    <2> QED
      BY <1>4, <1>5, <2>0, <2>9, OthersStay
  <1>6. ASSUME NEW c \in Clients, Set(c) PROVE ExactInv'
    <2>0. Alone(c) /\ Stage(c)
      BY <1>2, <1>6 DEF Set
    <2>1. /\ pc[c] = "set" /\ pc'[c] = "stamp" /\ call'[c] = call[c]
          /\ Members' = Members /\ call[c] \in Calls
          /\ data' = [data EXCEPT ![call[c].uid] = call[c].order]
      BY <1>3, <1>6 DEF Set, Reply, Goto, TypeOK, Members
    <2>2. DataKeys' = DataKeys \cup {call[c].uid}
      BY <2>1, OrderAssumption DEF DataKeys, Calls, TypeOK
    <2>9. Stage(c)'
      BY <1>2, <2>0, <2>1, <2>2 DEF Stage
    <2> QED
      BY <1>4, <1>6, <2>0, <2>9, OthersStay
  <1>7. ASSUME NEW c \in Clients, TakeStamp(c) PROVE ExactInv'
    <2>0. Alone(c) /\ Stage(c)
      BY <1>2, <1>7 DEF TakeStamp
    <2>1. /\ pc[c] = "stamp" /\ pc'[c] = "zadd" /\ call'[c].uid = call[c].uid
          /\ Members' = Members /\ DataKeys' = DataKeys
      BY <1>7 DEF TakeStamp, Goto, TypeOK, Members, DataKeys, Calls
    <2>9. Stage(c)'
      BY <1>2, <2>0, <2>1 DEF Stage
    <2> QED
      BY <1>4, <1>7, <2>0, <2>9, OthersStay
  <1>8. ASSUME NEW c \in Clients, ZAdd(c) PROVE ExactInv'
    <2>0. Alone(c) /\ Stage(c)
      BY <1>2, <1>8 DEF ZAdd
    <2>1. /\ pc[c] = "zadd" /\ pc'[c] = "zcard" /\ DataKeys' = DataKeys
          /\ stamp' = [stamp EXCEPT ![call[c].uid] = call[c].score]
      BY <1>3, <1>8 DEF ZAdd, Reply, Goto, TypeOK, DataKeys
    <2>2. Members' = Members \cup {call[c].uid}
      BY <2>1, ZAddMembers
    <2>9. Stage(c)'
      BY <1>2, <2>0, <2>1, <2>2 DEF Stage
    <2> QED
      BY <1>4, <1>8, <2>0, <2>9, OthersStay
  <1>9. ASSUME NEW c \in Clients, ZCard(c) PROVE ExactInv'
    <2>0. Alone(c) /\ Stage(c)
      BY <1>2, <1>9 DEF ZCard
    <2>1. /\ pc[c] = "zcard"
          /\ pc'[c] = IF M > Capacity THEN "zrange" ELSE "idle"
          /\ M > Capacity => call'[c].count = M
          /\ Members' = Members /\ DataKeys' = DataKeys
      <3>1. call[c] \in Calls /\ pc[c] = "zcard"
        BY <1>9 DEF ZCard, TypeOK
      <3>2. [call[c] EXCEPT !.count = M].count = M
        BY <3>1 DEF Calls
      <3> HIDE DEF M
      <3>3. Goto(c, IF M > Capacity THEN "zrange" ELSE "idle",
                 [call[c] EXCEPT !.count = M])
        BY <1>9 DEF ZCard, M
      <3> QED
        BY <1>9, <3>1, <3>2, <3>3 DEF ZCard, Goto, TypeOK, Members, DataKeys
    <2>9. Stage(c)'
      BY <1>2, <2>0, <2>1 DEF Stage
    <2> QED
      BY <1>4, <1>9, <2>0, <2>9, OthersStay
  <1>10. ASSUME NEW c \in Clients, ZRange(c) PROVE ExactInv'
    <2>0. Alone(c) /\ Stage(c)
      BY <1>2, <1>10 DEF ZRange
    <2>1. PICK R \in Lowest(Excess(c)) :
            Goto(c, "zrem", [call[c] EXCEPT !.victims = R])
      BY <1>10 DEF ZRange
    <2>2. /\ pc[c] = "zrange" /\ pc'[c] = "zrem" /\ call[c] \in Calls
          /\ call'[c] = [call[c] EXCEPT !.victims = R]
          /\ UNCHANGED <<stamp, data>>
      BY <1>10, <2>1 DEF ZRange, Goto, TypeOK
    <2>3. call'[c].count = call[c].count /\ call'[c].victims = R
      BY <2>2 DEF Calls
    <2>4. /\ Members' = Members /\ DataKeys' = DataKeys
          /\ Excess(c)' = Excess(c)
      BY <2>2, <2>3 DEF Members, DataKeys, Excess
    <2>5. \A n : Lowest(n)' = Lowest(n)
      BY <2>2, <2>4 DEF Lowest, Before
    <2>9. Stage(c)'
      BY <1>2, <2>0, <2>2, <2>3, <2>4, <2>5 DEF Stage
    <2> QED
      BY <1>4, <1>10, <2>0, <2>9, OthersStay
  <1>11. ASSUME NEW c \in Clients, ZRemRangeByRank(c) PROVE ExactInv'
    <2>0. Alone(c) /\ Stage(c)
      BY <1>2, <1>11 DEF ZRemRangeByRank
    <2>1. PICK R \in Lowest(Excess(c)) :
            stamp' = [u \in Uids |-> IF u \in R THEN 0 ELSE stamp[u]]
      BY <1>11 DEF ZRemRangeByRank
    <2>2. /\ pc[c] = "zrem" /\ call[c] \in Calls /\ call[c].count > Capacity
          /\ pc'[c] = IF call[c].victims # {} THEN "del" ELSE "idle"
          /\ call[c].victims # {} => call'[c] = call[c]
          /\ DataKeys' = DataKeys
      BY <1>3, <1>11 DEF ZRemRangeByRank, Reply, Goto, TypeOK, DataKeys
    <2>3. call[c].count \in Nat /\ Excess(c) \in Nat /\ Excess(c) = M - Capacity
      BY <1>2, <2>0, <2>2 DEF Calls, Excess, Stage
    <2>4. R = call[c].victims
      BY <2>0, <2>1, <2>2, <2>3, LowestUnique DEF Stage
    <2>5. Members' = Members \ R /\ R \subseteq Members
      <3>1. R \subseteq Members
        BY <2>1, <2>3, LowestFacts
      <3>2. Members' = Members \ R
        BY <2>1 DEF Members
      <3> QED
        BY <3>1, <3>2
    <2>6. M' <= Capacity
      <3>1. /\ Cardinality(R) = IF Excess(c) < M THEN Excess(c) ELSE M
            /\ M' = M - Cardinality(R)
        BY <2>1, <2>3, <2>5, LowestFacts
      <3>2. M \in Nat /\ Capacity \in Nat
        BY <1>2
      <3> HIDE DEF M
      <3> QED
        BY <2>3, <3>1, <3>2
    <2>9. Stage(c)'
      BY <1>2, <2>0, <2>2, <2>4, <2>5, <2>6 DEF Stage
    <2> QED
      BY <1>4, <1>11, <2>0, <2>9, OthersStay
  <1>12. ASSUME NEW c \in Clients, Del(c) PROVE ExactInv'
    <2>0. Alone(c) /\ Stage(c)
      BY <1>2, <1>12 DEF Del
    <2>1. /\ pc[c] = "del" /\ pc'[c] = "idle" /\ call[c] \in Calls
          /\ Members' = Members
          /\ data' = [u \in Uids |->
                        IF u \in call[c].victims THEN NoOrder ELSE data[u]]
      BY <1>3, <1>12 DEF Del, Reply, Goto, TypeOK, Members
    <2>2. DataKeys' = DataKeys \ call[c].victims
      BY <2>1 DEF DataKeys
    <2>9. Stage(c)'
      BY <1>2, <2>0, <2>1, <2>2 DEF Stage
    <2> QED
      BY <1>4, <1>12, <2>0, <2>9, OthersStay
  <1>13. ASSUME NEW c \in Clients, Abort(c) PROVE FALSE
    BY <1>3, <1>13 DEF Abort
  <1>14. ASSUME UNCHANGED <<data, stamp, pc, call>> PROVE ExactInv'
    <2>1. Members' = Members /\ DataKeys' = DataKeys
      BY <1>14 DEF Members, DataKeys
    <2>2. \A n : Lowest(n)' = Lowest(n)
      BY <1>14, <2>1 DEF Lowest, Before
    <2>3. \A c \in Clients : /\ Excess(c)' = Excess(c)
                             /\ Alone(c)' <=> Alone(c)
      BY <1>14 DEF Excess, Alone
    <2>4. ASSUME NEW c \in Clients, Stage(c) PROVE Stage(c)'
      BY <1>14, <2>1, <2>2, <2>3, <2>4 DEF Stage
    <2> QED
      BY <1>2, <1>14, <2>3, <2>4 DEF ExactInv
  <1>15. CASE Tick \/ UNCHANGED vars
    BY <1>14, <1>15 DEF Tick, vars
  <1> QED
    BY <1>5, <1>6, <1>7, <1>8, <1>9, <1>10, <1>11, <1>12, <1>13, <1>15
    DEF Next

(* Saves that never overlap keep keys and sorted set equal and within the    *)
(* capacity, whichever goroutines make them, as long as no command fails.    *)
THEOREM LoneSavesExact == Spec => []CacheExact
  <1>1. Init => TypeOK /\ ExactInv
    BY InitType, InitExact
  <1>2. TypeOK /\ ExactInv /\ [Next]_vars => (TypeOK /\ ExactInv)'
    BY TypeStep, ExactStep
  <1>3. ExactInv => CacheExact
    <2> SUFFICES ASSUME ExactInv, ~overlapped, faults = 0, Capacity > 0,
                        \A c \in Clients : pc[c] = "idle"
                 PROVE  DataKeys = Members /\ Cardinality(DataKeys) <= Capacity
      BY DEF CacheExact
    <2>1. PICK c \in Clients : TRUE
      BY ClientAssumption
    <2>2. Alone(c)
      BY DEF Alone
    <2> QED
      BY <2>1, <2>2 DEF ExactInv, Stage
  <1> QED
    BY <1>1, <1>2, <1>3, PTL DEF Spec

---------------------------------------------------------------------------
(* Refinement.                                                               *)

LEMMA LossyInit == Init => Lossy!Init
  BY DEF Init, Lossy!Init, Pending

LEMMA LossyStep == TypeOK /\ [Next]_vars => [Lossy!Next]_Lossy!vars
  <1> SUFFICES ASSUME TypeOK, [Next]_vars PROVE [Lossy!Next]_Lossy!vars
    OBVIOUS
  <1> DEFINE W == [c \in Clients |-> Pending(c)]
  <1>1. ASSUME UNCHANGED data, \A c \in Clients : Pending(c)' = Pending(c)
        PROVE  [Lossy!Next]_Lossy!vars
    BY <1>1 DEF Lossy!vars
  <1>2. ASSUME NEW c \in Clients, NEW step \in Steps, NEW l,
               step # "idle" => l \in Calls, Goto(c, step, l)
        PROVE  W' = [W EXCEPT ![c] = IF step = "set" THEN <<l.uid, l.order>>
                                                      ELSE NoCall]
    <2>1. /\ pc'[c] = step
          /\ call'[c] = IF step = "idle" THEN NoCall ELSE l
          /\ \A d \in Clients \ {c} : pc'[d] = pc[d] /\ call'[d] = call[d]
      BY <1>2, GotoStep
    <2>2. Pending(c)' = IF step = "set" THEN <<l.uid, l.order>> ELSE NoCall
      BY <2>1 DEF Pending
    <2>3. \A d \in Clients \ {c} : Pending(d)' = Pending(d)
      BY <2>1 DEF Pending
    <2>4. /\ W' = [d \in Clients |-> Pending(d)']
          /\ \A d \in Clients : W[d] = Pending(d)
      OBVIOUS
    <2> QED
      BY <2>2, <2>3, <2>4
  <1>3. ASSUME NEW c \in Clients, NEW step \in Steps \ {"set"}, NEW l,
               step # "idle" => l \in Calls, Goto(c, step, l),
               pc[c] # "set", UNCHANGED data
        PROVE  [Lossy!Next]_Lossy!vars
    <2>1. W' = [W EXCEPT ![c] = NoCall]
      BY <1>2, <1>3
    <2>2. W[c] = NoCall
      BY <1>3 DEF Pending
    <2>3. W' = W
      BY <2>1, <2>2
    <2> QED
      BY <1>3, <2>3 DEF Lossy!vars
  <1>4. ASSUME NEW c \in Clients, NEW step \in Steps \ {"set"},
               pc[c] \notin {"set", "idle"}, Reply(c, step), UNCHANGED data
        PROVE  [Lossy!Next]_Lossy!vars
    <2>1. call[c] \in Calls
      BY <1>4 DEF TypeOK
    <2>2. CASE Goto(c, step, call[c])
      BY <1>3, <1>4, <2>1, <2>2
    <2>3. CASE UNCHANGED <<pc, call>>
      BY <1>1, <1>4, <2>3 DEF Pending
    <2> QED
      BY <1>4, <2>2, <2>3 DEF Reply
  <1>5. CASE Tick
    BY <1>1, <1>5 DEF Tick, Pending
  <1>6. ASSUME NEW c \in Clients, NEW u \in Uids, NEW v \in Orders,
               SaveOrder(c, u, v)
        PROVE  Lossy!Next
    <2> DEFINE l == [uid |-> u, order |-> v, score |-> 0, count |-> 0,
                     victims |-> {}]
    <2>1. l \in Calls /\ "set" \in Steps /\ l.uid = u /\ l.order = v
      BY DEF Calls, Steps
    <2>2. Goto(c, "set", l) /\ UNCHANGED data /\ W[c] = NoCall
      BY <1>6 DEF SaveOrder, Pending
    <2> HIDE DEF l
    <2>3. W' = [W EXCEPT ![c] = <<u, v>>]
      BY <1>2, <2>1, <2>2
    <2>4. Lossy!Begin(c, u, v)
      BY <2>2, <2>3 DEF Lossy!Begin
    <2> QED
      BY <2>4 DEF Lossy!Next
  <1>7. ASSUME NEW c \in Clients, Set(c) PROVE Lossy!Next
    <2>1. /\ call[c] \in Calls
          /\ call[c].uid \in Uids /\ call[c].order \in Orders
          /\ W[c] = <<call[c].uid, call[c].order>>
      BY <1>7 DEF Set, TypeOK, Calls, Pending
    <2>2. W[c] # NoCall
      BY <2>1, CallAssumption
    <2>3. data' = [data EXCEPT ![W[c][1]] = W[c][2]]
      <3>1. W[c][1] = call[c].uid /\ W[c][2] = call[c].order
        BY <2>1
      <3>2. data' = [data EXCEPT ![call[c].uid] = call[c].order]
        BY <1>7 DEF Set
      <3> HIDE DEF W
      <3> QED
        BY <3>1, <3>2
    <2>4. W' = [W EXCEPT ![c] = NoCall] \/ W' = W
      <3>1. CASE Goto(c, "stamp", call[c])
        <4>1. "stamp" \in Steps
          BY DEF Steps
        <4> HIDE DEF W
        <4> QED
          BY <1>2, <2>1, <3>1, <4>1
      <3>2. CASE UNCHANGED <<pc, call>>
        BY <3>2 DEF Pending
      <3> QED
        BY <1>7, <3>1, <3>2 DEF Set, Reply
    <2>5. Lossy!Put(c)
      BY <2>2, <2>3, <2>4 DEF Lossy!Put
    <2> QED
      BY <2>5 DEF Lossy!Next
  <1>8. ASSUME NEW c \in Clients, TakeStamp(c)
        PROVE  [Lossy!Next]_Lossy!vars
    <2> DEFINE l == [call[c] EXCEPT !.score = clock]
    <2>1. l \in Calls
      BY <1>8 DEF TakeStamp, TypeOK, Calls
    <2>2. Goto(c, "zadd", l) /\ UNCHANGED data /\ pc[c] # "set"
      BY <1>8 DEF TakeStamp
    <2> HIDE DEF l
    <2> QED
      BY <1>3, <2>1, <2>2 DEF Steps
  <1>9. ASSUME NEW c \in Clients, ZAdd(c) PROVE [Lossy!Next]_Lossy!vars
    BY <1>4, <1>9 DEF ZAdd, Steps
  <1>10. ASSUME NEW c \in Clients, ZCard(c) PROVE [Lossy!Next]_Lossy!vars
    <2> DEFINE l == [call[c] EXCEPT !.count = Cardinality(Members)]
               step == IF Cardinality(Members) > Capacity THEN "zrange"
                       ELSE "idle"
    <2>1. l \in Calls
      BY <1>10, MembersFinite DEF ZCard, TypeOK, Calls
    <2>2. Goto(c, step, l) /\ UNCHANGED data /\ pc[c] # "set"
      BY <1>10 DEF ZCard
    <2>3. step \in Steps \ {"set"}
      BY DEF Steps
    <2> HIDE DEF l, step
    <2> QED
      BY <1>3, <2>1, <2>2, <2>3
  <1>11. ASSUME NEW c \in Clients, ZRange(c) PROVE [Lossy!Next]_Lossy!vars
    <2>1. PICK R \in Lowest(Excess(c)) :
            Goto(c, "zrem", [call[c] EXCEPT !.victims = R])
      BY <1>11 DEF ZRange
    <2> DEFINE l == [call[c] EXCEPT !.victims = R]
    <2>2. R \subseteq Uids
      BY DEF Lowest, Members
    <2>3. l \in Calls /\ UNCHANGED data /\ pc[c] # "set"
      BY <1>11, <2>2 DEF ZRange, TypeOK, Calls
    <2>4. Goto(c, "zrem", l)
      BY <2>1
    <2> HIDE DEF l
    <2> QED
      BY <1>3, <2>3, <2>4 DEF Steps
  <1>12. ASSUME NEW c \in Clients, ZRemRangeByRank(c)
         PROVE  [Lossy!Next]_Lossy!vars
    BY <1>4, <1>12 DEF ZRemRangeByRank, Steps
  <1>13. ASSUME NEW c \in Clients, Del(c) PROVE Lossy!Next
    <2>1. /\ pc[c] = "del" /\ call[c] \in Calls
          /\ call[c].victims \in SUBSET Uids
      BY <1>13 DEF Del, TypeOK, Calls
    <2>2. W[c] = NoCall
      BY <2>1 DEF Pending
    <2>3. W' = W
      <3>1. CASE Goto(c, "idle", call[c])
        <4>1. W' = [W EXCEPT ![c] = NoCall]
          BY <1>2, <2>1, <3>1 DEF Steps
        <4> QED
          BY <2>2, <4>1
      <3>2. CASE UNCHANGED <<pc, call>>
        BY <3>2 DEF Pending
      <3> QED
        BY <1>13, <3>1, <3>2 DEF Del, Reply
    <2>4. Lossy!Drop(call[c].victims)
      BY <1>13, <2>3 DEF Del, Lossy!Drop
    <2> QED
      BY <2>1, <2>4 DEF Lossy!Next
  <1>14. ASSUME NEW c \in Clients, Abort(c) PROVE [Lossy!Next]_Lossy!vars
    <2>1. Goto(c, "idle", NoCall) /\ UNCHANGED data
      BY <1>14 DEF Abort
    <2>2. CASE pc[c] # "set"
      BY <1>3, <2>1, <2>2 DEF Steps
    <2>3. CASE pc[c] = "set"
      <3>1. call[c].uid \in Uids /\ call[c].order \in Orders
        BY <2>3 DEF TypeOK, Calls
      <3>2. W[c] # NoCall
        BY <2>3, <3>1, CallAssumption DEF Pending
      <3>3. W' = [W EXCEPT ![c] = NoCall]
        BY <1>2, <2>1 DEF Steps
      <3>4. Lossy!Abandon(c)
        BY <2>1, <3>2, <3>3 DEF Lossy!Abandon
      <3> QED
        BY <3>4 DEF Lossy!Next
    <2> QED
      BY <2>2, <2>3
  <1>15. CASE UNCHANGED vars
    BY <1>1, <1>15 DEF vars, Pending
  <1> QED
    BY <1>5, <1>6, <1>7, <1>8, <1>9, <1>10, <1>11, <1>12, <1>13, <1>14,
       <1>15 DEF Next

(* The cache CachedRepo sees is a map whose keys hold what was written to    *)
(* them or nothing: every Redis command of SaveOrder is a write, a removal   *)
(* or invisible.                                                             *)
THEOREM RefinesLossyCache == Spec => ImplementsLossyCache
  <1> QED
    BY LossyInit, LossyStep, CacheTypeCorrect, PTL
    DEF Spec, ImplementsLossyCache, Lossy!Spec
---------------------------------------------------------------------------
(* The warm-up and the goroutines beside it only make steps of RedisCache,   *)
(* or count a failure, so what RedisCache's steps keep is kept here too.     *)
FaultOnly ==
  Fault /\ UNCHANGED <<data, stamp, clock, pc, call, overlapped>>

LEMMA WarmStepOfCache ==
  ASSUME WarmTypeOK, [WarmNext]_allVars
  PROVE  [Next]_vars \/ FaultOnly
  <1>1. CASE TimePasses
    BY <1>1 DEF TimePasses, Next
  <1>2. CASE CountOrders
    BY <1>2 DEF CountOrders, FaultOnly, vars
  <1>3. CASE GetLastOrdersUIDs
    BY <1>3 DEF GetLastOrdersUIDs, FaultOnly, vars
  <1>4. ASSUME NEW c \in Clients, NEW u \in Uids, SaveOrder(c, u, Content)
        PROVE  Next
    <2>1. Content \in Orders
      BY WarmerAssumption DEF Content
    <2> QED
      BY <1>4, <2>1 DEF Next
  <1>5. CASE WarmOrder
    <2>1. orderUIDs[i] \in Uids
      BY <1>5 DEF WarmOrder, WarmTypeOK
    <2> QED
      BY <1>4, <1>5, <2>1, WarmerAssumption DEF WarmOrder, FaultOnly
  <1>6. CASE WarmDone
    BY <1>6 DEF WarmDone
  <1>7. ASSUME NEW c \in Clients, Command(c) PROVE Next
    BY <1>7 DEF Command, Next
  <1>8. ASSUME NEW c \in Clients, NEW u \in Uids, SaveLive(c, u) PROVE Next
    BY <1>4, <1>8 DEF SaveLive
  <1>9. CASE UNCHANGED allVars
    BY <1>9 DEF allVars, vars
  <1> QED
    BY <1>1, <1>2, <1>3, <1>5, <1>6, <1>7, <1>8, <1>9 DEF WarmNext

LEMMA FaultOnlyKeeps ==
  ASSUME TypeOK, FaultOnly
  PROVE  TypeOK' /\ \A B \in Nat : IndexWithin(B) => IndexWithin(B)'
  <1>1. TypeOK' /\ faults' = faults + 1
    BY DEF FaultOnly, Fault, TypeOK
  <1>2. Members' = Members /\ Evicting' = Evicting
    BY DEF FaultOnly, Members, Evicting
  <1>3. Cardinality(Members) \in Nat /\ Cardinality(Evicting) \in Nat
    BY MembersFinite, EvictingFinite, FS_CardinalityType
  <1>4. ASSUME NEW B \in Nat, IndexWithin(B) PROVE IndexWithin(B)'
    BY <1>1, <1>2, <1>3, <1>4 DEF IndexWithin, TypeOK
  <1> QED
    BY <1>1, <1>4

LEMMA SubsetSize ==
  ASSUME NEW U \in SUBSET Uids
  PROVE  IsFiniteSet(U) /\ Cardinality(U) \in Nat
  BY UidAssumption, FS_Subset, FS_CardinalityType

LEMMA WarmInitType == WarmInit => WarmTypeOK /\ WarmIndexBounded
  <1> SUFFICES ASSUME WarmInit PROVE WarmTypeOK /\ WarmIndexBounded
    OBVIOUS
  <1>1. data \in [Uids -> Orders \cup {NoOrder}]
    <2>1. Content \in Orders
      BY WarmerAssumption DEF Content
    <2> QED
      BY <2>1 DEF WarmInit
  <1>2. stamp \in [Uids -> Nat] /\ clock \in Nat \ {0}
    BY BootAssumption DEF WarmInit
  <1>3. TypeOK
    BY <1>1, <1>2 DEF WarmInit, TypeOK, Steps
  <1>4. /\ stored \subseteq Uids /\ left = Members /\ Members \subseteq Uids
        /\ orphans \subseteq Uids /\ Evicting = {} /\ faults = 0
    BY DEF Members, DataKeys, Evicting, WarmInit
  <1>5. IndexWithin(Cardinality(left))
    BY <1>4, SubsetSize, FS_EmptySet DEF IndexWithin
  <1>6. orderUIDs = <<>> /\ i = 1 /\ fresh = {} /\ warm = "count"
    BY DEF WarmInit
  <1> QED
    BY <1>3, <1>4, <1>5, <1>6 DEF WarmTypeOK, WarmIndexBounded

(* What was left is history. *)
LEMMA LeftStays == [WarmNext]_allVars => left' = left /\ orphans' = orphans
  BY DEF WarmNext, TimePasses, CountOrders, GetLastOrdersUIDs, WarmOrder,
         WarmDone, Command, SaveLive, warmVars, allVars

LEMMA WarmTypeStep ==
  ASSUME WarmTypeOK, [WarmNext]_allVars
  PROVE  WarmTypeOK'
  <1>1. TypeOK'
    BY WarmStepOfCache, TypeStep, FaultOnlyKeeps DEF WarmTypeOK
  <1>2. CASE TimePasses
    BY <1>1, <1>2 DEF TimePasses, warmVars, WarmTypeOK
  <1>3. CASE CountOrders
    BY <1>1, <1>3 DEF CountOrders, WarmTypeOK
  <1>4. CASE GetLastOrdersUIDs
    <2> DEFINE L == LastOrders(stored, Capacity)
    <2>1. L \in SUBSET Uids /\ Cardinality(L) \in Nat
      BY SubsetSize DEF LastOrders, WarmTypeOK
    <2>2. i = 1 /\ i' = i /\ stored' = stored /\ fresh' = fresh
          /\ left' = left /\ orphans' = orphans
          /\ warm' \in {"load", "off"}
      BY <1>4 DEF GetLastOrdersUIDs, WarmTypeOK
    <2>3. orderUIDs' \in [1 .. Cardinality(L) -> L] \/ orderUIDs' = orderUIDs
      BY <1>4 DEF GetLastOrdersUIDs
    <2> HIDE DEF L
    <2>4. orderUIDs' \in Seq(Uids) /\ Len(orderUIDs') \in Nat
      BY <2>1, <2>3 DEF WarmTypeOK
    <2> QED
      BY <1>1, <2>2, <2>4 DEF WarmTypeOK
  <1>5. CASE WarmOrder
    BY <1>1, <1>5 DEF WarmOrder, WarmTypeOK
  <1>6. CASE WarmDone
    BY <1>1, <1>6 DEF WarmDone, WarmTypeOK
  <1>7. ASSUME NEW c \in Clients, Command(c) PROVE WarmTypeOK'
    BY <1>1, <1>7 DEF Command, warmVars, WarmTypeOK
  <1>8. ASSUME NEW c \in Clients, NEW u \in Uids, SaveLive(c, u)
        PROVE  WarmTypeOK'
    BY <1>1, <1>8 DEF SaveLive, WarmTypeOK
  <1>9. CASE UNCHANGED allVars
    BY <1>1, <1>9 DEF allVars, warmVars, WarmTypeOK
  <1> QED
    BY <1>2, <1>3, <1>4, <1>5, <1>6, <1>7, <1>8, <1>9 DEF WarmNext

(* Under the warm-up too every variable keeps its type, and the index of the *)
(* loop stays within the list.                                               *)
THEOREM WarmTypeCorrect == WarmSpec => []WarmTypeOK
  BY WarmInitType, WarmTypeStep, PTL DEF WarmSpec

LEMMA WarmWithinStep ==
  ASSUME NEW B \in Nat, B >= Capacity,
         WarmTypeOK, WarmTypeOK', IndexWithin(B), [WarmNext]_allVars
  PROVE  IndexWithin(B)'
  <1>1. TypeOK /\ TypeOK'
    BY DEF WarmTypeOK
  <1>2. CASE [Next]_vars
    BY <1>1, <1>2, WithinStep, WarmerAssumption
  <1>3. CASE FaultOnly
    BY <1>1, <1>3, FaultOnlyKeeps
  <1> QED
    BY <1>2, <1>3, WarmStepOfCache

LEMMA WarmIndexStep ==
  ASSUME WarmTypeOK, WarmTypeOK', WarmIndexBounded, [WarmNext]_allVars
  PROVE  WarmIndexBounded'
  <1>1. PICK B \in Nat : B = Cardinality(left)
    BY SubsetSize DEF WarmTypeOK
  <1>2. left' = left
    BY LeftStays
  <1>3. CASE IndexWithin(Capacity)
    BY <1>3, WarmWithinStep, CapacityAssumption DEF WarmIndexBounded
  <1>4. CASE IndexWithin(B) /\ B >= Capacity
    <2>1. IndexWithin(B)'
      BY <1>4, WarmWithinStep
    <2> QED
      BY <1>1, <1>2, <2>1 DEF WarmIndexBounded, IndexWithin
  <1>5. CASE IndexWithin(B) /\ B < Capacity
    <2>1. Cardinality(Members) \in Nat /\ Cardinality(Evicting) \in Nat
      BY MembersFinite, EvictingFinite DEF WarmTypeOK
    <2>2. IndexWithin(Capacity)
      BY <1>5, <2>1, CapacityAssumption DEF IndexWithin, WarmTypeOK, TypeOK
    <2> QED
      BY <1>3, <2>2
  <1>6. IndexWithin(Capacity) \/ IndexWithin(B)
    BY <1>1 DEF WarmIndexBounded
  <1> QED
    BY <1>3, <1>4, <1>5, <1>6, CapacityAssumption

(* Whatever an earlier process left, however many members: a warm-up beside  *)
(* any number of saves adds to them, or to the capacity, no more than one    *)
(* member per save under way and one per fault.                              *)
THEOREM WarmIndexStaysBounded == WarmSpec => []WarmIndexBounded
  BY WarmInitType, WarmTypeCorrect, WarmIndexStep, PTL DEF WarmSpec

(* What an earlier process left in Redis aside, the warm-up and the saves    *)
(* beside it stay within what CachedRepo is promised: every command of       *)
(* theirs is a step of LossyCache or leaves what a reader finds as it is.    *)
THEOREM WarmUpWithinPromise == WarmSpec => [][Lossy!Next]_(Lossy!vars)
  <1>1. WarmTypeOK /\ [WarmNext]_allVars => [Lossy!Next]_(Lossy!vars)
    <2> SUFFICES ASSUME WarmTypeOK, [WarmNext]_allVars
                 PROVE  [Lossy!Next]_(Lossy!vars)
      OBVIOUS
    <2>1. CASE [Next]_vars
      BY <2>1, LossyStep DEF WarmTypeOK
    <2>2. CASE FaultOnly
      BY <2>2 DEF FaultOnly, Lossy!vars, Pending
    <2> QED
      BY <2>1, <2>2, WarmStepOfCache
  <1> QED
    BY <1>1, WarmTypeCorrect, PTL DEF WarmSpec
---------------------------------------------------------------------------
(* What a warm-up without failures leaves in the cache.                      *)

(* A set of orders has a newest and an oldest one: the set of the orders     *)
(* newer (older) than some order of it cannot shrink for ever.               *)
LEMMA Extremes ==
  ASSUME NEW U \in SUBSET Uids, U # {}
  PROVE  /\ \E m \in U : \A u \in U : Date[u] <= Date[m]
         /\ \E m \in U : \A u \in U : Date[m] <= Date[u]
  <1> DEFINE Newer(u) == {w \in U : Date[w] > Date[u]}
             Older(u) == {w \in U : Date[w] < Date[u]}
  <1>1. IsWellFoundedOn(StrictSubsetOrdering(U), SUBSET U)
    BY SubsetSize, FS_StrictSubsetOrderingWellFounded, FS_FiniteSubsetsOfFinite
  <1>2. \A u \in U : Date[u] \in Nat
    BY DateAssumption
  <1>3. \E m \in U : \A u \in U : Date[u] <= Date[m]
    <2> DEFINE F == {Newer(u) : u \in U}
    <2>1. F \subseteq SUBSET U /\ F # {}
      OBVIOUS
    <2>2. PICK A \in F : \A B \in F : <<B, A>> \notin StrictSubsetOrdering(U)
      <3> HIDE DEF F
      <3> QED
        BY <1>1, <2>1, WFMin
    <2>3. PICK m \in U : A = Newer(m)
      BY <2>2
    <2>4. ASSUME NEW u \in U, Date[u] > Date[m] PROVE FALSE
      <3>1. Newer(u) \subseteq Newer(m) /\ u \in Newer(m) /\ u \notin Newer(u)
        BY <1>2, <2>4
      <3>2. <<Newer(u), A>> \in StrictSubsetOrdering(U)
        BY <2>3, <3>1 DEF StrictSubsetOrdering
      <3> QED
        BY <2>2, <3>2
    <2> QED
      BY <1>2, <2>4
  <1>4. \E m \in U : \A u \in U : Date[m] <= Date[u]
    <2> DEFINE F == {Older(u) : u \in U}
    <2>1. F \subseteq SUBSET U /\ F # {}
      OBVIOUS
    <2>2. PICK A \in F : \A B \in F : <<B, A>> \notin StrictSubsetOrdering(U)
      <3> HIDE DEF F
      <3> QED
        BY <1>1, <2>1, WFMin
    <2>3. PICK m \in U : A = Older(m)
      BY <2>2
    <2>4. ASSUME NEW u \in U, Date[u] < Date[m] PROVE FALSE
      <3>1. Older(u) \subseteq Older(m) /\ u \in Older(m) /\ u \notin Older(u)
        BY <1>2, <2>4
      <3>2. <<Older(u), A>> \in StrictSubsetOrdering(U)
        BY <2>3, <3>1 DEF StrictSubsetOrdering
      <3> QED
        BY <2>2, <3>2
    <2> QED
      BY <1>2, <2>4
  <1> QED
    BY <1>3, <1>4

(* The newest orders are as many as the cache holds, or all there are.       *)
LEMMA LastOrdersSize ==
  ASSUME NEW U \in SUBSET Uids
  PROVE  /\ LastOrders(U, Capacity) \subseteq U
         /\ Cardinality(LastOrders(U, Capacity)) <= Capacity
         /\ \/ Cardinality(LastOrders(U, Capacity)) >= Capacity
            \/ LastOrders(U, Capacity) = U
  <1> DEFINE L == LastOrders(U, Capacity)
             Newer(u) == {w \in U : Date[w] > Date[u]}
  <1>1. L = {u \in U : Cardinality(Newer(u)) < Capacity}
    BY DEF LastOrders
  <1>2. /\ L \in SUBSET Uids /\ L \subseteq U
        /\ IsFiniteSet(L) /\ Cardinality(L) \in Nat /\ Capacity \in Nat
    BY <1>1, SubsetSize, CapacityAssumption
  <1>3. \A u \in Uids : Date[u] \in Nat
    BY DateAssumption
  <1>4. \A u \in U : IsFiniteSet(Newer(u)) /\ Cardinality(Newer(u)) \in Nat
    <2>1. \A u \in U : Newer(u) \in SUBSET Uids
      OBVIOUS
    <2> QED
      BY <2>1, SubsetSize
  <1>5. Cardinality(L) <= Capacity
    <2>1. CASE L = {}
      BY <1>2, <2>1, FS_EmptySet
    <2>2. CASE L # {}
      <3>1. PICK u \in L : \A w \in L : Date[u] <= Date[w]
        BY <1>2, <2>2, Extremes
      <3>2. L \subseteq Newer(u) \cup {u}
        BY <1>2, <1>3, <3>1, DateAssumption
      <3>3. Cardinality(Newer(u)) < Capacity /\ Cardinality(Newer(u)) \in Nat
        BY <1>1, <1>4
      <3>4. IsFiniteSet(Newer(u))
        BY <1>2, <1>4
      <3> HIDE DEF L, Newer
      <3>5. /\ IsFiniteSet(Newer(u) \cup {u})
            /\ Cardinality(Newer(u) \cup {u}) =
                 IF u \in Newer(u) THEN Cardinality(Newer(u)) ELSE Cardinality(Newer(u)) + 1
        BY <3>4, FS_AddElement
      <3>6. /\ IsFiniteSet(Newer(u) \cup {u})
            /\ Cardinality(Newer(u) \cup {u}) <= Cardinality(Newer(u)) + 1
            /\ Cardinality(Newer(u) \cup {u}) \in Nat
        BY <3>3, <3>5
      <3>7. Cardinality(L) <= Cardinality(Newer(u) \cup {u})
        BY <3>2, <3>6, FS_Subset
      <3> QED
        BY <1>2, <3>3, <3>6, <3>7
    <2> QED
      BY <2>1, <2>2
  <1>6. ASSUME L # U PROVE Cardinality(L) >= Capacity
    <2>1. U \ L \in SUBSET Uids /\ U \ L # {}
      BY <1>2, <1>6
    <2>2. PICK u \in U \ L : \A w \in U \ L : Date[w] <= Date[u]
      BY <2>1, Extremes
    <2>3. Newer(u) \subseteq L
      BY <1>3, <2>2
    <2>4. Cardinality(Newer(u)) <= Cardinality(L)
      BY <1>2, <2>3, FS_Subset
    <2>5. ~(Cardinality(Newer(u)) < Capacity) /\ Cardinality(Newer(u)) \in Nat
      BY <1>1, <1>4, <2>2
    <2> HIDE DEF L, Newer
    <2> QED
      BY <1>2, <2>4, <2>5
  <1> QED
    BY <1>2, <1>5, <1>6

(* A list in descending order of the dates that has as many entries as a set *)
(* names every order of the set.                                             *)
LEMMA ListIsOnto ==
  ASSUME NEW L \in SUBSET Uids, NEW s \in [1 .. Cardinality(L) -> L],
         \A j, k \in DOMAIN s : j < k => Date[s[j]] > Date[s[k]]
  PROVE  {s[j] : j \in DOMAIN s} = L
  <1> DEFINE n == Cardinality(L)
  <1>1. IsFiniteSet(L) /\ n \in Nat
    BY SubsetSize
  <1>2. \A j, k \in 1 .. n : s[j] = s[k] => j = k
    <2> SUFFICES ASSUME NEW j \in 1 .. n, NEW k \in 1 .. n, s[j] = s[k], j < k
                 PROVE  FALSE
      BY <1>1
    <2>1. Date[s[j]] > Date[s[k]] /\ Date[s[j]] \in Nat
      BY DateAssumption
    <2> QED
      BY <2>1
  <1>3. s \in Injection(1 .. n, L)
    BY <1>2 DEF Injection, IsInjective
  <1>4. Cardinality(1 .. n) = n
    BY <1>1, FS_Interval
  <1>5. s \in Surjection(1 .. n, L)
    BY <1>1, <1>3, <1>4, FS_Injection
  <1> QED
    BY <1>5 DEF Surjection

(* The steps of a save until its order is a member. *)
Adding == {"set", "stamp", "zadd"}

(* How a command of c that does not fail moves the save on: the order stays  *)
(* the same, and a score is the time it is taken at.                         *)
Moves(c) ==
  /\ pc[c] # "idle"
  /\ UNCHANGED <<clock, warmVars>>
  /\ \A d \in Clients \ {c} : pc'[d] = pc[d] /\ call'[d] = call[d]
  /\ pc'[c] # "idle" => call'[c].uid = call[c].uid
  /\ pc'[c] = "zadd" => call'[c].score = clock

(* What it does to recent_orders: nothing, ZADD or ZREMRANGEBYRANK.          *)
Silent(c) == UNCHANGED stamp /\ (pc'[c] \in Adding <=> pc[c] \in Adding)

Adds(c) ==
  /\ pc[c] = "zadd" /\ pc'[c] \notin Adding
  /\ stamp' = [stamp EXCEPT ![call[c].uid] = call[c].score]

Removes(c, R) ==
  /\ pc[c] = "zrem" /\ pc'[c] \notin Adding
  /\ stamp' = [u \in Uids |-> IF u \in R THEN 0 ELSE stamp[u]]

LEMMA CommandMoves ==
  ASSUME TypeOK, NEW c \in Clients, Command(c), faults = 0, faults' = 0
  PROVE  /\ Moves(c)
         /\ Silent(c) \/ Adds(c) \/ \E R \in Lowest(Excess(c)) : Removes(c, R)
  <1>0. ~Fault
    BY DEF Fault
  <1>1. CASE Set(c)
    BY <1>0, <1>1 DEF Command, Set, Reply, Goto, TypeOK, Moves, Silent, Adding
  <1>2. CASE TakeStamp(c)
    <2>1. /\ [call[c] EXCEPT !.score = clock].uid = call[c].uid
          /\ [call[c] EXCEPT !.score = clock].score = clock
      BY <1>2 DEF TakeStamp, TypeOK, Calls
    <2> QED
      BY <1>2, <2>1 DEF Command, TakeStamp, Goto, TypeOK, Moves, Silent, Adding
  <1>3. CASE ZAdd(c)
    BY <1>0, <1>3 DEF Command, ZAdd, Reply, Goto, TypeOK, Moves, Adds, Adding
  <1>4. CASE ZCard(c)
    <2> DEFINE n == Cardinality(Members)
    <2>1. /\ pc[c] = "zcard" /\ UNCHANGED <<stamp, clock, overlapped>>
          /\ Goto(c, IF n > Capacity THEN "zrange" ELSE "idle",
                     [call[c] EXCEPT !.count = n])
      BY <1>4 DEF ZCard
    <2> HIDE DEF n
    <2>2. [call[c] EXCEPT !.count = n].uid = call[c].uid
      BY <2>1 DEF TypeOK, Calls
    <2> QED
      BY <2>1, <2>2 DEF Command, Goto, TypeOK, Moves, Silent, Adding
  <1>5. CASE ZRange(c)
    <2>1. PICK R \in Lowest(Excess(c)) :
            Goto(c, "zrem", [call[c] EXCEPT !.victims = R])
      BY <1>5 DEF ZRange
    <2>2. pc[c] = "zrange" /\ UNCHANGED <<stamp, clock, overlapped>>
      BY <1>5 DEF ZRange
    <2>3. [call[c] EXCEPT !.victims = R].uid = call[c].uid
      BY <2>2 DEF TypeOK, Calls
    <2> QED
      BY <2>1, <2>2, <2>3 DEF Command, Goto, TypeOK, Moves, Silent, Adding
  <1>6. CASE ZRemRangeByRank(c)
    BY <1>0, <1>6
    DEF Command, ZRemRangeByRank, Reply, Goto, TypeOK, Moves, Removes, Adding
  <1>7. CASE Del(c)
    BY <1>0, <1>7 DEF Command, Del, Reply, Goto, TypeOK, Moves, Silent, Adding
  <1>8. CASE Abort(c)
    BY <1>0, <1>8 DEF Abort
  <1> QED
    BY <1>1, <1>2, <1>3, <1>4, <1>5, <1>6, <1>7, <1>8 DEF Command

(* Which orders count as warmed after a command of c. *)
LEMMA WarmedMoves ==
  ASSUME WarmTypeOK, CallsKnown, NEW c \in Clients, Moves(c)
  PROVE  /\ (c # Warmer \/ (pc'[c] \in Adding <=> pc[c] \in Adding)) =>
              Warmed' = Warmed
         /\ c = Warmer /\ pc[c] \in Adding /\ pc'[c] \notin Adding =>
              Warmed' = Warmed \cup {call[c].uid}
         /\ Listed' = Listed
  <1>1. orderUIDs' = orderUIDs /\ i' = i /\ i \in Nat
    BY DEF Moves, warmVars, WarmTypeOK
  <1>2. Listed' = Listed
    BY <1>1 DEF Listed
  <1>3. ASSUME c # Warmer \/ (pc'[c] \in Adding <=> pc[c] \in Adding)
        PROVE  Warmed' = Warmed
    <2>1. pc'[Warmer] \in Adding <=> pc[Warmer] \in Adding
      BY <1>3, WarmerAssumption DEF Moves
    <2> QED
      BY <1>1, <2>1 DEF Warmed, Adding
  <1>4. ASSUME c = Warmer, pc[c] \in Adding, pc'[c] \notin Adding
        PROVE  Warmed' = Warmed \cup {call[c].uid}
    <2>1. i > 1 /\ call[c].uid = orderUIDs[i - 1]
      BY <1>4 DEF CallsKnown, Adding
    <2>2. Warmed' = {orderUIDs[j] : j \in 1 .. i - 1}
      BY <1>1, <1>4 DEF Warmed, Adding
    <2>3. Warmed = {orderUIDs[j] : j \in 1 .. i - 2}
      BY <1>4 DEF Warmed, Adding
    <2>4. 1 .. i - 1 = (1 .. i - 2) \cup {i - 1}
      BY <1>1, <2>1
    <2> QED
      BY <2>1, <2>2, <2>3, <2>4
  <1> QED
    BY <1>2, <1>3, <1>4

LEMMA CallsMove ==
  ASSUME WarmTypeOK, CallsKnown, NEW c \in Clients, Moves(c)
  PROVE  CallsKnown'
  <1>1. UNCHANGED <<fresh, warm, i, orderUIDs>>
    BY DEF Moves, warmVars
  <1> QED
    BY <1>1 DEF CallsKnown, Moves

(* The order of a save under way is on the list or fresh, and stored. *)
LEMMA CallStored ==
  ASSUME WarmTypeOK, CallsKnown, MembersKnown, NEW c \in Clients, pc[c] # "idle"
  PROVE  /\ call[c].uid \in fresh \cup Listed /\ call[c].uid \in stored
         /\ call[c].uid \in Uids
         /\ fresh = {} => c = Warmer /\ warm = "load"
  <1>1. CASE c = Warmer
    <2>1. i > 1 /\ call[c].uid = orderUIDs[i - 1]
      BY <1>1 DEF CallsKnown
    <2>2. i - 1 \in 1 .. Len(orderUIDs) /\ DOMAIN orderUIDs = 1 .. Len(orderUIDs)
      BY <2>1 DEF WarmTypeOK
    <2>3. call[c].uid \in Listed
      BY <2>1, <2>2 DEF Listed
    <2> QED
      BY <1>1, <2>3 DEF MembersKnown, WarmTypeOK, CallsKnown
  <1>2. CASE c # Warmer
    BY <1>2 DEF CallsKnown, MembersKnown, WarmTypeOK
  <1> QED
    BY <1>1, <1>2

LEMMA WarmedListed ==
  ASSUME WarmTypeOK
  PROVE  Warmed \subseteq Listed /\ Listed \subseteq Uids
  <1>1. DOMAIN orderUIDs = 1 .. Len(orderUIDs) /\ Len(orderUIDs) \in Nat
        /\ i \in 1 .. Len(orderUIDs) + 1
    BY DEF WarmTypeOK
  <1> QED
    BY <1>1 DEF Warmed, Listed, WarmTypeOK

LEMMA SilentKeeps ==
  ASSUME WarmTypeOK, WarmedSoFar, NEW c \in Clients, Moves(c), Silent(c)
  PROVE  WarmedSoFar'
  <1>1. /\ CallsKnown /\ MembersKnown /\ ListCovers
        /\ LeftoversLast /\ WarmedKept
    BY DEF WarmedSoFar
  <1>2. /\ Members' = Members /\ stamp' = stamp /\ clock' = clock
        /\ UNCHANGED <<stored, fresh, orderUIDs, i, warm, left>>
    BY DEF Moves, Silent, warmVars, Members
  <1>3. Warmed' = Warmed /\ Listed' = Listed
    BY <1>1, WarmedMoves DEF Silent
  <1>4. CallsKnown'
    BY <1>1, CallsMove
  <1>5. MembersKnown' /\ ListCovers' /\ WarmedKept'
    BY <1>1, <1>2, <1>3 DEF MembersKnown, ListCovers, WarmedKept, LastOrders
  <1>6. LeftoversLast'
    BY <1>1, <1>2, <1>3 DEF LeftoversLast, Moves
  <1> QED
    BY <1>4, <1>5, <1>6 DEF WarmedSoFar

LEMMA AddsKeeps ==
  ASSUME WarmTypeOK, WarmedSoFar, NEW c \in Clients, Moves(c), Adds(c)
  PROVE  WarmedSoFar'
  <1> DEFINE u == call[c].uid
             s == call[c].score
  <1>1. /\ CallsKnown /\ MembersKnown /\ ListCovers
        /\ LeftoversLast /\ WarmedKept
    BY DEF WarmedSoFar
  <1>2. /\ clock' = clock
        /\ UNCHANGED <<stored, fresh, orderUIDs, i, warm, left>>
    BY DEF Moves, warmVars
  <1>3. /\ u \in fresh \cup Listed /\ u \in stored /\ u \in Uids
        /\ fresh = {} => c = Warmer
    BY <1>1, CallStored DEF Moves
  <1>4. Members' = Members \cup {u}
    BY ZAddMembers DEF Adds, WarmTypeOK
  <1>5. c = Warmer => Warmed' = Warmed \cup {u}
    BY <1>1, WarmedMoves DEF Adds, Adding
  <1>6. c # Warmer => Warmed' = Warmed
    BY <1>1, WarmedMoves
  <1>7. Listed' = Listed
    BY <1>1, WarmedMoves
  <1>8. CallsKnown'
    BY <1>1, CallsMove
  <1>9. MembersKnown' /\ ListCovers' /\ WarmedKept'
    BY <1>1, <1>2, <1>3, <1>4, <1>5, <1>7
    DEF MembersKnown, ListCovers, WarmedKept, LastOrders
  <1>10. LeftoversLast'
    <2>0. \A d \in Clients : pc'[d] = "zadd" => call'[d].score >= Boot
      BY <1>1 DEF LeftoversLast, Moves, Adds, Adding
    <2> SUFFICES ASSUME NEW x \in Members', x \notin Warmed' \cup fresh'
                 PROVE  /\ stamp'[x] < Boot
                        /\ \A w \in Warmed' : stamp'[x] < stamp'[w]
      BY <1>1, <1>2, <2>0 DEF LeftoversLast
    <2>1. x # u
      <3>1. pc[c] # "idle" /\ fresh' = fresh
        BY <1>2 DEF Moves
      <3>2. c # Warmer => u \in fresh
        BY <1>1, <3>1 DEF CallsKnown
      <3> QED
        BY <1>5, <3>1, <3>2
    <2>2. x \in Members \ (Warmed \cup fresh) /\ stamp'[x] = stamp[x]
      BY <1>2, <1>4, <1>5, <1>6, <2>1 DEF Adds, WarmTypeOK, TypeOK, Members
    <2>3. stamp[x] < Boot /\ s >= Boot /\ \A w \in Warmed : stamp[x] < stamp[w]
      BY <1>1, <2>2 DEF LeftoversLast, Adds
    <2>4. stamp[x] \in Nat /\ s \in Nat /\ Boot \in Nat
      BY <2>2, BootAssumption DEF Adds, Members, WarmTypeOK, TypeOK, Calls
    <2>5. ASSUME NEW w \in Warmed' PROVE stamp[x] < stamp'[w]
      <3>1. stamp'[u] = s /\ \A v \in Uids \ {u} : stamp'[v] = stamp[v]
        BY <1>3 DEF Adds, WarmTypeOK, TypeOK
      <3>2. Warmed \subseteq Uids
        BY WarmedListed
      <3>3. w = u \/ w \in Warmed
        BY <1>5, <1>6, <2>5
      <3> QED
        BY <2>3, <2>4, <3>1, <3>2, <3>3
    <2> QED
      BY <2>2, <2>3, <2>5
  <1> QED
    BY <1>8, <1>9, <1>10 DEF WarmedSoFar

LEMMA RemovesKeeps ==
  ASSUME WarmTypeOK, WarmedSoFar, LoneSave, NEW c \in Clients, Moves(c),
         NEW R \in Lowest(Excess(c)), Removes(c, R)
  PROVE  WarmedSoFar'
  <1>1. /\ CallsKnown /\ MembersKnown /\ ListCovers
        /\ LeftoversLast /\ WarmedKept
    BY DEF WarmedSoFar
  <1>2. /\ clock' = clock
        /\ UNCHANGED <<stored, fresh, orderUIDs, i, warm, left>>
    BY DEF Moves, warmVars
  <1>3. call[c] \in Calls /\ call[c].count > Capacity /\ Capacity \in Nat
        /\ Excess(c) \in Nat
    BY CapacityAssumption DEF Removes, WarmTypeOK, TypeOK, Excess, Calls
  <1>4. R \subseteq Members /\ Members' = Members \ R
    <2>1. R \subseteq Members
      BY <1>3, LowestFacts
    <2>2. Members' = Members \ R
      BY DEF Members, Removes
    <2> QED
      BY <2>1, <2>2
  <1>5. Warmed' = Warmed /\ Listed' = Listed
    BY <1>1, WarmedMoves DEF Removes, Adding
  <1>6. /\ Warmed \subseteq Listed /\ Listed \subseteq Uids
        /\ \A u \in Uids : stamp[u] \in Nat
    BY WarmedListed DEF WarmTypeOK, TypeOK
  <1>7. \A u \in Uids \ R : stamp'[u] = stamp[u]
    BY DEF Removes
  <1>8. CallsKnown'
    BY <1>1, CallsMove
  <1>9. MembersKnown' /\ ListCovers'
    BY <1>1, <1>2, <1>4, <1>5 DEF MembersKnown, ListCovers, LastOrders
  (* A removed order goes before every order that stays. *)
  <1>10. \A u \in R, w \in Members \ R : stamp[u] <= stamp[w]
    <2>1. \A u \in R, w \in Members \ R : Before(u, w)
      BY DEF Lowest
    <2>2. \A u \in Members : stamp[u] \in Nat
      BY <1>6 DEF Members
    <2> QED
      BY <1>4, <2>1, <2>2 DEF Before
  <1>11. LeftoversLast'
    <2>0. \A d \in Clients : pc'[d] = "zadd" => call'[d].score >= Boot
      BY <1>1 DEF LeftoversLast, Moves, Removes, Adding
    <2> SUFFICES ASSUME NEW x \in Members', x \notin Warmed' \cup fresh'
                 PROVE  /\ stamp'[x] < Boot
                        /\ \A w \in Warmed' : stamp'[x] < stamp'[w]
      BY <1>1, <1>2, <2>0 DEF LeftoversLast
    <2>1. x \in Members \ R /\ x \in Members \ (Warmed \cup fresh)
          /\ stamp'[x] = stamp[x]
      BY <1>2, <1>4, <1>5, <1>7 DEF Members
    <2>2. stamp[x] < Boot /\ \A w \in Warmed : stamp[x] < stamp[w]
      BY <1>1, <2>1 DEF LeftoversLast
    <2>4. ASSUME NEW w \in Warmed PROVE stamp[x] < stamp'[w]
      <3>1. w \in Uids /\ x \in Uids /\ stamp[x] < stamp[w]
        BY <1>6, <2>1, <2>2 DEF Members
      <3>2. w \notin R
        BY <1>6, <1>10, <2>1, <3>1
      <3> QED
        BY <1>7, <3>1, <3>2
    <2> QED
      BY <1>5, <2>1, <2>2, <2>4
  <1>12. WarmedKept'
    <2> SUFFICES ASSUME fresh = {}, NEW w \in Warmed, w \in R PROVE FALSE
      BY <1>1, <1>2, <1>4, <1>5 DEF WarmedKept
    <2>1. c = Warmer /\ warm = "load" /\ Warmed \subseteq Members
      BY <1>1, CallStored DEF WarmedKept, Moves
    <2>3. call[c].count = Cardinality(Members)
      BY <2>1 DEF LoneSave, Removes
    <2>4. Members \ R \subseteq Warmed
      <3> SUFFICES ASSUME NEW y \in Members \ R, y \notin Warmed PROVE FALSE
        OBVIOUS
      <3>1. stamp[w] <= stamp[y] /\ stamp[y] < stamp[w]
        BY <1>1, <1>10 DEF LeftoversLast
      <3>2. stamp[w] \in Nat /\ stamp[y] \in Nat
        BY <1>6 DEF Members
      <3> QED
        BY <3>1, <3>2
    <2>5. Cardinality(Members \ R) = Capacity /\ IsFiniteSet(Members \ R)
      <3>1. Excess(c) = Cardinality(Members) - Capacity /\ Cardinality(Members) \in Nat
        BY <2>3, MembersFinite DEF Excess
      <3>2. /\ Cardinality(R) = IF Excess(c) < Cardinality(Members)
                                  THEN Excess(c) ELSE Cardinality(Members)
            /\ Cardinality(Members \ R) = Cardinality(Members) - Cardinality(R)
            /\ IsFiniteSet(Members \ R)
        BY <1>3, LowestFacts
      <3> QED
        BY <1>3, <2>3, <3>1, <3>2
    <2>6. /\ Cardinality((Members \ R) \cup {w}) = Capacity + 1
          /\ (Members \ R) \cup {w} \subseteq Listed
      BY <1>6, <2>4, <2>5, FS_AddElement
    <2>7. Cardinality((Members \ R) \cup {w}) <= Cardinality(Listed)
      BY <1>6, <2>6, SubsetSize, FS_Subset
    <2>8. Cardinality(Listed) <= Capacity /\ Cardinality(Listed) \in Nat
      BY <1>1, <1>6, <2>1, SubsetSize DEF ListCovers
    <2> QED
      BY <1>3, <2>6, <2>7, <2>8
  <1> QED
    BY <1>8, <1>9, <1>11, <1>12 DEF WarmedSoFar

LEMMA CommandKeeps ==
  ASSUME WarmTypeOK, WarmedSoFar, LoneSave, NEW c \in Clients, Command(c),
         faults = 0, faults' = 0
  PROVE  WarmedSoFar'
  <1>1. TypeOK
    BY DEF WarmTypeOK
  <1>2. Moves(c) /\ (Silent(c) \/ Adds(c) \/ \E R \in Lowest(Excess(c)) : Removes(c, R))
    BY <1>1, CommandMoves
  <1>3. CASE Silent(c)
    BY <1>2, <1>3, SilentKeeps
  <1>4. CASE Adds(c)
    BY <1>2, <1>4, AddsKeeps
  <1>5. ASSUME NEW R \in Lowest(Excess(c)), Removes(c, R) PROVE WarmedSoFar'
    BY <1>2, <1>5, RemovesKeeps
  <1> QED
    BY <1>2, <1>3, <1>4, <1>5

(* SaveOrder begins: nothing is written yet.                                 *)
LEMMA SaveBegins ==
  ASSUME WarmTypeOK, NEW c \in Clients, NEW u, SaveOrder(c, u, Content)
  PROVE  /\ pc[c] = "idle" /\ pc'[c] = "set" /\ call'[c].uid = u
         /\ \A d \in Clients \ {c} : pc'[d] = pc[d] /\ call'[d] = call[d]
         /\ stamp' = stamp /\ clock' = clock /\ Members' = Members
         /\ data' = data
  BY DEF SaveOrder, Goto, WarmTypeOK, TypeOK, Members

(* The order the warm-up begins to save does not count as warmed yet. *)
LEMMA WarmedWaits ==
  ASSUME i \in Nat, i' = i + 1, orderUIDs' = orderUIDs,
         pc[Warmer] = "idle", pc'[Warmer] = "set"
  PROVE  Warmed' = Warmed
  <1>1. Warmed = {orderUIDs[j] : j \in 1 .. i - 1}
    BY DEF Warmed
  <1>2. Warmed' = {orderUIDs[j] : j \in 1 .. (i + 1) - 2}
    BY DEF Warmed
  <1>3. (i + 1) - 2 = i - 1
    OBVIOUS
  <1> QED
    BY <1>1, <1>2, <1>3

LEMMA WarmOrderKeeps ==
  ASSUME WarmTypeOK, WarmedSoFar, WarmOrder, faults = 0, faults' = 0
  PROVE  WarmedSoFar'
  <1>0. /\ CallsKnown /\ MembersKnown /\ ListCovers
        /\ LeftoversLast /\ WarmedKept
    BY DEF WarmedSoFar
  <1>1. /\ warm = "load" /\ pc[Warmer] = "idle" /\ i \in Nat /\ i > 0
        /\ i' = i + 1 /\ UNCHANGED <<stored, fresh, orderUIDs, warm, left>>
        /\ SaveOrder(Warmer, orderUIDs[i], Content)
        /\ Warmer \in Clients
    BY WarmerAssumption DEF WarmOrder, Fault, WarmTypeOK
  <1>2. /\ pc'[Warmer] = "set" /\ call'[Warmer].uid = orderUIDs[i]
        /\ \A d \in Clients \ {Warmer} : pc'[d] = pc[d] /\ call'[d] = call[d]
        /\ stamp' = stamp /\ clock' = clock /\ Members' = Members
    BY <1>1, SaveBegins
  <1>3. Listed' = Listed
    BY <1>1 DEF Listed
  <1>4. Warmed' = Warmed
    BY <1>1, <1>2, WarmedWaits
  <1>5. CallsKnown'
    <2>1. i' > 1 /\ i' - 1 = i
      BY <1>1
    <2> QED
      BY <1>0, <1>1, <1>2, <2>1 DEF CallsKnown
  <1>6. MembersKnown' /\ ListCovers'
    BY <1>0, <1>1, <1>2, <1>3 DEF MembersKnown, ListCovers, LastOrders
  <1>7. LeftoversLast'
    BY <1>0, <1>1, <1>2, <1>4 DEF LeftoversLast
  <1>8. WarmedKept'
    BY <1>0, <1>1, <1>2, <1>4 DEF WarmedKept
  <1> QED
    BY <1>5, <1>6, <1>7, <1>8 DEF WarmedSoFar

LEMMA SaveLiveKeeps ==
  ASSUME WarmTypeOK, WarmedSoFar, NEW c \in Clients, NEW u \in Uids,
         SaveLive(c, u)
  PROVE  WarmedSoFar'
  <1>0. /\ CallsKnown /\ MembersKnown /\ ListCovers
        /\ LeftoversLast /\ WarmedKept
    BY DEF WarmedSoFar
  <1>1. /\ c # Warmer /\ SaveOrder(c, u, Content)
        /\ stored' = stored \cup {u} /\ fresh' = fresh \cup {u}
        /\ UNCHANGED <<orderUIDs, i, warm, left>>
    BY DEF SaveLive
  <1>2. /\ pc'[c] = "set" /\ call'[c].uid = u
        /\ \A d \in Clients \ {c} : pc'[d] = pc[d] /\ call'[d] = call[d]
        /\ stamp' = stamp /\ clock' = clock /\ Members' = Members
    BY <1>1, SaveBegins
  <1>3. Listed' = Listed
    BY <1>1 DEF Listed
  <1>4. Warmed' = Warmed
    BY <1>1, <1>2, WarmerAssumption DEF Warmed
  <1>5. CallsKnown'
    BY <1>0, <1>1, <1>2 DEF CallsKnown
  <1>6. MembersKnown' /\ ListCovers' /\ WarmedKept'
    BY <1>0, <1>1, <1>2, <1>3 DEF MembersKnown, ListCovers, WarmedKept
  <1>7. LeftoversLast'
    BY <1>0, <1>1, <1>2, <1>4 DEF LeftoversLast
  <1> QED
    BY <1>5, <1>6, <1>7 DEF WarmedSoFar

LEMMA ListKeeps ==
  ASSUME WarmTypeOK, WarmedSoFar, GetLastOrdersUIDs, faults = 0, faults' = 0
  PROVE  WarmedSoFar'
  <1> DEFINE L == LastOrders(stored, Capacity)
  <1>0. /\ CallsKnown /\ MembersKnown /\ ListCovers
        /\ LeftoversLast /\ WarmedKept
    BY DEF WarmedSoFar
  <1>1. /\ warm = "list" /\ warm' = "load" /\ i = 1
        /\ orderUIDs' \in {s \in [1 .. Cardinality(L) -> L] :
              \A j, k \in DOMAIN s : j < k => Date[s[j]] > Date[s[k]]}
        /\ UNCHANGED <<stamp, clock, pc, call, stored, fresh, i, left>>
    BY DEF GetLastOrdersUIDs, Fault, WarmTypeOK
  <1>2. /\ L \subseteq stored /\ Cardinality(L) <= Capacity
        /\ Cardinality(L) >= Capacity \/ L = stored
        /\ stored \subseteq Uids
    BY LastOrdersSize DEF WarmTypeOK
  <1>3. Listed' = L
    <2> HIDE DEF L
    <2>1. {orderUIDs'[j] : j \in DOMAIN orderUIDs'} = L
      BY <1>1, <1>2, ListIsOnto
    <2> QED
      BY <2>1 DEF Listed
  <1>4. pc[Warmer] = "idle" /\ pc'[Warmer] = "idle"
    BY <1>0, <1>1, WarmerAssumption DEF CallsKnown
  <1>5. Warmed = {} /\ Warmed' = {}
    BY <1>1, <1>4 DEF Warmed
  <1>6. Members' = Members
    BY <1>1 DEF Members
  <1>7. CallsKnown'
    BY <1>0, <1>1, <1>4 DEF CallsKnown
  <1>8. MembersKnown'
    BY <1>0, <1>1, <1>2, <1>3, <1>6 DEF MembersKnown
  <1>9. ListCovers'
    BY <1>0, <1>1, <1>2, <1>3, <1>6 DEF ListCovers, MembersKnown, LastOrders
  <1>10. LeftoversLast' /\ WarmedKept'
    BY <1>0, <1>1, <1>5, <1>6 DEF LeftoversLast, WarmedKept
  <1> QED
    BY <1>7, <1>8, <1>9, <1>10 DEF WarmedSoFar

LEMMA WarmSoFarStep ==
  ASSUME WarmTypeOK, WarmedSoFar, LoneSave, [WarmNext]_allVars,
         faults = 0, faults' = 0
  PROVE  WarmedSoFar'
  <1>0. /\ CallsKnown /\ MembersKnown /\ ListCovers
        /\ LeftoversLast /\ WarmedKept
    BY DEF WarmedSoFar
  <1>1. CASE TimePasses
    <2>1. /\ UNCHANGED <<stamp, pc, call, stored, fresh, orderUIDs, i, warm, left>>
          /\ clock' >= Boot
      BY <1>1 DEF TimePasses, Tick, warmVars
    <2>2. Members' = Members /\ Warmed' = Warmed /\ Listed' = Listed
      BY <2>1 DEF Members, Warmed, Listed
    <2>3. CallsKnown' /\ MembersKnown' /\ ListCovers' /\ WarmedKept'
      BY <1>0, <2>1, <2>2
      DEF CallsKnown, MembersKnown, ListCovers, WarmedKept, LastOrders
    <2>4. LeftoversLast'
      BY <1>0, <2>1, <2>2 DEF LeftoversLast
    <2> QED
      BY <2>3, <2>4 DEF WarmedSoFar
  <1>2. CASE CountOrders
    <2>1. /\ UNCHANGED <<stamp, clock, pc, call, stored, fresh, orderUIDs, i, left>>
          /\ warm = "count" /\ warm' \in {"list", "off"}
      BY <1>2 DEF CountOrders
    <2>2. Members' = Members /\ Warmed' = Warmed /\ Listed' = Listed
      BY <2>1 DEF Members, Warmed, Listed
    <2>3. MembersKnown' /\ ListCovers' /\ LeftoversLast' /\ WarmedKept'
      BY <1>0, <2>1, <2>2
      DEF MembersKnown, ListCovers, LeftoversLast, WarmedKept, LastOrders
    <2>4. CallsKnown'
      BY <1>0, <2>1 DEF CallsKnown
    <2> QED
      BY <2>3, <2>4 DEF WarmedSoFar
  <1>3. CASE WarmDone
    <2>1. /\ UNCHANGED <<stamp, clock, pc, call, stored, fresh, orderUIDs, i, left>>
          /\ warm = "load" /\ warm' = "done" /\ pc[Warmer] = "idle"
          /\ i > Len(orderUIDs)
      BY <1>3 DEF WarmDone, vars
    <2>2. Members' = Members /\ Warmed' = Warmed /\ Listed' = Listed
      BY <2>1 DEF Members, Warmed, Listed
    <2>3. MembersKnown' /\ LeftoversLast' /\ WarmedKept'
      BY <1>0, <2>1, <2>2 DEF MembersKnown, LeftoversLast, WarmedKept
    <2>4. i = Len(orderUIDs) + 1
      BY <2>1 DEF WarmTypeOK
    <2>5. ListCovers'
      BY <1>0, <2>1, <2>2, <2>4 DEF ListCovers, LastOrders
    <2>6. CallsKnown'
      BY <1>0, <2>1 DEF CallsKnown
    <2> QED
      BY <2>3, <2>5, <2>6 DEF WarmedSoFar
  <1>4. CASE UNCHANGED allVars
    <2>1. UNCHANGED <<stamp, clock, pc, call, stored, fresh, orderUIDs, i, warm, left>>
      BY <1>4 DEF allVars, vars, warmVars
    <2>2. Members' = Members /\ Warmed' = Warmed /\ Listed' = Listed
      BY <2>1 DEF Members, Warmed, Listed
    <2> QED
      BY <2>1, <2>2, <1>0
      DEF WarmedSoFar, CallsKnown, MembersKnown, ListCovers, LeftoversLast,
          WarmedKept, LastOrders
  <1> QED
    BY <1>1, <1>2, <1>3, <1>4, ListKeeps, WarmOrderKeeps, CommandKeeps,
       SaveLiveKeeps DEF WarmNext

(* While nobody else saves, the keys stay with the members.                  *)
LEMMA LoneStill ==
  ASSUME LoneSave, fresh' = {} => fresh = {}, Warmed' = Warmed,
         UNCHANGED <<data, stamp, orphans>>,
         pc'[Warmer] = pc[Warmer], call'[Warmer] = call[Warmer]
  PROVE  LoneSave'
  <1>1. Members' = Members /\ DataKeys' = DataKeys
    BY DEF Members, DataKeys
  <1>2. Lowest(Excess(Warmer))' = Lowest(Excess(Warmer))
    BY <1>1 DEF Lowest, Excess, Before
  <1> QED
    BY <1>1, <1>2 DEF LoneSave, Passing

LEMMA LoneCommand ==
  ASSUME WarmTypeOK, WarmedSoFar, LoneSave, Command(Warmer), fresh = {},
         faults = 0, faults' = 0
  PROVE  LoneSave'
  <1> DEFINE c == Warmer
  <1>0. /\ c \in Clients /\ ~Fault /\ TypeOK /\ CallsKnown
        /\ Warmed \subseteq Members /\ orphans' = orphans
        /\ Capacity \in Nat \ {0}
    BY WarmerAssumption, CapacityAssumption
    DEF Fault, WarmTypeOK, WarmedSoFar, WarmedKept, Command, warmVars
  <1>1. /\ Warmed \subseteq DataKeys
        /\ DataKeys \subseteq Members \cup orphans \cup Passing
        /\ pc[c] \in {"stamp", "zadd"} => call[c].uid \in DataKeys
        /\ pc[c] \in {"zrange", "zrem"} => call[c].count = Cardinality(Members)
        /\ pc[c] = "zrem" => call[c].victims \in Lowest(Excess(c))
        /\ pc[c] = "del" => call[c].victims \cap Members = {}
    BY DEF LoneSave
  <1>2. Moves(c)
    BY <1>0, CommandMoves
  <1>3. /\ (pc'[c] \in Adding <=> pc[c] \in Adding) => Warmed' = Warmed
        /\ pc[c] \in Adding /\ pc'[c] \notin Adding =>
             Warmed' = Warmed \cup {call[c].uid}
    BY <1>0, <1>2, WarmedMoves
  <1>4. pc[c] # "idle" /\ call[c] \in Calls
    BY <1>0, <1>2 DEF Moves, TypeOK
  <1>5. CASE Set(c)
    <2>1. /\ pc[c] = "set" /\ pc'[c] = "stamp" /\ call'[c] = call[c]
          /\ stamp' = stamp
          /\ data' = [data EXCEPT ![call[c].uid] = call[c].order]
      BY <1>0, <1>4, <1>5 DEF Set, Reply, Goto, TypeOK
    <2>2. call[c].uid \in Uids /\ call[c].order # NoOrder
      BY <1>4, OrderAssumption DEF Calls
    <2>3. DataKeys' = DataKeys \cup {call[c].uid} /\ Members' = Members
      BY <1>0, <2>1, <2>2 DEF DataKeys, Members, TypeOK
    <2>4. Warmed' = Warmed /\ Passing = {} /\ Passing' = {call[c].uid}
      BY <1>3, <2>1 DEF Adding, Passing
    <2> QED
      BY <1>0, <1>1, <2>1, <2>3, <2>4 DEF LoneSave
  <1>6. CASE TakeStamp(c)
    <2>1. [call[c] EXCEPT !.score = clock].uid = call[c].uid
      BY <1>4 DEF Calls
    <2>2. /\ pc[c] = "stamp" /\ pc'[c] = "zadd" /\ call'[c].uid = call[c].uid
          /\ UNCHANGED <<data, stamp>>
      BY <1>0, <1>6, <2>1 DEF TakeStamp, Goto, TypeOK
    <2>3. DataKeys' = DataKeys /\ Members' = Members
      BY <2>2 DEF DataKeys, Members
    <2>4. Warmed' = Warmed /\ Passing' = Passing
      BY <1>3, <2>2 DEF Adding, Passing
    <2> QED
      BY <1>0, <1>1, <2>2, <2>3, <2>4 DEF LoneSave
  <1>7. CASE ZAdd(c)
    <2>1. /\ pc[c] = "zadd" /\ pc'[c] = "zcard" /\ data' = data
          /\ stamp' = [stamp EXCEPT ![call[c].uid] = call[c].score]
      BY <1>0, <1>7 DEF ZAdd, Reply, Goto, TypeOK
    <2>2. Members' = Members \cup {call[c].uid}
      BY <1>0, <2>1, ZAddMembers
    <2>3. DataKeys' = DataKeys
      BY <2>1 DEF DataKeys
    <2>4. /\ Warmed' = Warmed \cup {call[c].uid}
          /\ Passing = {call[c].uid} /\ Passing' = {}
      BY <1>3, <2>1 DEF Adding, Passing
    <2> QED
      BY <1>0, <1>1, <2>1, <2>2, <2>3, <2>4 DEF LoneSave
  <1>8. CASE ZCard(c)
    <2>1. [call[c] EXCEPT !.count = Cardinality(Members)].count = Cardinality(Members)
      BY <1>4 DEF Calls
    <2>2. /\ pc[c] = "zcard" /\ pc'[c] \in {"zrange", "idle"}
          /\ pc'[c] = "zrange" => call'[c].count = Cardinality(Members)
          /\ UNCHANGED <<data, stamp>>
      BY <1>0, <1>8, <2>1 DEF ZCard, Goto, TypeOK
    <2>3. DataKeys' = DataKeys /\ Members' = Members
      BY <2>2 DEF DataKeys, Members
    <2>4. Warmed' = Warmed /\ Passing = {} /\ Passing' = {}
      BY <1>3, <2>2 DEF Adding, Passing
    <2> QED
      BY <1>0, <1>1, <2>2, <2>3, <2>4 DEF LoneSave
  <1>9. CASE ZRange(c)
    <2>1. PICK R \in Lowest(Excess(c)) :
            Goto(c, "zrem", [call[c] EXCEPT !.victims = R])
      BY <1>9 DEF ZRange
    <2>2. /\ [call[c] EXCEPT !.victims = R].victims = R
          /\ [call[c] EXCEPT !.victims = R].count = call[c].count
      BY <1>4 DEF Calls
    <2>3. /\ pc[c] = "zrange" /\ pc'[c] = "zrem" /\ UNCHANGED <<data, stamp>>
          /\ call'[c].victims = R /\ call'[c].count = call[c].count
      BY <1>0, <1>9, <2>1, <2>2 DEF ZRange, Goto, TypeOK
    <2>4. DataKeys' = DataKeys /\ Members' = Members
      BY <2>3 DEF DataKeys, Members
    <2>5. Lowest(Excess(c))' = Lowest(Excess(c))
      BY <2>3, <2>4 DEF Lowest, Excess, Before
    <2>6. Warmed' = Warmed /\ Passing = {} /\ Passing' = {}
      BY <1>3, <2>3 DEF Adding, Passing
    <2> QED
      BY <1>0, <1>1, <2>3, <2>4, <2>5, <2>6 DEF LoneSave
  <1>10. CASE ZRemRangeByRank(c)
    <2>1. PICK R \in Lowest(Excess(c)) :
            stamp' = [u \in Uids |-> IF u \in R THEN 0 ELSE stamp[u]]
      BY <1>10 DEF ZRemRangeByRank
    <2>2. /\ pc[c] = "zrem" /\ data' = data /\ call[c].count > Capacity
          /\ pc'[c] = IF call[c].victims # {} THEN "del" ELSE "idle"
          /\ pc'[c] = "del" => call'[c] = call[c]
      BY <1>0, <1>10 DEF ZRemRangeByRank, Reply, Goto, TypeOK
    <2>3. Excess(c) \in Nat
      BY <1>0, <1>4, <2>2 DEF Excess, Calls
    <2>4. call[c].victims = R
      BY <1>0, <1>1, <2>2, <2>3, LowestUnique
    <2>5. DataKeys' = DataKeys /\ Members' = Members \ R
      BY <2>1, <2>2 DEF DataKeys, Members
    <2>6. Warmed' = Warmed /\ Passing = {} /\ Passing' = R
      BY <1>3, <2>2, <2>4 DEF Adding, Passing
    <2> QED
      BY <1>0, <1>1, <2>2, <2>4, <2>5, <2>6 DEF LoneSave
  <1>11. CASE Del(c)
    <2>1. /\ pc[c] = "del" /\ pc'[c] = "idle" /\ stamp' = stamp
          /\ data' = [u \in Uids |->
                        IF u \in call[c].victims THEN NoOrder ELSE data[u]]
      BY <1>0, <1>11 DEF Del, Reply, Goto, TypeOK
    <2>2. DataKeys' = DataKeys \ call[c].victims /\ Members' = Members
      BY <2>1 DEF DataKeys, Members
    <2>3. Warmed' = Warmed /\ Passing = call[c].victims /\ Passing' = {}
      BY <1>3, <2>1 DEF Adding, Passing
    <2> QED
      BY <1>0, <1>1, <2>1, <2>2, <2>3 DEF LoneSave
  <1>12. ~Abort(c)
    BY <1>0 DEF Abort
  <1> QED
    BY <1>5, <1>6, <1>7, <1>8, <1>9, <1>10, <1>11, <1>12 DEF Command

LEMMA LoneStep ==
  ASSUME WarmTypeOK, WarmedSoFar, LoneSave, [WarmNext]_allVars,
         faults = 0, faults' = 0
  PROVE  LoneSave'
  <1>0. CallsKnown /\ Warmer \in Clients /\ orphans' = orphans
    BY LeftStays, WarmerAssumption DEF WarmedSoFar
  <1>1. CASE TimePasses \/ CountOrders \/ WarmDone \/ UNCHANGED allVars
    <2>1. UNCHANGED <<data, stamp, pc, call, fresh, orderUIDs, i>>
      BY <1>1
      DEF TimePasses, Tick, CountOrders, WarmDone, allVars, vars, warmVars
    <2>2. Warmed' = Warmed
      BY <2>1 DEF Warmed
    <2> QED
      BY <1>0, <2>1, <2>2, LoneStill
  <1>2. CASE GetLastOrdersUIDs
    <2>1. /\ UNCHANGED <<data, stamp, pc, call, fresh, i>>
          /\ warm = "list" /\ i = 1
      BY <1>2 DEF GetLastOrdersUIDs, WarmTypeOK
    <2>2. pc[Warmer] = "idle" /\ pc'[Warmer] = "idle"
      BY <1>0, <2>1 DEF CallsKnown
    <2>3. Warmed = {} /\ Warmed' = {}
      BY <2>1, <2>2 DEF Warmed
    <2> QED
      BY <1>0, <2>1, <2>3, LoneStill
  <1>3. CASE WarmOrder
    <2>1. /\ pc[Warmer] = "idle" /\ i \in Nat /\ i > 0 /\ i' = i + 1
          /\ SaveOrder(Warmer, orderUIDs[i], Content)
          /\ UNCHANGED <<orderUIDs, fresh>>
      BY <1>3 DEF WarmOrder, Fault, WarmTypeOK
    <2>2. pc'[Warmer] = "set" /\ UNCHANGED <<data, stamp>>
      BY <1>0, <2>1, SaveBegins
    <2>3. Warmed' = Warmed
      BY <2>1, <2>2, WarmedWaits
    <2>4. Members' = Members /\ DataKeys' = DataKeys
      BY <2>2 DEF Members, DataKeys
    <2>5. Passing = {} /\ Passing' = {}
      BY <2>1, <2>2 DEF Passing
    <2> QED
      BY <1>0, <2>1, <2>2, <2>3, <2>4, <2>5 DEF LoneSave
  <1>4. ASSUME NEW c \in Clients, Command(c), fresh' = {} PROVE LoneSave'
    <2>1. fresh = {}
      BY <1>4 DEF Command, warmVars
    <2>2. pc[c] # "idle"
      BY <1>4 DEF Command, Set, TakeStamp, ZAdd, ZCard, ZRange,
                  ZRemRangeByRank, Del, Abort
    <2>3. c = Warmer
      BY <1>0, <2>1, <2>2 DEF CallsKnown
    <2> QED
      BY <1>4, <2>1, <2>3, LoneCommand
  <1>5. ASSUME NEW c \in Clients, NEW u \in Uids, SaveLive(c, u) PROVE LoneSave'
    BY <1>5 DEF SaveLive, LoneSave
  <1>6. CASE fresh' # {}
    BY <1>6 DEF LoneSave
  <1> QED
    BY <1>1, <1>2, <1>3, <1>4, <1>5, <1>6 DEF WarmNext

LEMMA RoomStep ==
  ASSUME WarmTypeOK, WarmTypeOK', WarmedSoFar, RoomFound, [WarmNext]_allVars,
         faults = 0, faults' = 0
  PROVE  RoomFound'
  <1>1. ~Fault
    BY DEF Fault
  <1>2. CASE IndexWithin(Capacity)
    BY <1>2, WarmWithinStep, CapacityAssumption DEF RoomFound
  <1>3. CASE warm \notin {"list", "load", "done"}
    <2>1. CASE CountOrders /\ warm' = "list"
      <3>1. Cardinality(Members) < Capacity
        BY <1>1, <2>1 DEF CountOrders
      <3>2. Cardinality(Members) \in Nat /\ Cardinality(Evicting) \in Nat
        BY MembersFinite, EvictingFinite DEF WarmTypeOK
      <3>3. IndexWithin(Capacity)
        BY <3>1, <3>2, CapacityAssumption DEF IndexWithin
      <3> QED
        BY <1>2, <3>3
    <2>2. CASE ~(CountOrders /\ warm' = "list")
      <3>1. warm' \notin {"list", "load", "done"}
        BY <1>3, <2>2
        DEF WarmNext, TimePasses, CountOrders, GetLastOrdersUIDs, WarmOrder,
            WarmDone, Command, SaveLive, warmVars, allVars
      <3> QED
        BY <3>1 DEF RoomFound
    <2> QED
      BY <2>1, <2>2
  <1> QED
    BY <1>2, <1>3 DEF RoomFound

LEMMA WarmInvInit == WarmInit => WarmInv
  <1> SUFFICES ASSUME WarmInit PROVE WarmInv
    OBVIOUS
  <1>1. /\ \A c \in Clients : pc[c] = "idle"
        /\ fresh = {} /\ orderUIDs = <<>> /\ i = 1 /\ warm = "count"
        /\ left = Members /\ orphans = DataKeys \ Members /\ clock = Boot
        /\ stamp \in [Uids -> 0 .. Boot - 1] /\ Boot \in Nat
    BY BootAssumption DEF WarmInit
  <1>2. pc[Warmer] = "idle"
    BY <1>1, WarmerAssumption
  <1>3. Listed = {} /\ Warmed = {} /\ Passing = {}
    BY <1>1, <1>2 DEF Listed, Warmed, Passing
  <1>4. CallsKnown /\ MembersKnown /\ ListCovers /\ WarmedKept
    BY <1>1, <1>3 DEF CallsKnown, MembersKnown, ListCovers, WarmedKept
  <1>5. LeftoversLast
    <2>1. \A x \in Members : stamp[x] < Boot
      BY <1>1 DEF Members
    <2> QED
      BY <1>1, <1>3, <2>1 DEF LeftoversLast
  <1>6. RoomFound /\ LoneSave
    BY <1>1, <1>2, <1>3 DEF RoomFound, LoneSave
  <1> QED
    BY <1>4, <1>5, <1>6 DEF WarmInv, WarmedSoFar

LEMMA WarmInvStep ==
  ASSUME WarmTypeOK, WarmTypeOK', WarmInv, [WarmNext]_allVars
  PROVE  WarmInv'
  <1>1. TypeOK /\ TypeOK'
    BY DEF WarmTypeOK
  <1>2. faults \in Nat /\ faults' \in {faults, faults + 1}
    <2>1. CASE [Next]_vars
      BY <1>1, <2>1
      DEF TypeOK, Next, Tick, SaveOrder, Set, TakeStamp, ZAdd, ZCard, ZRange,
          ZRemRangeByRank, Del, Abort, Reply, Fault, vars
    <2>2. CASE FaultOnly
      BY <1>1, <2>2 DEF FaultOnly, Fault, TypeOK
    <2> QED
      BY <2>1, <2>2, WarmStepOfCache
  <1>3. faults' = 0 => faults = 0
    BY <1>2
  <1> QED
    BY <1>3, WarmSoFarStep, RoomStep, LoneStep DEF WarmInv

LEMMA WarmInvMeans ==
  ASSUME WarmTypeOK, WarmInv
  PROVE  WarmedAreLast
  <1> SUFFICES ASSUME Quiet
               PROVE  /\ Members \subseteq fresh \cup Listed \cup (left \ stored)
                      /\ fresh = {} =>
                           /\ LastOrders(stored, Capacity) \subseteq Members \cap DataKeys
                           /\ DataKeys \subseteq Members \cup orphans
    BY DEF WarmedAreLast
  <1>0. /\ CallsKnown /\ MembersKnown /\ ListCovers
        /\ LeftoversLast /\ WarmedKept /\ RoomFound /\ LoneSave
    BY DEF WarmInv, WarmedSoFar, Quiet
  <1>1. /\ warm = "done" /\ faults = 0 /\ \A c \in Clients : pc[c] = "idle"
        /\ pc[Warmer] = "idle" /\ Capacity \in Nat \ {0}
    BY WarmerAssumption, CapacityAssumption DEF Quiet
  <1>2. Warmed = Listed
    <2>1. i = Len(orderUIDs) + 1 /\ Len(orderUIDs) \in Nat
          /\ DOMAIN orderUIDs = 1 .. Len(orderUIDs)
      BY <1>0, <1>1 DEF ListCovers, WarmTypeOK
    <2>2. i - 1 = Len(orderUIDs)
      BY <2>1
    <2> QED
      BY <1>1, <2>1, <2>2 DEF Warmed, Listed
  <1>3. Cardinality(Members) <= Capacity /\ IsFiniteSet(Members)
    <2>1. Evicting = {} /\ Cardinality(Evicting) = 0
      BY <1>1, FS_EmptySet DEF Evicting
    <2>2. Cardinality(Members) \in Nat /\ IsFiniteSet(Members)
      BY MembersFinite DEF WarmTypeOK
    <2> QED
      BY <1>0, <1>1, <2>1, <2>2 DEF RoomFound, IndexWithin
  <1>4. Listed \subseteq Uids /\ IsFiniteSet(Listed) /\ Cardinality(Listed) \in Nat
    BY WarmedListed, SubsetSize
  (* A leftover beside a full list would be one member too many. *)
  <1>5. Members \subseteq fresh \cup Listed \cup (left \ stored)
    <2> SUFFICES ASSUME NEW x \in Members, x \notin fresh \cup Listed,
                        x \in stored \/ x \notin left
                 PROVE  FALSE
      OBVIOUS
    <2>1. Cardinality(Listed) >= Capacity
      BY <1>0, <1>1 DEF ListCovers, MembersKnown
    <2>2. Listed \subseteq Members
      <3> SUFFICES ASSUME NEW w \in Listed PROVE w \in Members
        OBVIOUS
      <3>1. stamp[x] < stamp[w] /\ w \in Uids
        BY <1>0, <1>2, <1>4 DEF LeftoversLast
      <3>2. stamp[x] \in Nat /\ stamp[w] \in Nat
        BY <3>1 DEF Members, WarmTypeOK, TypeOK
      <3> QED
        BY <3>1, <3>2 DEF Members
    <2>3. Cardinality(Listed \cup {x}) = Cardinality(Listed) + 1
      BY <1>4, FS_AddElement
    <2>4. Cardinality(Listed \cup {x}) <= Cardinality(Members)
      BY <1>3, <2>2, FS_Subset
    <2>5. Cardinality(Members) \in Nat
      BY <1>3, FS_CardinalityType
    <2> QED
      BY <1>1, <1>3, <1>4, <2>1, <2>3, <2>4, <2>5
  <1>6. ASSUME fresh = {}
        PROVE  /\ LastOrders(stored, Capacity) \subseteq Members \cap DataKeys
               /\ DataKeys \subseteq Members \cup orphans
    <2>1. Listed = LastOrders(stored, Capacity)
      BY <1>0, <1>1, <1>6 DEF ListCovers
    <2>2. Passing = {}
      BY <1>1 DEF Passing
    <2> QED
      BY <1>0, <1>2, <1>6, <2>1, <2>2 DEF WarmedKept, LoneSave
  <1> QED
    BY <1>5, <1>6

(* When nothing fails, the warm-up throws out whatever an earlier process    *)
(* left in the index: between saves recent_orders holds only listed orders,  *)
(* those of other goroutines, and leftovers that are not stored; when the    *)
(* warm-up was alone, all the newest orders are there, each with its key,    *)
(* and the only keys without a member are those that were so before.  For    *)
(* any capacity, any number of goroutines, and any keys and members at the   *)
(* start, as long as the clock is not set back to before the start.          *)
THEOREM WarmUpLeavesTheLast == WarmSpec => []WarmedAreLast
  <1>1. WarmSpec => []WarmInv
    BY WarmInvInit, WarmInvStep, WarmTypeCorrect, PTL DEF WarmSpec
  <1> QED
    BY <1>1, WarmTypeCorrect, WarmInvMeans, PTL
=============================================================================
