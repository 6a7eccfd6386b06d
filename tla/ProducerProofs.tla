--------------------------- MODULE ProducerProofs ---------------------------
(* Proofs about Producer, for any number of workers and of orders.           *)
EXTENDS Producer, FiniteSetTheorems, TLAPS

(* The goroutines started are those of the iterations before i, each has     *)
(* created its own order, no order is in the topic before its report, and    *)
(* each order that is amiss after it has cost a fault.                       *)
OrderInv ==
  /\ \A t \in Tasks :
       /\ task[t] = "none" <=> t >= i
       /\ task[t] \notin {"none", "create"} => id[t] = FirstId + t
       /\ task[t] \notin {"release", "finish", "done"} => topic[FirstId + t] = 0
  /\ Cardinality(Amiss) <= faults
  /\ topic[FirstId + AmountTask + 1] = 0
  /\ main = "end" => \A t \in Tasks : task[t] = "done"

IInv == TypeOK /\ SlotsConserved /\ OrderInv

---------------------------------------------------------------------------

USE ProducerAssumption

LEMMA BusyFinite == IsFiniteSet(Busy) /\ Cardinality(Busy) \in Nat
<1>1. IsFiniteSet(Tasks)
  BY FS_Interval DEF Tasks
<1> QED BY <1>1, FS_Subset, FS_CardinalityType DEF Busy

LEMMA AmissFinite == IsFiniteSet(Amiss) /\ Cardinality(Amiss) \in Nat
<1>1. IsFiniteSet(Tasks)
  BY FS_Interval DEF Tasks
<1> QED BY <1>1, FS_Subset, FS_CardinalityType DEF Amiss

LEMMA InitInv == Init => IInv
<1> SUFFICES ASSUME Init PROVE IInv
  OBVIOUS
<1>1. TypeOK
  BY DEF Init, TypeOK, Tasks, Ids, States
<1>2. SlotsConserved
  <2>1. Busy = {}
    BY DEF Init, Busy
  <2> QED BY <2>1, FS_EmptySet DEF Init, SlotsConserved
<1>3. OrderInv
  <2>1. Amiss = {}
    BY DEF Init, Amiss
  <2> QED BY <2>1, FS_EmptySet DEF Init, OrderInv, Tasks, Ids
<1> QED BY <1>1, <1>2, <1>3 DEF IInv

(* A step that takes a goroutine into or out of Busy moves one token. *)
LEMMA TokenTaken ==
  ASSUME SlotsConserved, sem \in Nat, NEW t, t \notin Busy,
         Busy' = Busy \cup {t}, sem' = sem - 1
  PROVE  SlotsConserved'
BY BusyFinite, FS_AddElement DEF SlotsConserved

LEMMA TokenReturned ==
  ASSUME SlotsConserved, sem \in Nat, NEW t \in Busy,
         Busy' = Busy \ {t}, sem' = sem + 1
  PROVE  SlotsConserved' /\ sem' \in 0 .. Workers
<1>1. Cardinality(Busy') = Cardinality(Busy) - 1
  BY BusyFinite, FS_RemoveElement
<1>2. Cardinality(Busy') \in Nat
  BY BusyFinite, FS_RemoveElement, FS_CardinalityType
<1> QED BY <1>1, <1>2, BusyFinite DEF SlotsConserved

(* A fault pays for at most one more order. *)
LEMMA FaultPays ==
  ASSUME Cardinality(Amiss) <= faults, faults \in Nat, faults' = faults + 1,
         NEW t \in Tasks, Amiss' \subseteq Amiss \cup {t}
  PROVE  Cardinality(Amiss') <= faults'
<1> DEFINE S == Amiss \cup {t}
<1>1. t \in Amiss => S = Amiss
  OBVIOUS
<1>2. S = Amiss \cup {t}
  OBVIOUS
<1> HIDE DEF S
<1>3. IsFiniteSet(S) /\ Cardinality(S) <= Cardinality(Amiss) + 1
  BY <1>1, <1>2, AmissFinite, FS_AddElement
<1>4. Cardinality(Amiss') <= Cardinality(S)
  BY <1>2, <1>3, FS_Subset
<1>5. Cardinality(S) \in Nat /\ Cardinality(Amiss') \in Nat
  BY <1>2, <1>3, FS_Subset, FS_CardinalityType
<1> QED BY <1>3, <1>4, <1>5, AmissFinite

LEMMA AcquireInv == IInv /\ Acquire => IInv'
<1> SUFFICES ASSUME IInv, Acquire PROVE IInv'
  OBVIOUS
<1>1. i \in Tasks /\ task[i] = "none"
  BY DEF IInv, TypeOK, OrderInv, Acquire, Tasks
<1>2. TypeOK'
  BY <1>1 DEF IInv, TypeOK, Acquire, States
<1>3. SlotsConserved'
  <2>1. i \notin Busy /\ Busy' = Busy \cup {i}
    BY <1>1 DEF IInv, TypeOK, Acquire, Busy
  <2> QED BY <2>1, TokenTaken DEF IInv, TypeOK, Acquire
<1>4. OrderInv'
  <2>1. \A t \in Tasks : task'[t] = IF t = i THEN "create" ELSE task[t]
    BY DEF IInv, TypeOK, Acquire
  <2>2. i' = i + 1 /\ i \in Nat /\ main' # "end"
    BY <1>1 DEF Acquire, Tasks
  <2>3. \A t \in Tasks : task'[t] = "none" <=> t >= i'
    BY <2>1, <2>2 DEF IInv, OrderInv, Tasks
  <2>4. Amiss' = Amiss
    BY <1>1, <2>1 DEF Amiss, Acquire
  <2> QED BY <1>1, <2>1, <2>2, <2>3, <2>4 DEF IInv, OrderInv, Acquire
<1> QED BY <1>2, <1>3, <1>4 DEF IInv

LEMMA WaitInv == IInv /\ Wait => IInv'
BY DEF IInv, TypeOK, SlotsConserved, Busy, Amiss, OrderInv, Wait

(* A goroutine that goes on and keeps its token. *)
LEMMA WorkInv ==
  ASSUME IInv, NEW t \in Tasks, Create(t) \/ Send(t) \/ Report(t) \/ Done(t)
  PROVE  IInv'
<1>1. TypeOK'
  <2> USE DEF IInv, TypeOK, Goto, States
  <2>1. CASE Create(t)
    <3>1. FirstId + t \in Ids
      BY DEF Tasks, Ids
    <3> QED BY <2>1, <3>1 DEF Create
  <2>2. CASE Send(t)
    BY <2>2 DEF Send, Fault
  <2>3. CASE Report(t)
    <3>1. task[t] = "queued"
      BY <2>3 DEF Report
    <3>2. id[t] = FirstId + t
      BY <3>1 DEF OrderInv
    <3>3. id[t] \in Ids
      BY <3>2 DEF Tasks, Ids
    <3> QED BY <2>3, <3>3 DEF Report, Fault
  <2>4. CASE Done(t)
    BY <2>4 DEF Done
  <2> QED BY <2>1, <2>2, <2>3, <2>4
<1>2. SlotsConserved'
  <2>1. Busy' = Busy /\ sem' = sem
    BY DEF IInv, TypeOK, Busy, Goto, Create, Send, Report, Done
  <2> QED BY <2>1 DEF IInv, SlotsConserved
<1>3. OrderInv'
  <2> USE DEF IInv, TypeOK, OrderInv, Goto
  <2>1. CASE Create(t)
    <3>1. Amiss' = Amiss
      BY <2>1 DEF Create, Amiss
    <3> QED BY <2>1, <3>1 DEF Create
  <2>2. CASE Send(t)
    <3>1. task[t] = "send" /\ UNCHANGED <<i, id, topic, main>>
      BY <2>2 DEF Send
    <3>2. CASE Goto(t, "send", "queued") /\ UNCHANGED faults
      <4>1. Amiss' = Amiss
        BY <3>1, <3>2 DEF Amiss
      <4> QED BY <3>1, <3>2, <4>1
    <3>3. CASE Goto(t, "send", "release") /\ Fault
      <4>1. Amiss' \subseteq Amiss \cup {t}
        BY <3>1, <3>3 DEF Amiss
      <4>2. Cardinality(Amiss') <= faults'
        BY <3>3, <4>1, FaultPays DEF Fault
      <4> QED BY <3>1, <3>3, <4>2
    <3> QED BY <2>2, <3>2, <3>3 DEF Send
  <2>3. CASE Report(t)
    <3>1. /\ id[t] = FirstId + t /\ FirstId + t \in Ids
          /\ \A u \in Tasks : FirstId + u = FirstId + t => u = t
          /\ FirstId + AmountTask + 1 # FirstId + t
      <4>1. task[t] = "queued"
        BY <2>3 DEF Report
      <4>2. id[t] = FirstId + t
        BY <4>1
      <4> QED BY <4>2 DEF Tasks, Ids
    <3>2. \A u \in Tasks : FirstId + u \in Ids
      BY DEF Tasks, Ids
    <3>3. \A u \in Tasks :
             task'[u] = IF u = t THEN "release" ELSE task[u]
      BY <2>3 DEF Report
    <3>4. task[t] = "queued" /\ UNCHANGED <<i, id, main>>
      BY <2>3 DEF Report
    <3>5. ASSUME NEW n \in Nat, topic' = [topic EXCEPT ![id[t]] = @ + n],
                 \/ n = 1 /\ UNCHANGED faults
                 \/ Fault
          PROVE  OrderInv'
      <4>1. \A u \in Tasks : topic'[FirstId + u] =
               IF u = t THEN n ELSE topic[FirstId + u]
        BY <3>1, <3>2, <3>4, <3>5
      <4>2. topic'[FirstId + AmountTask + 1] = 0
        BY <3>1, <3>5 DEF Ids
      <4>3. Cardinality(Amiss') <= faults'
        <5>1. CASE n = 1 /\ UNCHANGED faults
          <6>1. Amiss' = Amiss
            BY <3>3, <3>4, <4>1, <5>1 DEF Amiss
          <6> QED BY <5>1, <6>1
        <5>2. CASE Fault
          <6>1. Amiss' \subseteq Amiss \cup {t}
            BY <3>3, <3>4, <4>1 DEF Amiss
          <6> QED BY <5>2, <6>1, FaultPays DEF Fault
        <5> QED BY <3>5, <5>1, <5>2
      <4> QED BY <3>1, <3>3, <3>4, <4>1, <4>2, <4>3
    <3>6. 1 \in Nat /\ \A n \in 0 .. 2 : n \in Nat
      OBVIOUS
    <3>7. \/ topic' = [topic EXCEPT ![id[t]] = @ + 1] /\ UNCHANGED faults
          \/ \E n \in 0 .. 2 : Fault /\ topic' = [topic EXCEPT ![id[t]] = @ + n]
      BY <2>3 DEF Report
    <3> QED BY <3>5, <3>6, <3>7
  <2>4. CASE Done(t)
    <3>1. Amiss' = Amiss
      BY <2>4 DEF Done, Amiss
    <3> QED BY <2>4, <3>1 DEF Done
  <2> QED BY <2>1, <2>2, <2>3, <2>4
<1> QED BY <1>1, <1>2, <1>3 DEF IInv

LEMMA ReleaseInv ==
  ASSUME IInv, NEW t \in Tasks, Release(t)
  PROVE  IInv'
<1>1. t \in Busy /\ Busy' = Busy \ {t}
  BY DEF IInv, TypeOK, Busy, Goto, Release
<1>2. SlotsConserved' /\ sem' \in 0 .. Workers
  BY <1>1, TokenReturned DEF IInv, TypeOK, Release
<1>3. TypeOK'
  BY <1>2 DEF IInv, TypeOK, Goto, Release, States
<1>4. OrderInv'
  <2>1. Amiss' = Amiss
    BY DEF IInv, TypeOK, Amiss, Goto, Release
  <2> QED BY <2>1 DEF IInv, TypeOK, OrderInv, Goto, Release
<1> QED BY <1>2, <1>3, <1>4 DEF IInv

LEMMA Invariance == Spec => []IInv
<1>1. IInv /\ [Next]_vars => IInv'
  <2> SUFFICES ASSUME IInv, [Next]_vars PROVE IInv'
    OBVIOUS
  <2>1. CASE Acquire
    BY <2>1, AcquireInv
  <2>2. CASE Wait
    BY <2>2, WaitInv
  <2>3. ASSUME NEW t \in Tasks, Work(t) PROVE IInv'
    BY <2>3, WorkInv, ReleaseInv DEF Work
  <2>4. CASE UNCHANGED vars
    BY <2>4 DEF vars, IInv, TypeOK, SlotsConserved, Busy, Amiss, OrderInv
  <2> QED BY <2>1, <2>2, <2>3, <2>4 DEF Next
<1> QED BY <1>1, InitInv, PTL DEF Spec

(* Every variable keeps its type; the semaphore never overflows. *)
THEOREM TypeCorrect == Spec => []TypeOK
<1>1. IInv => TypeOK
  BY DEF IInv
<1> QED BY <1>1, Invariance, PTL

(* Tokens and orders under way always add up to Workers. *)
THEOREM TokensConserved == Spec => []SlotsConserved
<1>1. IInv => SlotsConserved
  BY DEF IInv
<1> QED BY <1>1, Invariance, PTL

(* When the script ends every order is in the topic exactly once, but for at *)
(* most one order per fault, and nothing else is: also with goroutines that  *)
(* failed and with more orders than workers.                                 *)
THEOREM OrdersOnce == Spec => []EachOrderOnce
<1>1. IInv => EachOrderOnce
  <2> SUFFICES ASSUME IInv, main = "end"
               PROVE  /\ \A t \in Tasks \ Amiss : topic[FirstId + t] = 1
                      /\ Cardinality(Amiss) <= faults
                      /\ topic[FirstId + AmountTask + 1] = 0
    BY DEF EachOrderOnce
  <2>1. \A t \in Tasks \ Amiss : topic[FirstId + t] = 1
    BY DEF IInv, OrderInv, Amiss
  <2> QED BY <2>1 DEF IInv, OrderInv
<1> QED BY <1>1, Invariance, PTL
=============================================================================
