------------------------ MODULE OrderConsumerProofs ------------------------
(* Theorems about OrderConsumer for every set of consumers and partitions,   *)
(* every log, every retry count and every bound.                             *)
EXTENDS OrderConsumer, TLAPS

TypeInv == TypeOK /\ CurrentMessage

LEMMA LogLength == \A p \in Partitions : Len(Log[p]) \in Nat
  BY LogAssumption

(* A message below the end of its partition is a message of the log. *)
LEMMA MessageInLog ==
  ASSUME TypeOK, NEW p \in Partitions, NEW o \in Nat, o < produced[p]
  PROVE  MessageAt(<<p, o>>) \in Messages
  <1>1. Log[p] \in Seq(Messages) /\ produced[p] <= Len(Log[p])
    BY LogAssumption DEF TypeOK
  <1>2. o + 1 \in 1 .. Len(Log[p])
    BY <1>1, LogLength DEF TypeOK
  <1> QED
    BY <1>1, <1>2 DEF MessageAt

(* What a busy consumer holds. *)
LEMMA BusyMessage ==
  ASSUME TypeInv, NEW c \in Consumers, Busy(c)
  PROVE  \E p \in Partitions, o \in Nat :
           /\ cur[c] = <<p, o>>
           /\ o < produced[p]
           /\ MessageAt(cur[c]) \in Messages
  <1>1. cur[c] \in Partitions \X Nat /\ cur[c][2] < produced[cur[c][1]]
    BY DEF TypeInv, CurrentMessage
  <1>2. PICK p \in Partitions, o \in Nat : cur[c] = <<p, o>>
    BY <1>1
  <1> QED
    BY <1>1, <1>2, MessageInLog DEF TypeInv

LEMMA SpendStep ==
  ASSUME used \in [BoundNames -> Nat], NEW b \in BoundNames, Spend(b)
  PROVE  /\ used' \in [BoundNames -> Nat]
         /\ used'[b] = used[b] + 1
         /\ \A x \in BoundNames \ {b} : used'[x] = used[x]
  BY DEF Spend

(* What the end of HandleMessage does to the consumer that ran it. *)
LEMMA ReturnedStep ==
  ASSUME TypeInv, NEW c \in Consumers, NEW err \in BOOLEAN, Busy(c),
         Returned(c, err)
  PROVE  /\ pc' \in [Consumers -> PcStates]
         /\ cur' \in [Consumers -> (Partitions \X Nat) \cup {NoMessage}]
         /\ handled' \in [Partitions -> SUBSET Nat]
         /\ attempt' \in [Consumers -> 0 .. RetryCount]
         /\ ctxDone' \in [Consumers -> BOOLEAN]
         /\ pc'[c] \in {"check", "store"}
         /\ pc'[c] = "store" => cur'[c] = cur[c]
         /\ \A d \in Consumers \ {c} : /\ pc'[d] = pc[d]
                                       /\ cur'[d] = cur[d]
                                       /\ attempt'[d] = attempt[d]
                                       /\ ctxDone'[d] = ctxDone[d]
         /\ attempt'[c] = 0 /\ ctxDone'[c] = FALSE
         /\ \A q \in Partitions \ {cur[c][1]} : handled'[q] = handled[q]
         /\ handled'[cur[c][1]] = handled[cur[c][1]] \cup {cur[c][2]}
  <1>1. PICK p \in Partitions, o \in Nat : cur[c] = <<p, o>>
    BY BusyMessage
  <1>2. cur[c][1] = p /\ cur[c][2] = o
    BY <1>1
  <1>3. pc' = [pc EXCEPT ![c] = IF err THEN "check" ELSE "store"]
    BY DEF Returned
  <1>4. cur' = [cur EXCEPT ![c] = IF err THEN NoMessage ELSE @]
    BY DEF Returned
  <1>5. handled' = [handled EXCEPT ![p] = @ \cup {o}]
    BY <1>2 DEF Returned
  <1>6. attempt' = [attempt EXCEPT ![c] = 0]
        /\ ctxDone' = [ctxDone EXCEPT ![c] = FALSE]
    BY DEF Returned
  <1>7. 0 \in 0 .. RetryCount
    BY RetryAssumption
  <1>8. handled' \in [Partitions -> SUBSET Nat]
    BY <1>5 DEF TypeInv, TypeOK
  <1>9. /\ \A q \in Partitions \ {p} : handled'[q] = handled[q]
        /\ handled'[p] = handled[p] \cup {o}
    BY <1>5 DEF TypeInv, TypeOK
  <1>10. /\ pc' \in [Consumers -> PcStates]
         /\ pc'[c] \in {"check", "store"}
         /\ \A d \in Consumers \ {c} : pc'[d] = pc[d]
    BY <1>3 DEF TypeInv, TypeOK, PcStates
  <1>11. /\ cur' \in [Consumers -> (Partitions \X Nat) \cup {NoMessage}]
         /\ pc'[c] = "store" => cur'[c] = cur[c]
         /\ \A d \in Consumers \ {c} : cur'[d] = cur[d]
    BY <1>3, <1>4 DEF TypeInv, TypeOK
  <1>12. /\ attempt' \in [Consumers -> 0 .. RetryCount]
         /\ ctxDone' \in [Consumers -> BOOLEAN]
         /\ attempt'[c] = 0 /\ ctxDone'[c] = FALSE
         /\ \A d \in Consumers \ {c} : /\ attempt'[d] = attempt[d]
                                       /\ ctxDone'[d] = ctxDone[d]
    BY <1>6, <1>7 DEF TypeInv, TypeOK
  <1> QED
    BY <1>2, <1>8, <1>9, <1>10, <1>11, <1>12

(* What the end of a process does to the group and to its own loop. *)
LEMMA VanishStep ==
  ASSUME TypeInv, NEW c \in Consumers, Vanish(c)
  PROVE  /\ pc' \in [Consumers -> PcStates] /\ pc'[c] = "down"
         /\ phase' \in [Consumers -> Phases]
         /\ cur' \in [Consumers -> (Partitions \X Nat) \cup {NoMessage}]
         /\ attempt' \in [Consumers -> 0 .. RetryCount] /\ attempt'[c] = 0
         /\ ctxDone' \in [Consumers -> BOOLEAN] /\ ctxDone'[c] = FALSE
         /\ owner' \in [Partitions -> Consumers \cup {Nobody}]
         /\ stored' \in [Partitions -> Nat]
         /\ position' \in [Partitions -> Nat]
         /\ \A d \in Consumers \ {c} : /\ pc'[d] = pc[d]
                                       /\ cur'[d] = cur[d]
                                       /\ attempt'[d] = attempt[d]
                                       /\ ctxDone'[d] = ctxDone[d]
         /\ \A p \in Partitions :
              IF owner[p] = c
              THEN owner'[p] = Nobody /\ stored'[p] = 0 /\ position'[p] = 0
              ELSE /\ owner'[p] = owner[p]
                   /\ stored'[p] = stored[p]
                   /\ position'[p] = position[p]
         /\ UNCHANGED <<topicVars, committed, db, historyVars>>
  <1> USE DEF Vanish, Release, TypeInv, TypeOK
  <1>1. 0 \in 0 .. RetryCount
    BY RetryAssumption
  <1>2. /\ pc' \in [Consumers -> PcStates] /\ pc'[c] = "down"
        /\ phase' \in [Consumers -> Phases]
        /\ \A d \in Consumers \ {c} : pc'[d] = pc[d]
    BY DEF PcStates, Phases
  <1>3. /\ cur' \in [Consumers -> (Partitions \X Nat) \cup {NoMessage}]
        /\ \A d \in Consumers \ {c} : cur'[d] = cur[d]
    OBVIOUS
  <1>4. /\ attempt' \in [Consumers -> 0 .. RetryCount] /\ attempt'[c] = 0
        /\ ctxDone' \in [Consumers -> BOOLEAN] /\ ctxDone'[c] = FALSE
        /\ \A d \in Consumers \ {c} : /\ attempt'[d] = attempt[d]
                                      /\ ctxDone'[d] = ctxDone[d]
    BY <1>1
  <1>5. /\ owner' \in [Partitions -> Consumers \cup {Nobody}]
        /\ stored' \in [Partitions -> Nat]
        /\ position' \in [Partitions -> Nat]
        /\ \A p \in Partitions :
             IF owner[p] = c
             THEN owner'[p] = Nobody /\ stored'[p] = 0 /\ position'[p] = 0
             ELSE /\ owner'[p] = owner[p]
                  /\ stored'[p] = stored[p]
                  /\ position'[p] = position[p]
    OBVIOUS
  <1> QED
    BY <1>2, <1>3, <1>4, <1>5

LEMMA InitType == Init => TypeInv
  BY NobodyAssumption, RetryAssumption, LogLength
  DEF Init, TypeInv, TypeOK, CurrentMessage, Busy, Handling, PcStates, Phases,
      BoundNames, MoreAttempts

LEMMA TypeStep == TypeInv /\ [Next]_vars => TypeInv'
  <1> SUFFICES ASSUME TypeInv, Next
               PROVE  TypeInv'
    BY DEF vars, TypeInv, TypeOK, CurrentMessage, Busy, MoreAttempts
  <1> USE DEF topicVars, groupVars, loopVars, historyVars
  <1>1. ASSUME NEW p \in Partitions, Produce(p)
        PROVE  TypeInv'
    BY SMTT(30), <1>1, LogLength
    DEF Produce, TypeInv, TypeOK, CurrentMessage, Busy, Handling,
        PcStates, Phases, MoreAttempts
  <1>2. ASSUME NEW p \in Partitions, AutoCommit(p)
        PROVE  TypeInv'
    BY <1>2
    DEF AutoCommit, TypeInv, TypeOK, CurrentMessage, Busy, Handling,
        PcStates, Phases, MoreAttempts
  <1>3. ASSUME NEW c \in Consumers, Join(c)
        PROVE  TypeInv'
    BY <1>3
    DEF Join, Stopping, TypeInv, TypeOK, CurrentMessage, Busy, Handling,
        PcStates, Phases, MoreAttempts
  <1>4. ASSUME NEW c \in Consumers, CheckStop(c)
        PROVE  TypeInv'
    BY <1>4
    DEF CheckStop, Stopping, TypeInv, TypeOK, CurrentMessage, Busy,
        Handling, PcStates, Phases, MoreAttempts
  <1>5. ASSUME NEW c \in Consumers, ReadError(c)
        PROVE  TypeInv'
    BY <1>5
    DEF ReadError, TypeInv, TypeOK, CurrentMessage, Busy, Handling,
        PcStates, Phases, MoreAttempts
  <1>6. ASSUME NEW c \in Consumers, ParseFailure(c)
        PROVE  TypeInv'
    <2>1. Busy(c) /\ Returned(c, FALSE)
      BY <1>6 DEF ParseFailure, Busy, Handling
    <2>4. TypeOK'
      BY <1>6, <2>1, ReturnedStep DEF ParseFailure, TypeInv, TypeOK
    <2>5. /\ pc'[c] \in {"check", "store"}
          /\ pc'[c] = "store" => cur'[c] = cur[c]
          /\ \A d \in Consumers \ {c} : /\ pc'[d] = pc[d]
                                        /\ cur'[d] = cur[d]
                                        /\ attempt'[d] = attempt[d]
      BY <2>1, ReturnedStep
    <2>6. CurrentMessage'
      BY <1>6, <2>1, <2>5
      DEF ParseFailure, TypeInv, CurrentMessage, Busy, Handling, MoreAttempts
    <2> QED
      BY <2>4, <2>6 DEF TypeInv
  <1>7. ASSUME NEW c \in Consumers, ValidationFailure(c)
        PROVE  TypeInv'
    <2>1. Busy(c) /\ Returned(c, TRUE)
      BY <1>7 DEF ValidationFailure, Busy, Handling
    <2>4. TypeOK'
      BY <1>7, <2>1, ReturnedStep DEF ValidationFailure, TypeInv, TypeOK
    <2>5. /\ pc'[c] \in {"check", "store"}
          /\ pc'[c] = "store" => cur'[c] = cur[c]
          /\ \A d \in Consumers \ {c} : /\ pc'[d] = pc[d]
                                        /\ cur'[d] = cur[d]
                                        /\ attempt'[d] = attempt[d]
      BY <2>1, ReturnedStep
    <2>6. CurrentMessage'
      BY <1>7, <2>1, <2>5
      DEF ValidationFailure, TypeInv, CurrentMessage, Busy, Handling, MoreAttempts
    <2> QED
      BY <2>4, <2>6 DEF TypeInv
  <1>8. ASSUME NEW c \in Consumers, CreateOrder(c)
        PROVE  TypeInv'
    BY <1>8
    DEF CreateOrder, MessageAt, TypeInv, TypeOK, CurrentMessage, Busy,
        Handling, PcStates, Phases, MoreAttempts
  <1>9. ASSUME NEW c \in Consumers, SaveOrder(c)
        PROVE  TypeInv'
    BY <1>9
    DEF SaveOrder, MoreAttempts, TypeInv, TypeOK, CurrentMessage, Busy,
        Handling, PcStates, Phases, MoreAttempts
  <1>10. ASSUME NEW c \in Consumers, SaveOk(c)
        PROVE  TypeInv'
    <2>1. Busy(c) /\ Returned(c, FALSE)
      BY <1>10 DEF SaveOk, Busy, Handling
    <2>2. PICK q \in Partitions, o \in Nat :
            cur[c] = <<q, o>> /\ MessageAt(cur[c]) \in Messages
      BY <2>1, BusyMessage
    <2>3. db' \subseteq Uids
      BY <1>10, <2>2 DEF SaveOk, Messages, TypeInv, TypeOK
    <2>4. TypeOK'
      BY <1>10, <2>1, <2>3, ReturnedStep DEF SaveOk, TypeInv, TypeOK
    <2>5. /\ pc'[c] \in {"check", "store"}
          /\ pc'[c] = "store" => cur'[c] = cur[c]
          /\ \A d \in Consumers \ {c} : /\ pc'[d] = pc[d]
                                        /\ cur'[d] = cur[d]
                                        /\ attempt'[d] = attempt[d]
      BY <2>1, ReturnedStep
    <2>6. CurrentMessage'
      BY <1>10, <2>1, <2>5
      DEF SaveOk, TypeInv, CurrentMessage, Busy, Handling, MoreAttempts
    <2> QED
      BY <2>4, <2>6 DEF TypeInv
  <1>11. ASSUME NEW c \in Consumers, SaveFail(c)
        PROVE  TypeInv'
    <2>1. Busy(c)
      BY <1>11 DEF SaveFail, Busy, Handling
    <2>2. PICK q \in Partitions, o \in Nat :
            cur[c] = <<q, o>> /\ MessageAt(cur[c]) \in Messages
      BY <2>1, BusyMessage
    <2>3. used' \in [BoundNames -> Nat]
      BY <1>11, SpendStep DEF SaveFail, BoundNames, TypeInv, TypeOK
    <2>4. db' \subseteq Uids
      BY <1>11, <2>2 DEF SaveFail, Messages, TypeInv, TypeOK
    <2>5. attempt[c] + 1 \in 0 .. RetryCount
      BY <1>11, RetryAssumption
      DEF SaveFail, TypeInv, TypeOK, CurrentMessage, MoreAttempts
    <2>6. /\ attempt' \in [Consumers -> 0 .. RetryCount]
          /\ pc' \in [Consumers -> PcStates]
          /\ pc'[c] = "attempt"
          /\ \A d \in Consumers \ {c} :
               pc'[d] = pc[d] /\ attempt'[d] = attempt[d]
      BY <1>11, <2>5 DEF SaveFail, TypeInv, TypeOK, PcStates
    <2>7. TypeOK'
      BY <1>11, <2>3, <2>4, <2>6 DEF SaveFail, TypeInv, TypeOK
    <2>8. CurrentMessage'
      BY <1>11, <2>1, <2>6
      DEF SaveFail, TypeInv, CurrentMessage, Busy, Handling, MoreAttempts
    <2> QED
      BY <2>7, <2>8 DEF TypeInv
  <1>12. ASSUME NEW c \in Consumers, GiveUp(c)
        PROVE  TypeInv'
    <2>1. Busy(c) /\ Returned(c, TRUE)
      BY <1>12 DEF GiveUp, Busy, Handling
    <2>2. PICK q \in Partitions, o \in Nat :
            cur[c] = <<q, o>> /\ MessageAt(cur[c]) \in Messages
      BY <2>1, BusyMessage
    <2>3. abandoned' \subseteq Partitions \X Nat
      BY <1>12, <2>2 DEF GiveUp, TypeInv, TypeOK
    <2>4. TypeOK'
      BY <1>12, <2>1, <2>3, ReturnedStep DEF GiveUp, TypeInv, TypeOK
    <2>6. /\ pc'[c] \in {"check", "store"}
          /\ pc'[c] = "store" => cur'[c] = cur[c]
          /\ \A d \in Consumers \ {c} : /\ pc'[d] = pc[d]
                                        /\ cur'[d] = cur[d]
                                        /\ attempt'[d] = attempt[d]
      BY <2>1, ReturnedStep
    <2>7. CurrentMessage'
      BY <1>12, <2>1, <2>6
      DEF GiveUp, TypeInv, CurrentMessage, Busy, Handling, MoreAttempts
    <2> QED
      BY <2>4, <2>7 DEF TypeInv
  <1>13. ASSUME NEW c \in Consumers, StoreMessage(c)
        PROVE  TypeInv'
    <2>1. Busy(c)
      BY <1>13 DEF StoreMessage, Busy, Handling
    <2>2. PICK q \in Partitions, o \in Nat :
            cur[c] = <<q, o>> /\ MessageAt(cur[c]) \in Messages
      BY <2>1, BusyMessage
    <2>7. cur[c][1] = q /\ cur[c][2] = o
      BY <2>2
    <2>3. stored' \in [Partitions -> Nat]
      <3>1. CASE owner[q] = c
        <4>1. stored' = [stored EXCEPT ![q] = o + 1]
          BY <1>13, <2>7, <3>1 DEF StoreMessage
        <4> QED
          BY <4>1 DEF TypeInv, TypeOK
      <3>2. CASE owner[q] # c
        BY <1>13, <2>7, <3>2 DEF StoreMessage, TypeInv, TypeOK
      <3> QED
        BY <3>1, <3>2
    <2>4. /\ pc' \in [Consumers -> PcStates]
          /\ cur' \in [Consumers -> (Partitions \X Nat) \cup {NoMessage}]
          /\ pc'[c] = "check"
          /\ \A d \in Consumers \ {c} : pc'[d] = pc[d] /\ cur'[d] = cur[d]
      BY <1>13 DEF StoreMessage, TypeInv, TypeOK, PcStates
    <2>5. TypeOK'
      BY <1>13, <2>3, <2>4 DEF StoreMessage, TypeInv, TypeOK
    <2>6. CurrentMessage'
      BY <1>13, <2>4
      DEF StoreMessage, TypeInv, CurrentMessage, Busy, Handling, MoreAttempts
    <2> QED
      BY <2>5, <2>6 DEF TypeInv
  <1>14. ASSUME NEW c \in Consumers, Expire(c)
        PROVE  TypeInv'
    BY <1>14, SpendStep, RetryAssumption
    DEF Expire, TypeInv, TypeOK, CurrentMessage, Busy, Handling,
        PcStates, Phases, MoreAttempts, BoundNames
  <1>15. ASSUME NEW c \in Consumers, StopBegin(c)
        PROVE  TypeInv'
    BY <1>15, SpendStep, RetryAssumption
    DEF StopBegin, TypeInv, TypeOK, CurrentMessage, Busy, Handling,
        PcStates, Phases, MoreAttempts, BoundNames
  <1>16. ASSUME NEW c \in Consumers, StopCommit(c)
        PROVE  TypeInv'
    BY <1>16
    DEF StopCommit, CommitStored, TypeInv, TypeOK, CurrentMessage, Busy,
        Handling, PcStates, Phases, MoreAttempts
  <1>17. ASSUME NEW c \in Consumers, StopCommitFail(c)
        PROVE  TypeInv'
    BY <1>17
    DEF StopCommitFail, TypeInv, TypeOK, CurrentMessage, Busy, Handling,
        PcStates, Phases, MoreAttempts
  <1>18. ASSUME NEW c \in Consumers, StopClose(c)
        PROVE  TypeInv'
    BY <1>18
    DEF StopClose, CommitStored, Release, TypeInv, TypeOK, CurrentMessage,
        Busy, Handling, PcStates, Phases, MoreAttempts
  <1>19. ASSUME NEW c \in Consumers, Exit(c)
        PROVE  TypeInv'
    BY <1>19, VanishStep
    DEF Exit, TypeInv, TypeOK, CurrentMessage, Busy, Handling, MoreAttempts
  <1>20. ASSUME NEW c \in Consumers, Crash(c)
        PROVE  TypeInv'
    <2>1. used' \in [BoundNames -> Nat]
      BY <1>20, SpendStep DEF Crash, BoundNames, TypeInv, TypeOK
    <2> QED
      BY <1>20, <2>1, VanishStep
      DEF Crash, TypeInv, TypeOK, CurrentMessage, Busy, Handling, MoreAttempts
  <1>21. ASSUME NEW c \in Consumers, NEW p \in Partitions, Assign(c, p)
        PROVE  TypeInv'
    BY <1>21, SpendStep, RetryAssumption
    DEF Assign, TypeInv, TypeOK, CurrentMessage, Busy, Handling,
        PcStates, Phases, MoreAttempts, BoundNames
  <1>22. ASSUME NEW c \in Consumers, NEW p \in Partitions, ReadMessage(c, p)
        PROVE  TypeInv'
    BY SMTT(30), <1>22, SpendStep, RetryAssumption
    DEF ReadMessage, TypeInv, TypeOK, CurrentMessage, Busy, Handling,
        PcStates, Phases, MoreAttempts
  <1> QED
    BY <1>1, <1>2, <1>3, <1>4, <1>5, <1>6, <1>7, <1>8, <1>9, <1>10, <1>11, <1>12, <1>13, <1>14, <1>15, <1>16, <1>17, <1>18, <1>19, <1>20, <1>21, <1>22
    DEF Next, Loop, Stop

---------------------------------------------------------------------------
(* Offsets: CoverInv is OffsetInv without CurrentMessage.                    *)

CoverInv ==
  /\ PositionCovered
  /\ LastRead
  /\ HandledBeforeStore
  /\ StoredHandled
  /\ HandledProduced
  /\ CommittedHandled

LEMMA InitCover == Init => CoverInv
  BY NobodyAssumption
  DEF Init, CoverInv, PositionCovered, LastRead, HandledBeforeStore, Busy,
      StoredHandled, HandledProduced, CommittedHandled, Committed, Handling

(* A step that keeps the group's offsets and what is handled, and that moves *)
(* no consumer in or out of the handler or of StoreMessage.                  *)
LEMMA QuietStep ==
  ASSUME TypeInv, CoverInv,
         UNCHANGED <<committed, owner, position, stored, handled>>,
         produced' \in [Partitions -> Nat],
         \A p \in Partitions : produced'[p] >= produced[p],
         \A d \in Consumers : /\ pc'[d] \in Handling <=> pc[d] \in Handling
                              /\ pc'[d] = "store" <=> pc[d] = "store"
                              /\ Busy(d) => cur'[d] = cur[d]
  PROVE  CoverInv'
  <1> USE DEF CoverInv, TypeInv, TypeOK
  <1>1. PositionCovered'
    <2> SUFFICES ASSUME NEW p \in Partitions, owner[p] # Nobody,
                        NEW o \in 0 .. position[p] - 1, o \notin handled[p]
                 PROVE  pc'[owner[p]] \in Handling /\ cur'[owner[p]] = <<p, o>>
      BY DEF PositionCovered
    <2>1. pc[owner[p]] \in Handling /\ cur[owner[p]] = <<p, o>>
      BY DEF PositionCovered
    <2>2. owner[p] \in Consumers /\ Busy(owner[p])
      BY <2>1 DEF Busy
    <2> QED
      BY <2>1, <2>2
  <1>2. LastRead'
    <2> SUFFICES ASSUME NEW d \in Consumers, NEW p \in Partitions,
                        Busy(d)', owner[p] = d, cur'[d][1] = p
                 PROVE  position[p] = cur'[d][2] + 1
      BY DEF LastRead
    <2>1. Busy(d) /\ cur'[d] = cur[d]
      BY DEF Busy
    <2>2. cur[d][1] = p
      BY <2>1
    <2>3. position[p] = cur[d][2] + 1
      BY <2>1, <2>2 DEF LastRead
    <2> QED
      BY <2>1, <2>3
  <1>3. HandledBeforeStore'
    BY DEF HandledBeforeStore, Busy, Handling
  <1>4. StoredHandled' /\ CommittedHandled'
    BY DEF StoredHandled, CommittedHandled, Committed
  <1>5. HandledProduced'
    BY DEF HandledProduced
  <1> QED
    BY <1>1, <1>2, <1>3, <1>4, <1>5

(* The handler of c returns. *)
LEMMA ReturnedCover ==
  ASSUME TypeInv, CoverInv, NEW c \in Consumers, NEW err \in BOOLEAN,
         pc[c] \in Handling, Returned(c, err),
         UNCHANGED <<groupVars, produced>>
  PROVE  CoverInv'
  <1>1. Busy(c)
    BY DEF Busy
  <1>2. PICK q \in Partitions, k \in Nat : cur[c] = <<q, k>> /\ k < produced[q]
    BY <1>1, BusyMessage
  <1>3. /\ \A p \in Partitions \ {q} : handled'[p] = handled[p]
        /\ handled'[q] = handled[q] \cup {k}
        /\ \A p \in Partitions : handled[p] \subseteq handled'[p]
    <2>1. cur[c][1] = q /\ cur[c][2] = k
      BY <1>2
    <2> QED
      BY <1>1, <2>1, ReturnedStep
  <1>4. /\ pc'[c] \in {"check", "store"}
        /\ pc'[c] = "store" => cur'[c] = cur[c]
        /\ \A d \in Consumers \ {c} : pc'[d] = pc[d] /\ cur'[d] = cur[d]
    BY <1>1, ReturnedStep
  <1>5. PositionCovered'
    <2> SUFFICES ASSUME NEW p \in Partitions, owner[p] # Nobody,
                        NEW o \in 0 .. position[p] - 1, o \notin handled'[p]
                 PROVE  pc'[owner[p]] \in Handling /\ cur'[owner[p]] = <<p, o>>
      BY DEF PositionCovered, groupVars
    <2>1. pc[owner[p]] \in Handling /\ cur[owner[p]] = <<p, o>>
      BY <1>3 DEF CoverInv, PositionCovered
    <2>2. owner[p] \in Consumers
      BY DEF TypeInv, TypeOK
    <2>3. owner[p] # c
      BY <1>2, <1>3, <2>1
    <2> QED
      BY <1>4, <2>1, <2>2, <2>3
  <1>6. LastRead'
    BY <1>1, <1>4 DEF CoverInv, LastRead, Busy, Handling, groupVars
  <1>7. HandledBeforeStore'
    <2> SUFFICES ASSUME NEW d \in Consumers, pc'[d] = "store"
                 PROVE  cur'[d][2] \in handled'[cur'[d][1]]
      BY DEF HandledBeforeStore
    <2>1. CASE d = c
      BY <1>2, <1>3, <1>4, <2>1
    <2>2. CASE d # c
      <3>1. Busy(d) /\ pc[d] = "store" /\ cur'[d] = cur[d]
        BY <1>4, <2>2 DEF Busy
      <3>2. PICK p \in Partitions, o \in Nat : cur[d] = <<p, o>>
        BY <3>1, BusyMessage
      <3>3. o \in handled[p]
        BY <3>1, <3>2 DEF CoverInv, HandledBeforeStore
      <3> QED
        BY <1>3, <3>1, <3>2, <3>3
    <2> QED
      BY <2>1, <2>2
  <1>8. StoredHandled' /\ CommittedHandled'
    BY <1>3 DEF CoverInv, StoredHandled, CommittedHandled, Committed, groupVars
  <1>9. HandledProduced'
    <2>1. produced' = produced /\ produced[q] \in Nat /\ k \in 0 .. produced[q] - 1
      BY <1>2 DEF TypeInv, TypeOK
    <2>2. \A p \in Partitions : handled[p] \subseteq 0 .. produced[p] - 1
      BY DEF CoverInv, HandledProduced
    <2>3. ASSUME NEW p \in Partitions PROVE handled'[p] \subseteq 0 .. produced[p] - 1
      BY <1>3, <2>1, <2>2
    <2> QED
      BY <2>1, <2>3 DEF HandledProduced
  <1> QED
    BY <1>5, <1>6, <1>7, <1>8, <1>9 DEF CoverInv

(* Partitions lose their owner, and nobody's loop enters the handler. *)
LEMMA ReleaseCover ==
  ASSUME TypeInv, CoverInv, UNCHANGED <<produced, handled>>,
         NEW c \in Consumers,
         \A p \in Partitions :
           IF owner[p] = c
           THEN owner'[p] = Nobody /\ stored'[p] = 0 /\ position'[p] = 0
           ELSE /\ owner'[p] = owner[p]
                /\ stored'[p] = stored[p]
                /\ position'[p] = position[p],
         \A p \in Partitions : committed'[p] \in {committed[p], stored[p]},
         \/ UNCHANGED <<pc, cur>>
         \/ /\ pc'[c] = "down"
            /\ \A d \in Consumers \ {c} : pc'[d] = pc[d] /\ cur'[d] = cur[d]
  PROVE  CoverInv'
  <1> USE DEF TypeInv, TypeOK, CoverInv
  <1>0. ASSUME NEW d \in Consumers, Busy(d)'
        PROVE  pc'[d] = pc[d] /\ cur'[d] = cur[d] /\ Busy(d)
    BY <1>0 DEF Busy, Handling
  <1>1. PositionCovered'
    <2> SUFFICES ASSUME NEW p \in Partitions, owner'[p] # Nobody,
                        NEW o \in 0 .. position'[p] - 1, o \notin handled[p]
                 PROVE  /\ pc'[owner'[p]] \in Handling
                        /\ cur'[owner'[p]] = <<p, o>>
      BY DEF PositionCovered
    <2>1. /\ owner[p] # c /\ owner'[p] = owner[p] /\ position'[p] = position[p]
          /\ owner[p] \in Consumers
      OBVIOUS
    <2>2. pc[owner[p]] \in Handling /\ cur[owner[p]] = <<p, o>>
      BY <2>1 DEF PositionCovered
    <2> QED
      BY <2>1, <2>2
  <1>2. LastRead'
    <2> SUFFICES ASSUME NEW d \in Consumers, NEW p \in Partitions,
                        Busy(d)', owner'[p] = d, cur'[d][1] = p
                 PROVE  position'[p] = cur'[d][2] + 1
      BY DEF LastRead
    <2>1. owner[p] = d /\ position'[p] = position[p]
      BY NobodyAssumption
    <2>2. Busy(d) /\ cur'[d] = cur[d] /\ cur[d][1] = p
      BY <1>0
    <2>3. position[p] = cur[d][2] + 1
      BY <2>1, <2>2 DEF LastRead
    <2> QED
      BY <2>1, <2>2, <2>3
  <1>3. HandledBeforeStore'
    <2> SUFFICES ASSUME NEW d \in Consumers, pc'[d] = "store"
                 PROVE  cur'[d][2] \in handled[cur'[d][1]]
      BY DEF HandledBeforeStore
    <2>1. pc'[d] = pc[d] /\ cur'[d] = cur[d]
      BY <1>0 DEF Busy
    <2>2. cur[d][2] \in handled[cur[d][1]]
      BY <2>1 DEF HandledBeforeStore
    <2> QED
      BY <2>1, <2>2
  <1>4. StoredHandled'
    <2> SUFFICES ASSUME NEW p \in Partitions
                 PROVE  0 .. stored'[p] - 1 \subseteq handled[p]
      BY DEF StoredHandled
    <2>1. 0 .. stored[p] - 1 \subseteq handled[p]
      BY DEF StoredHandled
    <2>2. stored'[p] = stored[p] \/ stored'[p] = 0
      OBVIOUS
    <2> QED
      BY <2>1, <2>2
  <1>5. CommittedHandled'
    <2> SUFFICES ASSUME NEW p \in Partitions
                 PROVE  0 .. committed'[p] - 1 \subseteq handled[p]
      BY DEF CommittedHandled, Committed
    <2>1. 0 .. stored[p] - 1 \subseteq handled[p]
      BY DEF StoredHandled
    <2>2. 0 .. committed[p] - 1 \subseteq handled[p]
      BY DEF CommittedHandled, Committed
    <2>3. committed'[p] = committed[p] \/ committed'[p] = stored[p]
      OBVIOUS
    <2> QED
      BY <2>1, <2>2, <2>3
  <1>6. HandledProduced'
    BY DEF HandledProduced
  <1> QED
    BY <1>1, <1>2, <1>3, <1>4, <1>5, <1>6

LEMMA CoverStep == TypeInv /\ TypeInv' /\ CoverInv /\ [Next]_vars => CoverInv'
  <1> SUFFICES ASSUME TypeInv, TypeInv', CoverInv, [Next]_vars
               PROVE  CoverInv'
    OBVIOUS
  <1> USE DEF topicVars, groupVars, loopVars, historyVars
  <1>1. ASSUME NEW p \in Partitions, Produce(p)
        PROVE  CoverInv'
    <2>1. /\ UNCHANGED <<committed, owner, position, stored, handled>>
          /\ produced' \in [Partitions -> Nat]
          /\ \A q \in Partitions : produced'[q] >= produced[q]
          /\ \A d \in Consumers : /\ pc'[d] \in Handling <=> pc[d] \in Handling
                                  /\ pc'[d] = "store" <=> pc[d] = "store"
                                  /\ Busy(d) => cur'[d] = cur[d]
      BY <1>1 DEF Produce, TypeInv, TypeOK, Handling
    <2> QED
      BY <2>1, QuietStep
  <1>2. ASSUME NEW p \in Partitions, AutoCommit(p)
        PROVE  CoverInv'
    <2>1. \A q \in Partitions : committed'[q] \in {committed[q], stored[q]}
      BY <1>2 DEF AutoCommit, TypeInv, TypeOK
    <2>2. CommittedHandled'
      <3> SUFFICES ASSUME NEW q \in Partitions
                   PROVE  0 .. committed'[q] - 1 \subseteq handled[q]
        BY <1>2 DEF AutoCommit, CommittedHandled, Committed
      <3> QED
        BY <2>1 DEF CoverInv, StoredHandled, CommittedHandled, Committed
    <2> QED
      BY <1>2, <2>2
      DEF AutoCommit, CoverInv, PositionCovered, LastRead, HandledBeforeStore,
          StoredHandled, HandledProduced, Busy
  <1>3. ASSUME NEW c \in Consumers, Join(c)
        PROVE  CoverInv'
    <2>1. /\ UNCHANGED <<committed, owner, position, stored, handled>>
          /\ produced' \in [Partitions -> Nat]
          /\ \A q \in Partitions : produced'[q] >= produced[q]
          /\ \A d \in Consumers : /\ pc'[d] \in Handling <=> pc[d] \in Handling
                                  /\ pc'[d] = "store" <=> pc[d] = "store"
                                  /\ Busy(d) => cur'[d] = cur[d]
      BY <1>3 DEF Join, TypeInv, TypeOK, Handling
    <2> QED
      BY <2>1, QuietStep
  <1>4. ASSUME NEW c \in Consumers, CheckStop(c)
        PROVE  CoverInv'
    <2>1. /\ UNCHANGED <<committed, owner, position, stored, handled>>
          /\ produced' \in [Partitions -> Nat]
          /\ \A q \in Partitions : produced'[q] >= produced[q]
          /\ \A d \in Consumers : /\ pc'[d] \in Handling <=> pc[d] \in Handling
                                  /\ pc'[d] = "store" <=> pc[d] = "store"
                                  /\ Busy(d) => cur'[d] = cur[d]
      BY <1>4 DEF CheckStop, TypeInv, TypeOK, Handling
    <2> QED
      BY <2>1, QuietStep
  <1>5. ASSUME NEW c \in Consumers, ReadError(c)
        PROVE  CoverInv'
    <2>1. /\ UNCHANGED <<committed, owner, position, stored, handled>>
          /\ produced' \in [Partitions -> Nat]
          /\ \A q \in Partitions : produced'[q] >= produced[q]
          /\ \A d \in Consumers : /\ pc'[d] \in Handling <=> pc[d] \in Handling
                                  /\ pc'[d] = "store" <=> pc[d] = "store"
                                  /\ Busy(d) => cur'[d] = cur[d]
      BY <1>5 DEF ReadError, TypeInv, TypeOK, Handling
    <2> QED
      BY <2>1, QuietStep
  <1>6. ASSUME NEW c \in Consumers, ParseFailure(c)
        PROVE  CoverInv'
    <2>1. pc[c] \in Handling /\ Returned(c, FALSE)
      BY <1>6 DEF ParseFailure, Handling
    <2> QED
      BY <1>6, <2>1, ReturnedCover DEF ParseFailure
  <1>7. ASSUME NEW c \in Consumers, ValidationFailure(c)
        PROVE  CoverInv'
    <2>1. pc[c] \in Handling /\ Returned(c, TRUE)
      BY <1>7 DEF ValidationFailure, Handling
    <2> QED
      BY <1>7, <2>1, ReturnedCover DEF ValidationFailure
  <1>8. ASSUME NEW c \in Consumers, CreateOrder(c)
        PROVE  CoverInv'
    <2>1. /\ UNCHANGED <<committed, owner, position, stored, handled>>
          /\ produced' \in [Partitions -> Nat]
          /\ \A q \in Partitions : produced'[q] >= produced[q]
          /\ \A d \in Consumers : /\ pc'[d] \in Handling <=> pc[d] \in Handling
                                  /\ pc'[d] = "store" <=> pc[d] = "store"
                                  /\ Busy(d) => cur'[d] = cur[d]
      BY <1>8 DEF CreateOrder, TypeInv, TypeOK, Handling
    <2> QED
      BY <2>1, QuietStep
  <1>9. ASSUME NEW c \in Consumers, SaveOrder(c)
        PROVE  CoverInv'
    <2>1. /\ UNCHANGED <<committed, owner, position, stored, handled>>
          /\ produced' \in [Partitions -> Nat]
          /\ \A q \in Partitions : produced'[q] >= produced[q]
          /\ \A d \in Consumers : /\ pc'[d] \in Handling <=> pc[d] \in Handling
                                  /\ pc'[d] = "store" <=> pc[d] = "store"
                                  /\ Busy(d) => cur'[d] = cur[d]
      BY <1>9 DEF SaveOrder, TypeInv, TypeOK, Handling
    <2> QED
      BY <2>1, QuietStep
  <1>10. ASSUME NEW c \in Consumers, SaveOk(c)
        PROVE  CoverInv'
    <2>1. pc[c] \in Handling /\ Returned(c, FALSE)
      BY <1>10 DEF SaveOk, Handling
    <2> QED
      BY <1>10, <2>1, ReturnedCover DEF SaveOk
  <1>11. ASSUME NEW c \in Consumers, SaveFail(c)
        PROVE  CoverInv'
    <2>1. /\ UNCHANGED <<committed, owner, position, stored, handled>>
          /\ produced' \in [Partitions -> Nat]
          /\ \A q \in Partitions : produced'[q] >= produced[q]
          /\ \A d \in Consumers : /\ pc'[d] \in Handling <=> pc[d] \in Handling
                                  /\ pc'[d] = "store" <=> pc[d] = "store"
                                  /\ Busy(d) => cur'[d] = cur[d]
      BY <1>11 DEF SaveFail, TypeInv, TypeOK, Handling
    <2> QED
      BY <2>1, QuietStep
  <1>12. ASSUME NEW c \in Consumers, GiveUp(c)
        PROVE  CoverInv'
    <2>1. pc[c] \in Handling /\ Returned(c, TRUE)
      BY <1>12 DEF GiveUp, Handling
    <2> QED
      BY <1>12, <2>1, ReturnedCover DEF GiveUp
  <1>13. ASSUME NEW c \in Consumers, StoreMessage(c)
        PROVE  CoverInv'
    <2>1. PICK q \in Partitions, k \in Nat :
            cur[c] = <<q, k>> /\ cur[c][1] = q /\ cur[c][2] = k
      BY <1>13, BusyMessage DEF StoreMessage, Busy
    <2>2. /\ stored' = IF owner[q] = c THEN [stored EXCEPT ![q] = k + 1]
                                      ELSE stored
          /\ pc[c] = "store" /\ pc'[c] = "check"
          /\ \A d \in Consumers \ {c} : pc'[d] = pc[d] /\ cur'[d] = cur[d]
          /\ UNCHANGED <<produced, committed, owner, position, handled>>
      BY <1>13, <2>1 DEF StoreMessage, TypeInv, TypeOK
    <2>3. ASSUME NEW d \in Consumers, Busy(d)'
          PROVE  d # c /\ pc'[d] = pc[d] /\ cur'[d] = cur[d] /\ Busy(d)
      BY <2>2, <2>3 DEF Busy, Handling
    <2>4. PositionCovered'
      BY <2>2 DEF CoverInv, PositionCovered, TypeInv, TypeOK, Handling
    <2>5. LastRead'
      BY <2>2, <2>3 DEF CoverInv, LastRead
    <2>6. HandledBeforeStore'
      BY <2>2, <2>3 DEF CoverInv, HandledBeforeStore, Busy
    <2>7. StoredHandled'
      <3>1. CASE owner[q] = c
        <4>1. position[q] = k + 1
          BY <1>13, <2>1, <3>1 DEF StoreMessage, CoverInv, LastRead, Busy
        <4>2. 0 .. k \subseteq handled[q]
          BY <2>2, <3>1, <4>1, NobodyAssumption
          DEF CoverInv, PositionCovered, Handling
        <4>3. stored' = [stored EXCEPT ![q] = k + 1]
          BY <2>2, <3>1
        <4> QED
          BY <2>2, <4>2, <4>3 DEF CoverInv, StoredHandled, TypeInv, TypeOK
      <3>2. CASE owner[q] # c
        BY <2>2, <3>2 DEF CoverInv, StoredHandled
      <3> QED
        BY <3>1, <3>2
    <2>8. HandledProduced' /\ CommittedHandled'
      BY <2>2 DEF CoverInv, HandledProduced, CommittedHandled, Committed
    <2> QED
      BY <2>4, <2>5, <2>6, <2>7, <2>8 DEF CoverInv
  <1>14. ASSUME NEW c \in Consumers, Expire(c)
        PROVE  CoverInv'
    <2>1. /\ UNCHANGED <<committed, owner, position, stored, handled>>
          /\ produced' \in [Partitions -> Nat]
          /\ \A q \in Partitions : produced'[q] >= produced[q]
          /\ \A d \in Consumers : /\ pc'[d] \in Handling <=> pc[d] \in Handling
                                  /\ pc'[d] = "store" <=> pc[d] = "store"
                                  /\ Busy(d) => cur'[d] = cur[d]
      BY <1>14 DEF Expire, TypeInv, TypeOK, Handling
    <2> QED
      BY <2>1, QuietStep
  <1>15. ASSUME NEW c \in Consumers, StopBegin(c)
        PROVE  CoverInv'
    <2>1. /\ UNCHANGED <<committed, owner, position, stored, handled>>
          /\ produced' \in [Partitions -> Nat]
          /\ \A q \in Partitions : produced'[q] >= produced[q]
          /\ \A d \in Consumers : /\ pc'[d] \in Handling <=> pc[d] \in Handling
                                  /\ pc'[d] = "store" <=> pc[d] = "store"
                                  /\ Busy(d) => cur'[d] = cur[d]
      BY <1>15 DEF StopBegin, TypeInv, TypeOK, Handling
    <2> QED
      BY <2>1, QuietStep
  <1>16. ASSUME NEW c \in Consumers, StopCommit(c)
        PROVE  CoverInv'
    <2>1. \A q \in Partitions : committed'[q] \in {committed[q], stored[q]}
      BY <1>16 DEF StopCommit, CommitStored, TypeInv, TypeOK
    <2>2. CommittedHandled'
      <3> SUFFICES ASSUME NEW q \in Partitions
                   PROVE  0 .. committed'[q] - 1 \subseteq handled[q]
        BY <1>16 DEF StopCommit, CommittedHandled, Committed
      <3> QED
        BY <2>1 DEF CoverInv, StoredHandled, CommittedHandled, Committed
    <2> QED
      BY <1>16, <2>2
      DEF StopCommit, CoverInv, PositionCovered, LastRead, HandledBeforeStore,
          StoredHandled, HandledProduced, Busy
  <1>17. ASSUME NEW c \in Consumers, StopCommitFail(c)
        PROVE  CoverInv'
    <2>1. /\ UNCHANGED <<committed, owner, position, stored, handled>>
          /\ produced' \in [Partitions -> Nat]
          /\ \A q \in Partitions : produced'[q] >= produced[q]
          /\ \A d \in Consumers : /\ pc'[d] \in Handling <=> pc[d] \in Handling
                                  /\ pc'[d] = "store" <=> pc[d] = "store"
                                  /\ Busy(d) => cur'[d] = cur[d]
      BY <1>17 DEF StopCommitFail, TypeInv, TypeOK, Handling
    <2> QED
      BY <2>1, QuietStep
  <1>18. ASSUME NEW c \in Consumers, StopClose(c)
        PROVE  CoverInv'
    <2>1. /\ UNCHANGED <<produced, handled, pc, cur>>
          /\ \A q \in Partitions : committed'[q] \in {committed[q], stored[q]}
          /\ \A q \in Partitions :
               IF owner[q] = c
               THEN owner'[q] = Nobody /\ stored'[q] = 0 /\ position'[q] = 0
               ELSE /\ owner'[q] = owner[q]
                    /\ stored'[q] = stored[q]
                    /\ position'[q] = position[q]
      BY <1>18 DEF StopClose, CommitStored, Release, TypeInv, TypeOK
    <2> QED
      BY <2>1, ReleaseCover
  <1>19. ASSUME NEW c \in Consumers, Exit(c)
        PROVE  CoverInv'
    <2>1. Vanish(c)
      BY <1>19 DEF Exit
    <2>2. /\ UNCHANGED <<produced, committed, handled>>
          /\ pc'[c] = "down"
          /\ \A d \in Consumers \ {c} : pc'[d] = pc[d] /\ cur'[d] = cur[d]
          /\ \A q \in Partitions :
               IF owner[q] = c
               THEN owner'[q] = Nobody /\ stored'[q] = 0 /\ position'[q] = 0
               ELSE /\ owner'[q] = owner[q]
                    /\ stored'[q] = stored[q]
                    /\ position'[q] = position[q]
      BY <2>1, VanishStep
    <2> QED
      BY <2>2, ReleaseCover
  <1>20. ASSUME NEW c \in Consumers, Crash(c)
        PROVE  CoverInv'
    <2>1. Vanish(c)
      BY <1>20 DEF Crash
    <2>2. /\ UNCHANGED <<produced, committed, handled>>
          /\ pc'[c] = "down"
          /\ \A d \in Consumers \ {c} : pc'[d] = pc[d] /\ cur'[d] = cur[d]
          /\ \A q \in Partitions :
               IF owner[q] = c
               THEN owner'[q] = Nobody /\ stored'[q] = 0 /\ position'[q] = 0
               ELSE /\ owner'[q] = owner[q]
                    /\ stored'[q] = stored[q]
                    /\ position'[q] = position[q]
      BY <2>1, VanishStep
    <2> QED
      BY <2>2, ReleaseCover
  <1>21. ASSUME NEW c \in Consumers, NEW p \in Partitions, Assign(c, p)
        PROVE  CoverInv'
    <2>1. /\ owner' = [owner EXCEPT ![p] = c]
          /\ position' = [position EXCEPT ![p] = committed[p]]
          /\ stored' = [stored EXCEPT ![p] = 0]
          /\ pc[c] = "read" /\ ~Busy(c)
          /\ UNCHANGED <<produced, committed, pc, cur, handled>>
      BY <1>21 DEF Assign, Busy, Handling
    <2>2. PositionCovered'
      <3> SUFFICES ASSUME NEW q \in Partitions, owner'[q] # Nobody,
                          NEW o \in 0 .. position'[q] - 1, o \notin handled[q]
                   PROVE  /\ pc[owner'[q]] \in Handling
                          /\ cur[owner'[q]] = <<q, o>>
        BY <2>1 DEF PositionCovered
      <3>1. CASE q = p
        BY <2>1, <3>1
        DEF CoverInv, CommittedHandled, Committed, TypeInv, TypeOK
      <3>2. CASE q # p
        BY <2>1, <3>2 DEF CoverInv, PositionCovered, TypeInv, TypeOK
      <3> QED
        BY <3>1, <3>2
    <2>3. LastRead'
      <3> SUFFICES ASSUME NEW d \in Consumers, NEW q \in Partitions,
                          Busy(d), owner'[q] = d, cur[d][1] = q
                   PROVE  position'[q] = cur[d][2] + 1
        BY <2>1 DEF LastRead, Busy
      <3>1. q # p /\ owner[q] = d /\ position'[q] = position[q]
        BY <2>1 DEF TypeInv, TypeOK
      <3> QED
        BY <3>1 DEF CoverInv, LastRead
    <2>4. HandledBeforeStore'
      BY <2>1 DEF CoverInv, HandledBeforeStore
    <2>5. StoredHandled'
      BY <2>1 DEF CoverInv, StoredHandled, TypeInv, TypeOK
    <2>6. HandledProduced' /\ CommittedHandled'
      BY <2>1 DEF CoverInv, HandledProduced, CommittedHandled, Committed
    <2> QED
      BY <2>2, <2>3, <2>4, <2>5, <2>6 DEF CoverInv
  <1>22. ASSUME NEW c \in Consumers, NEW p \in Partitions, ReadMessage(c, p)
        PROVE  CoverInv'
    <2>1. /\ pc[c] = "read" /\ pc'[c] = "handle"
          /\ owner[p] = c
          /\ cur'[c] = <<p, position[p]>>
          /\ position' = [position EXCEPT ![p] = @ + 1]
          /\ \A d \in Consumers \ {c} : pc'[d] = pc[d] /\ cur'[d] = cur[d]
          /\ UNCHANGED <<produced, committed, owner, stored, handled>>
      BY <1>22 DEF ReadMessage, TypeInv, TypeOK
    <2>2. \A q \in Partitions : owner[q] = c =>
            \A o \in 0 .. position[q] - 1 : o \in handled[q]
      BY <2>1, NobodyAssumption DEF CoverInv, PositionCovered, Handling
    <2>3. PositionCovered'
      <3> SUFFICES ASSUME NEW q \in Partitions, owner[q] # Nobody,
                          NEW o \in 0 .. position'[q] - 1, o \notin handled[q]
                   PROVE  /\ pc'[owner[q]] \in Handling
                          /\ cur'[owner[q]] = <<q, o>>
        BY <2>1 DEF PositionCovered
      <3>1. CASE q = p
        <4>1. o = position[p]
          BY <2>1, <2>2, <3>1 DEF TypeInv, TypeOK
        <4> QED
          BY <2>1, <3>1, <4>1 DEF Handling
      <3>2. CASE q # p
        <4>1. o \in 0 .. position[q] - 1
          BY <2>1, <3>2 DEF TypeInv, TypeOK
        <4>2. owner[q] # c /\ owner[q] \in Consumers
          BY <2>2, <4>1 DEF TypeInv, TypeOK
        <4>3. pc[owner[q]] \in Handling /\ cur[owner[q]] = <<q, o>>
          BY <4>1 DEF CoverInv, PositionCovered
        <4> QED
          BY <2>1, <4>2, <4>3
      <3> QED
        BY <3>1, <3>2
    <2>4. LastRead'
      <3> SUFFICES ASSUME NEW d \in Consumers, NEW q \in Partitions,
                          Busy(d)', owner[q] = d, cur'[d][1] = q
                   PROVE  position'[q] = cur'[d][2] + 1
        BY <2>1 DEF LastRead
      <3>1. CASE d = c
        BY <2>1, <3>1 DEF TypeInv, TypeOK
      <3>2. CASE d # c
        <4>1. Busy(d) /\ cur'[d] = cur[d] /\ q # p
          BY <2>1, <3>2 DEF Busy
        <4>2. position[q] = cur[d][2] + 1
          BY <4>1 DEF CoverInv, LastRead
        <4> QED
          BY <2>1, <4>1, <4>2 DEF TypeInv, TypeOK
      <3> QED
        BY <3>1, <3>2
    <2>5. HandledBeforeStore'
      BY <2>1 DEF CoverInv, HandledBeforeStore
    <2>6. StoredHandled' /\ HandledProduced' /\ CommittedHandled'
      BY <2>1
      DEF CoverInv, StoredHandled, HandledProduced, CommittedHandled, Committed
    <2> QED
      BY <2>3, <2>4, <2>5, <2>6 DEF CoverInv
  <1>23. CASE UNCHANGED vars
    BY <1>23
    DEF vars, CoverInv, PositionCovered, LastRead, HandledBeforeStore, Busy,
        StoredHandled, HandledProduced, CommittedHandled, Committed
  <1> QED
    BY <1>1, <1>2, <1>3, <1>4, <1>5, <1>6, <1>7, <1>8, <1>9, <1>10, <1>11, <1>12, <1>13, <1>14, <1>15, <1>16, <1>17, <1>18, <1>19, <1>20, <1>21, <1>22, <1>23
    DEF Next, Loop, Stop

---------------------------------------------------------------------------
(* Losses.                                                                   *)

LEMMA LossStep ==
  TypeInv /\ HandledSavedOrAbandoned /\ [Next]_vars => HandledSavedOrAbandoned'
  <1> SUFFICES ASSUME TypeInv, HandledSavedOrAbandoned, [Next]_vars
               PROVE  HandledSavedOrAbandoned'
    OBVIOUS
  <1> USE DEF topicVars, groupVars, loopVars, historyVars
  <1>1. ASSUME handled' = handled, db \subseteq db', abandoned' = abandoned
        PROVE  HandledSavedOrAbandoned'
    BY <1>1 DEF HandledSavedOrAbandoned, ValidAt, Saved, MessageAt
  <1>2. ASSUME NEW c \in Consumers, NEW err \in BOOLEAN, Busy(c),
               Returned(c, err), db \subseteq db', abandoned \subseteq abandoned',
               \/ MessageAt(cur[c]).kind # "valid"
               \/ MessageAt(cur[c]).uid \in db'
               \/ cur[c] \in abandoned'
        PROVE  HandledSavedOrAbandoned'
    <2>1. PICK q \in Partitions, k \in Nat : cur[c] = <<q, k>>
      BY <1>2, BusyMessage
    <2>2. /\ \A p \in Partitions \ {q} : handled'[p] = handled[p]
          /\ handled'[q] = handled[q] \cup {k}
      <3>1. cur[c][1] = q /\ cur[c][2] = k
        BY <2>1
      <3> QED
        BY <1>2, <3>1, ReturnedStep
    <2> SUFFICES ASSUME NEW p \in Partitions, NEW o \in handled'[p],
                        ValidAt(<<p, o>>)
                 PROVE  MessageAt(<<p, o>>).uid \in db' \/ <<p, o>> \in abandoned'
      BY DEF HandledSavedOrAbandoned, ValidAt, Saved, MessageAt
    <2>3. CASE o \in handled[p]
      BY <1>2, <2>3 DEF HandledSavedOrAbandoned, Saved
    <2>4. CASE o \notin handled[p]
      <3>1. <<p, o>> = cur[c]
        BY <2>1, <2>2, <2>4
      <3> QED
        BY <1>2, <3>1 DEF ValidAt
    <2> QED
      BY <2>3, <2>4
  <1>3. ASSUME NEW c \in Consumers, ParseFailure(c) PROVE HandledSavedOrAbandoned'
    <2>1. Busy(c) /\ Returned(c, FALSE)
      BY <1>3 DEF ParseFailure, Busy, Handling
    <2>2. /\ db \subseteq db' /\ abandoned \subseteq abandoned'
          /\ \/ MessageAt(cur[c]).kind # "valid"
             \/ MessageAt(cur[c]).uid \in db'
             \/ cur[c] \in abandoned'
      BY <1>3 DEF ParseFailure
    <2> QED
      BY <1>2, <2>1, <2>2
  <1>4. ASSUME NEW c \in Consumers, ValidationFailure(c) PROVE HandledSavedOrAbandoned'
    <2>1. Busy(c) /\ Returned(c, TRUE)
      BY <1>4 DEF ValidationFailure, Busy, Handling
    <2>2. /\ db \subseteq db' /\ abandoned \subseteq abandoned'
          /\ \/ MessageAt(cur[c]).kind # "valid"
             \/ MessageAt(cur[c]).uid \in db'
             \/ cur[c] \in abandoned'
      BY <1>4 DEF ValidationFailure
    <2> QED
      BY <1>2, <2>1, <2>2
  <1>5. ASSUME NEW c \in Consumers, SaveOk(c) PROVE HandledSavedOrAbandoned'
    <2>1. Busy(c) /\ Returned(c, FALSE)
      BY <1>5 DEF SaveOk, Busy, Handling
    <2>2. /\ db \subseteq db' /\ abandoned \subseteq abandoned'
          /\ \/ MessageAt(cur[c]).kind # "valid"
             \/ MessageAt(cur[c]).uid \in db'
             \/ cur[c] \in abandoned'
      BY <1>5 DEF SaveOk
    <2> QED
      BY <1>2, <2>1, <2>2
  <1>6. ASSUME NEW c \in Consumers, GiveUp(c) PROVE HandledSavedOrAbandoned'
    <2>1. Busy(c) /\ Returned(c, TRUE)
      BY <1>6 DEF GiveUp, Busy, Handling
    <2>2. /\ db \subseteq db' /\ abandoned \subseteq abandoned'
          /\ \/ MessageAt(cur[c]).kind # "valid"
             \/ MessageAt(cur[c]).uid \in db'
             \/ cur[c] \in abandoned'
      BY <1>6 DEF GiveUp
    <2> QED
      BY <1>2, <2>1, <2>2
  <1>7. ASSUME NEW c \in Consumers,
               \/ Join(c) \/ CheckStop(c) \/ ReadError(c) \/ CreateOrder(c)
               \/ SaveOrder(c) \/ SaveFail(c) \/ StoreMessage(c) \/ Expire(c)
               \/ Stop(c) \/ Exit(c) \/ Crash(c)
               \/ \E p \in Partitions : ReadMessage(c, p) \/ Assign(c, p)
        PROVE  handled' = handled /\ db \subseteq db' /\ abandoned' = abandoned
    BY <1>7
    DEF Join, CheckStop, ReadError, CreateOrder, SaveOrder, SaveFail,
        StoreMessage, Expire, Stop, StopBegin, StopCommit, StopCommitFail,
        StopClose, Exit, Crash, Vanish, ReadMessage, Assign
  <1>8. ASSUME NEW p \in Partitions, Produce(p) \/ AutoCommit(p)
        PROVE  handled' = handled /\ db \subseteq db' /\ abandoned' = abandoned
    BY <1>8 DEF Produce, AutoCommit
  <1>9. CASE UNCHANGED vars
    BY <1>1, <1>9 DEF vars
  <1> QED
    BY <1>1, <1>3, <1>4, <1>5, <1>6, <1>7, <1>8, <1>9 DEF Next, Loop

LEMMA BudgetStep == TypeInv /\ BudgetInv /\ [Next]_vars => BudgetInv'
  <1> SUFFICES ASSUME TypeInv, BudgetInv, [Next]_vars
               PROVE  BudgetInv'
    OBVIOUS
  <1> USE RetryAssumption
      DEF topicVars, groupVars, loopVars, historyVars, TypeInv, TypeOK, BoundNames
  <1>1. ASSUME UNCHANGED <<attempt, ctxDone, abandoned>>,
               used'["expiries"] = used["expiries"],
               used'["faults"] = used["faults"]
        PROVE  BudgetInv'
    BY <1>1 DEF BudgetInv
  <1>2. ASSUME NEW c \in Consumers, NEW err \in BOOLEAN, Busy(c),
               Returned(c, err), UNCHANGED <<used, abandoned>>
        PROVE  BudgetInv'
    <2>1. /\ attempt'[c] = 0 /\ ctxDone'[c] = FALSE
          /\ \A d \in Consumers \ {c} : /\ attempt'[d] = attempt[d]
                                        /\ ctxDone'[d] = ctxDone[d]
      BY <1>2, ReturnedStep
    <2>2. ASSUME used["expiries"] = 0, NEW d \in Consumers
          PROVE  ~ctxDone'[d] /\ attempt'[d] <= used["faults"]
      <3>1. CASE d = c
        BY <2>1, <3>1
      <3>2. CASE d # c
        BY <2>1, <2>2, <3>2 DEF BudgetInv
      <3> QED
        BY <3>1, <3>2
    <2> QED
      BY <1>2, <2>2 DEF BudgetInv
  <1>3. ASSUME NEW c \in Consumers, ParseFailure(c) PROVE BudgetInv'
    <2>1. Busy(c) /\ Returned(c, FALSE) /\ UNCHANGED <<used, abandoned>>
      BY <1>3 DEF ParseFailure, Busy, Handling
    <2> QED
      BY <1>2, <2>1
  <1>4. ASSUME NEW c \in Consumers, ValidationFailure(c) PROVE BudgetInv'
    <2>1. Busy(c) /\ Returned(c, TRUE) /\ UNCHANGED <<used, abandoned>>
      BY <1>4 DEF ValidationFailure, Busy, Handling
    <2> QED
      BY <1>2, <2>1
  <1>5. ASSUME NEW c \in Consumers, SaveOk(c) PROVE BudgetInv'
    <2>1. Busy(c) /\ Returned(c, FALSE) /\ UNCHANGED <<used, abandoned>>
      BY <1>5 DEF SaveOk, Busy, Handling
    <2> QED
      BY <1>2, <2>1
  <1>6. ASSUME NEW c \in Consumers, GiveUp(c) PROVE BudgetInv'
    <2>1. Busy(c) /\ Returned(c, TRUE) /\ UNCHANGED used
      BY <1>6 DEF GiveUp, Busy, Handling
    <2>2. /\ attempt'[c] = 0 /\ ctxDone'[c] = FALSE
          /\ \A d \in Consumers \ {c} : /\ attempt'[d] = attempt[d]
                                        /\ ctxDone'[d] = ctxDone[d]
      BY <2>1, ReturnedStep
    <2>3. attempt[c] = RetryCount \/ ctxDone[c]
      BY <1>6 DEF GiveUp, MoreAttempts
    <2>4. ASSUME used["expiries"] = 0
          PROVE  /\ \A d \in Consumers :
                      ~ctxDone'[d] /\ attempt'[d] <= used["faults"]
                 /\ ~(used["faults"] < RetryCount)
      <3>1. /\ \A d \in Consumers :
                 ~ctxDone[d] /\ attempt[d] <= used["faults"]
        BY <2>4 DEF BudgetInv
      <3>2. ASSUME NEW d \in Consumers
            PROVE  ~ctxDone'[d] /\ attempt'[d] <= used["faults"]
        <4>1. CASE d = c
          BY <2>2, <4>1
        <4>2. CASE d # c
          BY <2>2, <3>1, <4>2
        <4> QED
          BY <4>1, <4>2
      <3> QED
        BY <2>3, <3>1, <3>2
    <2> QED
      BY <2>1, <2>4 DEF BudgetInv
  <1>7. ASSUME NEW c \in Consumers, SaveFail(c) PROVE BudgetInv'
    <2>1. attempt' = [attempt EXCEPT ![c] = @ + 1]
          /\ UNCHANGED <<ctxDone, abandoned>>
      BY <1>7 DEF SaveFail
    <2>2. CASE ctxDone[c]
      <3>1. UNCHANGED used
        BY <1>7, <2>2 DEF SaveFail
      <3> QED
        BY <2>2, <3>1 DEF BudgetInv
    <2>3. CASE ~ctxDone[c]
      <3>1. used'["faults"] = used["faults"] + 1
            /\ used'["expiries"] = used["expiries"]
        BY <1>7, <2>3, SpendStep DEF SaveFail
      <3> QED
        BY SMTT(30), <2>1, <3>1 DEF BudgetInv
    <2> QED
      BY <2>2, <2>3
  <1>8. ASSUME NEW c \in Consumers, Expire(c) PROVE BudgetInv'
    <2>1. used'["expiries"] = used["expiries"] + 1
      BY <1>8, SpendStep DEF Expire
    <2> QED
      BY <2>1 DEF BudgetInv
  <1>9. ASSUME NEW c \in Consumers, Exit(c) \/ Crash(c) PROVE BudgetInv'
    <2>1. Vanish(c) /\ used'["expiries"] = used["expiries"]
                    /\ used'["faults"] = used["faults"]
      BY <1>9, SpendStep DEF Exit, Crash
    <2>2. /\ attempt'[c] = 0 /\ ctxDone'[c] = FALSE /\ UNCHANGED abandoned
          /\ \A d \in Consumers \ {c} : /\ attempt'[d] = attempt[d]
                                        /\ ctxDone'[d] = ctxDone[d]
      BY <2>1, VanishStep
    <2>3. ASSUME used["expiries"] = 0, NEW d \in Consumers
          PROVE  ~ctxDone'[d] /\ attempt'[d] <= used["faults"]
      <3>1. CASE d = c
        BY <2>2, <3>1
      <3>2. CASE d # c
        BY <2>2, <2>3, <3>2 DEF BudgetInv
      <3> QED
        BY <3>1, <3>2
    <2> QED
      BY <2>1, <2>2, <2>3 DEF BudgetInv
  <1>10. ASSUME NEW c \in Consumers, StopBegin(c) PROVE BudgetInv'
    BY <1>1, <1>10, SpendStep DEF StopBegin
  <1>11. ASSUME NEW c \in Consumers, NEW p \in Partitions, Assign(c, p)
         PROVE  BudgetInv'
    BY <1>1, <1>11, SpendStep DEF Assign
  <1>12. ASSUME NEW c \in Consumers,
                \/ Join(c) \/ CheckStop(c) \/ ReadError(c) \/ CreateOrder(c)
                \/ SaveOrder(c) \/ StoreMessage(c)
                \/ StopCommit(c) \/ StopCommitFail(c) \/ StopClose(c)
                \/ \E p \in Partitions : ReadMessage(c, p)
         PROVE  BudgetInv'
    BY <1>1, <1>12
    DEF Join, CheckStop, ReadError, CreateOrder, SaveOrder, StoreMessage,
        StopCommit, StopCommitFail, StopClose, ReadMessage
  <1>13. ASSUME NEW p \in Partitions, Produce(p) \/ AutoCommit(p)
         PROVE  BudgetInv'
    BY <1>1, <1>13 DEF Produce, AutoCommit
  <1>14. CASE UNCHANGED vars
    BY <1>1, <1>14 DEF vars
  <1> QED
    BY <1>3, <1>4, <1>5, <1>6, <1>7, <1>8, <1>9, <1>10, <1>11, <1>12, <1>13,
       <1>14
    DEF Next, Loop, Stop

---------------------------------------------------------------------------
(* The theorems.                                                             *)

LEMMA InitIInv == Init => IInv
  <1> SUFFICES ASSUME Init PROVE IInv
    OBVIOUS
  <1>1. HandledSavedOrAbandoned /\ BudgetInv
    BY RetryAssumption
    DEF Init, HandledSavedOrAbandoned, BudgetInv, BoundNames
  <1> QED
    BY <1>1, InitType, InitCover DEF IInv, OffsetInv, TypeInv, CoverInv

LEMMA IInvStep == IInv /\ [Next]_vars => IInv'
  <1> SUFFICES ASSUME IInv, [Next]_vars PROVE IInv'
    OBVIOUS
  <1>1. TypeInv /\ CoverInv
    BY DEF IInv, OffsetInv, TypeInv, CoverInv
  <1>2. TypeInv'
    BY <1>1, TypeStep
  <1>3. CoverInv'
    BY <1>1, <1>2, CoverStep
  <1>4. HandledSavedOrAbandoned'
    BY <1>1, LossStep DEF IInv
  <1>5. BudgetInv'
    BY <1>1, BudgetStep DEF IInv
  <1> QED
    BY <1>2, <1>3, <1>4, <1>5 DEF IInv, OffsetInv, TypeInv, CoverInv

(* Every reachable state satisfies the inductive invariant.                  *)
THEOREM Invariance == Spec => []IInv
  BY InitIInv, IInvStep, PTL DEF Spec

(* Type correctness: whatever the interleaving of loops, stops and           *)
(* rebalances, offsets stay in the topic and a retry counter in its range.   *)
THEOREM TypeCorrect == Spec => []TypeOK
  <1>1. IInv => TypeOK
    BY DEF IInv
  <1> QED
    BY <1>1, Invariance, PTL

(* The committed offset never passes a message no handler returned from      *)
(* (Consumer.Start stores an offset only after HandleMessage).               *)
THEOREM NothingSkipped == Spec => []CommittedHandled
  <1>1. IInv => CommittedHandled
    BY DEF IInv, OffsetInv
  <1> QED
    BY <1>1, Invariance, PTL

(* A committed valid order that is not in the database was given up by       *)
(* CreateOrder, never lost to a crash, a takeover or a Stop.                 *)
THEOREM LossNeedsGivingUp == Spec => []LossOnlyByGivingUp
  <1>1. IInv => LossOnlyByGivingUp
    BY DEF IInv, OffsetInv, CommittedHandled, HandledSavedOrAbandoned,
           LossOnlyByGivingUp
  <1> QED
    BY <1>1, Invariance, PTL

(* With fewer failed saves than retries, and no expired handler, no          *)
(* committed valid order is missing from the database.                       *)
THEOREM BudgetSuffices == Spec => []NoLossWithinBudget
  <1>1. IInv => NoLossWithinBudget
    BY DEF IInv, OffsetInv, CommittedHandled, HandledSavedOrAbandoned,
           BudgetInv, NoLossWithinBudget
  <1> QED
    BY <1>1, Invariance, PTL

---------------------------------------------------------------------------
(* Refinement.                                                               *)

LEMMA DeliveryInit == Init => Delivery!Init
  BY DEF Init, Delivery!Init

LEMMA DeliveryStep ==
  IInv /\ IInv' /\ [Next]_vars => [Delivery!Next]_Delivery!vars
  <1> SUFFICES ASSUME IInv, IInv', [Next]_vars
               PROVE  [Delivery!Next]_Delivery!vars
    OBVIOUS
  <1> USE DEF topicVars, groupVars, loopVars, historyVars
  <1>0. TypeInv /\ TypeInv' /\ CommittedHandled'
    BY DEF IInv, OffsetInv, TypeInv
  <1>1. ASSUME UNCHANGED <<produced, handled, committed>>
        PROVE  [Delivery!Next]_Delivery!vars
    BY <1>1 DEF Delivery!vars
  <1>2. ASSUME NEW p \in Partitions, Produce(p)
        PROVE  Delivery!Next
    <2>1. Delivery!Produce(p)
      BY <1>2 DEF Produce, Delivery!Produce
    <2> QED
      BY <2>1 DEF Delivery!Next
  <1>3. ASSUME NEW c \in Consumers, NEW err \in BOOLEAN, Busy(c),
               Returned(c, err), UNCHANGED <<produced, committed>>
        PROVE  Delivery!Next
    <2>1. PICK q \in Partitions, k \in Nat :
            cur[c] = <<q, k>> /\ k < produced[q]
      BY <1>0, <1>3, BusyMessage
    <2>2. cur[c][1] = q /\ cur[c][2] = k
      BY <2>1
    <2>3. handled' = [handled EXCEPT ![q] = @ \cup {k}]
      BY <1>3, <2>2 DEF Returned
    <2>4. Delivery!Handle(q, k)
      BY <1>3, <2>1, <2>3 DEF Delivery!Handle
    <2>5. produced[q] \in Nat /\ k \in 0 .. produced[q] - 1
      BY <1>0, <2>1 DEF TypeInv, TypeOK
    <2> QED
      BY <2>4, <2>5 DEF Delivery!Next
  <1>4. ASSUME \A p \in Partitions :
                 committed'[p] = committed[p]
                 \/ (committed'[p] = stored[p] /\ stored[p] > committed[p]),
               UNCHANGED <<produced, handled>>
        PROVE  Delivery!Next
    <2>1. committed' \in [Partitions -> Nat] /\ committed \in [Partitions -> Nat]
      BY <1>0 DEF TypeInv, TypeOK
    <2>2. ASSUME NEW p \in Partitions
          PROVE  /\ committed'[p] >= committed[p]
                 /\ \A o \in 0 .. committed'[p] - 1 : o \in handled[p]
      <3>1. stored[p] \in Nat
        BY <1>0 DEF TypeInv, TypeOK
      <3> QED
        BY <1>0, <1>4, <2>1, <3>1 DEF CommittedHandled, Committed
    <2>3. Delivery!Advance
      BY <1>4, <2>1, <2>2 DEF Delivery!Advance
    <2> QED
      BY <2>3 DEF Delivery!Next
  <1>5. ASSUME NEW c \in Consumers, ParseFailure(c) PROVE Delivery!Next
    <2>1. Busy(c) /\ Returned(c, FALSE) /\ UNCHANGED <<produced, committed>>
      BY <1>5 DEF ParseFailure, Busy, Handling
    <2> QED
      BY <1>3, <2>1
  <1>6. ASSUME NEW c \in Consumers, ValidationFailure(c) PROVE Delivery!Next
    <2>1. Busy(c) /\ Returned(c, TRUE) /\ UNCHANGED <<produced, committed>>
      BY <1>6 DEF ValidationFailure, Busy, Handling
    <2> QED
      BY <1>3, <2>1
  <1>7. ASSUME NEW c \in Consumers, SaveOk(c) PROVE Delivery!Next
    <2>1. Busy(c) /\ Returned(c, FALSE) /\ UNCHANGED <<produced, committed>>
      BY <1>7 DEF SaveOk, Busy, Handling
    <2> QED
      BY <1>3, <2>1
  <1>8. ASSUME NEW c \in Consumers, GiveUp(c) PROVE Delivery!Next
    <2>1. Busy(c) /\ Returned(c, TRUE) /\ UNCHANGED <<produced, committed>>
      BY <1>8 DEF GiveUp, Busy, Handling
    <2> QED
      BY <1>3, <2>1
  <1>9. ASSUME NEW p \in Partitions, AutoCommit(p) PROVE Delivery!Next
    <2>1. UNCHANGED <<produced, handled>>
      BY <1>9 DEF AutoCommit
    <2>2. ASSUME NEW q \in Partitions
          PROVE  committed'[q] = committed[q]
                 \/ (committed'[q] = stored[q] /\ stored[q] > committed[q])
      BY <1>0, <1>9 DEF AutoCommit, TypeInv, TypeOK
    <2> QED
      BY <1>4, <2>1, <2>2
  <1>10. ASSUME NEW c \in Consumers, StopCommit(c) \/ StopClose(c)
         PROVE  Delivery!Next
    <2>1. UNCHANGED <<produced, handled>>
      BY <1>10 DEF StopCommit, StopClose
    <2>2. ASSUME NEW q \in Partitions
          PROVE  committed'[q] = committed[q]
                 \/ (committed'[q] = stored[q] /\ stored[q] > committed[q])
      BY <1>0, <1>10 DEF StopCommit, StopClose, CommitStored, TypeInv, TypeOK
    <2> QED
      BY <1>4, <2>1, <2>2
  <1>11. ASSUME NEW c \in Consumers,
                \/ Join(c) \/ CheckStop(c) \/ ReadError(c) \/ CreateOrder(c)
                \/ SaveOrder(c) \/ SaveFail(c) \/ StoreMessage(c)
                \/ Expire(c) \/ StopBegin(c) \/ StopCommitFail(c)
                \/ Exit(c) \/ Crash(c)
                \/ \E p \in Partitions : ReadMessage(c, p) \/ Assign(c, p)
         PROVE  UNCHANGED <<produced, handled, committed>>
    BY <1>11
    DEF Join, CheckStop, ReadError, CreateOrder, SaveOrder, SaveFail,
        StoreMessage, Expire, StopBegin, StopCommitFail, Exit, Crash, Vanish,
        ReadMessage, Assign
  <1>12. CASE UNCHANGED vars
    BY <1>1, <1>12 DEF vars
  <1> QED
    BY <1>1, <1>2, <1>5, <1>6, <1>7, <1>8, <1>9, <1>10, <1>11, <1>12
    DEF Next, Loop, Stop

(* The consumer group implements at-least-once delivery: each step produces, *)
(* handles, moves the frontier over handled messages, or changes nothing the *)
(* topic's users can see.                                                    *)
THEOREM Refinement == Spec => ImplementsDelivery
  <1>1. IInv /\ IInv' /\ [Next]_vars => [Delivery!Next]_Delivery!vars
    BY DeliveryStep
  <1> QED
    BY <1>1, DeliveryInit, Invariance, PTL
    DEF Spec, ImplementsDelivery, Delivery!Spec
============================================================================
