--------------------------- MODULE OrderConsumer ---------------------------
(* The path of an order from the Kafka topic to the database:                *)
(* Consumer.Start and Consumer.Stop (consumer.go), KafkaHandler.HandleMessage *)
(* (handler.go) and OrderUsecase.CreateOrder (usecase/order.go), for a group *)
(* of service processes that share one topic.                                *)
(*                                                                           *)
(* Kafka itself is external and modelled from the configuration NewConsumer  *)
(* gives it: offsets are stored by hand (enable.auto.offset.store=false),    *)
(* the stored offset is committed in the background (enable.auto.commit),    *)
(* and a partition is resumed at its committed offset, or at the start       *)
(* (auto.offset.reset=earliest, example.env) when there is none.             *)
(* Offset 0 stands for "no committed offset" and for "nothing stored".       *)
EXTENDS Naturals, Sequences, FiniteSets

CONSTANTS
  Consumers,     \* service processes; each runs one Consumer
  Partitions,    \* partitions of the orders topic
  Uids,          \* order_uid values
  Nobody,        \* the owner of an unassigned partition
  NoMessage,     \* a consumer that holds no message
  Log,           \* Log[p]: what the producers put in partition p, in order
  RetryCount,    \* OrderUsecase.retryCount
  MaxFaults,     \* bound: failed SaveOrder calls
  MaxExpiries,   \* bound: handler contexts that reach their 30 s
  MaxCrashes,    \* bound: processes that die
  MaxTakeovers,  \* bound: partitions taken from a live member (session lost)
  MaxStops       \* bound: calls of Consumer.Stop

Kinds == {"malformed", "invalid", "valid"}
Messages == [kind : Kinds, uid : Uids]

ASSUME LogAssumption == Log \in [Partitions -> Seq(Messages)]
ASSUME RetryAssumption == RetryCount \in Nat \ {0}
ASSUME BoundAssumption ==
  {MaxFaults, MaxExpiries, MaxCrashes, MaxTakeovers, MaxStops} \subseteq Nat
ASSUME NobodyAssumption ==
  /\ Nobody \notin Consumers
  /\ NoMessage \notin Partitions \X Nat

VARIABLES
  produced,   \* produced[p]: messages of Log[p] already in the topic
  committed,  \* committed[p]: the group's committed offset
  owner,      \* owner[p]: the member the coordinator assigned p to
  position,   \* position[p]: next offset the owner's ReadMessage returns
  stored,     \* stored[p]: the owner's stored offset
  pc,         \* pc[c]: where the goroutine that runs Start is
  cur,        \* cur[c]: <<partition, offset>> of kafkaMsg
  attempt,    \* attempt[c]: i of CreateOrder's loop
  ctxDone,    \* ctxDone[c]: the handler's context has expired
  phase,      \* phase[c]: progress of Stop; c.stop is phase # "running"
  db,         \* uids of the orders in the database
  handled,    \* history: handled[p], offsets HandleMessage returned from
  abandoned,  \* history: valid messages CreateOrder gave up on
  used        \* how much of each bound has been spent

topicVars == <<produced>>
groupVars == <<committed, owner, position, stored>>
loopVars == <<pc, cur, attempt, ctxDone>>
historyVars == <<handled, abandoned>>
vars == <<produced, committed, owner, position, stored, pc, cur, attempt,
          ctxDone, phase, db, handled, abandoned, used>>

Bounds == [faults |-> MaxFaults, expiries |-> MaxExpiries,
           crashes |-> MaxCrashes, takeovers |-> MaxTakeovers,
           stops |-> MaxStops]

BoundNames == {"faults", "expiries", "crashes", "takeovers", "stops"}

Spend(b) ==
  /\ used[b] < Bounds[b]
  /\ used' = [used EXCEPT ![b] = @ + 1]

MessageAt(m) == Log[m[1]][m[2] + 1]
Stopping(c) == phase[c] # "running"

PcStates == {"down", "check", "read", "handle", "attempt", "save", "store",
             "exited"}
Phases == {"running", "committing", "closing", "closed", "failed"}

(* The states in which c is inside HandleMessage. *)
Handling == {"handle", "attempt", "save"}

TypeOK ==
  /\ produced \in [Partitions -> Nat]
  /\ \A p \in Partitions : produced[p] <= Len(Log[p])
  /\ committed \in [Partitions -> Nat]
  /\ owner \in [Partitions -> Consumers \cup {Nobody}]
  /\ position \in [Partitions -> Nat]
  /\ stored \in [Partitions -> Nat]
  /\ pc \in [Consumers -> PcStates]
  /\ cur \in [Consumers -> (Partitions \X Nat) \cup {NoMessage}]
  /\ attempt \in [Consumers -> 0 .. RetryCount]
  /\ ctxDone \in [Consumers -> BOOLEAN]
  /\ phase \in [Consumers -> Phases]
  /\ db \subseteq Uids
  /\ handled \in [Partitions -> SUBSET Nat]
  /\ abandoned \subseteq Partitions \X Nat
  /\ used \in [BoundNames -> Nat]

Init ==
  /\ produced = [p \in Partitions |-> 0]
  /\ committed = [p \in Partitions |-> 0]
  /\ owner = [p \in Partitions |-> Nobody]
  /\ position = [p \in Partitions |-> 0]
  /\ stored = [p \in Partitions |-> 0]
  /\ pc = [c \in Consumers |-> "down"]
  /\ cur = [c \in Consumers |-> NoMessage]
  /\ attempt = [c \in Consumers |-> 0]
  /\ ctxDone = [c \in Consumers |-> FALSE]
  /\ phase = [c \in Consumers |-> "running"]
  /\ db = {}
  /\ handled = [p \in Partitions |-> {}]
  /\ abandoned = {}
  /\ used = [b \in BoundNames |-> 0]

---------------------------------------------------------------------------
(* The topic and the group coordinator.                                     *)

Produce(p) ==
  /\ produced[p] < Len(Log[p])
  /\ produced' = [produced EXCEPT ![p] = @ + 1]
  /\ UNCHANGED <<groupVars, loopVars, phase, db, historyVars, used>>

(* A process starts: NewConsumer subscribes, Run starts the loop. *)
Join(c) ==
  /\ pc[c] = "down"
  /\ pc' = [pc EXCEPT ![c] = "check"]
  /\ phase' = [phase EXCEPT ![c] = "running"]
  /\ UNCHANGED <<topicVars, groupVars, cur, attempt, ctxDone, db,
                 historyVars, used>>

(* Subscribe is called without a rebalance callback: an assignment takes     *)
(* effect inside ReadMessage.  The member p is taken from may be anywhere,   *)
(* for its session can expire while it is inside the handler.                *)
Assign(c, p) ==
  /\ pc[c] = "read"
  /\ phase[c] # "closed"
  /\ owner[p] # c
  /\ \/ owner[p] = Nobody /\ UNCHANGED used
     \/ owner[p] # Nobody /\ Spend("takeovers")
  /\ owner' = [owner EXCEPT ![p] = c]
  /\ position' = [position EXCEPT ![p] = committed[p]]
  /\ stored' = [stored EXCEPT ![p] = 0]
  /\ UNCHANGED <<topicVars, committed, loopVars, phase, db, historyVars>>

(* The background commit of a stored offset (enable.auto.commit). *)
AutoCommit(p) ==
  /\ stored[p] > committed[p]
  /\ committed' = [committed EXCEPT ![p] = stored[p]]
  /\ UNCHANGED <<topicVars, owner, position, stored, loopVars, phase, db,
                 historyVars, used>>

Release(c) ==
  /\ owner' = [p \in Partitions |->
                 IF owner[p] = c THEN Nobody ELSE owner[p]]
  /\ stored' = [p \in Partitions |->
                  IF owner[p] = c THEN 0 ELSE stored[p]]
  /\ position' = [p \in Partitions |->
                    IF owner[p] = c THEN 0 ELSE position[p]]

CommitStored(c) ==
  committed' = [p \in Partitions |->
                  IF owner[p] = c /\ stored[p] > committed[p]
                  THEN stored[p] ELSE committed[p]]

---------------------------------------------------------------------------
(* Consumer.Start.                                                          *)

(* c.stop is written by another goroutine without synchronisation: the loop  *)
(* may still read false after Stop has set it.                               *)
CheckStop(c) ==
  /\ pc[c] = "check"
  /\ \/ pc' = [pc EXCEPT ![c] = "read"]
     \/ Stopping(c) /\ pc' = [pc EXCEPT ![c] = "exited"]
  /\ UNCHANGED <<topicVars, groupVars, cur, attempt, ctxDone, phase, db,
                 historyVars, used>>

(* Seeded bug: enable.auto.offset.store is left on. *)
ReadAndStore(c, p) ==
  /\ pc[c] = "read"
  /\ owner[p] = c
  /\ position[p] < produced[p]
  /\ cur' = [cur EXCEPT ![c] = <<p, position[p]>>]
  /\ position' = [position EXCEPT ![p] = @ + 1]
  /\ stored' = [stored EXCEPT ![p] = position[p] + 1]
  /\ pc' = [pc EXCEPT ![c] = "handle"]
  /\ UNCHANGED <<topicVars, committed, owner, attempt, ctxDone, phase, db,
                 historyVars, used>>

(* A message read, with or without an error beside it: the error is logged,  *)
(* and the message is handled all the same.                                  *)
ReadMessage(c, p) ==
  /\ pc[c] = "read"
  /\ owner[p] = c
  /\ position[p] < produced[p]
  /\ cur' = [cur EXCEPT ![c] = <<p, position[p]>>]
  /\ position' = [position EXCEPT ![p] = @ + 1]
  /\ pc' = [pc EXCEPT ![c] = "handle"]
  /\ UNCHANGED <<topicVars, committed, owner, stored, attempt, ctxDone,
                 phase, db, historyVars, used>>

(* Seeded bug: a message that comes with an error is dropped. *)
ReadErrorDrops(c) ==
  /\ pc[c] = "read"
  /\ \E p \in Partitions :
       /\ owner[p] = c
       /\ position[p] < produced[p]
       /\ position' = [position EXCEPT ![p] = @ + 1]
  /\ pc' = [pc EXCEPT ![c] = "check"]
  /\ UNCHANGED <<topicVars, committed, owner, stored, cur, attempt, ctxDone,
                 phase, db, historyVars, used>>

(* ReadMessage reports an error and no message: the loop goes round. *)
ReadError(c) ==
  /\ pc[c] = "read"
  /\ pc' = [pc EXCEPT ![c] = "check"]
  /\ UNCHANGED <<topicVars, groupVars, cur, attempt, ctxDone, phase, db,
                 historyVars, used>>

(* HandleMessage returned, and its locals are gone: nil leads to StoreMessage, *)
(* an error sends the loop round without storing.                            *)
Returned(c, err) ==
  /\ pc' = [pc EXCEPT ![c] = IF err THEN "check" ELSE "store"]
  /\ cur' = [cur EXCEPT ![c] = IF err THEN NoMessage ELSE @]
  /\ handled' = [handled EXCEPT ![cur[c][1]] = @ \cup {cur[c][2]}]
  /\ attempt' = [attempt EXCEPT ![c] = 0]
  /\ ctxDone' = [ctxDone EXCEPT ![c] = FALSE]

StoreMessage(c) ==
  /\ pc[c] = "store"
  /\ LET p == cur[c][1] IN
       IF owner[p] = c
       THEN stored' = [stored EXCEPT ![p] = cur[c][2] + 1]
       ELSE UNCHANGED stored     \* the error is logged
  /\ pc' = [pc EXCEPT ![c] = "check"]
  /\ cur' = [cur EXCEPT ![c] = NoMessage]
  /\ UNCHANGED <<topicVars, committed, owner, position, attempt, ctxDone,
                 phase, db, historyVars, used>>

---------------------------------------------------------------------------
(* KafkaHandler.HandleMessage and OrderUsecase.CreateOrder.                 *)

(* A message that is not JSON is reported as handled. *)
ParseFailure(c) ==
  /\ pc[c] = "handle"
  /\ MessageAt(cur[c]).kind = "malformed"
  /\ Returned(c, FALSE)
  /\ UNCHANGED <<topicVars, groupVars, phase, db, abandoned, used>>

ValidationFailure(c) ==
  /\ pc[c] = "handle"
  /\ MessageAt(cur[c]).kind = "invalid"
  /\ Returned(c, TRUE)
  /\ UNCHANGED <<topicVars, groupVars, phase, db, abandoned, used>>

CreateOrder(c) ==
  /\ pc[c] = "handle"
  /\ MessageAt(cur[c]).kind = "valid"
  /\ pc' = [pc EXCEPT ![c] = "attempt"]
  /\ UNCHANGED <<topicVars, groupVars, cur, attempt, ctxDone, phase, db,
                 historyVars, used>>

(* The handler's 30 s are over. *)
Expire(c) ==
  /\ pc[c] \in {"attempt", "save"}
  /\ ~ctxDone[c]
  /\ Spend("expiries")
  /\ ctxDone' = [ctxDone EXCEPT ![c] = TRUE]
  /\ UNCHANGED <<topicVars, groupVars, pc, cur, attempt, phase, db,
                 historyVars>>

(* Seeded bugs: one attempt too many, one too few. *)
OneTooMany(c) == attempt[c] <= RetryCount
OneTooFew(c) == attempt[c] + 1 < RetryCount

MoreAttempts(c) == attempt[c] < RetryCount

SaveOrder(c) ==
  /\ pc[c] = "attempt"
  /\ MoreAttempts(c)
  /\ ~ctxDone[c]
  /\ pc' = [pc EXCEPT ![c] = "save"]
  /\ UNCHANGED <<topicVars, groupVars, cur, attempt, ctxDone, phase, db,
                 historyVars, used>>

(* The order is in the database, or was there already: both are nil. *)
SaveOk(c) ==
  /\ pc[c] = "save"
  /\ db' = db \cup {MessageAt(cur[c]).uid}
  /\ Returned(c, FALSE)
  /\ UNCHANGED <<topicVars, groupVars, phase, abandoned, used>>

(* Seeded bug: the error of SaveOrder is logged and nil is returned. *)
SaveFailIgnored(c) ==
  /\ pc[c] = "save"
  /\ Spend("faults")
  /\ Returned(c, FALSE)
  /\ UNCHANGED <<topicVars, groupVars, phase, db, abandoned>>

(* SaveOrder reports an error; the commit may have reached the database.     *)
(* The back-off sleep follows every failure, the last one included.          *)
SaveFail(c) ==
  /\ pc[c] = "save"
  /\ IF ctxDone[c] THEN UNCHANGED used ELSE Spend("faults")
  /\ db' \in {db, db \cup {MessageAt(cur[c]).uid}}
  /\ attempt' = [attempt EXCEPT ![c] = @ + 1]
  /\ pc' = [pc EXCEPT ![c] = "attempt"]
  /\ UNCHANGED <<topicVars, groupVars, cur, ctxDone, phase, historyVars>>

(* The retries are used up, or the context is done: the error reaches Start, *)
(* which logs it and goes on with the next message.                          *)
GiveUp(c) ==
  /\ pc[c] = "attempt"
  /\ ~MoreAttempts(c) \/ ctxDone[c]
  /\ abandoned' = abandoned \cup {cur[c]}
  /\ Returned(c, TRUE)
  /\ UNCHANGED <<topicVars, groupVars, phase, db, used>>

---------------------------------------------------------------------------
(* Consumer.Stop, run by another goroutine while the loop is anywhere.      *)

StopBegin(c) ==
  /\ pc[c] # "down"
  /\ phase[c] = "running"
  /\ Spend("stops")
  /\ phase' = [phase EXCEPT ![c] = "committing"]
  /\ UNCHANGED <<topicVars, groupVars, loopVars, db, historyVars>>

(* Seeded bug: Stop commits the message in hand, CommitMessage(kafkaMsg). *)
StopCommitCurrent(c) ==
  /\ phase[c] = "committing"
  /\ committed' =
       IF cur[c] = NoMessage THEN committed
       ELSE [committed EXCEPT ![cur[c][1]] = cur[c][2] + 1]
  /\ phase' = [phase EXCEPT ![c] = "closing"]
  /\ UNCHANGED <<topicVars, owner, position, stored, loopVars, db,
                 historyVars, used>>

StopCommit(c) ==
  /\ phase[c] = "committing"
  /\ CommitStored(c)
  /\ phase' = [phase EXCEPT ![c] = "closing"]
  /\ UNCHANGED <<topicVars, owner, position, stored, loopVars, db,
                 historyVars, used>>

(* Commit also fails when there is nothing to commit; Close is skipped. *)
StopCommitFail(c) ==
  /\ phase[c] = "committing"
  /\ phase' = [phase EXCEPT ![c] = "failed"]
  /\ UNCHANGED <<topicVars, groupVars, loopVars, db, historyVars, used>>

(* Close commits what is stored and leaves the group. *)
StopClose(c) ==
  /\ phase[c] = "closing"
  /\ CommitStored(c)
  /\ Release(c)
  /\ phase' = [phase EXCEPT ![c] = "closed"]
  /\ UNCHANGED <<topicVars, loopVars, db, historyVars, used>>

Vanish(c) ==
  /\ pc' = [pc EXCEPT ![c] = "down"]
  /\ phase' = [phase EXCEPT ![c] = "running"]
  /\ cur' = [cur EXCEPT ![c] = NoMessage]
  /\ Release(c)
  /\ attempt' = [attempt EXCEPT ![c] = 0]
  /\ ctxDone' = [ctxDone EXCEPT ![c] = FALSE]
  /\ UNCHANGED <<topicVars, committed, db, historyVars>>

(* Run returns once every shutdown goroutine is done, or after 5 s,          *)
(* wherever the loop and Stop are.                                           *)
Exit(c) ==
  /\ Stopping(c)
  /\ Vanish(c)
  /\ UNCHANGED used

Crash(c) ==
  /\ pc[c] # "down"
  /\ ~Stopping(c)
  /\ Spend("crashes")
  /\ Vanish(c)

---------------------------------------------------------------------------

Loop(c) ==
  \/ CheckStop(c)
  \/ ReadError(c)
  \/ \E p \in Partitions : ReadMessage(c, p)
  \/ ParseFailure(c) \/ ValidationFailure(c) \/ CreateOrder(c)
  \/ SaveOrder(c) \/ SaveOk(c) \/ SaveFail(c) \/ GiveUp(c)
  \/ StoreMessage(c)

Stop(c) ==
  StopBegin(c) \/ StopCommit(c) \/ StopCommitFail(c) \/ StopClose(c)

Next ==
  \/ \E p \in Partitions : Produce(p) \/ AutoCommit(p)
  \/ \E c \in Consumers : \E p \in Partitions : Assign(c, p)
  \/ \E c \in Consumers :
       Join(c) \/ Loop(c) \/ Expire(c) \/ Stop(c) \/ Exit(c) \/ Crash(c)

Spec == Init /\ [][Next]_vars

---------------------------------------------------------------------------
(* Safety.                                                                  *)

Committed(p) == 0 .. committed[p] - 1
ValidAt(m) == MessageAt(m).kind = "valid"
Saved(m) == MessageAt(m).uid \in db

(* The committed offset of a partition never passes a message that no       *)
(* process has taken through HandleMessage, for a message skipped that way  *)
(* is delivered to nobody (consumer.go: offsets are stored after the        *)
(* handler, and committed only once stored).                                *)
CommittedHandled == \A p \in Partitions : Committed(p) \subseteq handled[p]

(* An order below the committed offset that is missing from the database    *)
(* was given up by CreateOrder; crashes, fenced members, ambiguous commits  *)
(* and a Stop in the middle of a handler lose none.                         *)
LossOnlyByGivingUp ==
  \A p \in Partitions : \A o \in Committed(p) :
    ValidAt(<<p, o>>) => Saved(<<p, o>>) \/ <<p, o>> \in abandoned

(* While fewer saves have failed than CreateOrder retries, and no handler   *)
(* ran into its 30 s, every committed order is in the database, wherever    *)
(* the failures fell and whoever handled the messages.                      *)
NoLossWithinBudget ==
  used.expiries = 0 /\ used.faults < RetryCount =>
    \A p \in Partitions : \A o \in Committed(p) :
      ValidAt(<<p, o>>) => Saved(<<p, o>>)

---------------------------------------------------------------------------
(* What makes the above inductive.                                          *)

Busy(c) == pc[c] \in Handling \cup {"store"}

(* A busy consumer holds a message of the topic, and may try again only     *)
(* while it has attempts left.                                              *)
CurrentMessage ==
  \A c \in Consumers :
    /\ Busy(c) => /\ cur[c] \in Partitions \X Nat
                  /\ cur[c][2] < produced[cur[c][1]]
    /\ pc[c] = "save" => MoreAttempts(c)

(* What the owner has read of its partition is handled, but for the message *)
(* it is handling now.                                                      *)
PositionCovered ==
  \A p \in Partitions : owner[p] # Nobody =>
    \A o \in 0 .. position[p] - 1 :
      \/ o \in handled[p]
      \/ pc[owner[p]] \in Handling /\ cur[owner[p]] = <<p, o>>

(* A message being handled is the last one its owner read.                  *)
LastRead ==
  \A c \in Consumers : \A p \in Partitions :
    Busy(c) /\ owner[p] = c /\ cur[c][1] = p => position[p] = cur[c][2] + 1

HandledBeforeStore ==
  \A c \in Consumers : pc[c] = "store" => cur[c][2] \in handled[cur[c][1]]

StoredHandled ==
  \A p \in Partitions : 0 .. stored[p] - 1 \subseteq handled[p]

HandledProduced ==
  \A p \in Partitions : handled[p] \subseteq 0 .. produced[p] - 1

OffsetInv ==
  /\ CurrentMessage
  /\ PositionCovered
  /\ LastRead
  /\ HandledBeforeStore
  /\ StoredHandled
  /\ HandledProduced
  /\ CommittedHandled

(* Every valid message handled so far is saved or was given up.             *)
HandledSavedOrAbandoned ==
  \A p \in Partitions : \A o \in handled[p] :
    ValidAt(<<p, o>>) => Saved(<<p, o>>) \/ <<p, o>> \in abandoned

(* No consumer has failed more often than saves have failed in all, so none *)
(* gives up within the budget.                                              *)
BudgetInv ==
  used.expiries = 0 =>
    /\ \A c \in Consumers : ~ctxDone[c] /\ attempt[c] <= used.faults
    /\ used.faults < RetryCount => abandoned = {}

(* The strengthening the proofs use, checked by TLC first.                  *)
IInv == TypeOK /\ OffsetInv /\ HandledSavedOrAbandoned /\ BudgetInv

---------------------------------------------------------------------------
Delivery == INSTANCE AtLeastOnce WITH frontier <- committed

(* The consumer group keeps the promise of at-least-once delivery, with the *)
(* committed offset as its frontier: it covers handled messages only and    *)
(* never moves back, whoever owns the partition.                            *)
ImplementsDelivery == Delivery!Spec

---------------------------------------------------------------------------
(* Fairness.  A process that died is started again (docker-compose.yml,      *)
(* restart: on-failure); the coordinator assigns an unowned partition to a   *)
(* member that is polling; the goroutine of Start runs while its call        *)
(* returns.  A poll that reports an error, and a member that loses its       *)
(* session, do not keep ReadMessage from returning for ever.                 *)
Fairness ==
  /\ \A c \in Consumers :
       /\ WF_vars(Join(c))
       /\ WF_vars(CheckStop(c))
       /\ WF_vars(ParseFailure(c) \/ ValidationFailure(c) \/ CreateOrder(c))
       /\ WF_vars(SaveOrder(c) \/ GiveUp(c))
       /\ WF_vars(SaveOk(c) \/ SaveFail(c))
       /\ WF_vars(StoreMessage(c))
  /\ \A p \in Partitions :
       /\ SF_vars(\E c \in Consumers : Assign(c, p) /\ owner[p] = Nobody)
       /\ \A c \in Consumers : SF_vars(ReadMessage(c, p))

FairSpec == Spec /\ Fairness

(* Every message of the topic is eventually taken through the handler, by   *)
(* one process or another.                                                  *)
EveryMessageHandled ==
  \A p \in Partitions : \A o \in 0 .. Len(Log[p]) - 1 :
    (o < produced[p]) ~> (o \in handled[p])

(* While the failures stay within the retries of a single message, every    *)
(* valid order that reaches the topic reaches the database.                 *)
EveryOrderSaved ==
  [](used.expiries = 0 /\ used.faults < RetryCount) =>
    \A p \in Partitions : \A o \in 0 .. Len(Log[p]) - 1 :
      ValidAt(<<p, o>>) => ((o < produced[p]) ~> Saved(<<p, o>>))
============================================================================
