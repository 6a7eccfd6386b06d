------------------------------ MODULE Producer ------------------------------
(* The script that fills the topic (cmd/KafkaProducer/main.go) and           *)
(* Producer.Produce (delivery/kafka/producer.go): a semaphore of Workers     *)
(* tokens, one goroutine per order, each of which waits for the delivery     *)
(* report of its message.  librdkafka and the brokers are external: a        *)
(* message is refused, delivered, lost, or sent again by librdkafka because  *)
(* an acknowledgement was lost, and the report may say otherwise.            *)
EXTENDS Naturals, FiniteSets

CONSTANTS
  Workers,     \* size of the semaphore
  AmountTask,  \* orders to create
  FirstId,     \* the 500000000 the ids are counted from
  MaxFaults    \* bound: messages refused, lost, sent again or misreported

ASSUME ProducerAssumption ==
  Workers \in Nat \ {0} /\ AmountTask \in Nat /\ FirstId \in Nat

Tasks == 1 .. AmountTask
Ids == FirstId + 1 .. FirstId + AmountTask + 1

VARIABLES
  i,         \* the loop variable
  sem,       \* tokens in the channel
  task,      \* task[t]: what the goroutine of iteration t does next
  id,        \* id[t]: the order it created, 0 before
  topic,     \* topic[o]: how often order o is in the topic
  reported,  \* iterations whose error was printed
  main,      \* the main goroutine: "loop", "wait" or "end"
  faults

vars == <<i, sem, task, id, topic, reported, main, faults>>

States == {"none", "create", "send", "queued", "release", "finish", "done"}

(* The goroutines that hold a token. *)
Busy == {t \in Tasks : task[t] \in {"create", "send", "queued", "release"}}

TypeOK ==
  /\ i \in 1 .. AmountTask + 1
  /\ sem \in 0 .. Workers
  /\ task \in [Tasks -> States]
  /\ id \in [Tasks -> Ids \cup {0}]
  /\ topic \in [Ids -> Nat]
  /\ reported \subseteq Tasks
  /\ main \in {"loop", "wait", "end"}
  /\ faults \in Nat

Init ==
  /\ i = 1 /\ sem = Workers
  /\ task = [t \in Tasks |-> "none"]
  /\ id = [t \in Tasks |-> 0]
  /\ topic = [o \in Ids |-> 0]
  /\ reported = {} /\ main = "loop" /\ faults = 0

Goto(t, from, to) == task[t] = from /\ task' = [task EXCEPT ![t] = to]

Fault == faults < MaxFaults /\ faults' = faults + 1

---------------------------------------------------------------------------

(* The loop takes a token and starts a goroutine. *)
Acquire ==
  /\ main = "loop" /\ i <= AmountTask /\ sem > 0
  /\ sem' = sem - 1
  /\ task' = [task EXCEPT ![i] = "create"]
  /\ i' = i + 1
  /\ UNCHANGED <<id, topic, reported, main, faults>>

(* CreateTestOrder(500000000 + i): i is the iteration's own. *)
Create(t) ==
  /\ Goto(t, "create", "send")
  /\ id' = [id EXCEPT ![t] = FirstId + t]
  /\ UNCHANGED <<i, sem, topic, reported, main, faults>>

(* The message is queued in librdkafka, or refused and the error printed. *)
Send(t) ==
  /\ \/ Goto(t, "send", "queued") /\ UNCHANGED <<reported, faults>>
     \/ Goto(t, "send", "release") /\ Fault /\ reported' = reported \cup {t}
  /\ UNCHANGED <<i, sem, id, topic, main>>

(* The delivery report is a *kafka.Message whose TopicPartition.Error says   *)
(* whether the message was delivered; Produce returns nil for either.  With  *)
(* a fault the message is not in the topic, is there although the report     *)
(* says that it failed, or is there twice.                                   *)
Report(t) ==
  /\ Goto(t, "queued", "release")
  /\ \/ topic' = [topic EXCEPT ![id[t]] = @ + 1] /\ UNCHANGED faults
     \/ \E n \in 0 .. 2 : Fault /\ topic' = [topic EXCEPT ![id[t]] = @ + n]
  /\ UNCHANGED <<i, sem, id, reported, main>>

(* Seeded bug: a goroutine that has printed an error keeps its token. *)
ReleaseOnSuccess(t) ==
  /\ Goto(t, "release", "finish")
  /\ sem' = IF t \in reported THEN sem ELSE sem + 1
  /\ UNCHANGED <<i, id, topic, reported, main, faults>>

(* Deferred: the token goes back, then wg.Done. *)
Release(t) ==
  /\ Goto(t, "release", "finish")
  /\ sem' = sem + 1
  /\ UNCHANGED <<i, id, topic, reported, main, faults>>

Done(t) ==
  /\ Goto(t, "finish", "done")
  /\ UNCHANGED <<i, sem, id, topic, reported, main, faults>>

(* Seeded bug: the process ends when the last goroutine is started. *)
WaitForNone ==
  /\ \/ main = "loop" /\ i > AmountTask /\ main' = "wait"
     \/ main = "wait" /\ main' = "end"
  /\ UNCHANGED <<i, sem, task, id, topic, reported, faults>>

(* wg.Wait, and the process ends: what is queued then is never sent, for     *)
(* nobody calls Close, which would flush it.                                 *)
Wait ==
  /\ \/ main = "loop" /\ i > AmountTask /\ main' = "wait"
     \/ main = "wait" /\ (\A t \in Tasks : task[t] = "done") /\ main' = "end"
  /\ UNCHANGED <<i, sem, task, id, topic, reported, faults>>

Work(t) ==
  main # "end" /\ (Create(t) \/ Send(t) \/ Report(t) \/ Release(t) \/ Done(t))

Next == Acquire \/ Wait \/ \E t \in Tasks : Work(t)

Spec == Init /\ [][Next]_vars

(* Every goroutine runs, and librdkafka reports on every message at the      *)
(* latest when its timeout is over.                                          *)
FairSpec ==
  Spec /\ WF_vars(Acquire) /\ WF_vars(Wait)
       /\ \A t \in Tasks : WF_vars(Work(t))

---------------------------------------------------------------------------
(* Properties.                                                               *)

(* No token is lost or made, whatever a goroutine ends with: there are as    *)
(* many orders under way as tokens are missing, and never more than Workers  *)
(* (main.go:34-49).                                                          *)
SlotsConserved == sem + Cardinality(Busy) = Workers

(* The orders whose message is not in the topic exactly once although their  *)
(* goroutine is through with it.                                             *)
Amiss == {t \in Tasks : /\ task[t] \in {"release", "finish", "done"}
                        /\ topic[FirstId + t] # 1}

(* When the script has ended the topic holds every order of the range        *)
(* exactly once, but for at most one order per fault, and no other order:    *)
(* the loop, the semaphore and the end of the process lose or double none    *)
(* (main.go:43-65).                                                          *)
EachOrderOnce ==
  main = "end" =>
    /\ \A t \in Tasks \ Amiss : topic[FirstId + t] = 1
    /\ Cardinality(Amiss) <= faults
    /\ topic[FirstId + AmountTask + 1] = 0

(* The script ends, whatever fails. *)
ProducerEnds == <>(main = "end")

(* Said but not so: an order that is not in the topic is one whose error was *)
(* printed (producer.go:46, main.go:59).                                     *)
LossesReported ==
  main = "end" => \A t \in Tasks : topic[FirstId + t] = 0 => t \in reported

(* Said but not so: the script creates the orders 1 to 95, in hexadecimal    *)
(* (README.md:9).                                                            *)
DocumentedRange == \A o \in Ids : topic[o] > 0 => o \in 1 .. 149
=============================================================================
