---------------------------- MODULE AtLeastOnce ----------------------------
(* What the consumer group promises the orders topic, whatever happens to    *)
(* its members: a message is handled only after it was produced, and the     *)
(* offset the group has committed for a partition never passes a message     *)
(* nobody has handled.  It never moves back either, so no handled message    *)
(* below it is delivered again.                                              *)
EXTENDS Naturals

CONSTANTS Partitions

VARIABLES
  produced,   \* produced[p]: number of messages in partition p
  handled,    \* handled[p]: offsets for which HandleMessage has returned
  frontier    \* frontier[p]: the group resumes partition p at this offset

vars == <<produced, handled, frontier>>

Init ==
  /\ produced = [p \in Partitions |-> 0]
  /\ handled = [p \in Partitions |-> {}]
  /\ frontier = [p \in Partitions |-> 0]

Produce(p) ==
  /\ produced' = [produced EXCEPT ![p] = @ + 1]
  /\ UNCHANGED <<handled, frontier>>

Handle(p, o) ==
  /\ o < produced[p]
  /\ handled' = [handled EXCEPT ![p] = @ \cup {o}]
  /\ UNCHANGED <<produced, frontier>>

(* One commit request may move the frontier of several partitions. *)
Advance ==
  /\ frontier' \in [Partitions -> Nat]
  /\ \A p \in Partitions :
       /\ frontier'[p] >= frontier[p]
       /\ \A o \in 0 .. frontier'[p] - 1 : o \in handled[p]
  /\ UNCHANGED <<produced, handled>>

Next ==
  \/ \E p \in Partitions : Produce(p)
  \/ \E p \in Partitions : \E o \in 0 .. produced[p] - 1 : Handle(p, o)
  \/ Advance

Spec == Init /\ [][Next]_vars
============================================================================
