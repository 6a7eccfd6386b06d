--------------------------- MODULE MCWarmedCache ---------------------------
(* Instances of WarmedCache for TLC: a larger uid is a newer order, except   *)
(* for the first two.                                                        *)
EXTENDS WarmedCache

MCDate == [u \in Uids |-> IF u = 1 THEN 2 ELSE IF u = 2 THEN 1 ELSE u]

(* What is stored and what was left in Redis: a member that is neither       *)
(* stored nor has a key, and a key without a member; a member that has its   *)
(* key, with room for all that is stored or not; more members than the       *)
(* capacity, one of them without a key.                                      *)
MCStarts ==
  {[stored |-> {1}, members |-> {2}, keys |-> {3}],
   [stored |-> {1, 2}, members |-> {2}, keys |-> {2}],
   [stored |-> {1, 2, 3}, members |-> {2}, keys |-> {2}],
   [stored |-> {1, 2, 3}, members |-> {1, 2, 3}, keys |-> {1, 2}]}

MCInit ==
  /\ WarmInit
  /\ \E s \in MCStarts :
       stored = s.stored /\ Members = s.members /\ DataKeys = s.keys

MCFairSpec == MCInit /\ [][WarmNext]_allVars /\ WF_allVars(WarmUp)
=============================================================================
