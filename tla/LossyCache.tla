----------------------------- MODULE LossyCache -----------------------------
(* What the order cache promises CachedRepo: a key holds what some SaveOrder *)
(* on its way wrote there, and any set of keys may vanish at any moment.  A  *)
(* write may be done more than once before its SaveOrder goes on.            *)
CONSTANTS Clients, Uids, Orders, NoOrder, NoWrite

VARIABLES
  cache,    \* cache[u]: the content a reader finds
  writing   \* writing[c]: the <<uid, content>> client c is about to write

vars == <<cache, writing>>

Init ==
  /\ cache = [u \in Uids |-> NoOrder]
  /\ writing = [c \in Clients |-> NoWrite]

Begin(c, u, v) ==
  /\ writing[c] = NoWrite
  /\ writing' = [writing EXCEPT ![c] = <<u, v>>]
  /\ UNCHANGED cache

Put(c) ==
  /\ writing[c] # NoWrite
  /\ cache' = [cache EXCEPT ![writing[c][1]] = writing[c][2]]
  /\ \/ writing' = [writing EXCEPT ![c] = NoWrite]
     \/ UNCHANGED writing

Abandon(c) ==
  /\ writing[c] # NoWrite
  /\ writing' = [writing EXCEPT ![c] = NoWrite]
  /\ UNCHANGED cache

(* The process dies with every write under way. *)
Crash ==
  /\ writing' = [c \in Clients |-> NoWrite]
  /\ UNCHANGED cache

Drop(S) ==
  /\ cache' = [u \in Uids |-> IF u \in S THEN NoOrder ELSE cache[u]]
  /\ UNCHANGED writing

Next ==
  \/ \E c \in Clients :
       \/ \E u \in Uids, v \in Orders : Begin(c, u, v)
       \/ Put(c) \/ Abandon(c)
  \/ Crash
  \/ \E S \in SUBSET Uids : Drop(S)

Spec == Init /\ [][Next]_vars
=============================================================================
