----------------------------- MODULE MCService -----------------------------
(* Instances of Service for TLC. *)
EXTENDS Service

MCDelay == [i \in 0 .. RetryCount - 1 |-> 2 ^ i]
=============================================================================
