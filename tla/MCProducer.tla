----------------------------- MODULE MCProducer -----------------------------
(* Instances of Producer for TLC. *)
EXTENDS Producer
=============================================================================
