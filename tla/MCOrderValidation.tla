------------------------- MODULE MCOrderValidation -------------------------
(* Instances of OrderValidation for TLC. *)
EXTENDS OrderValidation
=============================================================================
