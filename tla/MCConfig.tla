------------------------------ MODULE MCConfig ------------------------------
(* Instances of Config for TLC. *)
EXTENDS Config

MCReadable == {-1, 0, 1, 2}
=============================================================================
