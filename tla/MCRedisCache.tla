---------------------------- MODULE MCRedisCache ----------------------------
(* Instances of RedisCache for TLC. *)
EXTENDS RedisCache, TLC

Symmetry == Permutations(Clients)
=============================================================================
