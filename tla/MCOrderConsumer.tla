-------------------------- MODULE MCOrderConsumer --------------------------
(* Instances of OrderConsumer for TLC. *)
EXTENDS OrderConsumer, TLC

CONSTANTS c1, c2, p1, p2, a, b

Valid(u) == [kind |-> "valid", uid |-> u]
Invalid(u) == [kind |-> "invalid", uid |-> u]
Malformed(u) == [kind |-> "malformed", uid |-> u]

(* A good order, and a rejected one before another good one. *)
MCLogSingle == p1 :> <<Valid(a), Invalid(b), Valid(b)>>

(* One order produced twice, in different partitions, once before an         *)
(* unreadable message, which moves the offset past it.                       *)
MCLogPair == (p1 :> <<Valid(a), Malformed(a)>>) @@ (p2 :> <<Valid(a)>>)

Symmetry == Permutations(Consumers)
============================================================================
