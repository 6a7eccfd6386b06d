---------------------------- MODULE MCCachedRepo ----------------------------
(* Instances of CachedRepo for TLC: a content that is read back as it was    *)
(* saved, and one with another order's transaction and items.                *)
EXTENDS CachedRepo, TLC

CONSTANTS plain, odd

MCOrders == {plain, odd}
MCJoined == {plain}
MCApart == {plain}

Symmetry == Permutations(Callers)
=============================================================================
