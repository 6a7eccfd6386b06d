---------------------------- MODULE MCSharedItems ----------------------------
(* Instances of SharedItems for TLC: a and b share item 1, which b has       *)
(* twice, with different columns; d shares nothing.                          *)
EXTENDS SharedItems, TLC

CONSTANTS a, b, d, w1, w2

MCWriters == {w1, w2}
Sym == Permutations(MCWriters)

It(i, v) == [chrt |-> i, columns |-> v]
MCOrders == {
  [uid |-> a, items |-> <<It(1, "old"), It(2, "old")>>],
  [uid |-> b, items |-> <<It(1, "old"), It(1, "new")>>],
  [uid |-> d, items |-> <<It(3, "old"), It(4, "old")>>] }
=============================================================================
