---------------------------- MODULE MCOrderStore ----------------------------
(* Orders that share items in opposite orders, and one that names another's  *)
(* uid as its transaction.                                                   *)
EXTENDS OrderStore

CONSTANTS u1, u2, i1, i2

A == [uid |-> u1, transaction |-> u1, items |-> <<i1, i2>>]
B == [uid |-> u2, transaction |-> u2, items |-> <<i2, i1>>]
C == [uid |-> u2, transaction |-> u1, items |-> <<i2, i2>>]

MCUids == {u1, u2}
MCItems == {i1, i2}
AllOrders == {A, B, C}
=============================================================================
