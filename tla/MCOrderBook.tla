----------------------------- MODULE MCOrderBook -----------------------------
(* Order ids are interchangeable: no operator compares two of them but for  *)
(* equality.                                                                *)
EXTENDS OrderBook

Symmetry == I!Permutations(Ids)
=============================================================================
