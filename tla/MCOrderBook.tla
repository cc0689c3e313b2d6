---------------------------- MODULE MCOrderBook ----------------------------
(* Symmetry of the constants of OrderBook for TLC.                         *)
EXTENDS OrderBook, TLC

Alike == Permutations(Buyers)

=============================================================================
