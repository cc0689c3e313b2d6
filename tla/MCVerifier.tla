----------------------------- MODULE MCVerifier ------------------------------
(* Taps and OrderBook for TLC: two parts of the verifier's database, the   *)
(* use of the URLs of a chip and the sales on one Order PDA.  The modules  *)
(* share no state: a behaviour takes steps of one of them only.            *)
EXTENDS Taps, OrderBook, TLC

Alike == Permutations(Nonces) \cup Permutations(Buyers)

MCInit == Init /\ BookInit
MCNext ==
  \/ BookInit /\ Next /\ UNCHANGED bookVars
  \/ Init /\ BookNext /\ UNCHANGED vars
MCSpec == MCInit /\ [][MCNext]_<<vars, bookVars>>

=============================================================================
