------------------------------ MODULE MCTrade -------------------------------
(* Trade for TLC: the browser of a seller who is the admin, and that of    *)
(* somebody who may become the buyer.                                      *)
EXTENDS Trade, TLC

SomeViewers == {{"seller", "admin"}, {}}
OnlySeller == {{"seller"}}

=============================================================================
