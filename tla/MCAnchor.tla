------------------------------ MODULE MCAnchor ------------------------------
(* Anchor for TLC: the link is opened where another wallet lives.          *)
EXTENDS Anchor, TLC

CONSTANTS w1, w2

TwoDevices == (Maker :> {w1}) @@ (Link :> {w2})

\* One obstacle at a time, and none that comes when it is too late anyway.
MCInit == Init /\ Cardinality(against) <= 1
MCNext ==
  /\ Next
  /\ Cardinality(against') <= 1
  /\ against' # against => proof = NoSig /\ ~late
MCSpec == MCInit /\ [][MCNext]_vars /\ Fairness

=============================================================================
