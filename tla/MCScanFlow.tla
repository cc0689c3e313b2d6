----------------------------- MODULE MCScanFlow -----------------------------
(* ScanFlow for TLC; its constants are given in the configuration.         *)
EXTENDS ScanFlow

\* Taps the verifier took without signing: their seal is reported dead.
TakenInVain == server.taken \ {s.tap : s \in server.scans}

\* Dead seals are met and reported in scans with one photo series at most.
\* The claims of the other tab run while no photograph has been taken.
MCNext ==
  /\ Next
  /\ \A n \in Nonces : page'.reports[n] > 0 => shots' < 2
  /\ TakenInVain' # {} => shots' < 2
  /\ claims'[There] # None => shots' = 0
MCSpec == Init /\ [][MCNext]_vars

=============================================================================
