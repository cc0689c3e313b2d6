----------------------------- MODULE MCScanSync -----------------------------
(* Values of the constants of ScanSync for TLC.                            *)
EXTENDS ScanSync

CONSTANTS w1, s1, s2

Scan(seal, grade, claim) == [seal |-> seal, grade |-> grade, claim |-> claim]

\* Scans of two seals whose order decides the grade, by a named attester and
\* by anybody, and a damage that a later scan of the same seal does not see.
TwoScans == {<<Scan(s1, "B", NoWallet), Scan(s2, "A", NoWallet)>>,
             <<Scan(s1, "C", w1), Scan(s1, "B", NoWallet)>>,
             <<Scan(s1, "B", w1), Scan(s2, "C", w1)>>}

=============================================================================
