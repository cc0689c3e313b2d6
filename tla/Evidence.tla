------------------------------ MODULE Evidence ------------------------------
(***************************************************************************)
(* What the flacon program promises to a program that reads its accounts,  *)
(* as the escrow does: seals with their passports, dead seals, void        *)
(* passports and ScanProofs.  A ScanProof stays what it was; its counter   *)
(* orders the scans of a seal; a dead seal and a void passport take no     *)
(* further scan, for good.  Flacon implements this, and the environment of *)
(* Escrow takes no other steps.                                            *)
(***************************************************************************)
EXTENDS Naturals

CONSTANTS
  Seals, Passports

VARIABLES
  sealOf,     \* attached seal -> its passport
  scans,      \* ScanProof accounts, each with the seal and the counter in its address
  deadSeals,  \* seals marked dead
  voided      \* void passports

evidenceVars == <<sealOf, scans, deadSeals, voided>>

\* Nothing has been scanned; some seals may be attached already.
EvidenceInit ==
  /\ DOMAIN sealOf \subseteq Seals /\ sealOf \in [DOMAIN sealOf -> Passports]
  /\ scans = {} /\ deadSeals = {} /\ voided = {}

\* A seal is attached once.
AttachSeal(s, p) ==
  /\ s \notin DOMAIN sealOf
  /\ p \notin voided
  /\ sealOf' = [t \in DOMAIN sealOf \cup {s} |-> IF t = s THEN p ELSE sealOf[t]]
  /\ UNCHANGED <<scans, deadSeals, voided>>

\* A ScanProof newer than every earlier one of its seal; one that finds the
\* seal opened voids the passport.
RecordScan(scan, opened) ==
  /\ scan.seal \in DOMAIN sealOf \ deadSeals
  /\ sealOf[scan.seal] \notin voided
  /\ \A old \in scans : old.seal = scan.seal => old.counter < scan.counter
  /\ scans' = scans \cup {scan}
  /\ voided' = IF opened THEN voided \cup {sealOf[scan.seal]} ELSE voided
  /\ UNCHANGED <<sealOf, deadSeals>>

\* A seal is dead once, and its passport is void then.
MarkSealDead(s) ==
  /\ s \in DOMAIN sealOf \ deadSeals
  /\ deadSeals' = deadSeals \cup {s}
  /\ voided' = voided \cup {sealOf[s]}
  /\ UNCHANGED <<sealOf, scans>>

EvidenceNext ==
  \/ \E s \in Seals, p \in Passports : AttachSeal(s, p)
  \/ \E scan \in scans', opened \in BOOLEAN : RecordScan(scan, opened)
  \/ \E s \in Seals : MarkSealDead(s)

EvidenceSpec == EvidenceInit /\ [][EvidenceNext]_evidenceVars

=============================================================================
