------------------------------- MODULE Flacon -------------------------------
(***************************************************************************)
(* The flacon program: registry, passports, seals and ScanProofs.  One     *)
(* action per instruction; a transaction is atomic.                        *)
(*                                                                         *)
(* record_scan accepts a message signed by a server key.  The signature    *)
(* can be submitted by anybody, at any time after it was made and in any   *)
(* order with other signatures, so the action takes the message's fields   *)
(* as inputs and leaves it to the checks what is too old or out of order.  *)
(***************************************************************************)
EXTENDS Integers, FiniteSets

CONSTANTS
  Wallets,        \* key pairs that can sign
  Founder,        \* the program's upgrade authority
  Passports,      \* serial hashes, one Passport PDA each
  Seals,          \* uid hashes, one Seal PDA each
  Assets,         \* Metaplex Core assets
  KeyIds,         \* ids of server keys
  Pubkeys,        \* server public keys
  Sites,          \* site ids, 0 is "none"
  Readings,       \* [tamper, heat, hum, fill] a message may carry
  Claims,         \* [role, tier, site] an attester may claim
  Terms,          \* [from, to] validity an authority may give a server key
  Nobody,         \* issuer of a passport that does not exist
  NoProof,        \* a ScanProof PDA that does not exist
  NoKey,          \* a server key id that is not registered
  MaxServerKeys,  \* MAX_SERVER_KEYS
  MaxPartners,    \* MAX_PARTNERS
  MaxSites,       \* MAX_SITES
  MaxSeals,       \* MAX_SEALS_PER_PASSPORT
  MaxCounter,     \* MAX_COUNTER
  Skew,           \* MAX_SCAN_TS_SKEW_S
  MaxTime         \* bound: the clock stops here

VARIABLES
  authority, partners, sites, serverKeys,   \* Registry
  passport,                                 \* Passport accounts
  seal,                                     \* Seal accounts
  proof,                                    \* ScanProof accounts
  now,                                      \* cluster clock
  owner                                     \* owners of the Core assets

registryVars == <<authority, partners, sites, serverKeys>>
accountVars == <<passport, seal, proof>>
vars == <<authority, partners, sites, serverKeys, passport, seal, proof,
          now, owner>>

\* Codes of constants.rs.
TamperCodes == {"CLOSED", "OPENED_NOW", "OPENED_BEFORE", "UNKNOWN"}
IndicatorCodes == {"INTACT", "TRIGGERED", "UNREADABLE", "MISSING"}
RoleCodes == {"OWNER", "SELLER", "BUYER", "VAULT", "PARTNER"}
ProRoles == {"VAULT", "PARTNER"}
MaxTier == 4
MaxFill == 100
TierSelfMedia == 2
TierCertified == 3
Grades == {"A", "B", "C", "D", "VOID"}

ProofKeys == Seals \X (1..MaxCounter)

ServerKeyRecords == [pubkey : Pubkeys, valid_from : Int, valid_to : Int]

PassportRecords ==
  [exists : BOOLEAN, issuer : Wallets \cup {Nobody}, asset : Assets,
   grade : Grades, scan_count : Nat, seal_count : Nat, void : BOOLEAN]

\* The kind of a seal, box or neck, is checked when it is attached and never
\* read again by the program.
SealRecords ==
  [exists : BOOLEAN, passport : Passports,
   last_counter : Nat, dead : BOOLEAN]

\* Of a ScanProof's fields, the reading and the key that signed it: attester,
\* role, tier, site and date are checked on entry and never read again.
ProofRecords == [reading : Readings, key : KeyIds]

ASSUME FlaconAssumption ==
  /\ Founder \in Wallets /\ Nobody \notin Wallets
  /\ \A r \in Readings : DOMAIN r = {"tamper", "heat", "hum", "fill"}
                         /\ r.fill \in Nat
  /\ \A c \in Claims : DOMAIN c = {"role", "tier", "site"} /\ c.tier \in Nat
  /\ Terms \subseteq [from : Int, to : Int]
  /\ Sites \subseteq Nat \ {0}
  /\ NoKey \notin ServerKeyRecords
  /\ NoProof \notin ProofRecords
  /\ MaxServerKeys \in Nat /\ MaxPartners \in Nat /\ MaxSites \in Nat
  /\ MaxSeals \in Nat /\ MaxCounter \in Nat /\ Skew \in Nat /\ MaxTime \in Nat
  /\ Assets # {} /\ Passports # {}

\* init_registry: the upgrade authority becomes the registry authority.
Init ==
  /\ authority = Founder
  /\ partners = {}
  /\ sites = {}
  /\ serverKeys = [k \in KeyIds |-> NoKey]
  /\ passport = [p \in Passports |->
                   [exists |-> FALSE, issuer |-> Nobody,
                    asset |-> CHOOSE a \in Assets : TRUE, grade |-> "A",
                    scan_count |-> 0, seal_count |-> 0, void |-> FALSE]]
  /\ seal = [s \in Seals |->
               [exists |-> FALSE, passport |-> CHOOSE p \in Passports : TRUE,
                last_counter |-> 0, dead |-> FALSE]]
  /\ proof = [k \in ProofKeys |-> NoProof]
  /\ now = 2
  /\ owner \in [Assets -> Wallets]

-----------------------------------------------------------------------------
(* state.rs and grade.rs                                                   *)

IsPartnerOrAuthority(w) == w = authority \/ w \in partners

MayManagePassport(w, p) ==
  w = authority \/ (w = passport[p].issuer /\ w \in partners)

IsVoided(p) == passport[p].void \/ passport[p].grade = "VOID"

IsValidAt(key, t) ==
  t >= key.valid_from /\ (key.valid_to = 0 \/ t <= key.valid_to)

AbsDiff(a, b) == IF a > b THEN a - b ELSE b - a

\* Mutant: only the date the message carries is compared with the term.
CheckKeyAtSigning(key, ts) ==
  /\ IsValidAt(key, ts)
  /\ AbsDiff(ts, now) <= Skew

CheckKeyAndFreshness(key, ts) ==
  /\ IsValidAt(key, ts)
  /\ IsValidAt(key, now)
  /\ AbsDiff(ts, now) <= Skew

IsOpened(r) == r.tamper \in {"OPENED_NOW", "OPENED_BEFORE"}

IsTriggered(r) == r.heat = "TRIGGERED" \/ r.hum = "TRIGGERED"

GradeFromFill(fill) ==
  IF fill >= 90 THEN "A" ELSE IF fill >= 60 THEN "B" ELSE "D"

\* Mutant: a clean scan clears the grade C of an earlier one.
PassportAfterLastScan(p, r) ==
  IF IsVoided(p) \/ IsOpened(r) THEN [grade |-> "VOID", void |-> TRUE]
  ELSE IF IsTriggered(r) THEN [grade |-> "C", void |-> FALSE]
  ELSE [grade |-> GradeFromFill(r.fill), void |-> FALSE]

\* Grade and void flag after a scan with reading r.
PassportAfterScan(p, r) ==
  IF IsVoided(p) \/ IsOpened(r) THEN [grade |-> "VOID", void |-> TRUE]
  ELSE IF passport[p].grade = "C" \/ IsTriggered(r)
       THEN [grade |-> "C", void |-> FALSE]
  ELSE [grade |-> GradeFromFill(r.fill), void |-> FALSE]

-----------------------------------------------------------------------------
(* Registry                                                                *)

Registered == {k \in KeyIds : serverKeys[k] # NoKey}

AddServerKey(signer, id, pubkey, from, to) ==
  /\ signer = authority
  /\ to = 0 \/ to >= from
  /\ serverKeys[id] = NoKey
  /\ Cardinality(Registered) < MaxServerKeys
  /\ serverKeys' = [serverKeys EXCEPT ![id] =
       [pubkey |-> pubkey, valid_from |-> from, valid_to |-> to]]
  /\ UNCHANGED <<authority, partners, sites, now, owner>>
  /\ UNCHANGED accountVars

\* Never 0, which would mean open-ended.
RevokedValidTo == IF now - 1 > 1 THEN now - 1 ELSE 1

RevokeServerKey(signer, id) ==
  /\ signer = authority
  /\ serverKeys[id] # NoKey
  /\ serverKeys[id].valid_to = 0 \/ serverKeys[id].valid_to >= now
  /\ serverKeys' = [serverKeys EXCEPT ![id].valid_to = RevokedValidTo]
  /\ UNCHANGED <<authority, partners, sites, now, owner>>
  /\ UNCHANGED accountVars

AddPartner(signer, w) ==
  /\ signer = authority
  /\ w \notin partners
  /\ Cardinality(partners) < MaxPartners
  /\ partners' = partners \cup {w}
  /\ UNCHANGED <<authority, sites, serverKeys, now, owner>>
  /\ UNCHANGED accountVars

RemovePartner(signer, w) ==
  /\ signer = authority
  /\ w \in partners
  /\ partners' = partners \ {w}
  /\ UNCHANGED <<authority, sites, serverKeys, now, owner>>
  /\ UNCHANGED accountVars

AddSite(signer, id) ==
  /\ signer = authority
  /\ id # 0
  /\ id \notin sites
  /\ Cardinality(sites) < MaxSites
  /\ sites' = sites \cup {id}
  /\ UNCHANGED <<authority, partners, serverKeys, now, owner>>
  /\ UNCHANGED accountVars

\* The old and the new authority both sign.
TransferAuthority(signer, w) ==
  /\ signer = authority
  /\ authority' = w
  /\ UNCHANGED <<partners, sites, serverKeys, now, owner>>
  /\ UNCHANGED accountVars

-----------------------------------------------------------------------------
(* Passports and seals                                                     *)

MintPassport(issuer, p, asset) ==
  /\ ~passport[p].exists
  /\ IsPartnerOrAuthority(issuer)
  /\ owner[asset] = issuer
  /\ passport' = [passport EXCEPT ![p] =
       [exists |-> TRUE, issuer |-> issuer, asset |-> asset, grade |-> "A",
        scan_count |-> 0, seal_count |-> 0, void |-> FALSE]]
  /\ UNCHANGED <<seal, proof, now, owner>>
  /\ UNCHANGED registryVars

AttachSeal(signer, p, s) ==
  /\ passport[p].exists
  /\ ~seal[s].exists
  /\ MayManagePassport(signer, p)
  /\ ~IsVoided(p)
  /\ passport[p].seal_count < MaxSeals
  /\ passport' = [passport EXCEPT ![p].seal_count = @ + 1]
  /\ seal' = [seal EXCEPT ![s] =
       [exists |-> TRUE, passport |-> p, last_counter |-> 0, dead |-> FALSE]]
  /\ UNCHANGED <<proof, now, owner>>
  /\ UNCHANGED registryVars

MarkSealDead(signer, s) ==
  LET p == seal[s].passport IN
  /\ seal[s].exists
  /\ MayManagePassport(signer, p)
  /\ ~seal[s].dead
  /\ seal' = [seal EXCEPT ![s].dead = TRUE]
  /\ passport' = [passport EXCEPT ![p].void = TRUE, ![p].grade = "VOID"]
  /\ UNCHANGED <<proof, now, owner>>
  /\ UNCHANGED registryVars

-----------------------------------------------------------------------------
(* record_scan                                                             *)

\* Step 3: what the attester claims and what the reading may hold.
ClaimAllowed(attester, claim) ==
  /\ claim.role \in RoleCodes
  /\ claim.tier <= MaxTier
  /\ claim.role \notin ProRoles => claim.tier <= TierSelfMedia
  /\ claim.role \in ProRoles \/ claim.tier >= TierCertified =>
       attester \in partners
  /\ claim.site # 0 => claim.role \in ProRoles /\ claim.site \in sites

\* decisive: the 40 degree bit of heat_levels.
ReadingAllowed(r, decisive) ==
  /\ r.tamper \in TamperCodes
  /\ {r.heat, r.hum} \subseteq IndicatorCodes
  /\ r.fill <= MaxFill
  /\ r.heat = "INTACT" => ~decisive
  /\ r.heat = "TRIGGERED" => decisive

\* Mutant: the last counter is accepted again.
CounterNotLower(s, counter) ==
  counter >= seal[s].last_counter /\ counter <= MaxCounter

CounterFresh(s, counter) ==
  counter > seal[s].last_counter /\ counter <= MaxCounter

\* init_if_needed: a ScanProof that exists would be written over.
RecordScan(attester, s, counter, reading, decisive, claim, id, pubkey, ts) ==
  LET p == seal[s].passport
      after == PassportAfterScan(p, reading)
  IN
  /\ seal[s].exists
  /\ serverKeys[id] # NoKey
  /\ serverKeys[id].pubkey = pubkey
  /\ CheckKeyAndFreshness(serverKeys[id], ts)
  /\ ~seal[s].dead
  /\ ~IsVoided(p)
  /\ CounterFresh(s, counter)
  /\ ClaimAllowed(attester, claim)
  /\ ReadingAllowed(reading, decisive)
  /\ proof' = [proof EXCEPT ![<<s, counter>>] =
       [reading |-> reading, key |-> id]]
  /\ seal' = [seal EXCEPT ![s].last_counter = counter]
  /\ passport' = [passport EXCEPT ![p].scan_count = @ + 1,
                                  ![p].grade = after.grade,
                                  ![p].void = after.void]
  /\ UNCHANGED <<now, owner>>
  /\ UNCHANGED registryVars

-----------------------------------------------------------------------------
(* Around the program                                                      *)

Tick ==
  /\ now < MaxTime
  /\ now' = now + 1
  /\ UNCHANGED owner
  /\ UNCHANGED registryVars /\ UNCHANGED accountVars

\* Metaplex Core: the owner of an asset hands it on.
TransferAsset(asset, to) ==
  /\ owner[asset] # to
  /\ owner' = [owner EXCEPT ![asset] = to]
  /\ UNCHANGED now
  /\ UNCHANGED registryVars /\ UNCHANGED accountVars

RegistryStep(signer) ==
  \/ \E id \in KeyIds, pubkey \in Pubkeys, term \in Terms :
       AddServerKey(signer, id, pubkey, term.from, term.to)
  \/ \E id \in KeyIds : RevokeServerKey(signer, id)
  \/ \E w \in Wallets : AddPartner(signer, w)
  \/ \E w \in Wallets : RemovePartner(signer, w)
  \/ \E id \in Sites : AddSite(signer, id)
  \/ \E w \in Wallets : TransferAuthority(signer, w)

PassportStep(signer) ==
  \/ \E p \in Passports, asset \in Assets : MintPassport(signer, p, asset)
  \/ \E p \in Passports, s \in Seals : AttachSeal(signer, p, s)
  \/ \E s \in Seals : MarkSealDead(signer, s)
  \/ \E s \in Seals, counter \in 1..MaxCounter, reading \in Readings,
        decisive \in BOOLEAN, claim \in Claims, id \in KeyIds,
        pubkey \in Pubkeys, ts \in (now - Skew - 1)..(now + Skew + 1) :
       RecordScan(signer, s, counter, reading, decisive, claim, id, pubkey,
                  ts)

Next ==
  \/ \E signer \in Wallets : RegistryStep(signer) \/ PassportStep(signer)
  \/ Tick
  \/ \E asset \in Assets, to \in Wallets : TransferAsset(asset, to)

Spec == Init /\ [][Next]_vars

-----------------------------------------------------------------------------
(* Properties                                                              *)

\* Every account holds a value of its type and no list outgrows its capacity.
TypeOK ==
  /\ authority \in Wallets
  /\ partners \subseteq Wallets /\ Cardinality(partners) <= MaxPartners
  /\ sites \subseteq Sites /\ Cardinality(sites) <= MaxSites
  /\ serverKeys \in [KeyIds -> ServerKeyRecords \cup {NoKey}]
  /\ Cardinality(Registered) <= MaxServerKeys
  /\ passport \in [Passports -> PassportRecords]
  /\ seal \in [Seals -> SealRecords]
  /\ proof \in [ProofKeys -> ProofRecords \cup {NoProof}]
  /\ now \in Nat
  /\ owner \in [Assets -> Wallets]

SealsOf(p) == {s \in Seals : seal[s].exists /\ seal[s].passport = p}

ProofsOf(p) ==
  {k \in ProofKeys : proof[k] # NoProof /\ k[1] \in SealsOf(p)}

\* Counters the program keeps agree with the accounts they count: a passport's
\* scan_count with its ScanProofs and seal_count with its seals.
CountsMatchAccounts ==
  \A p \in Passports :
    /\ passport[p].scan_count = Cardinality(ProofsOf(p))
    /\ passport[p].seal_count = Cardinality(SealsOf(p))
    /\ passport[p].seal_count <= MaxSeals

OpenedSeen(p) == \E k \in ProofsOf(p) : IsOpened(proof[k].reading)
TriggeredSeen(p) == \E k \in ProofsOf(p) : IsTriggered(proof[k].reading)
HasDeadSeal(p) == \E s \in SealsOf(p) : seal[s].dead

\* The newest scan of each seal of p that was ever scanned.
NewestProofs(p) ==
  {k \in ProofsOf(p) : k[2] = seal[k[1]].last_counter}

GradeTells(p) ==
  /\ passport[p].void <=> OpenedSeen(p) \/ HasDeadSeal(p)
  /\ passport[p].void <=> passport[p].grade = "VOID"
  /\ ~passport[p].void =>
       IF TriggeredSeen(p)
       THEN passport[p].grade = "C"
       ELSE \/ ProofsOf(p) = {} /\ passport[p].grade = "A"
            \/ \E k \in NewestProofs(p) :
                 passport[p].grade = GradeFromFill(proof[k].reading.fill)

\* The grade a passport shows is the one its scans and seals call for: void
\* exactly if some seal is dead or some scan found one opened, otherwise C
\* exactly if some scan, however old, found an indicator triggered, otherwise
\* the fill level of the newest scan of one of its seals.
GradeTellsHistory == \A p \in Passports : GradeTells(p)

Ended(k) ==
  /\ serverKeys[k] # NoKey
  /\ serverKeys[k].valid_to # 0
  /\ serverKeys[k].valid_to < now

\* A server key that has ended, by its term or by revocation, stays ended,
\* keeps its id and adds no ScanProof any more, not even for a message it
\* signed, or dated, before its end.
EndedKeySilent ==
  [][\A k \in KeyIds :
       Ended(k) => /\ serverKeys'[k] = serverKeys[k]
                   /\ \A n \in ProofKeys :
                        proof'[n] # proof[n] => proof'[n].key # k]_vars

\* The accounts as a reader of them sees them.
SealPassport == [s \in {t \in Seals : seal[t].exists} |-> seal[s].passport]
ScanAccounts ==
  {[seal |-> k[1], counter |-> k[2], reading |-> proof[k].reading, key |-> proof[k].key] :
     k \in {n \in ProofKeys : proof[n] # NoProof}}
DeadSeals == {s \in Seals : seal[s].exists /\ seal[s].dead}
VoidPassports == {p \in Passports : IsVoided(p)}

Evid == INSTANCE Evidence WITH
  sealOf <- SealPassport, scans <- ScanAccounts, deadSeals <- DeadSeals,
  voided <- VoidPassports

\* What the escrow relies on: a ScanProof is never written over, counters of a
\* seal rise, a dead seal or a void passport takes no further scan and stays
\* dead or void, a scan voids nothing but its own passport.
EvidenceForReaders == Evid!EvidenceSpec

=============================================================================
