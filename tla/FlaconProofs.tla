---------------------------- MODULE FlaconProofs ----------------------------
(***************************************************************************)
(* Proofs about the flacon program for every set of wallets, passports,    *)
(* seals and server keys, every capacity and every set of readings; and    *)
(* about the card reader, which makes the readings that its grades are     *)
(* computed from, for a strip of any length and any number of photos.      *)
(***************************************************************************)
EXTENDS Flacon, CardReader, FiniteSetTheorems, WellFoundedInduction, TLAPS

USE FlaconAssumption

-----------------------------------------------------------------------------
(* The inductive invariant                                                 *)

\* Only finitely many accounts exist, though seals and serials are unbounded.
FiniteAccounts ==
  /\ IsFiniteSet(partners) /\ IsFiniteSet(sites) /\ IsFiniteSet(Registered)
  /\ \A p \in Passports : IsFiniteSet(SealsOf(p)) /\ IsFiniteSet(ProofsOf(p))

\* A seal that does not exist has counted no tap, and no ScanProof is ahead of
\* its seal's counter: what keeps init_if_needed from hitting an old ScanProof.
CountersLead ==
  /\ \A s \in Seals : ~seal[s].exists => seal[s].last_counter = 0
  /\ \A k \in ProofKeys : proof[k] # NoProof => k[2] <= seal[k[1]].last_counter

\* A seal belongs to a passport that was minted.
SealsHavePassports ==
  \A s \in Seals : seal[s].exists => passport[seal[s].passport].exists

IInv ==
  /\ TypeOK /\ FiniteAccounts /\ CountersLead /\ SealsHavePassports
  /\ CountsMatchAccounts /\ GradeTellsHistory

-----------------------------------------------------------------------------
(* Typing                                                                  *)

\* A list that gained one new element is still finite and within a capacity it
\* had not reached (registry.rs push after the length check).
LEMMA AddWithinCapacity ==
  ASSUME NEW S, IsFiniteSet(S), NEW x, NEW max \in Nat, Cardinality(S) < max
  PROVE  IsFiniteSet(S \cup {x}) /\ Cardinality(S \cup {x}) <= max
<1>1. Cardinality(S) \in Nat
  BY FS_CardinalityType
<1>2. /\ IsFiniteSet(S \cup {x})
      /\ Cardinality(S \cup {x}) =
           IF x \in S THEN Cardinality(S) ELSE Cardinality(S) + 1
  BY FS_AddElement
<1>3. QED
  BY <1>1, <1>2

\* Removing an element never makes a list longer.
LEMMA RemoveWithinCapacity ==
  ASSUME NEW S, IsFiniteSet(S), NEW x, NEW max \in Nat, Cardinality(S) <= max
  PROVE  IsFiniteSet(S \ {x}) /\ Cardinality(S \ {x}) <= max
<1>1. Cardinality(S) \in Nat
  BY FS_CardinalityType
<1>2. /\ IsFiniteSet(S \ {x})
      /\ Cardinality(S \ {x}) =
           IF x \in S THEN Cardinality(S) - 1 ELSE Cardinality(S)
  BY FS_RemoveElement
<1>3. QED
  BY <1>1, <1>2

\* The grade computed from a fill level is a grade, and never C or VOID.
LEMMA FillGrades ==
  ASSUME NEW fill \in Nat
  PROVE  GradeFromFill(fill) \in {"A", "B", "D"}
BY DEF GradeFromFill

\* A scan leaves a grade and a flag (grade.rs passport_after_scan).
LEMMA AfterScanType ==
  ASSUME NEW p \in Passports, NEW r \in Readings
  PROVE  /\ PassportAfterScan(p, r).grade \in Grades
         /\ PassportAfterScan(p, r).void \in BOOLEAN
BY FillGrades DEF PassportAfterScan, Grades

\* A record with a value of its type in every field is a passport account.
LEMMA PassportRecord ==
  ASSUME NEW e \in BOOLEAN, NEW i \in Wallets \cup {Nobody}, NEW a \in Assets,
         NEW g \in Grades, NEW n \in Nat, NEW m \in Nat, NEW v \in BOOLEAN
  PROVE  [exists |-> e, issuer |-> i, asset |-> a, grade |-> g,
          scan_count |-> n, seal_count |-> m, void |-> v] \in PassportRecords
BY DEF PassportRecords

\* A counted scan with a new grade and flag leaves a passport account.
LEMMA ScannedPassportType ==
  ASSUME TypeOK, NEW p \in Passports, NEW g \in Grades, NEW v \in BOOLEAN,
         passport' = [passport EXCEPT ![p].scan_count = @ + 1,
                                      ![p].grade = g, ![p].void = v]
  PROVE  passport' \in [Passports -> PassportRecords]
<1>1. passport[p] \in PassportRecords
  BY DEF TypeOK
<1>2. passport'[p] = [passport[p] EXCEPT !.scan_count = @ + 1, !.grade = g,
                                         !.void = v]
  BY DEF TypeOK
<1>3. passport'[p] \in PassportRecords
  <2> DEFINE old == passport[p]
  <2>1. old \in PassportRecords
    BY <1>1
  <2>2. passport'[p] = [old EXCEPT !.scan_count = old.scan_count + 1,
                                   !.grade = g, !.void = v]
    BY <1>2
  <2> HIDE DEF old
  <2>3. old = [exists |-> old.exists, issuer |-> old.issuer,
               asset |-> old.asset, grade |-> old.grade,
               scan_count |-> old.scan_count, seal_count |-> old.seal_count,
               void |-> old.void]
    BY <2>1 DEF PassportRecords
  <2>4. passport'[p] = [exists |-> old.exists, issuer |-> old.issuer,
                        asset |-> old.asset, grade |-> g,
                        scan_count |-> old.scan_count + 1,
                        seal_count |-> old.seal_count, void |-> v]
    BY <2>2, <2>3, ZenonT(30)
  <2>5. /\ old.exists \in BOOLEAN /\ old.issuer \in Wallets \cup {Nobody}
        /\ old.asset \in Assets /\ old.scan_count + 1 \in Nat
        /\ old.seal_count \in Nat
    BY <2>1 DEF PassportRecords
  <2>6. QED
    BY <2>4, <2>5, PassportRecord
<1>4. \A q \in Passports \ {p} : passport'[q] = passport[q]
  BY DEF TypeOK
<1>5. passport' = [q \in Passports |-> passport'[q]]
  BY DEF TypeOK
<1>6. QED
  BY <1>3, <1>4, <1>5 DEF TypeOK

\* What the registry instructions leave alone, and what they keep.
LEMMA RegistryKeeps ==
  ASSUME IInv, NEW signer \in Wallets, RegistryStep(signer)
  PROVE  /\ authority' \in Wallets
         /\ partners' \subseteq Wallets /\ Cardinality(partners') <= MaxPartners
         /\ sites' \subseteq Sites /\ Cardinality(sites') <= MaxSites
         /\ serverKeys' \in [KeyIds -> ServerKeyRecords \cup {NoKey}]
         /\ Cardinality(Registered') <= MaxServerKeys
         /\ IsFiniteSet(partners') /\ IsFiniteSet(sites')
         /\ IsFiniteSet(Registered')
         /\ UNCHANGED <<passport, seal, proof, now, owner>>
<1> DEFINE Good ==
      /\ authority' \in Wallets
      /\ partners' \subseteq Wallets /\ Cardinality(partners') <= MaxPartners
      /\ sites' \subseteq Sites /\ Cardinality(sites') <= MaxSites
      /\ serverKeys' \in [KeyIds -> ServerKeyRecords \cup {NoKey}]
      /\ Cardinality(Registered') <= MaxServerKeys
      /\ IsFiniteSet(partners') /\ IsFiniteSet(sites')
      /\ IsFiniteSet(Registered')
      /\ UNCHANGED <<passport, seal, proof, now, owner>>
<1> USE DEF accountVars
<1>1. TypeOK /\ FiniteAccounts
  BY DEF IInv
<1>2. ASSUME NEW id \in KeyIds, NEW pubkey \in Pubkeys, NEW term \in Terms,
             AddServerKey(signer, id, pubkey, term.from, term.to)
      PROVE  Good
  <2>1. term.from \in Int /\ term.to \in Int
    OBVIOUS
  <2>2. [pubkey |-> pubkey, valid_from |-> term.from, valid_to |-> term.to]
          \in ServerKeyRecords
    BY <2>1 DEF ServerKeyRecords
  <2>3. serverKeys' \in [KeyIds -> ServerKeyRecords \cup {NoKey}]
    BY <1>1, <1>2, <2>2 DEF AddServerKey, TypeOK
  <2>4. Registered' = Registered \cup {id}
    BY <1>1, <1>2, <2>2 DEF AddServerKey, Registered, TypeOK
  <2>5. IsFiniteSet(Registered') /\ Cardinality(Registered') <= MaxServerKeys
    BY <1>1, <1>2, <2>4, AddWithinCapacity DEF AddServerKey, FiniteAccounts
  <2>6. QED
    BY <1>1, <1>2, <2>3, <2>5 DEF AddServerKey, TypeOK, FiniteAccounts
<1>3. ASSUME NEW id \in KeyIds, RevokeServerKey(signer, id)
      PROVE  Good
  <2>1. RevokedValidTo \in Int
    BY <1>1 DEF RevokedValidTo, TypeOK
  <2>2. serverKeys[id] \in ServerKeyRecords
    BY <1>1, <1>3 DEF RevokeServerKey, TypeOK
  <2>3. [serverKeys[id] EXCEPT !.valid_to = RevokedValidTo] \in ServerKeyRecords
    BY <2>1, <2>2 DEF ServerKeyRecords
  <2>4. /\ serverKeys' \in [KeyIds -> ServerKeyRecords \cup {NoKey}]
        /\ \A k \in KeyIds : serverKeys'[k] = NoKey <=> serverKeys[k] = NoKey
    BY <1>1, <1>3, <2>2, <2>3 DEF RevokeServerKey, TypeOK
  <2>5. Registered' = Registered
    BY <2>4 DEF Registered
  <2>6. QED
    BY <1>1, <1>3, <2>4, <2>5 DEF RevokeServerKey, TypeOK, FiniteAccounts
<1>4. ASSUME NEW w \in Wallets, AddPartner(signer, w)
      PROVE  Good
  <2>1. IsFiniteSet(partners') /\ Cardinality(partners') <= MaxPartners
    BY <1>1, <1>4, AddWithinCapacity DEF AddPartner, FiniteAccounts
  <2>2. QED
    BY <1>1, <1>4, <2>1 DEF AddPartner, TypeOK, FiniteAccounts, Registered
<1>5. ASSUME NEW w \in Wallets, RemovePartner(signer, w)
      PROVE  Good
  <2>1. IsFiniteSet(partners') /\ Cardinality(partners') <= MaxPartners
    BY <1>1, <1>5, RemoveWithinCapacity
    DEF RemovePartner, FiniteAccounts, TypeOK
  <2>2. QED
    BY <1>1, <1>5, <2>1 DEF RemovePartner, TypeOK, FiniteAccounts, Registered
<1>6. ASSUME NEW id \in Sites, AddSite(signer, id)
      PROVE  Good
  <2>1. IsFiniteSet(sites') /\ Cardinality(sites') <= MaxSites
    BY <1>1, <1>6, AddWithinCapacity DEF AddSite, FiniteAccounts
  <2>2. QED
    BY <1>1, <1>6, <2>1 DEF AddSite, TypeOK, FiniteAccounts, Registered
<1>7. ASSUME NEW w \in Wallets, TransferAuthority(signer, w)
      PROVE  Good
  BY <1>1, <1>7 DEF TransferAuthority, TypeOK, FiniteAccounts, Registered
<1>8. QED
  BY <1>2, <1>3, <1>4, <1>5, <1>6, <1>7 DEF RegistryStep

-----------------------------------------------------------------------------
(* Passports, seals and scans                                              *)

\* A step that touches no account of passports, seals and ScanProofs.
LEMMA AccountsUntouched ==
  ASSUME IInv, UNCHANGED <<passport, seal, proof>>, TypeOK',
         IsFiniteSet(partners'), IsFiniteSet(sites'), IsFiniteSet(Registered')
  PROVE  IInv'
<1>1. \A p \in Passports :
        SealsOf(p)' = SealsOf(p) /\ ProofsOf(p)' = ProofsOf(p)
  BY DEF SealsOf, ProofsOf
<1>2. FiniteAccounts' /\ CountsMatchAccounts'
  BY <1>1 DEF IInv, FiniteAccounts, CountsMatchAccounts
<1>3. CountersLead' /\ SealsHavePassports'
  BY DEF IInv, CountersLead, SealsHavePassports
<1>4. GradeTellsHistory'
  BY <1>1 DEF IInv, GradeTellsHistory, GradeTells, OpenedSeen, TriggeredSeen,
              HasDeadSeal, NewestProofs
<1>5. QED
  BY <1>2, <1>3, <1>4 DEF IInv

\* A passport whose account, seals and scans a step leaves alone keeps its
\* counts and its grade.
LEMMA OtherPassport ==
  ASSUME IInv, NEW q \in Passports, passport'[q] = passport[q],
         SealsOf(q)' = SealsOf(q),
         \A s \in SealsOf(q) : seal'[s] = seal[s],
         \A k \in ProofKeys : k[1] \in SealsOf(q) => proof'[k] = proof[k]
  PROVE  /\ IsFiniteSet(SealsOf(q)') /\ IsFiniteSet(ProofsOf(q)')
         /\ passport'[q].scan_count = Cardinality(ProofsOf(q)')
         /\ passport'[q].seal_count = Cardinality(SealsOf(q)')
         /\ passport'[q].seal_count <= MaxSeals
         /\ GradeTells(q)'
<1>1. ProofsOf(q)' = ProofsOf(q)
  BY DEF ProofsOf
<1>2. /\ OpenedSeen(q)' <=> OpenedSeen(q)
      /\ TriggeredSeen(q)' <=> TriggeredSeen(q)
  BY <1>1 DEF OpenedSeen, TriggeredSeen, ProofsOf
<1>3. HasDeadSeal(q)' <=> HasDeadSeal(q)
  BY DEF HasDeadSeal
<1>4. NewestProofs(q)' = NewestProofs(q)
  BY <1>1 DEF NewestProofs, ProofsOf
<1>5. \A k \in NewestProofs(q) : proof'[k] = proof[k]
  BY DEF NewestProofs, ProofsOf
<1>6. GradeTells(q)'
  BY <1>1, <1>2, <1>3, <1>4, <1>5 DEF IInv, GradeTellsHistory, GradeTells
<1>7. QED
  BY <1>1, <1>6 DEF IInv, FiniteAccounts, CountsMatchAccounts

\* mint_passport: nothing can refer to a serial that was not minted.
LEMMA MintKeeps ==
  ASSUME IInv, NEW w \in Wallets, NEW p \in Passports, NEW asset \in Assets,
         MintPassport(w, p, asset)
  PROVE  IInv'
<1>1. TypeOK /\ FiniteAccounts /\ CountersLead /\ SealsHavePassports
  BY DEF IInv
<1>2. passport' = [passport EXCEPT ![p] =
       [exists |-> TRUE, issuer |-> w, asset |-> asset, grade |-> "A",
        scan_count |-> 0, seal_count |-> 0, void |-> FALSE]]
  BY DEF MintPassport
<1>3. /\ UNCHANGED <<seal, proof, now, owner, authority, partners, sites,
                     serverKeys>>
      /\ ~passport[p].exists
  BY DEF MintPassport, registryVars
<1>4. TypeOK'
  BY <1>1, <1>2, <1>3 DEF TypeOK, PassportRecords, Grades, Registered
<1>5. \A q \in Passports :
        SealsOf(q)' = SealsOf(q) /\ ProofsOf(q)' = ProofsOf(q)
  BY <1>3 DEF SealsOf, ProofsOf
<1>6. SealsOf(p) = {} /\ ProofsOf(p) = {}
  BY <1>1, <1>3 DEF SealsHavePassports, SealsOf, ProofsOf
<1>7. SealsHavePassports' /\ CountersLead'
  BY <1>1, <1>2, <1>3
  DEF SealsHavePassports, CountersLead, TypeOK, SealRecords
<1>8. GradeTells(p)'
  BY <1>1, <1>2, <1>5, <1>6
  DEF GradeTells, OpenedSeen, HasDeadSeal, TriggeredSeen, TypeOK
<1>9. \A q \in Passports \ {p} :
        /\ passport'[q] = passport[q] /\ SealsOf(q)' = SealsOf(q)
        /\ \A s \in SealsOf(q) : seal'[s] = seal[s]
        /\ \A k \in ProofKeys : proof'[k] = proof[k]
  BY <1>1, <1>2, <1>3, <1>5 DEF TypeOK
<1>10. GradeTellsHistory'
  BY <1>8, <1>9, OtherPassport DEF GradeTellsHistory
<1>11. CountsMatchAccounts'
  <2>1. passport'[p].scan_count = 0 /\ passport'[p].seal_count = 0
    BY <1>1, <1>2 DEF TypeOK
  <2>2. Cardinality(ProofsOf(p)') = 0 /\ Cardinality(SealsOf(p)') = 0
    BY <1>5, <1>6, FS_EmptySet
  <2>3. QED
    BY <1>9, <2>1, <2>2, OtherPassport DEF CountsMatchAccounts
<1>12. FiniteAccounts'
  BY <1>1, <1>3, <1>5 DEF FiniteAccounts, Registered
<1>13. QED
  BY <1>4, <1>7, <1>10, <1>11, <1>12 DEF IInv

\* attach_seal: one seal more, and no ScanProof carries its address yet.
LEMMA AttachKeeps ==
  ASSUME IInv, NEW w \in Wallets, NEW p \in Passports, NEW s \in Seals,
         AttachSeal(w, p, s)
  PROVE  IInv'
<1>1. TypeOK /\ FiniteAccounts /\ CountersLead /\ SealsHavePassports
      /\ CountsMatchAccounts /\ GradeTells(p)
  BY DEF IInv, GradeTellsHistory
<1>2. /\ seal' = [seal EXCEPT ![s] =
           [exists |-> TRUE, passport |-> p, last_counter |-> 0,
            dead |-> FALSE]]
      /\ passport' = [passport EXCEPT ![p].seal_count = @ + 1]
      /\ UNCHANGED <<proof, now, owner, authority, partners, sites, serverKeys>>
      /\ passport[p].exists /\ ~seal[s].exists
      /\ passport[p].seal_count < MaxSeals
  BY DEF AttachSeal, registryVars
<1>3. /\ passport[p] \in PassportRecords /\ passport[p].seal_count \in Nat
      /\ passport[p].scan_count \in Nat
  BY <1>1 DEF TypeOK, PassportRecords
<1>4. TypeOK'
  <2>1. passport' \in [Passports -> PassportRecords]
    BY <1>1, <1>2, <1>3 DEF TypeOK, PassportRecords
  <2>2. seal' \in [Seals -> SealRecords]
    BY <1>1, <1>2 DEF TypeOK, SealRecords
  <2>3. QED
    BY <1>1, <1>2, <2>1, <2>2 DEF TypeOK, Registered
<1>5. \A k \in ProofKeys : k[1] = s => proof[k] = NoProof
  <2> SUFFICES ASSUME NEW k \in ProofKeys, k[1] = s, proof[k] # NoProof
               PROVE  FALSE
    OBVIOUS
  <2>1. k[2] <= 0 /\ k[2] \in 1..MaxCounter
    BY <1>1, <1>2 DEF CountersLead, ProofKeys
  <2>2. QED
    BY <2>1
<1>6. /\ SealsOf(p)' = SealsOf(p) \cup {s} /\ s \notin SealsOf(p)
      /\ \A q \in Passports \ {p} :
           SealsOf(q)' = SealsOf(q) /\ s \notin SealsOf(q)
  BY <1>1, <1>2 DEF SealsOf, TypeOK
<1>7. ProofsOf(p)' = ProofsOf(p)
  BY <1>2, <1>5, <1>6 DEF ProofsOf
<1>8. /\ passport'[p].seal_count = passport[p].seal_count + 1
      /\ passport'[p].scan_count = passport[p].scan_count
      /\ passport'[p].grade = passport[p].grade
      /\ \A q \in Passports : passport'[q].exists = passport[q].exists
      /\ passport'[p].void = passport[p].void
  BY <1>1, <1>2, <1>3 DEF TypeOK, PassportRecords
<1>9. CountersLead'
  BY <1>1, <1>2, <1>5 DEF CountersLead, TypeOK
<1>10. SealsHavePassports'
  BY <1>1, <1>2, <1>8 DEF SealsHavePassports, TypeOK
<1>11. \A q \in Passports \ {p} :
        /\ passport'[q] = passport[q] /\ SealsOf(q)' = SealsOf(q)
        /\ \A x \in SealsOf(q) : seal'[x] = seal[x]
        /\ \A k \in ProofKeys : proof'[k] = proof[k]
  BY <1>1, <1>2, <1>6 DEF TypeOK, SealsOf
<1>12. GradeTells(p)'
  <2>1. /\ OpenedSeen(p)' <=> OpenedSeen(p)
        /\ TriggeredSeen(p)' <=> TriggeredSeen(p)
    BY <1>2, <1>7 DEF OpenedSeen, TriggeredSeen
  <2>2. \A x \in SealsOf(p) : seal'[x] = seal[x]
    BY <1>1, <1>2, <1>6 DEF TypeOK, SealsOf
  <2>3. seal'[s].dead = FALSE
    BY <1>1, <1>2 DEF TypeOK
  <2>4. HasDeadSeal(p)' <=> HasDeadSeal(p)
    BY <1>6, <2>2, <2>3 DEF HasDeadSeal
  <2>5. NewestProofs(p)' = NewestProofs(p)
    BY <1>7, <2>2 DEF NewestProofs, ProofsOf
  <2>6. QED
    BY <1>1, <1>2, <1>7, <1>8, <2>1, <2>4, <2>5 DEF GradeTells
<1>13. GradeTellsHistory'
  BY <1>11, <1>12, OtherPassport DEF GradeTellsHistory
<1>14. /\ IsFiniteSet(SealsOf(p)')
       /\ Cardinality(SealsOf(p)') = Cardinality(SealsOf(p)) + 1
  BY <1>1, <1>6, FS_AddElement DEF FiniteAccounts
<1>15. CountsMatchAccounts'
  <2>1. /\ passport'[p].scan_count = Cardinality(ProofsOf(p)')
        /\ passport'[p].seal_count = Cardinality(SealsOf(p)')
        /\ passport'[p].seal_count <= MaxSeals
    BY <1>1, <1>2, <1>3, <1>7, <1>8, <1>14 DEF CountsMatchAccounts
  <2>2. QED
    BY <1>11, <2>1, OtherPassport DEF CountsMatchAccounts
<1>16. FiniteAccounts'
  <2>1. \A q \in Passports :
          IsFiniteSet(SealsOf(q)') /\ IsFiniteSet(ProofsOf(q)')
    BY <1>1, <1>7, <1>11, <1>14, OtherPassport DEF FiniteAccounts
  <2>2. QED
    BY <1>1, <1>2, <2>1 DEF FiniteAccounts, Registered
<1>17. QED
  BY <1>4, <1>9, <1>10, <1>13, <1>15, <1>16 DEF IInv

\* mark_seal_dead: a dead seal and a void passport come together.
LEMMA MarkDeadKeeps ==
  ASSUME IInv, NEW w \in Wallets, NEW s \in Seals, MarkSealDead(w, s)
  PROVE  IInv'
<1>1. TypeOK /\ FiniteAccounts /\ CountersLead /\ SealsHavePassports
      /\ CountsMatchAccounts /\ GradeTellsHistory
  BY DEF IInv
<1>2. seal[s] \in SealRecords /\ seal[s].passport \in Passports
  BY <1>1 DEF TypeOK, SealRecords
<1> PICK p \in Passports : p = seal[s].passport
  BY <1>2
<1>3. /\ seal' = [seal EXCEPT ![s].dead = TRUE]
      /\ passport' = [passport EXCEPT ![p].void = TRUE, ![p].grade = "VOID"]
      /\ UNCHANGED <<proof, now, owner, authority, partners, sites, serverKeys>>
      /\ seal[s].exists
  BY DEF MarkSealDead, registryVars
<1>4. passport[p] \in PassportRecords
  BY <1>1, <1>2 DEF TypeOK
<1>5. TypeOK'
  <2>1. passport' \in [Passports -> PassportRecords]
    BY <1>1, <1>3, <1>2, <1>4 DEF TypeOK, PassportRecords, Grades
  <2>2. seal' \in [Seals -> SealRecords]
    BY <1>1, <1>3, <1>2 DEF TypeOK, SealRecords
  <2>3. QED
    BY <1>1, <1>3, <2>1, <2>2 DEF TypeOK, Registered
<1>6. \A x \in Seals : /\ seal'[x].exists = seal[x].exists
                       /\ seal'[x].passport = seal[x].passport
                       /\ seal'[x].last_counter = seal[x].last_counter
  BY <1>1, <1>3, <1>2 DEF TypeOK, SealRecords
<1>7. \A q \in Passports :
        SealsOf(q)' = SealsOf(q) /\ ProofsOf(q)' = ProofsOf(q)
  BY <1>3, <1>6 DEF SealsOf, ProofsOf
<1>8. \A q \in Passports : /\ passport'[q].exists = passport[q].exists
                           /\ passport'[q].seal_count = passport[q].seal_count
                           /\ passport'[q].scan_count = passport[q].scan_count
  BY <1>1, <1>3, <1>2, <1>4 DEF TypeOK, PassportRecords
<1>9. CountersLead' /\ SealsHavePassports'
  BY <1>1, <1>3, <1>2, <1>6, <1>8
  DEF CountersLead, SealsHavePassports, ProofKeys, TypeOK, SealRecords
<1>10. CountsMatchAccounts' /\ FiniteAccounts'
  BY <1>1, <1>3, <1>7, <1>8 DEF CountsMatchAccounts, FiniteAccounts, Registered
<1>11. GradeTells(p)'
  <2>1. passport'[p].void = TRUE /\ passport'[p].grade = "VOID"
    BY <1>1, <1>3, <1>2, <1>4 DEF TypeOK, PassportRecords
  <2>2. s \in SealsOf(p)' /\ seal'[s].dead
    BY <1>1, <1>3, <1>2, <1>7 DEF SealsOf, TypeOK
  <2>3. HasDeadSeal(p)'
    BY <2>2 DEF HasDeadSeal
  <2>4. QED
    BY <2>1, <2>3 DEF GradeTells
<1>12. \A q \in Passports \ {p} :
        /\ passport'[q] = passport[q] /\ SealsOf(q)' = SealsOf(q)
        /\ \A x \in SealsOf(q) : seal'[x] = seal[x]
        /\ \A k \in ProofKeys : proof'[k] = proof[k]
  BY <1>1, <1>3, <1>2, <1>7 DEF TypeOK, SealsOf
<1>13. GradeTellsHistory'
  BY <1>11, <1>12, OtherPassport DEF GradeTellsHistory
<1>14. QED
  BY <1>5, <1>9, <1>10, <1>13 DEF IInv

\* record_scan as the accounts of seal s of passport p see it: ScanProof k is
\* written at a counter above the seal's.
Scanned(s, p, counter, k, new) ==
  /\ s \in Seals /\ p \in Passports /\ counter \in 1..MaxCounter
  /\ new \in ProofRecords
  /\ seal[s].exists /\ p = seal[s].passport
  /\ counter > seal[s].last_counter
  /\ k = <<s, counter>>
  /\ proof' = [proof EXCEPT ![k] = new]
  /\ seal' = [seal EXCEPT ![s].last_counter = counter]

\* A ScanProof never lands on an earlier one of its seal: init_if_needed always
\* initialises.
LEMMA NewProof ==
  ASSUME IInv, NEW s, NEW p, NEW counter, NEW k, NEW new,
         Scanned(s, p, counter, k, new)
  PROVE  /\ k \in ProofKeys /\ k \notin ProofsOf(p)
         /\ proof'[k] = new
         /\ \A n \in ProofKeys \ {k} : proof'[n] = proof[n]
         /\ seal'[s].last_counter = counter
         /\ \A x \in Seals : /\ seal'[x].exists = seal[x].exists
                              /\ seal'[x].passport = seal[x].passport
                              /\ seal'[x].dead = seal[x].dead
                              /\ x # s => seal'[x] = seal[x]
         /\ \A q \in Passports : SealsOf(q)' = SealsOf(q)
         /\ ProofsOf(p)' = ProofsOf(p) \cup {k}
         /\ CountersLead'
<1>0. /\ s \in Seals /\ p \in Passports /\ counter \in 1..MaxCounter
      /\ new \in ProofRecords
      /\ seal[s].exists /\ p = seal[s].passport
      /\ counter > seal[s].last_counter
      /\ k = <<s, counter>>
      /\ proof' = [proof EXCEPT ![k] = new]
      /\ seal' = [seal EXCEPT ![s].last_counter = counter]
  BY DEF Scanned
<1>1. TypeOK /\ CountersLead /\ seal[s] \in SealRecords
  BY <1>0 DEF IInv, TypeOK
<1>2. seal[s].last_counter \in Nat /\ counter \in Nat
  BY <1>0, <1>1 DEF SealRecords
<1>3. k \in ProofKeys /\ k[1] = s /\ k[2] = counter
  BY <1>0 DEF ProofKeys
<1>4. k \notin ProofsOf(p)
  BY <1>0, <1>1, <1>2, <1>3 DEF CountersLead, ProofsOf
<1>5. new # NoProof
  BY <1>0
<1>6. proof'[k] = new /\ \A n \in ProofKeys \ {k} : proof'[n] = proof[n]
  BY <1>0, <1>1, <1>3 DEF TypeOK
<1>7. /\ seal'[s].last_counter = counter
      /\ \A x \in Seals : /\ seal'[x].exists = seal[x].exists
                           /\ seal'[x].passport = seal[x].passport
                           /\ seal'[x].dead = seal[x].dead
                           /\ x # s => seal'[x] = seal[x]
  BY <1>0, <1>1 DEF TypeOK, SealRecords
<1>8. \A q \in Passports : SealsOf(q)' = SealsOf(q)
  BY <1>0, <1>7 DEF SealsOf
<1>9. s \in SealsOf(p)
  BY <1>0 DEF SealsOf
<1>10. ProofsOf(p)' = ProofsOf(p) \cup {k}
  BY <1>0, <1>2, <1>3, <1>5, <1>6, <1>8, <1>9 DEF ProofsOf
<1>11. CountersLead'
  <2>1. \A x \in Seals : ~seal'[x].exists => seal'[x].last_counter = 0
    BY <1>0, <1>1, <1>7 DEF CountersLead
  <2>2. ASSUME NEW n \in ProofKeys, proof'[n] # NoProof
        PROVE  n[2] <= seal'[n[1]].last_counter
    <3>1. n[1] \in Seals /\ n[2] \in Nat /\ n = <<n[1], n[2]>>
      BY <1>0 DEF ProofKeys
    <3>2. CASE n = k
      BY <1>0, <1>2, <1>3, <1>7, <3>2
    <3>3. CASE n # k
      <4>1. n[2] <= seal[n[1]].last_counter
        BY <1>0, <1>1, <1>6, <2>2, <3>3 DEF CountersLead
      <4>2. CASE n[1] = s
        BY <1>0, <1>2, <1>7, <3>1, <4>1, <4>2
      <4>3. CASE n[1] # s
        BY <1>0, <1>7, <3>1, <4>1, <4>3
      <4>4. QED
        BY <4>2, <4>3
    <3>4. QED
      BY <3>2, <3>3
  <2>3. QED
    BY <2>1, <2>2 DEF CountersLead
<1>12. QED
  BY <1>2, <1>3, <1>4, <1>6, <1>7, <1>8, <1>10, <1>11

\* record_scan: the new grade is the one the grown history calls for.
LEMMA RecordScanKeeps ==
  ASSUME IInv, NEW w \in Wallets, NEW s \in Seals,
         NEW counter \in 1..MaxCounter, NEW reading \in Readings,
         NEW decisive, NEW claim, NEW id \in KeyIds, NEW pubkey, NEW ts,
         RecordScan(w, s, counter, reading, decisive, claim, id, pubkey, ts)
  PROVE  IInv'
<1>0. seal[s].passport \in Passports
  BY DEF IInv, TypeOK, SealRecords
<1> PICK p \in Passports : p = seal[s].passport
  BY <1>0
<1> DEFINE after == PassportAfterScan(p, reading)
<1>n. PICK new \in ProofRecords : new = [reading |-> reading, key |-> id]
  BY DEF ProofRecords
<1>k. PICK k \in ProofKeys : k = <<s, counter>>
  BY DEF ProofKeys
<1>1. TypeOK /\ FiniteAccounts /\ CountersLead /\ SealsHavePassports
      /\ CountsMatchAccounts /\ GradeTellsHistory
  BY DEF IInv
<1>2. /\ proof' = [proof EXCEPT ![k] = new]
      /\ seal' = [seal EXCEPT ![s].last_counter = counter]
      /\ passport' = [passport EXCEPT ![p].scan_count = @ + 1,
                                      ![p].grade = after.grade,
                                      ![p].void = after.void]
      /\ UNCHANGED <<now, owner, authority, partners, sites, serverKeys>>
      /\ seal[s].exists /\ counter > seal[s].last_counter
      /\ ~IsVoided(p)
  BY <1>k, <1>n DEF RecordScan, CounterFresh, registryVars
<1>3. new.reading = reading
  BY <1>n
<1>4. /\ k \in ProofKeys /\ k \notin ProofsOf(p)
      /\ proof'[k] = new
      /\ \A n \in ProofKeys \ {k} : proof'[n] = proof[n]
      /\ seal'[s].last_counter = counter
      /\ \A x \in Seals :
           /\ seal'[x].exists = seal[x].exists
           /\ seal'[x].passport = seal[x].passport
           /\ seal'[x].dead = seal[x].dead
           /\ x # s => seal'[x] = seal[x]
      /\ \A q \in Passports : SealsOf(q)' = SealsOf(q)
      /\ ProofsOf(p)' = ProofsOf(p) \cup {k}
      /\ CountersLead'
  <2>1. Scanned(s, p, counter, k, new)
    BY <1>2, <1>k DEF Scanned
  <2>2. /\ k \in ProofKeys /\ k \notin ProofsOf(p)
        /\ proof'[k] = new /\ seal'[s].last_counter = counter
        /\ ProofsOf(p)' = ProofsOf(p) \cup {k}
        /\ CountersLead'
    BY <2>1, NewProof
  <2>3. \A n \in ProofKeys \ {k} : proof'[n] = proof[n]
    BY <2>1, NewProof
  <2>4. \A x \in Seals : /\ seal'[x].exists = seal[x].exists
                         /\ seal'[x].passport = seal[x].passport
                         /\ seal'[x].dead = seal[x].dead
                         /\ x # s => seal'[x] = seal[x]
    BY <1>1, <1>2 DEF TypeOK, SealRecords
  <2>5. \A q \in Passports : SealsOf(q)' = SealsOf(q)
    BY <2>1, NewProof
  <2>6. QED
    BY <2>2, <2>3, <2>4, <2>5
<1>5. k[1] = s /\ k[2] = counter /\ s \in SealsOf(p)
  BY <1>k, <1>2 DEF SealsOf
<1>6. after.grade \in Grades /\ after.void \in BOOLEAN
  BY <1>4, AfterScanType
<1> HIDE DEF after
<1>7. passport[p] \in PassportRecords
  BY <1>1, <1>4 DEF TypeOK
<1>8. /\ passport'[p].scan_count = passport[p].scan_count + 1
      /\ passport'[p].seal_count = passport[p].seal_count
      /\ passport'[p].exists = passport[p].exists
      /\ passport'[p].grade = after.grade
      /\ passport'[p].void = after.void
      /\ \A q \in Passports \ {p} : passport'[q] = passport[q]
  BY <1>1, <1>2, <1>4, <1>6, <1>7 DEF TypeOK, PassportRecords
<1>9. TypeOK'
  <2>1. passport' \in [Passports -> PassportRecords]
    <3> PICK g \in Grades, v \in BOOLEAN : g = after.grade /\ v = after.void
      BY <1>6
    <3>1. passport' = [passport EXCEPT ![p].scan_count = @ + 1, ![p].grade = g,
                                       ![p].void = v]
      BY <1>2
    <3>2. QED
      BY <1>1, <3>1, ScannedPassportType
  <2>2. seal' \in [Seals -> SealRecords]
    <3>1. seal[s] \in SealRecords /\ counter \in Nat
      BY <1>1 DEF TypeOK
    <3>2. QED
      BY <1>1, <1>2, <3>1 DEF TypeOK, SealRecords
  <2>3. proof' \in [ProofKeys -> ProofRecords \cup {NoProof}]
    BY <1>1, <1>2, <1>3 DEF TypeOK
  <2>4. QED
    BY <1>1, <1>2, <2>1, <2>2, <2>3 DEF TypeOK, Registered
<1>10. SealsHavePassports'
  BY <1>1, <1>4, <1>8 DEF SealsHavePassports, TypeOK, SealRecords
<1>11. /\ IsFiniteSet(ProofsOf(p)')
       /\ Cardinality(ProofsOf(p)') = Cardinality(ProofsOf(p)) + 1
  BY <1>1, <1>4, FS_AddElement DEF FiniteAccounts
<1>12. \A q \in Passports \ {p} :
        /\ passport'[q] = passport[q] /\ SealsOf(q)' = SealsOf(q)
        /\ s \notin SealsOf(q)
        /\ \A x \in SealsOf(q) : seal'[x] = seal[x]
        /\ \A n \in ProofKeys : n[1] \in SealsOf(q) => proof'[n] = proof[n]
  BY <1>4, <1>5, <1>8 DEF SealsOf
<1>13. FiniteAccounts' /\ CountsMatchAccounts'
  <2>1. \A q \in Passports \ {p} :
          /\ IsFiniteSet(SealsOf(q)') /\ IsFiniteSet(ProofsOf(q)')
          /\ passport'[q].scan_count = Cardinality(ProofsOf(q)')
          /\ passport'[q].seal_count = Cardinality(SealsOf(q)')
          /\ passport'[q].seal_count <= MaxSeals
    BY <1>12, OtherPassport
  <2>2. /\ IsFiniteSet(SealsOf(p)') /\ IsFiniteSet(ProofsOf(p)')
        /\ passport'[p].scan_count = Cardinality(ProofsOf(p)')
        /\ passport'[p].seal_count = Cardinality(SealsOf(p)')
        /\ passport'[p].seal_count <= MaxSeals
    BY <1>1, <1>4, <1>8, <1>11 DEF FiniteAccounts, CountsMatchAccounts
  <2>3. QED
    BY <1>1, <1>2, <2>1, <2>2
    DEF FiniteAccounts, CountsMatchAccounts, Registered
<1>14. GradeTells(p)'
  <2>1. /\ ~passport[p].void /\ GradeTells(p) /\ passport[p].grade # "VOID"
        /\ ~OpenedSeen(p) /\ ~HasDeadSeal(p)
    BY <1>1, <1>2, <1>4 DEF IsVoided, GradeTellsHistory, GradeTells
  <2>2. \A n \in ProofsOf(p) : n \in ProofKeys /\ n # k /\ proof'[n] = proof[n]
    BY <1>4 DEF ProofsOf
  <2>3. OpenedSeen(p)' <=> IsOpened(reading)
    BY <1>3, <1>4, <2>1, <2>2 DEF OpenedSeen
  <2>4. TriggeredSeen(p)' <=> TriggeredSeen(p) \/ IsTriggered(reading)
    BY <1>3, <1>4, <2>2 DEF TriggeredSeen
  <2>5. ~HasDeadSeal(p)'
    BY <1>4, <2>1 DEF HasDeadSeal, SealsOf
  <2>6. passport[p].grade = "C" <=> TriggeredSeen(p)
    <3>1. \A n \in NewestProofs(p) : proof[n].reading.fill \in Nat
      BY <1>1 DEF NewestProofs, ProofsOf, TypeOK, ProofRecords
    <3>2. QED
      BY <2>1, <3>1, FillGrades DEF GradeTells
  <2>7. k \in NewestProofs(p)'
    BY <1>4, <1>5 DEF NewestProofs
  <2>8. after = IF IsOpened(reading) THEN [grade |-> "VOID", void |-> TRUE]
                ELSE IF TriggeredSeen(p) \/ IsTriggered(reading)
                     THEN [grade |-> "C", void |-> FALSE]
                ELSE [grade |-> GradeFromFill(reading.fill), void |-> FALSE]
    BY <1>2, <2>6 DEF PassportAfterScan, after
  <2>9. GradeFromFill(reading.fill) \in {"A", "B", "D"}
    BY FillGrades
  <2>10. CASE IsOpened(reading)
    BY <1>8, <2>3, <2>8, <2>10 DEF GradeTells
  <2>11. CASE ~IsOpened(reading) /\ TriggeredSeen(p)'
    <3>1. passport'[p].grade = "C" /\ passport'[p].void = FALSE
      BY <1>8, <2>4, <2>8, <2>11
    <3>2. QED
      BY <2>3, <2>5, <2>11, <3>1 DEF GradeTells
  <2>12. CASE ~IsOpened(reading) /\ ~TriggeredSeen(p)'
    <3>1. /\ passport'[p].grade = GradeFromFill(reading.fill)
          /\ passport'[p].void = FALSE
      BY <1>8, <2>4, <2>8, <2>12
    <3>2. \E n \in NewestProofs(p)' :
            passport'[p].grade = GradeFromFill(proof'[n].reading.fill)
      BY <1>3, <1>4, <2>7, <3>1
    <3>3. QED
      BY <2>3, <2>5, <2>9, <2>12, <3>1, <3>2 DEF GradeTells
  <2>13. QED
    BY <2>10, <2>11, <2>12
<1>15. GradeTellsHistory'
  BY <1>12, <1>14, OtherPassport DEF GradeTellsHistory
<1>16. QED
  BY <1>4, <1>9, <1>10, <1>13, <1>15 DEF IInv
-----------------------------------------------------------------------------
(* The invariant holds                                                     *)

\* Before any instruction no account exists and every count is zero.
LEMMA InitKeeps == Init => IInv
<1> SUFFICES ASSUME Init PROVE IInv
  OBVIOUS
<1>1. Registered = {}
  BY DEF Init, Registered
<1>2. /\ \A p \in Passports : SealsOf(p) = {} /\ ProofsOf(p) = {}
      /\ \A s \in Seals : ~seal[s].exists /\ seal[s].last_counter = 0
      /\ \A k \in ProofKeys : proof[k] = NoProof
  BY DEF Init, SealsOf, ProofsOf
<1>3. \A p \in Passports : /\ passport[p].scan_count = 0
                           /\ passport[p].seal_count = 0
                           /\ passport[p].grade = "A" /\ ~passport[p].void
  BY DEF Init
<1>4. TypeOK
  <2>1. passport \in [Passports -> PassportRecords]
    <3>1. (CHOOSE a \in Assets : TRUE) \in Assets
      OBVIOUS
    <3>2. QED
      BY <3>1 DEF Init, PassportRecords, Grades
  <2>2. seal \in [Seals -> SealRecords]
    <3>1. (CHOOSE p \in Passports : TRUE) \in Passports
      OBVIOUS
    <3>2. QED
      BY <3>1 DEF Init, SealRecords
  <2>3. QED
    BY <1>1, <2>1, <2>2, FS_EmptySet DEF Init, TypeOK
<1>5. FiniteAccounts /\ CountersLead /\ SealsHavePassports
  BY <1>1, <1>2, FS_EmptySet
  DEF Init, FiniteAccounts, CountersLead, SealsHavePassports
<1>6. CountsMatchAccounts
  BY <1>2, <1>3, FS_EmptySet DEF CountsMatchAccounts
<1>7. GradeTellsHistory
  BY <1>2, <1>3
  DEF GradeTellsHistory, GradeTells, OpenedSeen, HasDeadSeal, TriggeredSeen
<1>8. QED
  BY <1>4, <1>5, <1>6, <1>7 DEF IInv

\* Every instruction, the clock and every transfer of an asset keep it.
LEMMA NextKeeps == IInv /\ [Next]_vars => IInv'
<1> SUFFICES ASSUME IInv, [Next]_vars PROVE IInv'
  OBVIOUS
<1>1. TypeOK /\ FiniteAccounts
  BY DEF IInv
<1>2. ASSUME NEW signer \in Wallets, RegistryStep(signer)
      PROVE  IInv'
  <2>1. /\ authority' \in Wallets
        /\ partners' \subseteq Wallets /\ Cardinality(partners') <= MaxPartners
        /\ sites' \subseteq Sites /\ Cardinality(sites') <= MaxSites
        /\ serverKeys' \in [KeyIds -> ServerKeyRecords \cup {NoKey}]
        /\ Cardinality(Registered') <= MaxServerKeys
        /\ IsFiniteSet(partners') /\ IsFiniteSet(sites')
        /\ IsFiniteSet(Registered')
        /\ UNCHANGED <<passport, seal, proof, now, owner>>
    BY <1>2, RegistryKeeps
  <2>2. TypeOK'
    BY <1>1, <2>1 DEF TypeOK
  <2>3. QED
    BY <2>1, <2>2, AccountsUntouched
<1>3. ASSUME NEW signer \in Wallets, PassportStep(signer)
      PROVE  IInv'
  BY <1>3, MintKeeps, AttachKeeps, MarkDeadKeeps, RecordScanKeeps
  DEF PassportStep
<1>4. ASSUME UNCHANGED <<passport, seal, proof, authority, partners, sites,
                         serverKeys>>,
             now' \in Nat, owner' \in [Assets -> Wallets]
      PROVE  IInv'
  <2>1. TypeOK'
    BY <1>1, <1>4 DEF TypeOK, Registered
  <2>2. IsFiniteSet(partners') /\ IsFiniteSet(sites')
        /\ IsFiniteSet(Registered')
    BY <1>1, <1>4 DEF FiniteAccounts, Registered
  <2>3. QED
    BY <1>4, <2>1, <2>2, AccountsUntouched
<1>5. CASE Tick
  BY <1>1, <1>4, <1>5 DEF Tick, TypeOK, registryVars, accountVars
<1>6. ASSUME NEW asset \in Assets, NEW to \in Wallets, TransferAsset(asset, to)
      PROVE  IInv'
  BY <1>1, <1>4, <1>6 DEF TransferAsset, TypeOK, registryVars, accountVars
<1>7. CASE UNCHANGED vars
  BY <1>1, <1>4, <1>7 DEF vars, TypeOK
<1>8. QED
  BY <1>2, <1>3, <1>5, <1>6, <1>7 DEF Next

\* The inductive invariant, for every set of wallets, passports and seals.
THEOREM Invariant == Spec => []IInv
<1>1. Init => IInv
  BY InitKeeps
<1>2. IInv /\ [Next]_vars => IInv'
  BY NextKeeps
<1>3. QED
  BY <1>1, <1>2, PTL DEF Spec

-----------------------------------------------------------------------------
(* What it says                                                            *)

\* Every account holds a value of its type and no registry list outgrows the
\* space its account was created with (state.rs Registry::INIT_SPACE).
THEOREM TypeCorrect == Spec => []TypeOK
<1>1. IInv => TypeOK
  BY DEF IInv
<1>2. QED
  BY <1>1, Invariant, PTL

\* scan_count and seal_count, which attach_seal and record_scan increment, are
\* the numbers of accounts they stand for.
THEOREM CountsExact == Spec => []CountsMatchAccounts
<1>1. IInv => CountsMatchAccounts
  BY DEF IInv
<1>2. QED
  BY <1>1, Invariant, PTL

\* The grade record_scan and mark_seal_dead leave is the one the whole history
\* of scans calls for (grade.rs passport_after_scan).
THEOREM GradeTellsScans == Spec => []GradeTellsHistory
<1>1. IInv => GradeTellsHistory
  BY DEF IInv
<1>2. QED
  BY <1>1, Invariant, PTL

\* A key that has ended is not touched by any registry instruction and signs no
\* ScanProof: record_scan checks the term against the clock too.
THEOREM EndedKeysStaySilent == Spec => EndedKeySilent
<1> DEFINE Silent ==
      \A k \in KeyIds :
        Ended(k) => /\ serverKeys'[k] = serverKeys[k]
                    /\ \A n \in ProofKeys :
                         proof'[n] # proof[n] => proof'[n].key # k
<1>1. IInv /\ [Next]_vars => [Silent]_vars
  <2> SUFFICES ASSUME IInv, Next PROVE Silent
    BY DEF vars
  <2> USE DEF registryVars, accountVars
  <2>1. TypeOK
    BY DEF IInv
  <2>2. \A k \in KeyIds : Ended(k) => /\ serverKeys[k] \in ServerKeyRecords
                                     /\ serverKeys[k].valid_to # 0
                                     /\ serverKeys[k].valid_to < now
                                     /\ serverKeys[k].valid_to \in Int
                                     /\ now \in Nat
    BY <2>1 DEF TypeOK, Ended, ServerKeyRecords
  <2>3. ASSUME NEW k \in KeyIds, Ended(k), NEW signer \in Wallets,
               RegistryStep(signer)
        PROVE  serverKeys'[k] = serverKeys[k] /\ UNCHANGED proof
    <3>1. ASSUME NEW id \in KeyIds, NEW pubkey \in Pubkeys, NEW term \in Terms,
                 AddServerKey(signer, id, pubkey, term.from, term.to)
          PROVE  serverKeys'[k] = serverKeys[k] /\ UNCHANGED proof
      BY <2>1, <2>3, <3>1 DEF AddServerKey, Ended, TypeOK
    <3>2. ASSUME NEW id \in KeyIds, RevokeServerKey(signer, id)
          PROVE  serverKeys'[k] = serverKeys[k] /\ UNCHANGED proof
      <4>1. id # k
        BY <2>2, <2>3, <3>2 DEF RevokeServerKey
      <4>2. QED
        BY <2>1, <3>2, <4>1 DEF RevokeServerKey, TypeOK
    <3>3. QED
      BY <2>3, <3>1, <3>2
      DEF RegistryStep, AddPartner, RemovePartner, AddSite, TransferAuthority
  <2>4. ASSUME NEW k \in KeyIds, Ended(k), NEW w \in Wallets, NEW s \in Seals,
               NEW counter \in 1..MaxCounter, NEW reading \in Readings,
               NEW decisive, NEW claim, NEW id \in KeyIds, NEW pubkey, NEW ts,
               RecordScan(w, s, counter, reading, decisive, claim, id, pubkey,
                          ts)
        PROVE  /\ serverKeys'[k] = serverKeys[k]
               /\ \A n \in ProofKeys :
                    proof'[n] # proof[n] => proof'[n].key # k
    <3>1. IsValidAt(serverKeys[id], now)
      BY <2>4 DEF RecordScan, CheckKeyAndFreshness
    <3>2. id # k
      BY <2>2, <2>4, <3>1 DEF IsValidAt
    <3>3. proof' = [proof EXCEPT ![<<s, counter>>] =
                      [reading |-> reading, key |-> id]]
      BY <2>4 DEF RecordScan
    <3>4. QED
      BY <2>1, <2>4, <3>2, <3>3 DEF RecordScan, TypeOK
  <2>5. ASSUME NEW k \in KeyIds, Ended(k), NEW signer \in Wallets,
               PassportStep(signer)
        PROVE  /\ serverKeys'[k] = serverKeys[k]
               /\ \A n \in ProofKeys :
                    proof'[n] # proof[n] => proof'[n].key # k
    BY <2>4, <2>5 DEF PassportStep, MintPassport, AttachSeal, MarkSealDead
  <2>6. QED
    BY <2>3, <2>5 DEF Next, Tick, TransferAsset
<1>2. QED
  BY <1>1, Invariant, PTL DEF Spec, EndedKeySilent

-----------------------------------------------------------------------------
(* What a program that reads the accounts may rely on                      *)

\* A passport that was not minted is not void: void comes from its seals and scans.
LEMMA UnmintedNotVoid ==
  ASSUME IInv, NEW p \in Passports, ~passport[p].exists
  PROVE  ~IsVoided(p)
<1>1. SealsOf(p) = {}
  BY DEF IInv, SealsHavePassports, SealsOf
<1>2. ~HasDeadSeal(p) /\ ~OpenedSeen(p)
  BY <1>1 DEF HasDeadSeal, OpenedSeen, ProofsOf
<1>3. GradeTells(p)
  BY DEF IInv, GradeTellsHistory
<1> QED
  BY <1>2, <1>3 DEF GradeTells, IsVoided

\* Where passports, seals and ScanProofs stay as they are, a reader sees nothing.
LEMMA ReadersSeeNothing ==
  ASSUME UNCHANGED accountVars
  PROVE  UNCHANGED Evid!evidenceVars
BY DEF accountVars, Evid!evidenceVars, SealPassport, ScanAccounts, DeadSeals,
       VoidPassports, IsVoided

\* mint_passport is not seen by a reader of seals and scans.
LEMMA MintUnseen ==
  ASSUME IInv, NEW issuer \in Wallets, NEW p \in Passports, NEW asset \in Assets,
         MintPassport(issuer, p, asset)
  PROVE  UNCHANGED Evid!evidenceVars
<1>1. passport \in [Passports -> PassportRecords] /\ ~passport[p].exists
  BY DEF IInv, TypeOK, MintPassport
<1>2. ~IsVoided(p)
  BY <1>1, UnmintedNotVoid
<1>3. /\ \A q \in Passports : q # p => passport'[q] = passport[q]
      /\ passport'[p].void = FALSE /\ passport'[p].grade = "A"
      /\ seal' = seal /\ proof' = proof
  BY <1>1 DEF MintPassport
<1>4. \A q \in Passports : IsVoided(q)' <=> IsVoided(q)
  BY <1>2, <1>3 DEF IsVoided
<1>5. VoidPassports' = VoidPassports
  BY <1>4 DEF VoidPassports
<1> QED
  BY <1>3, <1>5 DEF Evid!evidenceVars, SealPassport, ScanAccounts, DeadSeals

\* attach_seal.
LEMMA AttachIsEvidence ==
  ASSUME IInv, NEW signer \in Wallets, NEW p \in Passports, NEW s \in Seals,
         AttachSeal(signer, p, s)
  PROVE  Evid!AttachSeal(s, p)
<1>1. /\ passport \in [Passports -> PassportRecords] /\ seal \in [Seals -> SealRecords]
      /\ ~seal[s].exists /\ ~IsVoided(p)
  BY DEF IInv, TypeOK, AttachSeal
<1>2. /\ \A t \in Seals : t # s => seal'[t] = seal[t]
      /\ seal'[s].exists = TRUE /\ seal'[s].passport = p /\ seal'[s].dead = FALSE
      /\ proof' = proof
  BY <1>1 DEF AttachSeal
<1>3. \A q \in Passports : /\ passport'[q].void = passport[q].void
                           /\ passport'[q].grade = passport[q].grade
  BY <1>1 DEF AttachSeal, PassportRecords
<1>4. VoidPassports' = VoidPassports
  BY <1>3 DEF VoidPassports, IsVoided
<1>5. DeadSeals' = DeadSeals
  BY <1>1, <1>2 DEF DeadSeals
<1>6. ScanAccounts' = ScanAccounts
  BY <1>2 DEF ScanAccounts
<1>7. DOMAIN SealPassport = {t \in Seals : seal[t].exists}
  BY DEF SealPassport
<1>8. {t \in Seals : seal'[t].exists} = DOMAIN SealPassport \cup {s}
  BY <1>1, <1>2, <1>7
<1>9. SealPassport' = [t \in DOMAIN SealPassport \cup {s} |->
                         IF t = s THEN p ELSE SealPassport[t]]
  <2>1. SealPassport' = [t \in DOMAIN SealPassport \cup {s} |-> seal'[t].passport]
    BY <1>8 DEF SealPassport
  <2>2. \A t \in DOMAIN SealPassport \cup {s} :
          seal'[t].passport = IF t = s THEN p ELSE SealPassport[t]
    BY <1>2, <1>7 DEF SealPassport
  <2> QED
    BY <2>1, <2>2
<1>10. s \notin DOMAIN SealPassport /\ p \notin VoidPassports
  BY <1>1, <1>7 DEF VoidPassports
<1> QED
  BY <1>4, <1>5, <1>6, <1>9, <1>10 DEF Evid!AttachSeal

\* mark_seal_dead.
LEMMA MarkDeadIsEvidence ==
  ASSUME IInv, NEW signer \in Wallets, NEW s \in Seals, MarkSealDead(signer, s)
  PROVE  Evid!MarkSealDead(s)
<1> DEFINE p == seal[s].passport
<1>1. /\ passport \in [Passports -> PassportRecords] /\ seal \in [Seals -> SealRecords]
      /\ seal[s].exists /\ ~seal[s].dead
  BY DEF IInv, TypeOK, MarkSealDead
<1>2. p \in Passports
  BY <1>1 DEF SealRecords
<1>3. /\ \A t \in Seals : t # s => seal'[t] = seal[t]
      /\ seal'[s].exists = seal[s].exists /\ seal'[s].passport = p /\ seal'[s].dead = TRUE
      /\ proof' = proof
      /\ passport' = [passport EXCEPT ![p].void = TRUE, ![p].grade = "VOID"]
  BY <1>1 DEF MarkSealDead, SealRecords
<1> HIDE DEF p
<1>4. \A q \in Passports : IsVoided(q)' <=> IsVoided(q) \/ q = p
  BY <1>1, <1>2, <1>3 DEF IsVoided, PassportRecords
<1>5. VoidPassports' = VoidPassports \cup {p}
  BY <1>2, <1>4 DEF VoidPassports
<1>6. DeadSeals' = DeadSeals \cup {s}
  BY <1>1, <1>3 DEF DeadSeals
<1>7. ScanAccounts' = ScanAccounts
  BY <1>3 DEF ScanAccounts
<1>8. /\ DOMAIN SealPassport = {t \in Seals : seal[t].exists} /\ s \in DOMAIN SealPassport
      /\ SealPassport[s] = p
  BY <1>1 DEF SealPassport, p
<1>9. SealPassport' = SealPassport
  <2>1. {t \in Seals : seal'[t].exists} = {t \in Seals : seal[t].exists}
    BY <1>1, <1>3
  <2>2. \A t \in Seals : seal'[t].passport = seal[t].passport
    BY <1>3 DEF p
  <2> QED
    BY <2>1, <2>2 DEF SealPassport
<1>10. s \notin DeadSeals
  BY <1>1 DEF DeadSeals
<1> QED
  BY <1>5, <1>6, <1>7, <1>8, <1>9, <1>10 DEF Evid!MarkSealDead

\* record_scan: the ScanProof is a new one, and newer than the seal's others, since
\* none of them is ahead of the seal's counter.
LEMMA RecordScanIsEvidence ==
  ASSUME IInv, NEW attester \in Wallets, NEW s \in Seals, NEW counter \in 1..MaxCounter,
         NEW reading \in Readings, NEW decisive \in BOOLEAN, NEW claim \in Claims,
         NEW id \in KeyIds, NEW pubkey \in Pubkeys, NEW ts \in Int,
         RecordScan(attester, s, counter, reading, decisive, claim, id, pubkey, ts)
  PROVE  \E scan \in ScanAccounts', opened \in BOOLEAN : Evid!RecordScan(scan, opened)
<1> DEFINE p == seal[s].passport
           key == <<s, counter>>
           new == [reading |-> reading, key |-> id]
           scan == [seal |-> s, counter |-> counter, reading |-> reading, key |-> id]
           opened == IsOpened(reading)
           after == PassportAfterScan(p, reading)
           Kept == {n \in ProofKeys : proof[n] # NoProof}
           Account(k, q) == [seal |-> k[1], counter |-> k[2], reading |-> q[k].reading, key |-> q[k].key]
<1>1. /\ passport \in [Passports -> PassportRecords] /\ seal \in [Seals -> SealRecords]
      /\ proof \in [ProofKeys -> ProofRecords \cup {NoProof}]
      /\ \A k \in ProofKeys : proof[k] # NoProof => k[2] <= seal[k[1]].last_counter
  BY DEF IInv, TypeOK, CountersLead
<1>2. /\ seal[s].exists /\ ~seal[s].dead /\ ~IsVoided(p) /\ counter > seal[s].last_counter
      /\ proof' = [proof EXCEPT ![key] = new]
      /\ seal' = [seal EXCEPT ![s].last_counter = counter]
      /\ passport' = [passport EXCEPT ![p].scan_count = @ + 1,
                                      ![p].grade = after.grade, ![p].void = after.void]
  BY DEF RecordScan, CounterFresh
<1>3. p \in Passports /\ seal[s].last_counter \in Nat /\ key \in ProofKeys /\ counter \in Nat
  BY <1>1 DEF SealRecords, ProofKeys
<1>4. \A k \in Kept : k[1] = s => k[2] < counter
  BY <1>1, <1>2, <1>3 DEF ProofKeys
<1>5. key \notin Kept
  BY <1>3, <1>4
<1>6. new # NoProof
  BY DEF ProofRecords
<1>7. {n \in ProofKeys : proof'[n] # NoProof} = Kept \cup {key}
  BY <1>1, <1>2, <1>3, <1>6
<1>8. proof'[key] = new /\ \A k \in Kept : proof'[k] = proof[k]
  BY <1>1, <1>2, <1>3, <1>5
<1>9. ScanAccounts' = ScanAccounts \cup {scan}
  <2>1. ScanAccounts = {Account(k, proof) : k \in Kept}
    BY DEF ScanAccounts
  <2>2. ScanAccounts' = {Account(k, proof') : k \in Kept \cup {key}}
    BY <1>7 DEF ScanAccounts
  <2>3. Account(key, proof') = scan
    BY <1>8
  <2>4. \A k \in Kept : Account(k, proof') = Account(k, proof)
    BY <1>8
  <2> HIDE DEF Account, Kept, key, scan
  <2> QED
    BY <2>1, <2>2, <2>3, <2>4
<1>10. \A old \in ScanAccounts : old.seal = scan.seal => old.counter < scan.counter
  BY <1>4 DEF ScanAccounts
<1>11. \A t \in Seals : /\ seal'[t].exists = seal[t].exists
                        /\ seal'[t].passport = seal[t].passport
                        /\ seal'[t].dead = seal[t].dead
  BY <1>1, <1>2 DEF SealRecords
<1>12. SealPassport' = SealPassport /\ DeadSeals' = DeadSeals
  BY <1>11 DEF SealPassport, DeadSeals
<1>13. /\ s \in DOMAIN SealPassport /\ s \notin DeadSeals
       /\ SealPassport[s] = p /\ p \notin VoidPassports
  BY <1>2 DEF SealPassport, DeadSeals, VoidPassports
<1>14. /\ opened => after.void
       /\ ~opened => ~after.void /\ after.grade # "VOID"
  BY <1>2, FillGrades DEF PassportAfterScan
<1>15. /\ passport'[p].void = after.void /\ passport'[p].grade = after.grade
       /\ \A q \in Passports : q # p => passport'[q] = passport[q]
  BY <1>1, <1>2, <1>3 DEF PassportRecords
<1> HIDE DEF p, after, opened
<1>16. \A q \in Passports : IsVoided(q)' <=> IsVoided(q) \/ (opened /\ q = p)
  BY <1>2, <1>3, <1>14, <1>15 DEF IsVoided
<1>17. VoidPassports' = IF opened THEN VoidPassports \cup {p} ELSE VoidPassports
  BY <1>3, <1>16 DEF VoidPassports
<1>18. opened \in BOOLEAN
  BY DEF opened, IsOpened
<1>19. Evid!RecordScan(scan, opened)
  BY <1>9, <1>10, <1>12, <1>13, <1>17 DEF Evid!RecordScan
<1> QED
  BY <1>9, <1>18, <1>19

\* The flacon program keeps what the escrow relies on: every step of it is a step of
\* Evidence, or one that a reader of the accounts does not see.
THEOREM FlaconImplementsEvidence == Spec => EvidenceForReaders
<1>1. Init => Evid!EvidenceInit
  <2> SUFFICES ASSUME Init PROVE Evid!EvidenceInit
    OBVIOUS
  <2>1. \A t \in Seals : seal[t].exists = FALSE /\ seal[t].dead = FALSE
    BY DEF Init
  <2>2. SealPassport = [t \in {} |-> seal[t].passport] /\ DeadSeals = {}
    BY <2>1 DEF SealPassport, DeadSeals
  <2>3. ScanAccounts = {}
    BY DEF Init, ScanAccounts
  <2>4. \A p \in Passports : ~IsVoided(p)
    BY DEF Init, IsVoided
  <2>5. VoidPassports = {}
    BY <2>4 DEF VoidPassports
  <2>6. DOMAIN SealPassport = {} /\ SealPassport \in [DOMAIN SealPassport -> Passports]
    BY <2>2
  <2> QED
    BY <2>2, <2>3, <2>5, <2>6 DEF Evid!EvidenceInit
<1>2. IInv /\ [Next]_vars => [Evid!EvidenceNext]_Evid!evidenceVars
  <2> SUFFICES ASSUME IInv, [Next]_vars
               PROVE  Evid!EvidenceNext \/ UNCHANGED Evid!evidenceVars
    OBVIOUS
  <2>1. ASSUME NEW signer \in Wallets, RegistryStep(signer) PROVE UNCHANGED accountVars
    BY <2>1 DEF RegistryStep, AddServerKey, RevokeServerKey, AddPartner, RemovePartner,
                AddSite, TransferAuthority
  <2>2. ASSUME NEW signer \in Wallets, PassportStep(signer)
        PROVE  Evid!EvidenceNext \/ UNCHANGED Evid!evidenceVars
    <3>1. ASSUME NEW p \in Passports, NEW asset \in Assets, MintPassport(signer, p, asset)
          PROVE  UNCHANGED Evid!evidenceVars
      BY <3>1, MintUnseen
    <3>2. ASSUME NEW p \in Passports, NEW s \in Seals, AttachSeal(signer, p, s)
          PROVE  Evid!EvidenceNext
      BY <3>2, AttachIsEvidence DEF Evid!EvidenceNext
    <3>3. ASSUME NEW s \in Seals, MarkSealDead(signer, s)
          PROVE  Evid!EvidenceNext
      BY <3>3, MarkDeadIsEvidence DEF Evid!EvidenceNext
    <3>4. ASSUME NEW s \in Seals, NEW counter \in 1..MaxCounter, NEW reading \in Readings,
                 NEW decisive \in BOOLEAN, NEW claim \in Claims, NEW id \in KeyIds,
                 NEW pubkey \in Pubkeys, NEW ts \in (now - Skew - 1)..(now + Skew + 1),
                 RecordScan(signer, s, counter, reading, decisive, claim, id, pubkey, ts)
          PROVE  Evid!EvidenceNext
      <4>1. ts \in Int
        BY DEF IInv, TypeOK
      <4>2. \E scan \in ScanAccounts', opened \in BOOLEAN : Evid!RecordScan(scan, opened)
        BY <3>4, <4>1, RecordScanIsEvidence
      <4> QED
        BY <4>2 DEF Evid!EvidenceNext
    <3> QED
      BY <2>2, <3>1, <3>2, <3>3, <3>4 DEF PassportStep
  <2>3. CASE Tick \/ \E asset \in Assets, to \in Wallets : TransferAsset(asset, to)
    BY <2>3, ReadersSeeNothing DEF Tick, TransferAsset
  <2>4. CASE UNCHANGED vars
    BY <2>4, ReadersSeeNothing DEF vars, accountVars
  <2> QED
    BY <2>1, <2>2, <2>3, <2>4, ReadersSeeNothing DEF Next
<1>3. QED
  BY <1>1, <1>2, Invariant, PTL DEF Spec, Evid!EvidenceSpec, EvidenceForReaders

HIDE FlaconAssumption

-----------------------------------------------------------------------------
(* The card reader: a mask keeps the levels it is made of                  *)

\* Induction over an interval, stated with a set: the least number outside the
\* set would have a predecessor in it.
LEMMA SetInduction ==
  ASSUME NEW m \in Nat, NEW S, 0 \in S,
         \A n \in 0..(m - 1) : n \in S => n + 1 \in S
  PROVE  0..m \subseteq S
<1> DEFINE T == (0..m) \ S
<1> SUFFICES ASSUME T # {} PROVE FALSE
  OBVIOUS
<1>1. IsWellFoundedOn(OpToRel(<, Nat), Nat)
  BY NatLessThanWellFounded, Zenon
<1>2. T \subseteq Nat
  OBVIOUS
<1> HIDE DEF T
<1>3. PICK x \in T : \A y \in T : ~(<<y, x>> \in OpToRel(<, Nat))
  BY <1>1, <1>2, WFMin, Zenon
<1>4. \A y \in T : ~(y < x)
  BY <1>2, <1>3 DEF OpToRel
<1>5. QED
  BY <1>4 DEF T

\* A function that starts with base and goes on by step from number to number.
Runs(f, m, base, step) ==
  f = [n \in 0..m |-> IF n = 0 THEN base ELSE step[<<n, f[n - 1]>>]]

\* There is such a function for every m.
LEMMA RunExists ==
  ASSUME NEW D, NEW base \in D, NEW m \in Nat, NEW step \in [(1..m) \X D -> D]
  PROVE  \E f \in [0..m -> D] : Runs(f, m, base, step)
<1> DEFINE S == {n \in 0..m : \E f \in [0..n -> D] : Runs(f, n, base, step)}
<1>1. 0 \in S
  <2>1. Runs([n \in 0..0 |-> base], 0, base, step)
    BY DEF Runs
  <2> QED
    BY <2>1
<1>2. ASSUME NEW k \in 0..(m - 1), k \in S PROVE k + 1 \in S
  <2>1. PICK f \in [0..k -> D] : Runs(f, k, base, step)
    BY <1>2
  <2> DEFINE next == step[<<k + 1, f[k]>>]
             g == [n \in 0..(k + 1) |-> IF n <= k THEN f[n] ELSE next]
  <2>2. next \in D /\ k + 1 \in 0..m
    BY <1>2
  <2>3. \A n \in 0..k : f[n] = IF n = 0 THEN base ELSE step[<<n, f[n - 1]>>]
    BY <2>1 DEF Runs
  <2> HIDE DEF next
  <2>4. g \in [0..(k + 1) -> D]
    BY <2>2
  <2>5. \A n \in 0..(k + 1) : g[n] = IF n = 0 THEN base ELSE step[<<n, g[n - 1]>>]
    <3>1. TAKE n \in 0..(k + 1)
    <3>2. CASE n <= k
      <4>1. n \in 0..k /\ (n # 0 => n - 1 \in 0..(k + 1) /\ n - 1 <= k)
        BY <3>2
      <4>2. g[n] = f[n] /\ (n # 0 => g[n - 1] = f[n - 1])
        BY <3>2, <4>1
      <4> QED
        BY <2>3, <4>1, <4>2
    <3>3. CASE n = k + 1
      <4>1. n # 0 /\ ~(n <= k) /\ n - 1 = k /\ k \in 0..(k + 1) /\ k <= k
        BY <3>3
      <4>2. g[n] = next /\ g[k] = f[k]
        BY <4>1
      <4> HIDE DEF g
      <4> QED
        BY <3>3, <4>1, <4>2 DEF next
    <3> QED
      BY <3>2, <3>3
  <2> HIDE DEF g
  <2>6. Runs(g, k + 1, base, step)
    BY <2>4, <2>5 DEF Runs
  <2> QED
    BY <2>2, <2>4, <2>6
<1> HIDE DEF S
<1>3. 0..m \subseteq S
  BY <1>1, <1>2, SetInduction
<1> QED
  BY <1>3 DEF S

\* What a mask is made of: from the hottest field down, each bit doubles the
\* bits above it.
LEMMA MaskIsMade ==
  ASSUME NEW levels \in [Fields -> {0, 1}]
  PROVE  \E top \in [0..NFields -> Nat] :
           /\ top[0] = 0 /\ heatLevelsToMask(levels) = top[NFields]
           /\ \A n \in 1..NFields : top[n] = levels[NFields + 1 - n] + 2 * top[n - 1]
<1> DEFINE Made(f) == f = [n \in 0..NFields |->
                             IF n = 0 THEN 0 ELSE levels[NFields + 1 - n] + 2 * f[n - 1]]
           step == [p \in (1..NFields) \X Nat |-> levels[NFields + 1 - p[1]] + 2 * p[2]]
           top == CHOOSE f : Made(f)
<1>1. NFields \in Nat
  BY CardAssumption
<1>2. \A n \in 1..NFields : NFields + 1 - n \in Fields /\ levels[NFields + 1 - n] \in {0, 1}
  BY <1>1 DEF Fields
<1>3. step \in [(1..NFields) \X Nat -> Nat]
  BY <1>2
<1>4. \A n \in 1..NFields, x \in Nat : step[<<n, x>>] = levels[NFields + 1 - n] + 2 * x
  OBVIOUS
<1> HIDE DEF step
<1>5. PICK f : f \in [0..NFields -> Nat] /\ Runs(f, NFields, 0, step)
  BY <1>1, <1>3, RunExists
<1>6. Made(f)
  <2>1. f = [n \in 0..NFields |-> f[n]]
    BY <1>5
  <2>2. ASSUME NEW n \in 0..NFields
        PROVE  f[n] = IF n = 0 THEN 0 ELSE levels[NFields + 1 - n] + 2 * f[n - 1]
    <3>1. f[n] = IF n = 0 THEN 0 ELSE step[<<n, f[n - 1]>>]
      BY <1>5 DEF Runs
    <3>2. n # 0 => n \in 1..NFields /\ f[n - 1] \in Nat
      BY <1>1, <1>5
    <3> QED
      BY <1>4, <3>1, <3>2
  <2> QED
    BY <2>1, <2>2
<1>7. Made(top)
  BY <1>6
<1>8. heatLevelsToMask(levels) = top[NFields]
  BY DEF heatLevelsToMask
<1> HIDE DEF top
<1>9. DOMAIN top = 0..NFields /\ top = [n \in 0..NFields |-> top[n]]
  BY <1>7
<1>10. \A n \in 0..NFields : top[n] = IF n = 0 THEN 0 ELSE levels[NFields + 1 - n] + 2 * top[n - 1]
  BY <1>7
<1> HIDE DEF Made
<1> DEFINE S == {n \in 0..NFields : top[n] \in Nat}
<1>11. 0 \in S
  BY <1>1, <1>10
<1>12. ASSUME NEW n \in 0..(NFields - 1), n \in S PROVE n + 1 \in S
  <2>1. n + 1 \in 1..NFields /\ n + 1 \in 0..NFields /\ (n + 1) - 1 = n /\ n + 1 # 0
    BY <1>1
  <2>2. top[n] \in Nat /\ levels[NFields + 1 - (n + 1)] \in {0, 1}
    BY <1>2, <1>12, <2>1
  <2>3. top[n + 1] = levels[NFields + 1 - (n + 1)] + 2 * top[n]
    BY <1>10, <2>1
  <2> QED
    BY <2>1, <2>2, <2>3
<1> HIDE DEF S
<1>13. 0..NFields \subseteq S
  BY <1>1, <1>11, <1>12, SetInduction
<1>14. top \in [0..NFields -> Nat]
  BY <1>9, <1>13 DEF S
<1>15. top[0] = 0 /\ \A n \in 1..NFields : top[n] = levels[NFields + 1 - n] + 2 * top[n - 1]
  BY <1>1, <1>10
<1> QED
  BY <1>8, <1>14, <1>15

\* The levels come back out of the mask: halved k times, it holds the bits above
\* field k.
LEMMA MaskKeepsLevels ==
  ASSUME NEW levels \in [Fields -> {0, 1}]
  PROVE  maskToHeatLevels(heatLevelsToMask(levels)) = levels
<1> DEFINE mask == heatLevelsToMask(levels)
           Halved(f) == f = [k \in 0..NFields |-> IF k = 0 THEN mask ELSE f[k - 1] \div 2]
           half == [p \in (1..NFields) \X Nat |-> p[2] \div 2]
           shifted == CHOOSE f : Halved(f)
<1>1. NFields \in Nat
  BY CardAssumption
<1>2. PICK top \in [0..NFields -> Nat] :
        /\ top[0] = 0 /\ mask = top[NFields]
        /\ \A n \in 1..NFields : top[n] = levels[NFields + 1 - n] + 2 * top[n - 1]
  BY MaskIsMade
<1>3. maskToHeatLevels(mask) = [i \in Fields |-> shifted[i - 1] % 2]
  BY DEF maskToHeatLevels
<1>4. mask \in Nat
  BY <1>1, <1>2
<1> HIDE DEF mask
<1>5. half \in [(1..NFields) \X Nat -> Nat]
  OBVIOUS
<1>6. \A k \in 1..NFields, x \in Nat : half[<<k, x>>] = x \div 2
  OBVIOUS
<1> HIDE DEF half
<1>7. PICK f : f \in [0..NFields -> Nat] /\ Runs(f, NFields, mask, half)
  BY <1>1, <1>4, <1>5, RunExists
<1>8. Halved(f)
  <2>1. f = [k \in 0..NFields |-> f[k]]
    BY <1>7
  <2>2. ASSUME NEW k \in 0..NFields
        PROVE  f[k] = IF k = 0 THEN mask ELSE f[k - 1] \div 2
    <3>1. f[k] = IF k = 0 THEN mask ELSE half[<<k, f[k - 1]>>]
      BY <1>7 DEF Runs
    <3>2. k # 0 => k \in 1..NFields /\ f[k - 1] \in Nat
      BY <1>1, <1>7
    <3> QED
      BY <1>6, <3>1, <3>2
  <2> QED
    BY <2>1, <2>2
<1>9. Halved(shifted)
  BY <1>8
<1> HIDE DEF shifted
<1>10. \A k \in 0..NFields : shifted[k] = IF k = 0 THEN mask ELSE shifted[k - 1] \div 2
  BY <1>9
<1> DEFINE S == {k \in 0..NFields : shifted[k] = top[NFields - k]}
<1>11. 0 \in S
  BY <1>1, <1>2, <1>10
<1>12. ASSUME NEW k \in 0..(NFields - 1), k \in S PROVE k + 1 \in S
  <2>1. /\ k + 1 \in 0..NFields /\ k + 1 # 0 /\ (k + 1) - 1 = k
        /\ NFields - k \in 1..NFields /\ (NFields - k) - 1 = NFields - (k + 1)
        /\ NFields - (k + 1) \in 0..NFields
        /\ NFields + 1 - (NFields - k) \in Fields
    BY <1>1 DEF Fields
  <2>2. shifted[k + 1] = top[NFields - k] \div 2
    BY <1>10, <1>12, <2>1
  <2>3. PICK bit \in {0, 1}, x \in Nat :
          top[NFields - k] = bit + 2 * x /\ x = top[NFields - (k + 1)]
    BY <1>2, <2>1
  <2>4. shifted[k + 1] = x
    BY <2>2, <2>3
  <2> QED
    BY <2>1, <2>3, <2>4
<1> HIDE DEF S
<1>13. 0..NFields \subseteq S
  BY <1>1, <1>11, <1>12, SetInduction
<1>14. ASSUME NEW i \in Fields PROVE shifted[i - 1] % 2 = levels[i]
  <2>1. /\ i - 1 \in 0..NFields
        /\ NFields - (i - 1) \in 1..NFields /\ NFields + 1 - (NFields - (i - 1)) = i
        /\ (NFields - (i - 1)) - 1 \in 0..NFields
    BY <1>1 DEF Fields
  <2>2. shifted[i - 1] = top[NFields - (i - 1)]
    BY <1>13, <2>1 DEF S
  <2>3. PICK x \in Nat : top[NFields - (i - 1)] = levels[i] + 2 * x
    BY <1>2, <2>1
  <2>4. levels[i] \in {0, 1}
    OBVIOUS
  <2> QED
    BY <2>2, <2>3, <2>4
<1> QED
  BY <1>3, <1>14 DEF mask

-----------------------------------------------------------------------------
(* The card reader: what one photo says                                    *)

\* What is read of one photo.
CardReadings ==
  [found : BOOLEAN, counts : BOOLEAN, heat : 0..3, levels : [Fields -> {0, 1}],
   humidity : 0..3, uv : 0..3]

\* A reading tells nothing wrong about card c, as far as it takes part in the vote.
Tells(c, r) ==
  r.counts => /\ r.heat \in {Truth(c, Decisive), UNREADABLE}
              /\ r.humidity \in {c.humidity, UNREADABLE}

\* The strip is one that can exist around its decisive field.
Physical(heat, levels) ==
  \A i \in Fields : /\ i < Decisive /\ heat = TRIGGERED => levels[i] = 1
                    /\ i > Decisive /\ heat = INTACT => levels[i] = 0

\* Positions and codes are numbers.
LEMMA CardNumbers ==
  /\ NFields \in Nat /\ Decisive \in Fields /\ Fields \subseteq Nat \ {0}
  /\ \A c \in Cards : c.heat \in 0..NFields /\ c.humidity \in {0, 1} /\ c.uv \in {0, 1}
  /\ \A c \in Cards, i \in Fields : Truth(c, i) \in {0, 1}
<1>1. NFields \in Nat /\ Decisive \in Fields /\ Fields \subseteq Nat \ {0} /\ UvStates \subseteq {0, 1}
  BY CardAssumption DEF Fields
<1>2. ASSUME NEW c \in Cards
      PROVE  c.heat \in 0..NFields /\ c.humidity \in {0, 1} /\ c.uv \in {0, 1}
  BY <1>1 DEF Cards, INTACT, TRIGGERED
<1>3. ASSUME NEW c \in Cards, NEW i \in Fields PROVE Truth(c, i) \in {0, 1}
  BY DEF Truth, INTACT, TRIGGERED
<1> QED
  BY <1>1, <1>2, <1>3

\* What the classifier says of a field.
LEMMA FieldReadingIs ==
  ASSUME NEW f \in FieldReadings
  PROVE  /\ f.level \in {0, 1} /\ f.sure \in BOOLEAN /\ f.glare \in BOOLEAN
         /\ f.glare => ~f.sure
BY DEF FieldReadings

\* heatVerdict, spelt out: a decided verdict is that of the decisive field, sure and
\* without glare, and no two fields contradict each other.
LEMMA HeatVerdictIs ==
  ASSUME NEW f \in [Fields -> FieldReadings], NEW wbOk \in BOOLEAN
  PROVE  LET v == heatVerdict(f, wbOk) IN
         /\ v.heat \in 0..2 /\ v.consistent \in BOOLEAN /\ v.levels \in [Fields -> {0, 1}]
         /\ v.consistent <=> heatFieldsConsistent(f)
         /\ isDecided(v.heat) =>
              /\ v.consistent /\ f[Decisive].sure /\ ~f[Decisive].glare
              /\ v.heat = f[Decisive].level
              /\ \A i \in Fields :
                   v.levels[i] = IF ~f[i].glare THEN f[i].level
                                 ELSE IF i > Decisive THEN 0 ELSE 1
              /\ \A i \in Fields : f[i].glare =>
                   i # Decisive /\ (v.heat = INTACT <=> i > Decisive)
<1>1. Decisive \in Fields /\ Fields \subseteq Nat
  BY CardNumbers
<1> DEFINE consistent == heatFieldsConsistent(f)
           measured == IF ~wbOk \/ ~consistent \/ f[Decisive].glare \/ ~f[Decisive].sure
                       THEN UNREADABLE ELSE f[Decisive].level
           level(i) == IF ~f[i].glare THEN f[i].level
                       ELSE IF i > Decisive /\ measured = INTACT THEN 0
                       ELSE IF i < Decisive /\ measured = TRIGGERED THEN 1
                       ELSE Unknown
           hidden == isDecided(measured) /\ \E i \in Fields : level(i) = Unknown
           heat == IF hidden THEN UNREADABLE ELSE measured
           v == heatVerdict(f, wbOk)
<1>2. /\ v.heat = heat /\ v.consistent = consistent
      /\ v.levels = IF isDecided(heat) THEN [i \in Fields |-> level(i)] ELSE NoLevels
  BY DEF heatVerdict
<1>3. consistent \in BOOLEAN
  BY DEF heatFieldsConsistent
<1> HIDE DEF v, consistent
<1>4. \A i \in Fields : /\ f[i].level \in {0, 1} /\ f[i].sure \in BOOLEAN
                        /\ f[i].glare \in BOOLEAN /\ (f[i].glare => ~f[i].sure)
  BY FieldReadingIs
<1>5. measured \in 0..2 /\ \A i \in Fields : level(i) \in 0..2
  BY <1>1, <1>4 DEF UNREADABLE, Unknown
<1>6. isDecided(measured) =>
        /\ consistent /\ f[Decisive].sure /\ ~f[Decisive].glare /\ measured = f[Decisive].level
  BY <1>1, <1>4 DEF isDecided, UNREADABLE, INTACT, TRIGGERED
<1>7. \A i \in Fields : f[i].glare /\ level(i) # Unknown =>
        /\ i # Decisive
        /\ (measured = INTACT <=> i > Decisive)
        /\ level(i) = IF i > Decisive THEN 0 ELSE 1
  BY <1>1, <1>4 DEF Unknown, INTACT, TRIGGERED
<1>8. heat \in 0..2 /\ (isDecided(heat) => heat = measured /\ ~hidden)
  BY <1>5 DEF isDecided, UNREADABLE, INTACT, TRIGGERED
<1>9. isDecided(heat) =>
        /\ v.levels = [i \in Fields |-> level(i)]
        /\ \A i \in Fields : level(i) # Unknown /\ level(i) \in {0, 1}
  BY <1>2, <1>5, <1>8 DEF Unknown
<1> HIDE DEF heat, hidden, measured
<1>10. v.levels \in [Fields -> {0, 1}]
  BY <1>2, <1>9 DEF NoLevels
<1>11. ASSUME isDecided(heat), NEW i \in Fields
       PROVE  v.levels[i] = level(i) /\ level(i) # Unknown
  BY <1>9, <1>11
<1>12. ASSUME isDecided(heat), NEW i \in Fields
       PROVE  /\ v.levels[i] = IF ~f[i].glare THEN f[i].level
                               ELSE IF i > Decisive THEN 0 ELSE 1
              /\ f[i].glare => i # Decisive /\ (heat = INTACT <=> i > Decisive)
  <2>1. CASE f[i].glare
    BY <1>7, <1>8, <1>11, <1>12, <2>1
  <2>2. CASE ~f[i].glare
    BY <1>11, <1>12, <2>2
  <2> QED
    BY <2>1, <2>2
<1> HIDE DEF level
<1> QED
  BY <1>2, <1>3, <1>6, <1>8, <1>10, <1>12 DEF v, consistent

\* "irreversible and its fields trigger in temperature order": whatever is in front
\* of the camera, a decided verdict comes with levels that a strip can show.
LEMMA VerdictIsPhysical ==
  ASSUME NEW f \in [Fields -> FieldReadings], NEW wbOk \in BOOLEAN,
         isDecided(heatVerdict(f, wbOk).heat)
  PROVE  Physical(heatVerdict(f, wbOk).heat, heatVerdict(f, wbOk).levels)
<1> DEFINE v == heatVerdict(f, wbOk)
<1>1. /\ heatFieldsConsistent(f) /\ f[Decisive].sure /\ ~f[Decisive].glare
      /\ v.heat = f[Decisive].level
      /\ \A i \in Fields : v.levels[i] = IF ~f[i].glare THEN f[i].level
                                         ELSE IF i > Decisive THEN 0 ELSE 1
      /\ \A i \in Fields : f[i].level \in {0, 1}
  BY HeatVerdictIs, FieldReadingIs
<1> HIDE DEF v
<1>2. Decisive \in Fields /\ Fields \subseteq Nat
  BY CardNumbers
<1>3. ASSUME NEW i \in Fields, i < Decisive, v.heat = 1 PROVE v.levels[i] = 1
  <2>1. CASE f[i].glare
    BY <1>1, <1>2, <1>3, <2>1
  <2>2. CASE ~f[i].glare
    <3>1. f[i].level # 0
      BY <1>1, <1>2, <1>3, <2>2 DEF heatFieldsConsistent
    <3> QED
      BY <1>1, <2>2, <3>1
  <2> QED
    BY <2>1, <2>2
<1>4. ASSUME NEW i \in Fields, i > Decisive, v.heat = 0 PROVE v.levels[i] = 0
  <2>1. Decisive < i
    BY <1>2, <1>4
  <2>2. CASE f[i].glare
    BY <1>1, <1>2, <1>4, <2>2
  <2>3. CASE ~f[i].glare
    <3>1. f[i].level # 1
      BY <1>1, <1>2, <1>4, <2>1, <2>3 DEF heatFieldsConsistent
    <3> QED
      BY <1>1, <2>3, <3>1
  <2> QED
    BY <2>2, <2>3
<1> QED
  BY <1>3, <1>4 DEF Physical, v, INTACT, TRIGGERED

\* A sure classifier, or the mirror image of a strip that is no contradiction: the
\* verdict is the truth, and so is what glare hides.
LEMMA VerdictIsTrue ==
  ASSUME NEW c \in Cards, NEW f \in HonestFields(c) \cup {Mirrored(c)}, NEW wbOk \in BOOLEAN,
         isDecided(heatVerdict(f, wbOk).heat)
  PROVE  LET v == heatVerdict(f, wbOk)
         IN /\ v.heat = Truth(c, Decisive)
            /\ \A i \in Fields : f[i].glare => v.levels[i] = Truth(c, i)
<1> DEFINE v == heatVerdict(f, wbOk)
<1>1. /\ NFields \in Nat /\ Decisive \in Fields /\ Fields \subseteq Nat \ {0}
      /\ c.heat \in 0..NFields
  BY CardNumbers
<1>2. CASE f \in HonestFields(c)
  <2>1. f \in [Fields -> FieldReadings] /\ \A i \in Fields : f[i].sure => f[i].level = Truth(c, i)
    BY <1>2 DEF HonestFields, ReadingsOf
  <2>2. /\ f[Decisive].sure /\ v.heat = f[Decisive].level
        /\ \A i \in Fields :
             v.levels[i] = IF ~f[i].glare THEN f[i].level ELSE IF i > Decisive THEN 0 ELSE 1
        /\ \A i \in Fields : f[i].glare => i # Decisive /\ (v.heat = INTACT <=> i > Decisive)
    BY <2>1, HeatVerdictIs
  <2> HIDE DEF v
  <2>3. v.heat = Truth(c, Decisive)
    BY <1>1, <2>1, <2>2
  <2>4. ASSUME NEW i \in Fields, f[i].glare PROVE v.levels[i] = Truth(c, i)
    BY <1>1, <2>2, <2>3, <2>4 DEF Truth, INTACT, TRIGGERED
  <2> QED
    BY <2>3, <2>4 DEF v
<1>3. CASE f = Mirrored(c)
  <2>1. \A i \in Fields : /\ NFields + 1 - i \in Fields
                          /\ Truth(c, NFields + 1 - i) \in {0, 1}
    BY <1>1, CardNumbers DEF Fields
  <2>2. f \in [Fields -> FieldReadings]
    BY <1>3, <2>1 DEF Mirrored, FieldReadings
  <2>3. \A i \in Fields : f[i].level = Truth(c, NFields + 1 - i) /\ f[i].sure /\ ~f[i].glare
    BY <1>3 DEF Mirrored
  <2>4. heatFieldsConsistent(f) /\ v.heat = f[Decisive].level
    BY <2>2, HeatVerdictIs
  <2> HIDE DEF v
  \* Black next to white in a mirror is black above white.
  <2>5. c.heat = 0 \/ c.heat = NFields
    <3> SUFFICES ASSUME c.heat # 0, c.heat # NFields PROVE FALSE
      OBVIOUS
    <3>1. /\ 1 \in Fields /\ NFields \in Fields /\ 1 < NFields
          /\ NFields + 1 - 1 = NFields /\ NFields + 1 - NFields = 1
      BY <1>1 DEF Fields
    <3>2. f[1].level = 0 /\ f[NFields].level = 1
      BY <1>1, <2>3, <3>1 DEF Truth, INTACT, TRIGGERED
    <3> QED
      BY <2>3, <2>4, <3>1, <3>2 DEF heatFieldsConsistent
  <2>6. Truth(c, NFields + 1 - Decisive) = Truth(c, Decisive)
    BY <1>1, <2>1, <2>5 DEF Truth, Fields
  <2> QED
    BY <1>1, <2>3, <2>4, <2>6 DEF v
<1> QED
  BY <1>2, <1>3

\* One-field indicators: decided only by a sure classifier.
LEMMA FieldVerdictIs ==
  ASSUME NEW truth \in {0, 1}, NEW f \in FieldReadings, NEW usable \in BOOLEAN
  PROVE  /\ fieldVerdict(f, usable) \in 0..2
         /\ f \in ReadingsOf(truth) => fieldVerdict(f, usable) \in {truth, UNREADABLE}
<1> DEFINE v == fieldVerdict(f, usable)
<1>1. f.level \in {0, 1}
  BY FieldReadingIs
<1>2. v = IF ~usable \/ ~f.sure THEN 2 ELSE f.level
  BY DEF fieldVerdict, UNREADABLE
<1>3. f \in ReadingsOf(truth) => (f.sure => f.level = truth)
  BY DEF ReadingsOf
<1> HIDE DEF v
<1>4. v \in 0..2 /\ (f \in ReadingsOf(truth) => v \in {truth, UNREADABLE})
  BY <1>1, <1>2, <1>3 DEF UNREADABLE
<1> QED
  BY <1>4 DEF v

\* Nothing found, or nothing read: such a photo does not vote.
LEMMA VoidReadings ==
  /\ NoLevels \in [Fields -> {0, 1}]
  /\ notFoundReading \in CardReadings
  /\ ~notFoundReading.found /\ ~notFoundReading.counts /\ notFoundReading.heat = MISSING
  /\ Reading(TRUE, FALSE, UNREADABLE, NoLevels, UNREADABLE, UNREADABLE) \in CardReadings
  /\ ~Reading(TRUE, FALSE, UNREADABLE, NoLevels, UNREADABLE, UNREADABLE).counts
  /\ Reading(TRUE, FALSE, UNREADABLE, NoLevels, UNREADABLE, UNREADABLE).heat = UNREADABLE
<1>1. NoLevels \in [Fields -> {0, 1}]
  BY DEF NoLevels
<1> HIDE DEF NoLevels
<1> QED
  BY <1>1 DEF notFoundReading, Reading, CardReadings, MISSING, UNREADABLE

\* A verdict of the strip as a reading has it: possible, and not wrong about card c
\* where the fields are those of c.
LEMMA StripReading ==
  ASSUME NEW f \in [Fields -> FieldReadings], NEW wbOk \in BOOLEAN
  PROVE  LET v == heatVerdict(f, wbOk)
         IN /\ v.heat \in 0..2 /\ v.consistent \in BOOLEAN /\ v.levels \in [Fields -> {0, 1}]
            /\ Physical(v.heat, v.levels)
            /\ \A c \in Cards : f \in HonestFields(c) \cup {Mirrored(c)} =>
                 v.heat \in {Truth(c, Decisive), UNREADABLE}
<1> DEFINE v == heatVerdict(f, wbOk)
<1>1. v.heat \in 0..2 /\ v.consistent \in BOOLEAN /\ v.levels \in [Fields -> {0, 1}]
  BY HeatVerdictIs
<1>2. isDecided(v.heat) => Physical(v.heat, v.levels)
  BY VerdictIsPhysical
<1>3. ASSUME NEW c \in Cards, f \in HonestFields(c) \cup {Mirrored(c)}, isDecided(v.heat)
      PROVE  v.heat = Truth(c, Decisive)
  BY <1>3, VerdictIsTrue
<1> HIDE DEF v
<1>4. isDecided(v.heat) \/ v.heat = UNREADABLE
  BY <1>1 DEF isDecided, INTACT, TRIGGERED, UNREADABLE
<1>5. v.heat = UNREADABLE => Physical(v.heat, v.levels)
  BY DEF Physical, INTACT, TRIGGERED, UNREADABLE
<1> QED
  BY <1>1, <1>2, <1>3, <1>4, <1>5 DEF v

\* Fields as the strip of card c, or its mirror image, can be read.
LEMMA StripFields ==
  ASSUME NEW c \in Cards
  PROVE  HonestFields(c) \cup {Mirrored(c)} \subseteq [Fields -> FieldReadings]
<1>1. HonestFields(c) \subseteq [Fields -> FieldReadings]
  BY DEF HonestFields
<1>2. \A i \in Fields : NFields + 1 - i \in Fields
  BY CardNumbers DEF Fields
<1>3. \A i \in Fields : Truth(c, NFields + 1 - i) \in {0, 1}
  BY <1>2, CardNumbers
<1>4. Mirrored(c) \in [Fields -> FieldReadings]
  BY <1>3 DEF Mirrored, FieldReadings
<1> QED
  BY <1>1, <1>4

\* A photo of the card with its marker, without a highlight on it.
LEMMA MarkerReadingTells ==
  ASSUME NEW p \in MarkerReadings
  PROVE  p[2] \in CardReadings /\ Tells(p[1], p[2]) /\ Physical(p[2].heat, p[2].levels)
<1>1. PICK c \in Cards :
        \E f \in {g \in HonestFields(c) : \A i \in Fields : ~g[i].glare},
           hum \in WithoutGlare(ReadingsOf(c.humidity)), wbHeat \in BOOLEAN, wbHum \in BOOLEAN :
          p = <<c, readCard(f, hum, wbHeat, wbHum)>>
  BY DEF MarkerReadings
<1>2. PICK f \in HonestFields(c), hum \in ReadingsOf(c.humidity),
           wbHeat \in BOOLEAN, wbHum \in BOOLEAN :
          p = <<c, readCard(f, hum, wbHeat, wbHum)>>
  BY <1>1 DEF WithoutGlare
<1> DEFINE v == heatVerdict(f, wbHeat)
           m == fieldVerdict(hum, wbHum)
<1>3. f \in [Fields -> FieldReadings]
  BY StripFields
<1>4. /\ v.heat \in 0..2 /\ v.levels \in [Fields -> {0, 1}]
      /\ Physical(v.heat, v.levels) /\ v.heat \in {Truth(c, Decisive), UNREADABLE}
  BY <1>3, StripReading
<1>5. m \in 0..2 /\ m \in {c.humidity, UNREADABLE}
  <2>1. hum \in FieldReadings /\ c.humidity \in {0, 1}
    BY CardNumbers DEF ReadingsOf
  <2> QED
    BY <2>1, FieldVerdictIs
<1>6. p[1] = c /\ p[2] = Reading(TRUE, TRUE, v.heat, v.levels, m, MISSING)
  BY <1>2 DEF readCard
<1> HIDE DEF v, m
<1>7. /\ p[2] \in CardReadings
      /\ p[2].heat = v.heat /\ p[2].levels = v.levels /\ p[2].humidity = m
  BY <1>4, <1>5, <1>6 DEF Reading, CardReadings, MISSING
<1> QED
  BY <1>4, <1>5, <1>6, <1>7 DEF Tells

\* A photo of a marker card under a highlight: readable, and of a strip that can exist,
\* but not always the strip of the card.
LEMMA HighlitReadingIs ==
  ASSUME NEW r \in HighlitReadings
  PROVE  r \in CardReadings /\ Physical(r.heat, r.levels)
<1>1. PICK f \in [Fields -> WithoutGlare(FieldReadings)], hum \in WithoutGlare(FieldReadings),
           wbHeat \in BOOLEAN, wbHum \in BOOLEAN : r = readCard(f, hum, wbHeat, wbHum)
  BY DEF HighlitReadings
<1> DEFINE v == heatVerdict(f, wbHeat)
           m == fieldVerdict(hum, wbHum)
<1>2. f \in [Fields -> FieldReadings] /\ hum \in FieldReadings
  BY DEF WithoutGlare
<1>3. v.heat \in 0..2 /\ v.levels \in [Fields -> {0, 1}] /\ Physical(v.heat, v.levels)
  BY <1>2, StripReading
<1>4. m \in 0..2
  BY <1>2, FieldVerdictIs
<1>5. r = Reading(TRUE, TRUE, v.heat, v.levels, m, MISSING)
  BY <1>1 DEF readCard
<1> HIDE DEF v, m
<1> QED
  BY <1>3, <1>4, <1>5 DEF Reading, CardReadings, MISSING

\* A photo without the marker, whatever is in front of the camera.
LEMMA FrameReadingIs ==
  ASSUME NEW window \in BOOLEAN, NEW label \in SUBSET {0, 180},
         NEW f \in [Fields -> FieldReadings], NEW hum \in FieldReadings,
         NEW uv \in FieldReadings, NEW wbOk \in BOOLEAN
  PROVE  LET r == readCardFrame(window, label, f, hum, uv, wbOk)
         IN /\ r \in CardReadings /\ Physical(r.heat, r.levels)
            /\ \A c \in Cards :
                 f \in HonestFields(c) \cup {Mirrored(c)} /\ hum \in ReadingsOf(c.humidity)
                 => Tells(c, r)
<1> DEFINE r == readCardFrame(window, label, f, hum, uv, wbOk)
           void == Reading(TRUE, FALSE, UNREADABLE, NoLevels, UNREADABLE, UNREADABLE)
           v == heatVerdict(f, wbOk)
           usable == wbOk /\ v.consistent
           m == fieldVerdict(hum, usable)
           u == fieldVerdict(uv, usable)
<1>1. r = IF ~window THEN notFoundReading
          ELSE IF ~onLabel(label) THEN void
          ELSE Reading(TRUE, TRUE, v.heat, v.levels, m, u)
  BY DEF readCardFrame
<1>2. /\ v.heat \in 0..2 /\ v.consistent \in BOOLEAN /\ v.levels \in [Fields -> {0, 1}]
      /\ Physical(v.heat, v.levels)
      /\ \A c \in Cards : f \in HonestFields(c) \cup {Mirrored(c)} =>
           v.heat \in {Truth(c, Decisive), UNREADABLE}
  BY StripReading
<1>3. m \in 0..2 /\ u \in 0..2
      /\ \A c \in Cards : hum \in ReadingsOf(c.humidity) => m \in {c.humidity, UNREADABLE}
  BY <1>2, CardNumbers, FieldVerdictIs
<1> HIDE DEF v, m, u, usable, r
<1>4. CASE r \in {notFoundReading, void}
  <2>1. r \in CardReadings /\ ~r.counts /\ r.heat \in {MISSING, UNREADABLE}
    BY <1>4, VoidReadings
  <2> QED
    BY <2>1 DEF r, Physical, Tells, MISSING, UNREADABLE, INTACT, TRIGGERED
<1>5. CASE r = Reading(TRUE, TRUE, v.heat, v.levels, m, u)
  <2>1. /\ r \in CardReadings
        /\ r.heat = v.heat /\ r.levels = v.levels /\ r.humidity = m
    BY <1>2, <1>3, <1>5 DEF Reading, CardReadings
  <2>2. ASSUME NEW c \in Cards, f \in HonestFields(c) \cup {Mirrored(c)},
               hum \in ReadingsOf(c.humidity)
        PROVE  Tells(c, r)
    BY <1>2, <1>3, <2>1, <2>2 DEF Tells
  <2> QED
    BY <1>2, <2>1, <2>2 DEF r
<1> QED
  BY <1>1, <1>4, <1>5

\* A photo of the card in its holder, seen in a mirror perhaps.
LEMMA FrameReadingTells ==
  ASSUME NEW p \in FrameReadings
  PROVE  p[2] \in CardReadings /\ Tells(p[1], p[2]) /\ Physical(p[2].heat, p[2].levels)
<1>1. PICK c \in Cards :
        \E f \in HonestFields(c) \cup {Mirrored(c)}, hum \in ReadingsOf(c.humidity),
           uv \in ReadingsOf(c.uv), window \in BOOLEAN, wbOk \in BOOLEAN, label \in {{}, {180}} :
          p = <<c, readCardFrame(window, label, f, hum, uv, wbOk)>>
  BY DEF FrameReadings
<1>2. PICK f \in HonestFields(c) \cup {Mirrored(c)}, hum \in ReadingsOf(c.humidity),
           uv \in ReadingsOf(c.uv), window \in BOOLEAN, wbOk \in BOOLEAN, label \in {{}, {180}} :
          p = <<c, readCardFrame(window, label, f, hum, uv, wbOk)>>
  BY <1>1
<1>3. /\ f \in [Fields -> FieldReadings] /\ hum \in FieldReadings /\ uv \in FieldReadings
      /\ label \in SUBSET {0, 180}
  BY StripFields DEF ReadingsOf
<1> DEFINE r == readCardFrame(window, label, f, hum, uv, wbOk)
<1>4. r \in CardReadings /\ Physical(r.heat, r.levels) /\ Tells(c, r)
  BY <1>3, FrameReadingIs
<1> HIDE DEF r
<1> QED
  BY <1>2, <1>4 DEF r

\* A photo of something else: readable, and of a strip that can exist.
LEMMA OtherReadingIs ==
  ASSUME NEW r \in OtherReadings
  PROVE  r \in CardReadings /\ Physical(r.heat, r.levels)
<1> DEFINE Shown(f, hum, uv) == readCardFrame(TRUE, {0}, f, hum, uv, TRUE)
<1>1. OtherReadings = {Shown(f, hum, uv) : f \in [Fields -> WithoutGlare(FieldReadings)],
                         hum \in WithoutGlare(FieldReadings), uv \in WithoutGlare(FieldReadings)}
  BY DEF OtherReadings
<1> HIDE DEF Shown
<1>2. PICK f \in [Fields -> WithoutGlare(FieldReadings)],
           hum \in WithoutGlare(FieldReadings), uv \in WithoutGlare(FieldReadings) :
          r = Shown(f, hum, uv)
  BY <1>1
<1>3. /\ f \in [Fields -> FieldReadings] /\ hum \in FieldReadings /\ uv \in FieldReadings
      /\ {0} \in SUBSET {0, 180} /\ TRUE \in BOOLEAN
  BY DEF WithoutGlare
<1>4. Shown(f, hum, uv) \in CardReadings
      /\ Physical(Shown(f, hum, uv).heat, Shown(f, hum, uv).levels)
  BY <1>3, FrameReadingIs DEF Shown
<1> QED
  BY <1>2, <1>4

-----------------------------------------------------------------------------
(* The card reader: the vote and what is signed                            *)

\* What is true of the photos at every moment: each is a possible reading, and no more
\* of them are wrong about the card than show something else or a marker card under a
\* highlight.
PhotosTell ==
  /\ card \in Cards /\ IsFiniteSet(shots) /\ bad \in Nat /\ highlit \in Nat
  /\ \A s \in shots : s.reading \in CardReadings /\ Physical(s.reading.heat, s.reading.levels)
  /\ Cardinality({s \in shots : ~Tells(card, s.reading)}) <= Misleading

\* The inductive invariant of the card reader.
ReaderInv == PhotosTell /\ GradeTellsCard /\ RecordedIsPhysical

\* A photo more keeps the photos telling, if it tells the card or is counted as one
\* that may not.
LEMMA ShootKeepsTelling ==
  ASSUME NEW r \in CardReadings, NEW other \in {0, 1}, NEW lit \in {0, 1}, PhotosTell,
         Physical(r.heat, r.levels), other + lit = 0 => Tells(card, r), other + lit \in {0, 1},
         Shoot(r, other, lit)
  PROVE  PhotosTell'
<1> DEFINE new == [reading |-> r, nr |-> Cardinality({s \in shots : s.reading = r}) + 1]
           wrong == {s \in shots : ~Tells(card, s.reading)}
           after == {s \in shots' : ~Tells(card, s.reading)}
<1>1. /\ card \in Cards /\ IsFiniteSet(shots) /\ Cardinality(wrong) <= Misleading
      /\ \A s \in shots : s.reading \in CardReadings /\ Physical(s.reading.heat, s.reading.levels)
  BY DEF PhotosTell
<1>2. shots' = shots \cup {new} /\ card' = card
  BY DEF Shoot
<1>3. /\ Misleading \in Nat /\ Misleading' = Misleading + (other + lit)
      /\ bad' \in Nat /\ highlit' \in Nat
  BY DEF PhotosTell, Misleading, Shoot
<1>4. new.reading = r
  OBVIOUS
<1> HIDE DEF new
<1>5. IsFiniteSet(shots') /\ IsFiniteSet(wrong)
  BY <1>1, <1>2, FS_AddElement, FS_Subset
<1>6. \A s \in shots' : s.reading \in CardReadings /\ Physical(s.reading.heat, s.reading.levels)
  BY <1>1, <1>2, <1>4
<1>7. CASE other + lit = 0
  <2>1. after = wrong
    BY <1>2, <1>4, <1>7
  <2> HIDE DEF wrong, after
  <2>2. Misleading' = Misleading
    BY <1>7, <1>3
  <2>3. Cardinality(after) <= Misleading'
    BY <1>1, <2>1, <2>2
  <2> QED
    BY <1>1, <1>2, <1>5, <1>6, <1>3, <2>3 DEF PhotosTell, after
<1>8. CASE other + lit = 1
  <2>1. after \subseteq wrong \cup {new}
    BY <1>2, <1>4
  <2> HIDE DEF wrong, after
  <2>2. IsFiniteSet(wrong \cup {new})
    BY <1>5, FS_AddElement
  <2>3. Cardinality(wrong \cup {new}) \in {Cardinality(wrong), Cardinality(wrong) + 1}
    BY <1>5, FS_AddElement
  <2>4. Cardinality(after) <= Cardinality(wrong \cup {new})
    BY <2>1, <2>2, FS_Subset
  <2>5. Cardinality(wrong) \in Nat /\ Cardinality(after) \in Nat
    BY <1>5, <2>1, <2>2, FS_Subset, FS_CardinalityType
  <2>6. Cardinality(after) <= Misleading'
    BY <1>1, <1>8, <1>3, <2>3, <2>4, <2>5
  <2> QED
    BY <1>1, <1>2, <1>5, <1>6, <1>3, <2>6 DEF PhotosTell, after
<1> QED
  BY <1>7, <1>8

\* What a verdict of the vote rests on.
LEMMA MajorityIs ==
  ASSUME NEW votes, NEW quorum
  PROVE  /\ majority(votes, quorum) \in 0..3
         /\ isDecided(majority(votes, quorum)) =>
              Cardinality(votes[majority(votes, quorum)]) >= quorum
<1> DEFINE m == majority(votes, quorum)
           q == CHOOSE v \in 0..3 : Cardinality(votes[v]) >= quorum
<1>1. \/ m = MISSING
      \/ (\E v \in 0..3 : Cardinality(votes[v]) >= quorum) /\ m = q
      \/ m = UNREADABLE
  BY DEF majority
<1>2. (\E v \in 0..3 : Cardinality(votes[v]) >= quorum) =>
        q \in 0..3 /\ Cardinality(votes[q]) >= quorum
  OBVIOUS
<1> HIDE DEF m, q
<1>3. m \in 0..3 /\ (isDecided(m) => Cardinality(votes[m]) >= quorum)
  BY <1>1, <1>2 DEF isDecided, MISSING, UNREADABLE, INTACT, TRIGGERED
<1> QED
  BY <1>3 DEF m

\* A quorum is more than half of the photos, and one photo at least.
LEMMA QuorumIs ==
  ASSUME NEW frames \in Nat
  PROVE  /\ Quorum(frames) \in Nat \ {0}
         /\ \A b \in Nat : b * 2 < frames => b < Quorum(frames)
BY DEF Quorum

\* Photos of which a quorum says the same while fewer than half of all may
\* mislead: one of them tells the card.
LEMMA QuorumTells ==
  ASSUME PhotosTell, Misleading * 2 < Taken, NEW agree \in SUBSET Voters,
         Cardinality(agree) >= Quorum(Taken)
  PROVE  \E s \in agree : s.reading.counts /\ Tells(card, s.reading)
<1> DEFINE wrong == {s \in shots : ~Tells(card, s.reading)}
<1>1. IsFiniteSet(shots) /\ Misleading \in Nat /\ Cardinality(wrong) <= Misleading
  BY DEF PhotosTell, Misleading
<1>2. IsFiniteSet(wrong) /\ Taken \in Nat
  BY <1>1, FS_Subset, FS_CardinalityType DEF Taken
<1>3. Quorum(Taken) \in Nat /\ Misleading < Quorum(Taken)
  BY <1>1, <1>2, QuorumIs
<1>4. ~(agree \subseteq wrong)
  <2> SUFFICES ASSUME agree \subseteq wrong PROVE FALSE
    OBVIOUS
  <2>1. /\ Cardinality(agree) <= Cardinality(wrong)
        /\ Cardinality(agree) \in Nat /\ Cardinality(wrong) \in Nat
    BY <1>2, FS_Subset, FS_CardinalityType
  <2> QED
    BY <1>1, <1>3, <2>1
<1>5. PICK s \in agree : s \notin wrong
  BY <1>4
<1> QED
  BY <1>5 DEF Voters

\* The combined verdict: decided, it is the truth while fewer than half of the photos
\* may mislead, and its levels are those of a strip that can exist.
LEMMA CombinedTells ==
  ASSUME PhotosTell
  PROVE  LET r == combineReadings(Taken)
         IN /\ r \in CardReadings /\ Physical(r.heat, r.levels)
            /\ Misleading * 2 < Taken => /\ isDecided(r.heat) => r.heat = Truth(card, Decisive)
                                         /\ isDecided(r.humidity) => r.humidity = card.humidity
<1> DEFINE r == combineReadings(Taken)
           q == Quorum(Taken)
           heat == majority(heatVotes, q)
           hum == majority(humidityVotes, q)
           uv == majority(uvVotes, q)
           levels == IF isDecided(heat) THEN combinedLevels(heat) ELSE NoLevels
<1>1. /\ card \in Cards /\ IsFiniteSet(shots)
      /\ \A s \in shots : s.reading \in CardReadings /\ Physical(s.reading.heat, s.reading.levels)
  BY DEF PhotosTell
<1>2. q \in Nat \ {0}
  <2>1. Taken \in Nat
    BY <1>1, FS_CardinalityType DEF Taken
  <2> QED
    BY <2>1, QuorumIs
<1>3. /\ heat \in 0..3 /\ (isDecided(heat) => Cardinality(heatVotes[heat]) >= q)
      /\ hum \in 0..3 /\ (isDecided(hum) => Cardinality(humidityVotes[hum]) >= q)
      /\ uv \in 0..3
  BY MajorityIs
<1>4. r = IF Voters = {} THEN notFoundReading
          ELSE Reading(TRUE, TRUE, heat, levels, hum, uv)
  BY DEF combineReadings
<1> HIDE DEF q, heat, hum, uv, r
<1>5. isDecided(heat) => heat \in {0, 1} /\ (heat = TRIGGERED <=> heat = 1)
  BY DEF isDecided, INTACT, TRIGGERED
<1>6. isDecided(heat) => /\ heatVotes[heat] = {s \in Voters : s.reading.heat = heat}
                         /\ IsFiniteSet(heatVotes[heat])
                         /\ Cardinality(heatVotes[heat]) \in Nat \ {0}
  <2> SUFFICES ASSUME isDecided(heat) PROVE
         /\ heatVotes[heat] = {s \in Voters : s.reading.heat = heat}
         /\ IsFiniteSet(heatVotes[heat])
         /\ Cardinality(heatVotes[heat]) \in Nat \ {0}
    OBVIOUS
  <2>1. heatVotes[heat] = {s \in Voters : s.reading.heat = heat}
    BY <1>3 DEF heatVotes
  <2>2. heatVotes[heat] \subseteq shots
    BY <2>1 DEF Voters
  <2>3. IsFiniteSet(heatVotes[heat])
    BY <1>1, <2>2, FS_Subset
  <2>4. Cardinality(heatVotes[heat]) \in Nat
    BY <2>3, FS_CardinalityType
  <2> QED
    BY <1>2, <1>3, <2>1, <2>3, <2>4
<1>7. ASSUME isDecided(heat), NEW i \in Fields
      PROVE  /\ combinedLevels(heat)[i] \in {0, 1}
             /\ i < Decisive /\ heat = TRIGGERED => combinedLevels(heat)[i] = 1
             /\ i > Decisive /\ heat = INTACT => combinedLevels(heat)[i] = 0
  <2> DEFINE H == heatVotes[heat]
             black == {s \in H : s.reading.levels[i] = 1}
             l == combinedLevels(heat)[i]
  <2>1. l = IF i = Decisive THEN heat
            ELSE IF Cardinality(black) * 2 > Cardinality(H) THEN 1 ELSE 0
    BY DEF combinedLevels
  <2>2. \A s \in H : Physical(heat, s.reading.levels)
    BY <1>1, <1>6, <1>7 DEF Voters
  <2>3. Cardinality(H) \in Nat \ {0}
    BY <1>6, <1>7
  <2>4. i < Decisive /\ heat = TRIGGERED => black = H
    BY <2>2 DEF Physical
  <2>5. i > Decisive /\ heat = INTACT => black = {}
    BY <2>2 DEF Physical
  <2> HIDE DEF H, black, l
  <2>6. Decisive \in Nat /\ i \in Nat
    BY CardNumbers
  <2>7. i < Decisive /\ heat = TRIGGERED => l = 1
    BY <2>1, <2>3, <2>4, <2>6
  <2>8. i > Decisive /\ heat = INTACT => l = 0
    BY <2>1, <2>3, <2>5, <2>6, FS_EmptySet
  <2>9. l \in {0, 1}
    BY <1>5, <1>7, <2>1
  <2> QED
    BY <2>7, <2>8, <2>9 DEF l
<1>8. levels \in [Fields -> {0, 1}] /\ Physical(heat, levels)
  <2>1. CASE isDecided(heat)
    <3>1. combinedLevels(heat) = [i \in Fields |-> combinedLevels(heat)[i]]
      BY DEF combinedLevels
    <3> QED
      BY <1>7, <2>1, <3>1 DEF Physical
  <2>2. CASE ~isDecided(heat)
    BY <2>2, VoidReadings DEF Physical, isDecided
  <2> QED
    BY <2>1, <2>2
<1> HIDE DEF levels
<1>9. ASSUME Misleading * 2 < Taken, isDecided(heat) PROVE heat = Truth(card, Decisive)
  <2>1. heatVotes[heat] \in SUBSET Voters /\ \A s \in heatVotes[heat] : s.reading.heat = heat
    BY <1>6, <1>9
  <2>2. PICK s \in heatVotes[heat] : s.reading.counts /\ Tells(card, s.reading)
    BY <1>3, <1>9, <2>1, QuorumTells DEF q
  <2>3. heat \in {Truth(card, Decisive), UNREADABLE}
    BY <2>1, <2>2 DEF Tells
  <2> QED
    BY <1>5, <1>9, <2>3 DEF UNREADABLE
<1>10. ASSUME Misleading * 2 < Taken, isDecided(hum) PROVE hum = card.humidity
  <2>1. humidityVotes[hum] = {s \in Voters : s.reading.humidity = hum}
    BY <1>3 DEF humidityVotes
  <2>2. humidityVotes[hum] \in SUBSET Voters
    BY <2>1
  <2>3. PICK s \in humidityVotes[hum] : s.reading.counts /\ Tells(card, s.reading)
    BY <1>3, <1>10, <2>2, QuorumTells DEF q
  <2>4. hum \in {card.humidity, UNREADABLE}
    BY <2>1, <2>3 DEF Tells
  <2> QED
    BY <1>10, <2>4 DEF isDecided, INTACT, TRIGGERED, UNREADABLE
<1>11. CASE Voters = {}
  <2>1. r = notFoundReading /\ r \in CardReadings /\ r.heat = MISSING /\ r.humidity = MISSING
    BY <1>4, <1>11, VoidReadings DEF notFoundReading, Reading
  <2> QED
    BY <2>1 DEF r, Physical, isDecided, MISSING, INTACT, TRIGGERED
<1>12. CASE Voters # {}
  <2>1. /\ r \in CardReadings
        /\ r.heat = heat /\ r.levels = levels /\ r.humidity = hum
    BY <1>3, <1>4, <1>8, <1>12 DEF Reading, CardReadings
  <2> QED
    BY <1>8, <1>9, <1>10, <2>1 DEF r
<1> QED
  BY <1>11, <1>12

\* What is recorded of a signed scan, for either outcome of the reading.
LEMMA SignKeepsReaderInv ==
  ASSUME PhotosTell, NEW fill \in Fills, NEW reading \in Read, Sign(fill, reading)
  PROVE  GradeTellsCard' /\ RecordedIsPhysical'
<1> DEFINE b == verifyBody(reading)
           g == computeGrade(b.heat, b.humidity, fill)
<1>1. /\ reading \in CardReadings /\ Physical(reading.heat, reading.levels)
      /\ Misleading * 2 < Taken => /\ isDecided(reading.heat) => reading.heat = Truth(card, Decisive)
                                   /\ isDecided(reading.humidity) => reading.humidity = card.humidity
  <2>1. CASE reading = combineReadings(Taken)
    BY <2>1, CombinedTells
  <2>2. CASE reading = notFoundReading
    <3>1. reading \in CardReadings /\ reading.heat = MISSING /\ reading.humidity = MISSING
      BY <2>2, VoidReadings DEF notFoundReading, Reading
    <3> QED
      BY <3>1 DEF Physical, isDecided, MISSING, INTACT, TRIGGERED
  <2> QED
    BY <2>1, <2>2 DEF Read
<1>2. /\ reading.heat \in 0..3 /\ reading.humidity \in 0..3
      /\ reading.levels \in [Fields -> {0, 1}]
  BY <1>1 DEF CardReadings
<1>3. /\ b.heat \in {reading.heat, MISSING} /\ b.humidity \in {reading.humidity, MISSING}
      /\ isDecided(b.heat) => b.heat = reading.heat /\ b.levels = reading.levels
      /\ b.levels \in [Fields -> {0, 1}]
  BY <1>2, VoidReadings DEF verifyBody, isDecided, MISSING, INTACT, TRIGGERED
<1>4. /\ b.heat \in 0..3 /\ b.humidity \in 0..3
      /\ Misleading * 2 < Taken => /\ isDecided(b.heat) => b.heat = Truth(card, Decisive)
                                   /\ isDecided(b.humidity) => b.humidity = card.humidity
  BY <1>1, <1>2, <1>3 DEF isDecided, MISSING, INTACT, TRIGGERED
<1>5. /\ signed' = [frames |-> Taken, heat |-> b.heat, humidity |-> b.humidity,
                   mask |-> heatLevelsToMask(b.levels), graded |-> g]
      /\ card' = card /\ Misleading' = Misleading
  BY DEF Sign, Misleading, parseScanMessage, buildScanMessage
<1>6. /\ g.grade = "C" <=> b.heat = TRIGGERED \/ b.humidity = TRIGGERED
      /\ g.review <=> b.heat = UNREADABLE \/ b.humidity = UNREADABLE
  BY DEF computeGrade
<1> HIDE DEF b, g
<1>7. /\ signed'.frames = Taken /\ signed'.heat = b.heat /\ signed'.humidity = b.humidity
      /\ signed'.mask = heatLevelsToMask(b.levels) /\ signed'.graded = g
  BY <1>5
<1>8. GradeTellsCard'
  <2> SUFFICES ASSUME Misleading * 2 < Taken
               PROVE  LET damaged == Truth(card, Decisive) = TRIGGERED \/ card.humidity = TRIGGERED
                          read == b.heat # MISSING /\ b.humidity # MISSING
                      IN /\ g.grade = "C" => damaged
                         /\ g.grade # "C" /\ ~g.review /\ read => ~damaged
                         /\ isDecided(b.heat) /\ isDecided(b.humidity) =>
                              b.heat = Truth(card, Decisive) /\ b.humidity = card.humidity
    BY <1>5, <1>7 DEF GradeTellsCard, scanUsableForOrder, Truth
  <2>1. b.heat = TRIGGERED => Truth(card, Decisive) = TRIGGERED
    BY <1>4 DEF isDecided
  <2>2. b.humidity = TRIGGERED => card.humidity = TRIGGERED
    BY <1>4 DEF isDecided
  <2>3. ASSUME b.heat \notin {MISSING, UNREADABLE, TRIGGERED} PROVE Truth(card, Decisive) # TRIGGERED
    BY <1>4, <2>3 DEF isDecided, MISSING, UNREADABLE, INTACT, TRIGGERED
  <2>4. ASSUME b.humidity \notin {MISSING, UNREADABLE, TRIGGERED} PROVE card.humidity # TRIGGERED
    BY <1>4, <2>4 DEF isDecided, MISSING, UNREADABLE, INTACT, TRIGGERED
  <2> QED
    BY <1>4, <1>6, <2>1, <2>2, <2>3, <2>4
<1>9. RecordedIsPhysical'
  <2>1. maskToHeatLevels(heatLevelsToMask(b.levels)) = b.levels
    BY <1>3, MaskKeepsLevels
  <2>2. isDecided(b.heat) => Physical(b.heat, b.levels)
    BY <1>1, <1>3
  <2>3. (maskToHeatLevels(signed.mask))' = b.levels
    BY <1>7, <2>1
  <2> QED
    BY <1>7, <2>2, <2>3 DEF RecordedIsPhysical, Physical
<1> QED
  BY <1>8, <1>9

\* The invariant holds before the first photo and after every step.
THEOREM ReaderInvariant == ReaderSpec => []ReaderInv
<1>1. ReaderInit => ReaderInv
  <2> SUFFICES ASSUME ReaderInit PROVE ReaderInv
    OBVIOUS
  <2>1. card \in Cards /\ shots = {} /\ bad = 0 /\ highlit = 0 /\ signed = None
    BY DEF ReaderInit
  <2>2. {s \in shots : ~Tells(card, s.reading)} = {}
    BY <2>1
  <2>3. PhotosTell
    BY <2>1, <2>2, FS_EmptySet DEF PhotosTell, Misleading
  <2> QED
    BY <2>1, <2>3 DEF ReaderInv, GradeTellsCard, RecordedIsPhysical
<1>2. ReaderInv /\ [ReaderNext]_readerVars => ReaderInv'
  <2> SUFFICES ASSUME ReaderInv, [ReaderNext]_readerVars PROVE ReaderInv'
    OBVIOUS
  <2>1. PhotosTell /\ GradeTellsCard /\ RecordedIsPhysical
    BY DEF ReaderInv
  <2>2. ASSUME NEW r \in CardReadings, NEW other \in {0, 1}, NEW lit \in {0, 1},
               Physical(r.heat, r.levels), other + lit = 0 => Tells(card, r),
               other + lit \in {0, 1}, Shoot(r, other, lit)
        PROVE  ReaderInv'
    <3>1. PhotosTell'
      BY <2>1, <2>2, ShootKeepsTelling
    <3>2. signed' = None
      BY <2>2 DEF Shoot
    <3> QED
      BY <3>1, <3>2 DEF ReaderInv, GradeTellsCard, RecordedIsPhysical, None
  <2>3. CASE ShootMarker
    <3>1. PICK p \in MarkerReadings : p[1] = card /\ Shoot(p[2], 0, 0)
      BY <2>3 DEF ShootMarker
    <3> QED
      BY <2>2, <3>1, MarkerReadingTells
  <2>4. CASE ShootFrame
    <3>1. PICK p \in FrameReadings : p[1] = card /\ Shoot(p[2], 0, 0)
      BY <2>4 DEF ShootFrame
    <3> QED
      BY <2>2, <3>1, FrameReadingTells
  <2>5. CASE ShootOther
    <3>1. PICK r \in OtherReadings : Shoot(r, 1, 0)
      BY <2>5 DEF ShootOther
    <3> QED
      BY <2>2, <3>1, OtherReadingIs
  <2>6. CASE ShootHighlit
    <3>1. PICK r \in HighlitReadings : Shoot(r, 0, 1)
      BY <2>6 DEF ShootHighlit
    <3> QED
      BY <2>2, <3>1, HighlitReadingIs
  <2>7. CASE Retake
    <3>1. shots' = {} /\ bad' = 0 /\ highlit' = 0 /\ signed' = None /\ card' = card
      BY <2>7 DEF Retake
    <3>2. {s \in shots' : ~Tells(card', s.reading)} = {}
      BY <3>1
    <3>3. PhotosTell'
      BY <2>1, <3>1, <3>2, FS_EmptySet DEF PhotosTell, Misleading
    <3> QED
      BY <3>1, <3>3 DEF ReaderInv, GradeTellsCard, RecordedIsPhysical, None
  <2>8. ASSUME NEW fill \in Fills, NEW reading \in Read, Sign(fill, reading) PROVE ReaderInv'
    <3>1. shots' = shots /\ bad' = bad /\ highlit' = highlit /\ card' = card
      BY <2>8 DEF Sign
    <3>2. PhotosTell'
      BY <2>1, <3>1 DEF PhotosTell, Misleading
    <3> QED
      BY <2>1, <2>8, <3>2, SignKeepsReaderInv DEF ReaderInv
  <2>9. CASE UNCHANGED readerVars
    <3>1. /\ shots' = shots /\ bad' = bad /\ highlit' = highlit
          /\ card' = card /\ signed' = signed
      BY <2>9 DEF readerVars
    <3> QED
      BY <2>1, <3>1 DEF ReaderInv, PhotosTell, GradeTellsCard, RecordedIsPhysical, Misleading
  <2> QED
    BY <2>3, <2>4, <2>5, <2>6, <2>7, <2>8, <2>9 DEF ReaderNext
<1> QED
  BY <1>1, <1>2, PTL DEF ReaderSpec

\* "A highlight never understates the levels on chain" (heatVerdict): of every strip,
\* with any fields under glare or in a mirror, a decided verdict is the truth, and what
\* it fills in is.
THEOREM HighlightsNeverUnderstate == ReaderSpec => []HighlightNeverUnderstates
<1>1. ReaderInv => HighlightNeverUnderstates
  <2> SUFFICES ASSUME ReaderInv, NEW f \in HonestFields(card) \cup {Mirrored(card)},
                      isDecided(heatVerdict(f, TRUE).heat)
               PROVE  /\ heatVerdict(f, TRUE).heat = Truth(card, Decisive)
                      /\ \A i \in Fields : f[i].glare =>
                           heatVerdict(f, TRUE).levels[i] = Truth(card, i)
    BY DEF HighlightNeverUnderstates
  <2>1. card \in Cards /\ TRUE \in BOOLEAN
    BY DEF ReaderInv, PhotosTell
  <2> QED
    BY <2>1, VerdictIsTrue
<1> QED
  BY <1>1, ReaderInvariant, PTL

\* combineReadings and computeGrade: while fewer than half of the photos show something
\* else or a marker card under a highlight, for any number of them, the grade and a scan
\* that an order takes tell the card.
THEOREM GradesTellTheCard == ReaderSpec => []GradeTellsCard
<1>1. ReaderInv => GradeTellsCard
  BY DEF ReaderInv
<1> QED
  BY <1>1, ReaderInvariant, PTL

\* Whatever was in front of the camera, the mask that is recorded is that of a strip
\* that can exist around its decisive field, for a strip of any length.
THEOREM RecordsArePhysical == ReaderSpec => []RecordedIsPhysical
<1>1. ReaderInv => RecordedIsPhysical
  BY DEF ReaderInv
<1> QED
  BY <1>1, ReaderInvariant, PTL

=============================================================================
