--------------------------- MODULE OperatorProofs ---------------------------
(***************************************************************************)
(* Proofs about what the operator runs: the scripts that keep the registry *)
(* (module Registrar), for every set of verifier keys, key ids and terms,  *)
(* and the console and the scripts that provision bottles (Provision), for *)
(* every set of bottles and chips and any number of lost answers.          *)
(***************************************************************************)
EXTENDS Provision, Registrar, FiniteSetTheorems, SequenceTheorems,
        WellFoundedInduction, TLAPS

USE RegistrarAssumption, ProvisionAssumption

-----------------------------------------------------------------------------
(* The registry: the inductive invariant                                   *)

\* What is registered under an id that is taken, and what can be sent.
ServerKeys == [pubkey : VerifierKeys, from : Nat, to : Nat, by : {"seed", "hand"}]
RegistryTxs ==
  [op : {"init", "add_partner", "remove_partner"}]
    \cup [op : {"add_server_key"}, id : KeyIds, entry : ServerKeys]
    \cup [op : {"revoke_server_key"}, id : KeyIds]
    \cup [op : {"add_site"}, id : Nat]

\* Transactions that may still land: the one the script waits for, and those
\* of ended scripts.
UnderWay == late \cup {tx \in {script.tx} : script.at = "await"}

Registries ==
  [exists : BOOLEAN, keys : [KeyIds -> ServerKeys \cup {NoServerKey}],
   partner : BOOLEAN, sites : SUBSET Nat]

ScriptRecords ==
  [prog : {"none", "seed", "hand"}, key : VerifierKeys \cup {"none"},
   at : {"idle", "plan", "rest", "await"}, seen : SUBSET Nat,
   tx : RegistryTxs \cup {NoTx}, next : {"idle", "plan", "rest"}]

RegistrarTyped ==
  /\ registry \in Registries
  /\ clock \in Nat \ {0, 1} /\ wantedId \in KeyIds
  /\ late \subseteq RegistryTxs
  /\ script \in ScriptRecords
  /\ script.at = "await" => script.tx \in RegistryTxs
  /\ "plan" \in {script.at, script.next} => script.key \in VerifierKeys

\* x is the first id of F from w on, and from 0 when there is none.
First(x, F, w) ==
  /\ x \in F
  /\ \A y \in F : IF x >= w THEN y >= w => x <= y ELSE y < w /\ x <= y

FreeIds == KeyIds \ TakenIds

\* Every seed run with this --key-id that finds its key nowhere picks the same
\* free id, and none of them has landed while this id is free.
Planned(tx) ==
  /\ tx.op = "add_server_key"
  /\ tx.entry.by = "seed" /\ tx.id \in FreeIds
  => /\ First(tx.id, FreeIds, wantedId)
     /\ \A i \in TakenIds :
          registry.keys[i].by = "seed" => registry.keys[i].pubkey # tx.entry.pubkey

\* So two additions under way never go to two ids.
OneIdPlanned == \A tx \in UnderWay : Planned(tx)

\* Only keys that are there are revoked.
RevokesTaken ==
  \A tx \in UnderWay : tx.op = "revoke_server_key" => Taken(tx.id)

RegistrarInv ==
  RegistrarTyped /\ OneIdPlanned /\ RevokesTaken /\ RegisteredOnce

-----------------------------------------------------------------------------
(* The first free id                                                       *)

\* Min is the least element of a set of naturals that is not empty.
LEMMA MinIs ==
  ASSUME NEW S, S \subseteq Nat, S # {}
  PROVE  Min(S) \in S /\ \A y \in S : Min(S) <= y
<1>1. IsWellFoundedOn(OpToRel(<, Nat), Nat)
  BY NatLessThanWellFounded, Zenon
<1>2. PICK x \in S : \A y \in S : ~(<<y, x>> \in OpToRel(<, Nat))
  BY <1>1, WFMin, Zenon
<1>3. \A y \in S : ~(y < x)
  BY <1>2 DEF OpToRel
<1>4. \A y \in S : x =< y
  BY <1>3
<1> QED
  BY <1>4 DEF Min

\* nextFree: the id that planServerKey takes.
LEMMA FirstIs ==
  ASSUME RegistrarTyped, FreeIds # {}
  PROVE  First(nextFree, FreeIds, wantedId)
<1> DEFINE above == {id \in FreeIds : id >= wantedId}
<1>1. FreeIds \subseteq Nat /\ above \subseteq FreeIds /\ wantedId \in Nat
  BY DEF FreeIds, RegistrarTyped
<1>2. nextFree = IF above # {} THEN Min(above) ELSE Min(FreeIds)
  BY DEF nextFree, FreeIds
<1>3. \A y \in FreeIds : y >= wantedId <=> y \in above
  OBVIOUS
<1> HIDE DEF above
<1>4. CASE above # {}
  <2>1. Min(above) \in above /\ \A y \in above : Min(above) <= y
    BY <1>1, <1>4, MinIs
  <2> QED
    BY <1>1, <1>2, <1>3, <1>4, <2>1 DEF First
<1>5. CASE above = {}
  <2>1. Min(FreeIds) \in FreeIds /\ \A y \in FreeIds : Min(FreeIds) <= y
    BY <1>1, MinIs
  <2>2. \A y \in FreeIds : y < wantedId
    BY <1>1, <1>3, <1>5
  <2> QED
    BY <1>1, <1>2, <1>5, <2>1, <2>2 DEF First
<1> QED
  BY <1>4, <1>5

\* There is one first id.
LEMMA FirstIsOne ==
  ASSUME NEW F \in SUBSET Nat, NEW w \in Nat, NEW x, NEW y,
         First(x, F, w), First(y, F, w)
  PROVE  x = y
<1>1. x \in Nat /\ y \in Nat /\ x \in F /\ y \in F
  BY DEF First
<1> QED
  BY <1>1 DEF First

\* It stays the first one while it is free: ids are taken for good.
LEMMA FirstStays ==
  ASSUME NEW F, NEW G, G \subseteq F, NEW w, NEW x \in G, First(x, F, w)
  PROVE  First(x, G, w)
BY DEF First

-----------------------------------------------------------------------------
(* The registry: every transaction that lands keeps the invariant          *)

\* An id is free or taken, and a taken one holds a server key.
LEMMA FreeIs ==
  ASSUME registry \in Registries, NEW id \in KeyIds
  PROVE  /\ id \in FreeIds <=> ~Taken(id)
         /\ id \in TakenIds <=> Taken(id)
         /\ Taken(id) => registry.keys[id] \in ServerKeys
         /\ FreeIds \subseteq Nat
BY DEF FreeIds, TakenIds, Taken, Registries

\* What it makes of the server keys: a new entry under a free id, or an end
\* of validity for one that is there.
LEMMA AppliedIs ==
  ASSUME RegistrarInv, NEW tx \in UnderWay, Accepted(tx), registry' = Applied(tx)
  PROVE  /\ registry' \in Registries
         /\ \A id \in KeyIds :
              \/ /\ registry'.keys[id] = registry.keys[id]
                 /\ tx.op = "add_server_key" => id # tx.id
              \/ /\ Taken(id) /\ tx.op = "revoke_server_key"
                 /\ registry'.keys[id] = [registry.keys[id] EXCEPT !.to = RevokedTo]
              \/ /\ ~Taken(id) /\ tx.op = "add_server_key" /\ id = tx.id
                 /\ registry'.keys[id] = tx.entry
<1>1. tx \in RegistryTxs /\ registry \in Registries
  BY DEF RegistrarInv, RegistrarTyped, UnderWay
<1>2. registry.keys \in [KeyIds -> ServerKeys \cup {NoServerKey}]
  BY <1>1 DEF Registries
<1>3. CASE tx \in [op : {"init", "add_partner", "remove_partner"}]
  <2>1. CASE tx.op = "init"
    BY <1>1, <2>1 DEF Applied, Registries
  <2>2. CASE tx.op \in {"add_partner", "remove_partner"}
    BY <1>1, <2>2 DEF Applied, Registries
  <2> QED
    BY <1>3, <2>1, <2>2
<1>4. CASE tx \in [op : {"add_site"}, id : Nat]
  BY <1>1, <1>4 DEF Applied, Registries
<1>5. CASE tx \in [op : {"add_server_key"}, id : KeyIds, entry : ServerKeys]
  <2>1. ~Taken(tx.id)
    BY <1>5 DEF Accepted
  <2>2. registry' = [registry EXCEPT !.keys = [@ EXCEPT ![tx.id] = tx.entry]]
    BY <1>5 DEF Applied
  <2>3. registry'.keys = [registry.keys EXCEPT ![tx.id] = tx.entry]
    BY <1>1, <2>2 DEF Registries
  <2>4. registry'.keys \in [KeyIds -> ServerKeys \cup {NoServerKey}]
    BY <1>2, <1>5, <2>3
  <2>5. registry' \in Registries
    BY <1>1, <2>2, <2>3, <2>4 DEF Registries
  <2> QED
    BY <1>2, <1>5, <2>1, <2>3, <2>5
<1>6. CASE tx \in [op : {"revoke_server_key"}, id : KeyIds]
  <2>1. Taken(tx.id) /\ tx.op = "revoke_server_key"
    BY <1>6 DEF RegistrarInv, RevokesTaken
  <2> DEFINE entry == [registry.keys[tx.id] EXCEPT !.to = RevokedTo]
  <2>2. registry.keys[tx.id] \in ServerKeys /\ tx.id \in KeyIds
    BY <1>1, <1>6, <2>1, FreeIs
  <2>3. RevokedTo \in Nat
    BY DEF RevokedTo, RegistrarInv, RegistrarTyped
  <2>4. entry \in ServerKeys
    BY <2>2, <2>3 DEF ServerKeys
  <2>5. registry' = [registry EXCEPT !.keys = [@ EXCEPT ![tx.id] = entry]]
    BY <2>1 DEF Applied
  <2> HIDE DEF entry
  <2>6. registry'.keys = [registry.keys EXCEPT ![tx.id] = entry]
    BY <1>1, <2>5 DEF Registries
  <2>7. registry'.keys \in [KeyIds -> ServerKeys \cup {NoServerKey}]
    BY <1>2, <2>2, <2>4, <2>6
  <2>8. registry' \in Registries
    BY <1>1, <2>5, <2>6, <2>7 DEF Registries
  <2> QED
    BY <1>2, <2>1, <2>2, <2>6, <2>8 DEF entry
<1> QED
  BY <1>1, <1>3, <1>4, <1>5, <1>6 DEF RegistryTxs

\* The key of an entry and who has added it never change; an id that is taken
\* stays taken.
LEMMA AppliedGrows ==
  ASSUME RegistrarInv, NEW tx \in UnderWay, Accepted(tx), registry' = Applied(tx),
         NEW id \in KeyIds
  PROVE  /\ Taken(id) => /\ Taken(id)'
                         /\ registry'.keys[id].pubkey = registry.keys[id].pubkey
                         /\ registry'.keys[id].by = registry.keys[id].by
         /\ ~Taken(id) /\ Taken(id)' =>
              /\ tx.op = "add_server_key" /\ id = tx.id
              /\ registry'.keys[id] = tx.entry
         /\ tx.op = "add_server_key" => Taken(tx.id)'
<1>1. registry \in Registries
  BY DEF RegistrarInv, RegistrarTyped
<1>2. ASSUME Taken(id)
      PROVE  /\ Taken(id)'
             /\ registry'.keys[id].pubkey = registry.keys[id].pubkey
             /\ registry'.keys[id].by = registry.keys[id].by
  <2>1. registry.keys[id] \in ServerKeys
    BY <1>1, <1>2, FreeIs
  <2>2. registry'.keys[id] \in {registry.keys[id],
                                [registry.keys[id] EXCEPT !.to = RevokedTo]}
    BY <1>2, AppliedIs
  <2>3. /\ registry'.keys[id].pubkey = registry.keys[id].pubkey
        /\ registry'.keys[id].by = registry.keys[id].by
    BY <2>1, <2>2 DEF ServerKeys
  <2>4. registry'.keys[id] # NoServerKey
    BY <2>1, <2>3 DEF ServerKeys, NoServerKey
  <2> QED
    BY <2>3, <2>4 DEF Taken
<1>3. ~Taken(id) /\ Taken(id)' =>
        /\ tx.op = "add_server_key" /\ id = tx.id
        /\ registry'.keys[id] = tx.entry
  BY AppliedIs DEF Taken
<1>4. ASSUME tx.op = "add_server_key" PROVE Taken(tx.id)'
  <2>1. tx \in RegistryTxs
    BY DEF RegistrarInv, RegistrarTyped, UnderWay
  <2>2. tx.id \in KeyIds /\ tx.entry \in ServerKeys
    BY <1>4, <2>1 DEF RegistryTxs
  <2>3. registry'.keys[tx.id] = tx.entry
    BY <1>4, <2>2, AppliedIs
  <2>4. tx.entry # NoServerKey
    BY <2>2 DEF ServerKeys, NoServerKey
  <2> QED
    BY <2>3, <2>4 DEF Taken
<1> QED
  BY <1>2, <1>3, <1>4

\* A transaction lands: what the other ones have planned is still their first
\* choice, or taken and refused when they come.
LEMMA LandKeeps ==
  ASSUME RegistrarInv, NEW tx \in UnderWay, Accepted(tx), registry' = Applied(tx),
         wantedId' = wantedId, UnderWay' \subseteq UnderWay
  PROVE  registry' \in Registries /\ OneIdPlanned' /\ RevokesTaken' /\ RegisteredOnce'
<1>1. registry \in Registries /\ registry' \in Registries
  BY AppliedIs DEF RegistrarInv, RegistrarTyped
<1>2. UnderWay \subseteq RegistryTxs
  BY DEF RegistrarInv, RegistrarTyped, UnderWay
<1>3. FreeIds' \subseteq FreeIds
  BY AppliedGrows DEF FreeIds, TakenIds
<1>4. RevokesTaken'
  <2> SUFFICES ASSUME NEW t \in UnderWay', t.op = "revoke_server_key" PROVE Taken(t.id)'
    BY DEF RevokesTaken
  <2>1. Taken(t.id) /\ t.id \in KeyIds
    BY <1>2 DEF RegistrarInv, RevokesTaken, RegistryTxs
  <2> QED
    BY <2>1, AppliedGrows
<1>5. ASSUME NEW t \in UnderWay, t.op = "add_server_key", t.entry.by = "seed",
             t.id \in FreeIds'
      PROVE  /\ First(t.id, FreeIds, wantedId) /\ First(t.id, FreeIds', wantedId')
             /\ \A i \in TakenIds : registry.keys[i].by = "seed" =>
                  registry.keys[i].pubkey # t.entry.pubkey
  <2>1. Planned(t) /\ t.id \in FreeIds
    BY <1>3, <1>5 DEF RegistrarInv, OneIdPlanned
  <2> QED
    BY <1>3, <1>5, <2>1, FirstStays DEF Planned
<1>6. ASSUME NEW i \in TakenIds', i \notin TakenIds
      PROVE  /\ tx.op = "add_server_key" /\ i = tx.id /\ registry'.keys[i] = tx.entry
             /\ i \in FreeIds
  BY <1>6, AppliedGrows DEF TakenIds, FreeIds
<1>7. ASSUME NEW i \in TakenIds
      PROVE  /\ i \in KeyIds
             /\ registry'.keys[i].pubkey = registry.keys[i].pubkey
             /\ registry'.keys[i].by = registry.keys[i].by
  BY <1>7, AppliedGrows DEF TakenIds
<1>8. OneIdPlanned'
  <2> SUFFICES ASSUME NEW t \in UnderWay', t.op = "add_server_key", t.entry.by = "seed",
                      t.id \in FreeIds',
                      NEW i \in TakenIds', registry'.keys[i].by = "seed"
               PROVE  registry'.keys[i].pubkey # t.entry.pubkey
    BY <1>5 DEF OneIdPlanned, Planned
  <2>1. CASE i \in TakenIds
    BY <1>5, <1>7, <2>1
  <2>2. CASE i \notin TakenIds
    \* The landed transaction is a planned one too: it had the same id.
    <3>1. /\ tx.op = "add_server_key" /\ i = tx.id /\ tx.entry.by = "seed"
          /\ i \in FreeIds
      BY <1>6, <2>2
    <3>2. First(i, FreeIds, wantedId)
      BY <3>1 DEF RegistrarInv, OneIdPlanned, Planned
    <3>3. First(t.id, FreeIds, wantedId)
      BY <1>5
    <3>4. FreeIds \subseteq Nat /\ wantedId \in Nat
      BY DEF FreeIds, RegistrarInv, RegistrarTyped
    <3>5. t.id = i
      BY <3>2, <3>3, <3>4, FirstIsOne
    <3> QED
      BY <3>5 DEF FreeIds
  <2> QED
    BY <2>1, <2>2
<1>9. RegisteredOnce'
  <2>1. ASSUME NEW i \in TakenIds', NEW j \in TakenIds', i \in TakenIds, j \notin TakenIds,
               registry'.keys[i].by = "seed", registry'.keys[j].by = "seed"
        PROVE  registry'.keys[i].pubkey # registry'.keys[j].pubkey
    <3>1. /\ tx.op = "add_server_key" /\ j = tx.id /\ registry'.keys[j] = tx.entry
          /\ tx.id \in FreeIds
      BY <1>6, <2>1
    <3>2. registry.keys[i].pubkey # tx.entry.pubkey
      BY <1>7, <2>1, <3>1 DEF RegistrarInv, OneIdPlanned, Planned
    <3> QED
      BY <1>7, <2>1, <3>1, <3>2
  <2>2. ASSUME NEW i \in TakenIds', NEW j \in TakenIds', i \in TakenIds, j \in TakenIds,
               registry'.keys[i].by = "seed", registry'.keys[j].by = "seed",
               registry'.keys[i].pubkey = registry'.keys[j].pubkey
        PROVE  i = j
    BY <1>7, <2>2 DEF RegistrarInv, RegisteredOnce
  <2>3. \A i, j \in TakenIds' : i \notin TakenIds /\ j \notin TakenIds => i = j
    BY <1>6
  <2> QED
    BY <2>1, <2>2, <2>3 DEF RegisteredOnce
<1> QED
  BY <1>1, <1>4, <1>8, <1>9

\* Nothing lands, and what is sent is planned.
LEMMA SendKeeps ==
  ASSUME RegistrarInv, registry' = registry, wantedId' = wantedId,
         \A tx \in UnderWay' : \/ tx \in UnderWay
                               \/ /\ Planned(tx)
                                  /\ tx.op = "revoke_server_key" => Taken(tx.id)
  PROVE  OneIdPlanned' /\ RevokesTaken' /\ RegisteredOnce'
<1>1. FreeIds' = FreeIds /\ TakenIds' = TakenIds /\ \A id \in KeyIds : Taken(id)' <=> Taken(id)
  BY DEF FreeIds, TakenIds, Taken
<1>2. \A tx \in UnderWay' : Planned(tx) /\ (tx.op = "revoke_server_key" => Taken(tx.id))
  BY DEF RegistrarInv, OneIdPlanned, RevokesTaken
<1>3. OneIdPlanned'
  BY <1>1, <1>2 DEF OneIdPlanned, Planned
<1>4. RevokesTaken'
  BY <1>2 DEF RevokesTaken, Taken
<1>5. RegisteredOnce'
  BY <1>1 DEF RegistrarInv, RegisteredOnce
<1> QED
  BY <1>3, <1>4, <1>5

-----------------------------------------------------------------------------
(* The registry: the steps                                                 *)

\* planServerKey adds a key that is registered nowhere, under the first id
\* that is free; the registry is not full, so that there is one.
LEMMA PlanIs ==
  ASSUME RegistrarInv, NEW key, planServerKey(key).action = "add"
  PROVE  /\ planServerKey(key).id = nextFree /\ nextFree \in KeyIds
         /\ First(nextFree, FreeIds, wantedId)
         /\ \A i \in TakenIds : registry.keys[i].pubkey # key
<1> DEFINE mine == {id \in TakenIds : registry.keys[id].pubkey = key}
           usable == {id \in mine : keyStatus(id) # "ended"}
           full == Cardinality(TakenIds) >= MaxServerKeys
<1>1. planServerKey(key) =
        IF usable # {} THEN [action |-> "skip", id |-> Min(usable)]
        ELSE IF mine # {} \/ (Taken(wantedId) /\ keyStatus(wantedId) = "valid") \/ full
        THEN [action |-> "refuse", id |-> wantedId]
        ELSE [action |-> "add", id |-> nextFree]
  BY DEF planServerKey
<1> HIDE DEF usable
<1>2. mine = {} /\ ~full /\ planServerKey(key).id = nextFree
  <2> HIDE DEF mine, full
  <2> QED
    BY <1>1
<1>3. FreeIds # {}
  <2> SUFFICES ASSUME FreeIds = {} PROVE FALSE
    OBVIOUS
  <2>1. TakenIds = KeyIds
    BY DEF FreeIds, TakenIds
  <2>2. Cardinality(KeyIds) \in Nat
    BY FS_CardinalityType
  <2> QED
    BY <1>2, <2>1, <2>2
<1>4. First(nextFree, FreeIds, wantedId)
  BY <1>3, FirstIs DEF RegistrarInv
<1> QED
  BY <1>2, <1>4 DEF First, FreeIds

\* A script that does not wait has nothing under way.
LEMMA NothingSent ==
  ASSUME script'.at # "await", late' \subseteq late
  PROVE  UnderWay' \subseteq UnderWay
BY DEF UnderWay

\* A script that has its answer is a script.
LEMMA ArrivesTyped ==
  ASSUME NEW s \in ScriptRecords, NEW next \in {"idle", "plan", "rest"}, Arrives(s, next),
         "plan" \in {next, s.next} => s.key \in VerifierKeys
  PROVE  /\ script' \in ScriptRecords /\ script'.at # "await"
         /\ "plan" \in {script'.at, script'.next} => script'.key \in VerifierKeys
<1>1. NoScript \in ScriptRecords /\ NoScript.at = "idle" /\ NoScript.next = "idle"
  BY DEF NoScript, ScriptRecords
<1> QED
  BY <1>1 DEF Arrives, ScriptRecords

\* So is one that has sent a transaction.
LEMMA SendTyped ==
  ASSUME NEW s \in ScriptRecords, NEW tx \in RegistryTxs,
         NEW next \in {"idle", "plan", "rest"}, Send(s, tx, next),
         next = "plan" => s.key \in VerifierKeys
  PROVE  /\ script' \in ScriptRecords /\ script'.at = "await" /\ script'.tx = tx
         /\ "plan" \in {script'.at, script'.next} => script'.key \in VerifierKeys
BY DEF Send, ScriptRecords

\* A script ends.
LEMMA EndTyped ==
  ASSUME script' = NoScript
  PROVE  /\ script' \in ScriptRecords /\ script'.at = "idle" /\ script'.next = "idle"
BY DEF NoScript, ScriptRecords

\* The step sends this transaction, or goes on without one.
LEMMA SentKeeps ==
  ASSUME RegistrarInv, Others, script' \in ScriptRecords,
         "plan" \in {script'.at, script'.next} => script'.key \in VerifierKeys,
         \/ script'.at # "await"
         \/ /\ script'.tx \in RegistryTxs /\ Planned(script'.tx)
            /\ script'.tx.op = "revoke_server_key" => Taken(script'.tx.id)
  PROVE  RegistrarInv'
<1>1. RegistrarTyped'
  BY DEF RegistrarInv, RegistrarTyped, Others
<1>2. \A tx \in UnderWay' : tx \in UnderWay \/ (script'.at = "await" /\ tx = script'.tx)
  BY DEF UnderWay, Others
<1>3. registry' = registry /\ wantedId' = wantedId
  BY DEF Others
<1>4. \A tx \in UnderWay' : \/ tx \in UnderWay
                            \/ /\ Planned(tx)
                               /\ tx.op = "revoke_server_key" => Taken(tx.id)
  BY <1>2
<1>5. OneIdPlanned' /\ RevokesTaken' /\ RegisteredOnce'
  BY <1>3, <1>4, SendKeeps
<1> QED
  BY <1>1, <1>5 DEF RegistrarInv

\* The transaction that a script waits for lands.
LEMMA LandsKeeps == ASSUME RegistrarInv, Lands PROVE RegistrarInv'
<1>1. script \in ScriptRecords /\ script.at = "await" /\ script.tx \in UnderWay
  BY DEF RegistrarInv, RegistrarTyped, Lands, UnderWay
<1>2. CASE Accepted(script.tx)
  <2> DEFINE s == [script EXCEPT !.tx = NoTx]
  <2>1. s \in ScriptRecords /\ s.next = script.next /\ s.key = script.key
    BY <1>1 DEF ScriptRecords
  <2>2. Arrives(s, script.next) /\ registry' = Applied(script.tx)
    BY <1>2 DEF Lands
  <2>3. script.next \in {"idle", "plan", "rest"}
    BY <1>1 DEF ScriptRecords
  <2>4. "plan" \in {script.next, s.next} => s.key \in VerifierKeys
    BY <2>1 DEF RegistrarInv, RegistrarTyped
  <2> HIDE DEF s
  <2>5. /\ script' \in ScriptRecords /\ script'.at # "await"
        /\ "plan" \in {script'.at, script'.next} => script'.key \in VerifierKeys
    BY <2>1, <2>2, <2>3, <2>4, ArrivesTyped
  <2>6. UnderWay' \subseteq UnderWay
    BY <2>5, NothingSent DEF Lands
  <2>7. registry' \in Registries /\ OneIdPlanned' /\ RevokesTaken' /\ RegisteredOnce'
    BY <1>1, <1>2, <2>2, <2>6, LandKeeps DEF Lands
  <2>8. RegistrarTyped'
    BY <2>5, <2>7 DEF RegistrarInv, RegistrarTyped, Lands
  <2> QED
    BY <2>7, <2>8 DEF RegistrarInv
<1>3. CASE ~Accepted(script.tx)
  BY <1>3, EndTyped, SentKeeps DEF Lands, Others
<1> QED
  BY <1>2, <1>3

\* A transaction of an ended script lands.
LEMMA LandsLateKeeps == ASSUME RegistrarInv, NEW tx \in late, LandsLate(tx) PROVE RegistrarInv'
<1>1. tx \in UnderWay /\ UnderWay' \subseteq UnderWay
  BY DEF UnderWay, LandsLate
<1>2. CASE Accepted(tx)
  <2>1. registry' \in Registries /\ OneIdPlanned' /\ RevokesTaken' /\ RegisteredOnce'
    BY <1>1, <1>2, LandKeeps DEF LandsLate
  <2>2. RegistrarTyped'
    BY <2>1 DEF RegistrarInv, RegistrarTyped, LandsLate
  <2> QED
    BY <2>1, <2>2 DEF RegistrarInv
<1>3. CASE ~Accepted(tx)
  <2>1. registry' = registry /\ wantedId' = wantedId
    BY <1>3 DEF LandsLate
  <2>2. OneIdPlanned' /\ RevokesTaken' /\ RegisteredOnce'
    BY <1>1, <2>1, SendKeeps
  <2>3. RegistrarTyped'
    BY <2>1 DEF RegistrarInv, RegistrarTyped, LandsLate
  <2> QED
    BY <2>2, <2>3 DEF RegistrarInv
<1> QED
  BY <1>2, <1>3

\* A script gives up, a transaction expires, time passes.
LEMMA WaitsKeep ==
  ASSUME RegistrarInv,
         \/ \E lost \in BOOLEAN : GivesUp(lost)
         \/ \E tx \in late : Expires(tx)
         \/ Ticks \/ UNCHANGED registrarVars
  PROVE  RegistrarInv'
<1>1. registry' = registry /\ wantedId' = wantedId
  BY DEF GivesUp, Expires, Ticks, registrarVars
<1>2. UnderWay' \subseteq UnderWay
  BY DEF UnderWay, GivesUp, Expires, Ticks, registrarVars, NoScript
<1>3. OneIdPlanned' /\ RevokesTaken' /\ RegisteredOnce'
  BY <1>1, <1>2, SendKeeps
<1>4. RegistrarTyped'
  <2>1. CASE \E lost \in BOOLEAN : GivesUp(lost)
    BY <2>1, EndTyped DEF GivesUp, RegistrarInv, RegistrarTyped
  <2>2. CASE \E tx \in late : Expires(tx)
    BY <2>2 DEF Expires, RegistrarInv, RegistrarTyped
  <2>3. CASE Ticks
    BY <2>3 DEF Ticks, RegistrarInv, RegistrarTyped
  <2>4. CASE UNCHANGED registrarVars
    BY <2>4 DEF registrarVars, RegistrarInv, RegistrarTyped
  <2> QED
    BY <2>1, <2>2, <2>3, <2>4
<1> QED
  BY <1>3, <1>4 DEF RegistrarInv

\* seed-devnet starts.
LEMMA SeedStartsKeeps ==
  ASSUME RegistrarInv, NEW key \in VerifierKeys, SeedStarts(key)
  PROVE  RegistrarInv'
<1>1. /\ Seed(key) \in ScriptRecords /\ Seed(key).key = key /\ Seed(key).next = "idle"
      /\ Others
  BY DEF Seed, NoScript, ScriptRecords, SeedStarts
<1>2. CASE registry.exists
  <2>1. Arrives(Seed(key), "plan")
    BY <1>2 DEF SeedStarts
  <2>2. /\ script' \in ScriptRecords /\ script'.at # "await"
        /\ "plan" \in {script'.at, script'.next} => script'.key \in VerifierKeys
    BY <1>1, <2>1, ArrivesTyped
  <2> QED
    BY <1>1, <2>2, SentKeeps
<1>3. CASE ~registry.exists
  <2> DEFINE tx == [op |-> "init"]
  <2>1. Send(Seed(key), tx, "plan") /\ tx.op = "init" /\ tx \in RegistryTxs
    BY <1>3 DEF SeedStarts, RegistryTxs
  <2> HIDE DEF tx
  <2>2. /\ script' \in ScriptRecords /\ script'.at = "await" /\ script'.tx = tx
        /\ "plan" \in {script'.at, script'.next} => script'.key \in VerifierKeys
    BY <1>1, <2>1, SendTyped
  <2> QED
    BY <1>1, <2>1, <2>2, SentKeeps DEF Planned
<1> QED
  BY <1>2, <1>3

\* seed-devnet reads the registry and plans its server key.
LEMMA SeedPlansKeeps == ASSUME RegistrarInv, SeedPlans PROVE RegistrarInv'
<1> DEFINE plan == planServerKey(script.key)
           missing == PartnerSites \ registry.sites
           s == [script EXCEPT !.seen = IF registry.partner THEN missing
                                        ELSE {0} \cup missing]
           entry == [pubkey |-> script.key, from |-> 0, to |-> 0, by |-> "seed"]
           tx == [op |-> "add_server_key", id |-> plan.id, entry |-> entry]
<1>1. script \in ScriptRecords /\ script.key \in VerifierKeys /\ Others
  BY DEF RegistrarInv, RegistrarTyped, SeedPlans
<1>2. s \in ScriptRecords /\ s.key = script.key
  BY <1>1 DEF ScriptRecords
<1>3. CASE plan.action = "refuse"
  <2>1. script' = NoScript
    BY <1>3 DEF SeedPlans
  <2> QED
    BY <1>1, <2>1, EndTyped, SentKeeps
<1>4. CASE plan.action = "skip"
  <2>1. Arrives(s, "rest")
    BY <1>4 DEF SeedPlans
  <2> HIDE DEF s
  <2>2. /\ script' \in ScriptRecords /\ script'.at # "await"
        /\ "plan" \in {script'.at, script'.next} => script'.key \in VerifierKeys
    BY <1>1, <1>2, <2>1, ArrivesTyped
  <2> QED
    BY <1>1, <2>2, SentKeeps
<1>5. CASE plan.action = "add"
  <2>1. Send(s, tx, "rest")
    BY <1>5 DEF SeedPlans
  <2>2. /\ plan.id = nextFree /\ nextFree \in KeyIds /\ First(plan.id, FreeIds, wantedId)
        /\ \A i \in TakenIds : registry.keys[i].pubkey # script.key
    BY <1>5, PlanIs
  <2> HIDE DEF s, plan
  <2>3. entry \in ServerKeys /\ entry.pubkey = script.key
    BY <1>1 DEF ServerKeys
  <2> HIDE DEF entry
  <2>4. tx \in RegistryTxs /\ tx.op = "add_server_key" /\ tx.id = plan.id /\ tx.entry = entry
    BY <2>2, <2>3 DEF RegistryTxs
  <2> HIDE DEF tx
  <2>5. /\ script' \in ScriptRecords /\ script'.at = "await" /\ script'.tx = tx
        /\ "plan" \in {script'.at, script'.next} => script'.key \in VerifierKeys
    BY <1>1, <1>2, <2>1, <2>4, SendTyped
  <2>6. Planned(tx) /\ tx.op # "revoke_server_key"
    BY <2>2, <2>3, <2>4 DEF Planned
  <2> QED
    BY <1>1, <2>4, <2>5, <2>6, SentKeeps
<1>6. plan.action \in {"refuse", "skip", "add"}
  BY DEF planServerKey
<1> QED
  BY <1>3, <1>4, <1>5, <1>6

\* seed-devnet adds what else is missing.
LEMMA SeedAddsRestKeeps == ASSUME RegistrarInv, SeedAddsRest PROVE RegistrarInv'
<1>1. script \in ScriptRecords /\ script.seen \subseteq Nat /\ Others
  BY DEF RegistrarInv, RegistrarTyped, SeedAddsRest, ScriptRecords
<1>2. CASE script.seen = {}
  <2>1. script' = NoScript
    BY <1>2 DEF SeedAddsRest
  <2> QED
    BY <1>1, <2>1, EndTyped, SentKeeps
<1>3. CASE script.seen # {}
  <2> DEFINE n == Min(script.seen)
             s == [script EXCEPT !.seen = @ \ {n}]
             tx == IF n = 0 THEN [op |-> "add_partner"] ELSE [op |-> "add_site", id |-> n]
  <2>1. n \in Nat
    BY <1>1, <1>3, MinIs
  <2>2. Send(s, tx, "rest")
    BY <1>3 DEF SeedAddsRest
  <2> HIDE DEF n
  <2>3. s \in ScriptRecords
    BY <1>1 DEF ScriptRecords
  <2>4. tx \in RegistryTxs /\ tx.op \in {"add_partner", "add_site"}
    BY <2>1 DEF RegistryTxs
  <2> HIDE DEF s, tx
  <2>5. /\ script' \in ScriptRecords /\ script'.at = "await" /\ script'.tx = tx
        /\ "plan" \in {script'.at, script'.next} => script'.key \in VerifierKeys
    BY <2>2, <2>3, <2>4, SendTyped
  <2> QED
    BY <1>1, <2>4, <2>5, SentKeeps DEF Planned
<1> QED
  BY <1>2, <1>3

\* The operator adds or revokes a key or a partner by hand.
LEMMA HandKeeps ==
  ASSUME RegistrarInv,
         \/ \E key \in VerifierKeys, id \in KeyIds, term \in Terms : AddsKey(key, id, term)
         \/ \E id \in KeyIds : RevokesKey(id)
         \/ \E cmd \in {"add_partner", "remove_partner"} : RunPartner(cmd)
  PROVE  RegistrarInv'
<1>1. Hand \in ScriptRecords /\ Others
  BY DEF Hand, NoScript, ScriptRecords, AddsKey, RevokesKey, RunPartner
<1>2. ASSUME NEW tx \in RegistryTxs, Send(Hand, tx, "idle"), Planned(tx),
             tx.op = "revoke_server_key" => Taken(tx.id)
      PROVE  RegistrarInv'
  <2>1. /\ script' \in ScriptRecords /\ script'.at = "await" /\ script'.tx = tx
        /\ "plan" \in {script'.at, script'.next} => script'.key \in VerifierKeys
    BY <1>1, <1>2, SendTyped
  <2> QED
    BY <1>1, <1>2, <2>1, SentKeeps
<1>3. ASSUME NEW key \in VerifierKeys, NEW id \in KeyIds, NEW term \in Terms,
             AddsKey(key, id, term)
      PROVE  RegistrarInv'
  <2> DEFINE entry == [pubkey |-> key, from |-> term.from, to |-> term.to, by |-> "hand"]
             tx == [op |-> "add_server_key", id |-> id, entry |-> entry]
  <2>1. entry \in ServerKeys /\ entry.by = "hand"
    BY DEF ServerKeys
  <2>2. Send(Hand, tx, "idle")
    BY <1>3 DEF AddsKey
  <2> HIDE DEF entry
  <2>3. tx \in RegistryTxs /\ tx.op = "add_server_key" /\ tx.entry.by = "hand"
    BY <2>1 DEF RegistryTxs
  <2> HIDE DEF tx
  <2> QED
    BY <1>2, <2>2, <2>3 DEF Planned
<1>4. ASSUME NEW id \in KeyIds, RevokesKey(id) PROVE RegistrarInv'
  <2> DEFINE tx == [op |-> "revoke_server_key", id |-> id]
  <2>1. tx \in RegistryTxs /\ tx.op = "revoke_server_key" /\ Taken(tx.id) /\ Send(Hand, tx, "idle")
    BY <1>4 DEF RegistryTxs, RevokesKey
  <2> HIDE DEF tx
  <2> QED
    BY <1>2, <2>1 DEF Planned
<1>5. ASSUME NEW cmd \in {"add_partner", "remove_partner"}, RunPartner(cmd)
      PROVE  RegistrarInv'
  <2> DEFINE tx == [op |-> cmd]
  <2>1. tx \in RegistryTxs /\ tx.op = cmd /\ Send(Hand, tx, "idle")
    BY <1>5 DEF RegistryTxs, RunPartner
  <2> HIDE DEF tx
  <2> QED
    BY <1>2, <2>1 DEF Planned
<1> QED
  BY <1>3, <1>4, <1>5

\* The registry does not exist at first.
LEMMA RegistrarInitInv == RegistrarInit => RegistrarInv
<1> SUFFICES ASSUME RegistrarInit PROVE RegistrarInv
  OBVIOUS
<1>1. script \in ScriptRecords /\ script.at = "idle" /\ script.next = "idle"
  BY DEF RegistrarInit, NoScript, ScriptRecords
<1>2. registry \in Registries /\ \A id \in KeyIds : ~Taken(id)
  BY DEF RegistrarInit, Registries, Taken
<1>3. RegistrarTyped
  BY <1>1, <1>2 DEF RegistrarInit, RegistrarTyped
<1>4. UnderWay = {} /\ TakenIds = {}
  BY <1>1, <1>2 DEF UnderWay, TakenIds, RegistrarInit
<1> QED
  BY <1>3, <1>4 DEF RegistrarInv, OneIdPlanned, RevokesTaken, RegisteredOnce

\* Every step keeps the invariant of the registry.
LEMMA RegistrarNextInv ==
  ASSUME RegistrarInv, [RegistrarNext]_registrarVars PROVE RegistrarInv'
BY SeedStartsKeeps, SeedPlansKeeps, SeedAddsRestKeeps, HandKeeps, LandsKeeps,
   LandsLateKeeps, WaitsKeep DEF RegistrarNext

\* seed-devnet can be run again after any failure and any rotation: it has a
\* verifier key registered under one id at most, also when the answer of an
\* earlier run was lost and its transaction lands afterwards.
THEOREM KeysRegisteredOnce == RegistrarSpec => []RegisteredOnce
<1>1. RegistrarInv => RegisteredOnce
  BY DEF RegistrarInv
<1> QED
  BY <1>1, RegistrarInitInv, RegistrarNextInv, PTL DEF RegistrarSpec

-----------------------------------------------------------------------------
(* Provisioning: the inductive invariant                                   *)

Steps ==
  [op : {"asset", "mint"}, at : Serials] \cup [op : {"attach", "dead"}, at : Uids]
    \cup [op : {"post"}, at : Addresses]

RunRecords ==
  [prog : {"none", "mint", "attach", "bind", "seed"}, steps : Seq(Steps), asset : Nat,
   sig : Nat, at : Addresses \cup {NoSerial}, seen : BOOLEAN]

PassportRecords ==
  [issuer : {"none", "me", "other"}, asset : Nat, void : BOOLEAN,
   by : {"none", "console", "script", "late"}]

ProvisionTyped ==
  /\ passports \in [Serials -> PassportRecords]
  /\ seals \in [Uids -> [on : Serials \cup {NoSerial}, dead : BOOLEAN]]
  /\ owner \in Seq({"me", "other"}) /\ owner # <<>>
  /\ touched \in [Addresses -> Seq({"create", "stray"})]
  /\ run \in [Clients -> RunRecords]
  /\ kept \in [asset : Nat, serial : Serials \cup {NoSerial}]
  /\ kept.asset <= Len(owner)
  /\ TypeOK

\* A passport is minted after its asset is chosen, an account is reported after
\* it is created.
InOrder(st) ==
  \A i \in 2..Len(st) :
    /\ st[i].op # "asset"
    /\ st[i].op = "mint" => st[i - 1] = Step("asset", st[i].at)
    /\ st[i].op = "post" => st[i - 1] \in {Step("mint", st[i].at), Step("attach", st[i].at)}

\* The seed reports nothing; the console chooses its asset before it mints.
ProgramOK(c, r) ==
  /\ InOrder(r.steps)
  /\ r.prog = "seed" => \A i \in 1..Len(r.steps) : r.steps[i].op # "post"
  /\ \A i \in 1..Len(r.steps) : r.steps[i].op = "asset" => c = "script"

\* What a client is about to report is the creation.
SigFound(c) ==
  AtStep(c, "post") =>
    /\ run[c].sig \in 1..Len(touched[Where(c)])
    /\ Creates(Where(c), run[c].sig)

\* The asset the script is about to mint with is of no passport that a script
\* minted before.
AssetFree(c) ==
  c = "script" /\ AtStep(c, "mint") /\ ~run[c].seen =>
    \A s \in Serials : passports[s].by = "script" => passports[s].asset # run[c].asset

\* All chips of the seed file's bottle are on it, or will be before the step.
AllAttachedBy(s, st, i) ==
  \A j \in 1..Len(SeedSeals[s]) :
    \/ Attached(SeedSeals[s][j])
    \/ \E k \in 1..(i - 1) : st[k] = Step("attach", SeedSeals[s][j])

\* A seal is marked dead after every seal of its bottle is attached, and what was
\* seen attached is attached.
DeadLast(c) ==
  /\ \A i \in 1..Len(run[c].steps) :
       run[c].steps[i].op = "dead" =>
         LET s == SealOf[run[c].steps[i].at] IN
         s \in DOMAIN SeedSeals /\ AllAttachedBy(s, run[c].steps, i)
  /\ run[c].seen /\ run[c].at \in Uids => Attached(run[c].at)

\* A passport is void because the seed has marked a seal of it dead.
VoidIsFull ==
  \A s \in Serials : passports[s].void =>
    s \in DOMAIN SeedSeals /\ \A j \in 1..Len(SeedSeals[s]) : Attached(SeedSeals[s][j])

\* A transaction under way is one of a program: a seal is marked dead by it after
\* every seal of its bottle is attached.
SentOK(tx) ==
  /\ tx \in [op : {"mint", "attach", "dead"}, at : Addresses, asset : Nat]
  /\ tx.asset <= Len(owner)
  /\ tx.op = "mint" => tx.at \in Serials
  /\ tx.op # "mint" => tx.at \in Uids
  /\ tx.op = "dead" =>
       /\ SealOf[tx.at] \in DOMAIN SeedSeals
       /\ \A j \in 1..Len(SeedSeals[SealOf[tx.at]]) : Attached(SeedSeals[SealOf[tx.at]][j])

\* A client goes through a program, reports creations and marks seals dead last.
ClientOK(c) == ProgramOK(c, run[c]) /\ SigFound(c) /\ DeadLast(c)

ProvisionInv ==
  /\ ProvisionTyped /\ ScriptsBindApart /\ VoidIsFull
  /\ \A tx \in sent : SentOK(tx)
  /\ \A c \in Clients : ClientOK(c) /\ AssetFree(c)

-----------------------------------------------------------------------------
(* Provisioning: programs                                                  *)

\* What is left of a program after its first step.
LEMMA TailIs ==
  ASSUME NEW S, NEW st \in Seq(S), st # <<>>
  PROVE  /\ Head(st) = st[1] /\ Head(st) \in S
         /\ Tail(st) \in Seq(S) /\ Len(st) \in Nat /\ Len(st) >= 1
         /\ Len(Tail(st)) = Len(st) - 1
         /\ \A i \in 1..Len(Tail(st)) : i + 1 \in 2..Len(st) /\ Tail(st)[i] = st[i + 1]
OBVIOUS

\* What is left of a program is a program, and what comes next in it follows what
\* has been done.
LEMMA RestIsProgram ==
  ASSUME NEW c, NEW r \in RunRecords, r.steps # <<>>, ProgramOK(c, r),
         NEW q, q.prog = r.prog, q.steps = Tail(r.steps)
  PROVE  /\ ProgramOK(c, q)
         /\ q.steps # <<>> =>
              /\ Head(q.steps).op # "asset"
              /\ Head(q.steps).op = "mint" => Head(r.steps) = Step("asset", Head(q.steps).at)
              /\ Head(q.steps).op = "post" =>
                   /\ r.prog # "seed"
                   /\ Head(r.steps) \in {Step("mint", Head(q.steps).at),
                                         Step("attach", Head(q.steps).at)}
<1>1. r.steps \in Seq(Steps)
  BY DEF RunRecords
<1> DEFINE st == r.steps
           ts == Tail(r.steps)
<1>2. /\ Head(st) = st[1] /\ ts \in Seq(Steps) /\ Len(st) \in Nat /\ Len(st) >= 1
      /\ Len(ts) = Len(st) - 1
      /\ \A i \in 1..Len(ts) : i + 1 \in 2..Len(st) /\ ts[i] = st[i + 1]
  BY <1>1, TailIs
<1>3. \A i \in 2..Len(st) :
        /\ st[i].op # "asset"
        /\ st[i].op = "mint" => st[i - 1] = Step("asset", st[i].at)
        /\ st[i].op = "post" => st[i - 1] \in {Step("mint", st[i].at), Step("attach", st[i].at)}
  BY DEF ProgramOK, InOrder
<1>4. r.prog = "seed" => \A i \in 1..Len(st) : st[i].op # "post"
  BY DEF ProgramOK
<1> HIDE DEF st, ts
<1>5. ASSUME NEW i \in 2..Len(ts)
      PROVE  /\ ts[i].op # "asset"
             /\ ts[i].op = "mint" => ts[i - 1] = Step("asset", ts[i].at)
             /\ ts[i].op = "post" => ts[i - 1] \in {Step("mint", ts[i].at), Step("attach", ts[i].at)}
  <2>1. i \in 1..Len(ts) /\ i - 1 \in 1..Len(ts) /\ (i - 1) + 1 = i /\ (i + 1) - 1 = i
    BY <1>2
  <2>2. ts[i] = st[i + 1] /\ ts[i - 1] = st[i] /\ i + 1 \in 2..Len(st)
    BY <1>2, <2>1
  <2> QED
    BY <1>3, <2>1, <2>2
<1>6. \A i \in 1..Len(ts) : ts[i].op # "asset" /\ (r.prog = "seed" => ts[i].op # "post")
  BY <1>2, <1>3, <1>4
<1>7. ProgramOK(c, q)
  BY <1>5, <1>6 DEF ProgramOK, InOrder, ts
<1>8. ASSUME ts # <<>>
      PROVE  /\ Head(ts).op # "asset"
             /\ Head(ts).op = "mint" => st[1] = Step("asset", Head(ts).at)
             /\ Head(ts).op = "post" =>
                   /\ r.prog # "seed"
                   /\ st[1] \in {Step("mint", Head(ts).at), Step("attach", Head(ts).at)}
  <2>1. Head(ts) = ts[1] /\ 1 \in 1..Len(ts)
    BY <1>2, <1>8, TailIs
  <2>2. ts[1] = st[2] /\ 2 \in 2..Len(st) /\ 2 - 1 = 1
    BY <1>2, <2>1
  <2> QED
    BY <1>3, <1>6, <2>1, <2>2
<1> QED
  BY <1>2, <1>7, <1>8 DEF st, ts

\* The seals that the file marks dead are seals of its list.
LEMMA SetInduction ==
  ASSUME NEW m \in Nat, NEW S, 0 \in S,
         \A n \in 0..(m - 1) : n \in S => n + 1 \in S
  PROVE  0..m \subseteq S
<1> DEFINE T == (0..m) \ S
<1> SUFFICES ASSUME T # {} PROVE FALSE
  OBVIOUS
<1>1. T \subseteq Nat
  OBVIOUS
<1> HIDE DEF T
<1>2. PICK x \in T : \A y \in T : x <= y
  BY <1>1, MinIs
<1>3. x \in 0..m /\ x \notin S
  BY DEF T
<1>4. x - 1 \in 0..(m - 1) /\ x - 1 \in 0..m /\ (x - 1) + 1 = x
  BY <1>3
<1>5. x - 1 \notin T
  BY <1>2, <1>3
<1> QED
  BY <1>3, <1>4, <1>5 DEF T

IsUpTo(f, m, list) ==
  f = [n \in 0..m |->
         IF n = 0 THEN <<>>
         ELSE IF list[n] \in DeadSeals THEN Append(f[n - 1], list[n]) ELSE f[n - 1]]

\* There is such a function for every length.
LEMMA UpToExists ==
  ASSUME NEW list, NEW m \in Nat PROVE \E f : IsUpTo(f, m, list)
<1> DEFINE S == {n \in 0..m : \E f : IsUpTo(f, n, list)}
           Next1(f, n) == IF list[n] \in DeadSeals THEN Append(f[n - 1], list[n]) ELSE f[n - 1]
<1>1. 0 \in S
  <2>1. IsUpTo([n \in 0..0 |-> <<>>], 0, list)
    BY DEF IsUpTo
  <2> QED
    BY <2>1
<1>2. ASSUME NEW k \in 0..(m - 1), k \in S PROVE k + 1 \in S
  <2>1. PICK f : IsUpTo(f, k, list)
    BY <1>2
  <2> DEFINE g == [n \in 0..(k + 1) |-> IF n <= k THEN f[n] ELSE Next1(f, n)]
  <2>2. \A n \in 0..k : f[n] = IF n = 0 THEN <<>> ELSE Next1(f, n)
    BY <2>1 DEF IsUpTo
  <2>3. \A n \in 0..(k + 1) : g[n] = IF n = 0 THEN <<>> ELSE Next1(g, n)
    <3>1. TAKE n \in 0..(k + 1)
    <3>2. CASE n <= k
      BY <2>2, <3>2
    <3>3. CASE n = k + 1
      BY <3>3
    <3> QED
      BY <3>2, <3>3
  <2>4. g = [n \in 0..(k + 1) |-> g[n]]
    OBVIOUS
  <2> HIDE DEF g
  <2>5. IsUpTo(g, k + 1, list)
    BY <2>3, <2>4 DEF IsUpTo
  <2> QED
    BY <2>5
<1> HIDE DEF S
<1>3. 0..m \subseteq S
  BY <1>1, <1>2, SetInduction
<1> QED
  BY <1>3 DEF S

\* The dead seals of a list are of the list.
LEMMA MarkedDeadIs ==
  ASSUME NEW T, NEW list \in Seq(T) PROVE MarkedDead(list) \in Seq(T)
<1> DEFINE m == Len(list)
           f == CHOOSE g : IsUpTo(g, m, list)
<1>1. IsUpTo(f, m, list) /\ m \in Nat
  BY UpToExists
<1>2. MarkedDead(list) = f[m]
  BY DEF MarkedDead, IsUpTo
<1> HIDE DEF f
<1>3. \A n \in 0..m : f[n] = IF n = 0 THEN <<>>
                             ELSE IF list[n] \in DeadSeals THEN Append(f[n - 1], list[n])
                             ELSE f[n - 1]
  BY <1>1 DEF IsUpTo
<1> DEFINE S == {n \in 0..m : f[n] \in Seq(T)}
<1>4. 0 \in S
  <2>1. 0 \in 0..m /\ f[0] = <<>> /\ <<>> \in Seq(T)
    BY <1>1, <1>3
  <2> QED
    BY <2>1
<1>5. ASSUME NEW n \in 0..(m - 1), n \in S PROVE n + 1 \in S
  <2>1. n + 1 \in 0..m /\ n + 1 # 0 /\ (n + 1) - 1 = n /\ n + 1 \in 1..m
    BY <1>1
  <2>2. list[n + 1] \in T /\ f[n] \in Seq(T)
    BY <1>5, <2>1
  <2>3. f[n + 1] = IF list[n + 1] \in DeadSeals THEN Append(f[n], list[n + 1]) ELSE f[n]
    BY <1>3, <2>1
  <2>4. f[n + 1] \in Seq(T)
    BY <2>2, <2>3
  <2> QED
    BY <2>1, <2>4
<1> HIDE DEF S
<1>6. 0..m \subseteq S
  BY <1>1, <1>4, <1>5, SetInduction
<1> QED
  BY <1>1, <1>2, <1>6 DEF S

\* The parts of a step.
LEMMA StepIs == ASSUME NEW op, NEW a PROVE Step(op, a).op = op /\ Step(op, a).at = a
BY DEF Step

\* sealSeedPlan: every seal is attached before one is marked dead.
LEMMA SealSeedPlanIs ==
  ASSUME NEW s \in DOMAIN SeedSeals
  PROVE  LET n == Len(SeedSeals[s])
             plan == SealSeedPlan(s)
         IN /\ n \in Nat /\ plan \in Seq(Steps) /\ n <= Len(plan)
            /\ \A i \in 1..n : plan[i] = Step("attach", SeedSeals[s][i])
            /\ \A i \in 1..Len(plan) : i > n =>
                 plan[i].op = "dead" /\ plan[i].at \in Uids /\ SealOf[plan[i].at] = s
<1> DEFINE list == SeedSeals[s]
           dead == MarkedDead(list)
           here == {u \in Uids : SealOf[u] = s}
           first == [i \in 1..Len(list) |-> Step("attach", list[i])]
           second == [i \in 1..Len(dead) |-> Step("dead", dead[i])]
<1>1. list \in Seq(here) /\ dead \in Seq(here)
  BY MarkedDeadIs
<1>2. SealSeedPlan(s) = first \o second
  BY DEF SealSeedPlan
<1>3. /\ Len(list) \in Nat /\ Len(dead) \in Nat
      /\ \A i \in 1..Len(list) : list[i] \in here
      /\ \A i \in 1..Len(dead) : dead[i] \in here
  BY <1>1
<1> HIDE DEF list, dead
<1>4. first \in Seq(Steps) /\ Len(first) = Len(list)
  <2>1. \A i \in 1..Len(list) : Step("attach", list[i]) \in Steps
    BY <1>3 DEF Step, Steps
  <2> QED
    BY <1>3, <2>1
<1>5. second \in Seq(Steps) /\ Len(second) = Len(dead)
  <2>1. \A i \in 1..Len(dead) : Step("dead", dead[i]) \in Steps
    BY <1>3 DEF Step, Steps
  <2> QED
    BY <1>3, <2>1
<1>6. /\ \A i \in 1..Len(list) : first[i] = Step("attach", list[i])
      /\ \A i \in 1..Len(dead) : second[i] = Step("dead", dead[i])
  OBVIOUS
<1>7. ASSUME NEW i \in 1..Len(dead)
      PROVE second[i].op = "dead" /\ second[i].at \in Uids /\ SealOf[second[i].at] = s
  BY <1>3, <1>6, <1>7, StepIs
<1> HIDE DEF first, second
<1> DEFINE plan == first \o second
<1>8. /\ plan \in Seq(Steps) /\ Len(plan) = Len(list) + Len(dead)
      /\ \A i \in 1..Len(list) : plan[i] = first[i]
      /\ \A i \in 1..Len(plan) : i > Len(list) =>
           i - Len(list) \in 1..Len(dead) /\ plan[i] = second[i - Len(list)]
  BY <1>3, <1>4, <1>5
<1> HIDE DEF plan
<1>9. \A i \in 1..Len(plan) : i > Len(list) =>
           plan[i].op = "dead" /\ plan[i].at \in Uids /\ SealOf[plan[i].at] = s
  BY <1>7, <1>8
<1>10. Len(list) <= Len(plan) /\ \A i \in 1..Len(list) : plan[i] = Step("attach", list[i])
  BY <1>3, <1>6, <1>8
<1>11. SealSeedPlan(s) = plan
  BY <1>2 DEF plan
<1> QED
  BY <1>3, <1>8, <1>9, <1>10, <1>11 DEF list

\* What the seed script does with a bottle of the file.
LEMMA SeedStepsAre ==
  ASSUME NEW s \in DOMAIN SeedSeals
  PROVE  LET n == Len(SeedSeals[s])
             st == StepsOf("seed", s)
         IN /\ n \in Nat /\ st \in Seq(Steps) /\ n + 2 <= Len(st)
            /\ st[1] = Step("asset", s) /\ st[2] = Step("mint", s)
            /\ \A i \in 1..n : st[i + 2] = Step("attach", SeedSeals[s][i])
            /\ \A i \in 3..Len(st) : i <= n + 2 => st[i].op = "attach"
            /\ \A i \in 3..Len(st) : i > n + 2 =>
                 st[i].op = "dead" /\ st[i].at \in Uids /\ SealOf[st[i].at] = s
<1> DEFINE n == Len(SeedSeals[s])
           plan == SealSeedPlan(s)
           two == <<Step("asset", s), Step("mint", s)>>
           st == two \o plan
<1>1. /\ n \in Nat /\ plan \in Seq(Steps) /\ n <= Len(plan)
      /\ \A i \in 1..n : plan[i] = Step("attach", SeedSeals[s][i])
      /\ \A i \in 1..Len(plan) : i > n =>
           plan[i].op = "dead" /\ plan[i].at \in Uids /\ SealOf[plan[i].at] = s
  BY SealSeedPlanIs
<1>2. StepsOf("seed", s) = st
  BY DEF StepsOf
<1>3. s \in Serials /\ Step("asset", s) \in Steps /\ Step("mint", s) \in Steps
  BY DEF Step, Steps
<1> HIDE DEF plan, n
<1>4. two \in Seq(Steps) /\ Len(two) = 2 /\ two[1] = Step("asset", s) /\ two[2] = Step("mint", s)
  BY <1>3
<1> HIDE DEF two
<1>a. /\ st \in Seq(Steps) /\ Len(st) = Len(plan) + 2 /\ Len(plan) \in Nat
      /\ \A i \in 1..Len(st) : st[i] = IF i <= 2 THEN two[i] ELSE plan[i - 2]
  <2>1. /\ st \in Seq(Steps) /\ Len(st) = Len(two) + Len(plan)
        /\ \A i \in 1..Len(two) + Len(plan) :
             st[i] = IF i <= Len(two) THEN two[i] ELSE plan[i - Len(two)]
    <3>1. two \in Seq(Steps) /\ plan \in Seq(Steps)
      BY <1>1, <1>4
    <3> QED
      BY <3>1, ConcatProperties
  <2>2. Len(plan) \in Nat
    BY <1>1
  <2> HIDE DEF st
  <2>3. Len(st) = Len(plan) + 2
    BY <1>4, <2>1, <2>2
  <2>4. ASSUME NEW i \in 1..Len(st)
        PROVE  st[i] = IF i <= 2 THEN two[i] ELSE plan[i - 2]
    BY <1>4, <2>1, Zenon
  <2> QED
    BY <2>1, <2>2, <2>3, <2>4
<1> HIDE DEF st
<1>5. /\ st \in Seq(Steps) /\ Len(st) = Len(plan) + 2 /\ Len(plan) \in Nat
      /\ st[1] = two[1] /\ st[2] = two[2]
      /\ \A i \in 1..Len(plan) : st[i + 2] = plan[i]
      /\ \A i \in 3..Len(st) : i - 2 \in 1..Len(plan) /\ st[i] = plan[i - 2]
  <2>1. \A i \in 1..Len(plan) : i + 2 \in 1..Len(st) /\ ~(i + 2 <= 2) /\ (i + 2) - 2 = i
    BY <1>a
  <2>2. \A i \in 3..Len(st) : i \in 1..Len(st) /\ ~(i <= 2) /\ i - 2 \in 1..Len(plan)
    BY <1>a
  <2>3. 1 \in 1..Len(st) /\ 2 \in 1..Len(st)
    BY <1>a
  <2> QED
    BY <1>a, <2>1, <2>2, <2>3
<1>6. \A i \in 1..n : st[i + 2] = Step("attach", SeedSeals[s][i])
  BY <1>1, <1>5
<1>7. \A i \in 3..Len(st) : i > n + 2 =>
                 st[i].op = "dead" /\ st[i].at \in Uids /\ SealOf[st[i].at] = s
  BY <1>1, <1>5
<1>8. \A i \in 3..Len(st) : i <= n + 2 => st[i].op = "attach"
  <2> TAKE i \in 3..Len(st)
  <2> HAVE i <= n + 2
  <2>1. i - 2 \in 1..n /\ st[i] = plan[i - 2]
    BY <1>1, <1>5
  <2>2. st[i] = Step("attach", SeedSeals[s][i - 2])
    BY <1>1, <2>1
  <2> QED
    BY <2>2, StepIs
<1> QED
  BY <1>1, <1>2, <1>4, <1>5, <1>6, <1>7, <1>8 DEF n

\* Every program that is started.
Started(c, prog, a) ==
  \/ c = "console" /\ prog = "mint" /\ a \in Serials
  \/ c = "console" /\ prog = "attach" /\ a \in Uids
  \/ c = "script" /\ prog = "bind" /\ a \in Uids
  \/ c = "script" /\ prog = "seed" /\ a \in DOMAIN SeedSeals

\* A started program is one, with nothing done yet.
LEMMA StartedProgram ==
  ASSUME NEW c, NEW prog, NEW a, Started(c, prog, a), NEW asset \in Nat,
         NEW seen \in BOOLEAN
  PROVE  LET r == [prog |-> prog, steps |-> StepsOf(prog, a), asset |-> asset,
                   sig |-> 0, at |-> a, seen |-> seen]
         IN r \in RunRecords /\ ProgramOK(c, r) /\ a \in Addresses
<1> DEFINE st == StepsOf(prog, a)
<1>1. a \in Addresses /\ prog \in {"mint", "attach", "bind", "seed"}
  BY DEF Started, Addresses
<1>2. SUFFICES /\ st \in Seq(Steps) /\ InOrder(st)
               /\ prog = "seed" => \A i \in 1..Len(st) : st[i].op # "post"
               /\ \A i \in 1..Len(st) : st[i].op = "asset" => c = "script"
  BY <1>1 DEF ProgramOK, RunRecords
<1>3. CASE c = "console" /\ prog = "mint" /\ a \in Serials
  <2>1. st = <<Step("mint", a), Step("post", a)>>
    BY <1>3 DEF StepsOf
  <2>2. Step("mint", a) \in Steps /\ Step("post", a) \in Steps
    BY <1>3 DEF Step, Steps, Addresses
  <2> HIDE DEF st
  <2>3. /\ st \in Seq(Steps) /\ Len(st) = 2
        /\ st[1] = Step("mint", a) /\ st[2] = Step("post", a)
    BY <2>1, <2>2
  <2>4. /\ st[1].op = "mint" /\ st[2].op = "post" /\ st[2].at = a
    BY <2>3, StepIs
  <2> QED
    BY <1>3, <2>3, <2>4 DEF InOrder
<1>4. CASE c = "console" /\ prog = "attach" /\ a \in Uids
  <2>1. st = <<Step("attach", a), Step("post", a)>>
    BY <1>4 DEF StepsOf
  <2>2. Step("attach", a) \in Steps /\ Step("post", a) \in Steps
    BY <1>4 DEF Step, Steps, Addresses
  <2> HIDE DEF st
  <2>3. /\ st \in Seq(Steps) /\ Len(st) = 2
        /\ st[1] = Step("attach", a) /\ st[2] = Step("post", a)
    BY <2>1, <2>2
  <2>4. /\ st[1].op = "attach" /\ st[2].op = "post" /\ st[2].at = a
    BY <2>3, StepIs
  <2> QED
    BY <1>4, <2>3, <2>4 DEF InOrder
<1>5. CASE c = "script" /\ prog = "bind" /\ a \in Uids
  <2> DEFINE s == SealOf[a]
  <2>1. st = <<Step("asset", s), Step("mint", s), Step("post", s), Step("attach", a),
               Step("post", a)>>
    BY <1>5 DEF StepsOf
  <2>2. s \in Serials
    BY <1>5
  <2> HIDE DEF s, st
  <2>3. /\ Step("asset", s) \in Steps /\ Step("mint", s) \in Steps /\ Step("post", s) \in Steps
        /\ Step("attach", a) \in Steps /\ Step("post", a) \in Steps
    BY <1>5, <2>2 DEF Step, Steps, Addresses
  <2>4. /\ st \in Seq(Steps) /\ Len(st) = 5
        /\ st[1] = Step("asset", s) /\ st[2] = Step("mint", s) /\ st[3] = Step("post", s)
        /\ st[4] = Step("attach", a) /\ st[5] = Step("post", a)
    BY <2>1, <2>3
  <2>5. /\ st[2].op = "mint" /\ st[2].at = s /\ st[3].op = "post" /\ st[3].at = s
        /\ st[4].op = "attach" /\ st[5].op = "post" /\ st[5].at = a
    BY <2>4, StepIs
  <2>6. \A i \in 2..Len(st) : i \in {2, 3, 4, 5}
    BY <2>4
  <2> QED
    BY <1>5, <2>4, <2>5, <2>6 DEF InOrder
<1>6. CASE c = "script" /\ prog = "seed" /\ a \in DOMAIN SeedSeals
  <2> DEFINE n == Len(SeedSeals[a])
  <2>1. /\ n \in Nat /\ st \in Seq(Steps) /\ n + 2 <= Len(st)
        /\ st[1] = Step("asset", a) /\ st[2] = Step("mint", a)
        /\ \A i \in 3..Len(st) : i <= n + 2 => st[i].op = "attach"
        /\ \A i \in 3..Len(st) : i > n + 2 => st[i].op = "dead"
    BY <1>6, SeedStepsAre
  <2> HIDE DEF n, st
  <2>2. \A i \in 3..Len(st) : st[i].op \in {"attach", "dead"}
    BY <2>1
  <2>3. st[1].op = "asset" /\ st[1].at = a /\ st[2].op = "mint" /\ st[2].at = a
    BY <2>1, StepIs
  <2>4. \A i \in 1..Len(st) : i = 1 \/ i = 2 \/ i \in 3..Len(st)
    BY <2>1
  <2> QED
    BY <1>6, <2>1, <2>2, <2>3, <2>4 DEF InOrder
<1> QED
  BY <1>3, <1>4, <1>5, <1>6 DEF Started

-----------------------------------------------------------------------------
(* Provisioning: what a step makes of the client that takes it             *)

\* It goes on as r, or has ended.
Becomes(c, r) ==
  /\ run'[c] \in {r, Idle}
  /\ run' = [run EXCEPT ![c] = run'[c]]

\* A client at rest has no steps left and no asset in hand.
LEMMA IdleIs ==
  /\ Idle \in RunRecords /\ Idle.steps = <<>> /\ Idle.asset = 0
  /\ \A c : ProgramOK(c, Idle)
<1>1. Idle \in RunRecords /\ Idle.steps = <<>> /\ Idle.asset = 0
  BY DEF Idle, RunRecords
<1>2. \A i \in Nat : i \notin 1..0 /\ i \notin 2..0
  OBVIOUS
<1> QED
  BY <1>1, <1>2 DEF ProgramOK, InOrder

\* A step that goes on, throws or is answered changes one client.
LEMMA GoBecomes ==
  ASSUME run \in [Clients -> RunRecords], NEW c \in Clients, NEW r,
         Go(c, r) \/ Throw(c) \/ \E known \in BOOLEAN : Answered(c, known, r)
  PROVE  Becomes(c, r) /\ (run'[c].steps # <<>> => run'[c] = r)
BY IdleIs DEF Go, Throw, Answered, Becomes

\* The other clients stay where they are.
LEMMA OthersStay ==
  ASSUME run \in [Clients -> RunRecords], NEW c \in Clients, NEW r \in RunRecords, Becomes(c, r)
  PROVE  /\ run' \in [Clients -> RunRecords]
         /\ \A d \in Clients : d # c => run'[d] = run[d]
BY IdleIs DEF Becomes

\* The step at the head of a program.
LEMMA HeadIs ==
  ASSUME ProvisionTyped, NEW c \in Clients, NEW op, AtStep(c, op)
  PROVE  /\ run[c].steps # <<>> /\ Head(run[c].steps) = Step(op, Where(c))
         /\ Head(run[c].steps) = run[c].steps[1] /\ Len(run[c].steps) \in Nat
         /\ Len(run[c].steps) >= 1 /\ Head(run[c].steps) \in Steps
         /\ op \in {"asset", "mint"} => Where(c) \in Serials
         /\ op \in {"attach", "dead"} => Where(c) \in Uids
         /\ Where(c) \in Addresses
<1>1. run[c].steps \in Seq(Steps) /\ run[c].steps # <<>>
  BY DEF ProvisionTyped, RunRecords, AtStep
<1>2. Head(run[c].steps) \in Steps /\ Head(run[c].steps) = run[c].steps[1]
      /\ Len(run[c].steps) \in Nat /\ Len(run[c].steps) >= 1
  BY <1>1, TailIs
<1>3. Head(run[c].steps).op = op /\ Head(run[c].steps).at = Where(c)
  BY DEF AtStep, Where
<1> QED
  BY <1>1, <1>2, <1>3 DEF Steps, Step, Addresses

\* What a client becomes by each of its steps: the rest of its program, with the
\* asset, the transaction and the reading that the step leaves it.
Goes(c, asset, sig, at, seen) ==
  Becomes(c, [Rest(run[c]) EXCEPT !.asset = asset, !.sig = sig, !.at = at, !.seen = seen])

\* A client that goes on has the rest of its program before it.
LEMMA GoesIs ==
  ASSUME ProvisionTyped, NEW c \in Clients, run[c].steps # <<>>, ProgramOK(c, run[c]),
         NEW asset \in Nat, NEW sig \in Nat, NEW at \in Addresses \cup {NoSerial},
         NEW seen \in BOOLEAN, Goes(c, asset, sig, at, seen)
  PROVE  /\ run' \in [Clients -> RunRecords] /\ run'[c].asset \in {0, asset}
         /\ \A d \in Clients : d # c => run'[d] = run[d]
         /\ ProgramOK(c, run'[c])
         /\ run'[c] = Idle \/ (run'[c].at = at /\ run'[c].seen = seen)
         /\ run'[c].steps # <<>> =>
              /\ run'[c].prog = run[c].prog /\ run'[c].steps = Tail(run[c].steps)
              /\ run'[c].asset = asset /\ run'[c].sig = sig
              /\ run'[c].at = at /\ run'[c].seen = seen
              /\ Head(run'[c].steps).op # "asset"
              /\ Head(run'[c].steps).op = "mint" =>
                   Head(run[c].steps) = Step("asset", Head(run'[c].steps).at)
              /\ Head(run'[c].steps).op = "post" =>
                   /\ run[c].prog # "seed"
                   /\ Head(run[c].steps) \in {Step("mint", Head(run'[c].steps).at),
                                              Step("attach", Head(run'[c].steps).at)}
<1> DEFINE q == [Rest(run[c]) EXCEPT !.asset = asset, !.sig = sig, !.at = at, !.seen = seen]
<1>1. run[c] \in RunRecords /\ run \in [Clients -> RunRecords]
  BY DEF ProvisionTyped
<1>3. /\ Becomes(c, q)
      /\ q = [Rest(run[c]) EXCEPT !.asset = asset, !.sig = sig, !.at = at, !.seen = seen]
  BY DEF Goes
<1> HIDE DEF q
<1>2. /\ q \in RunRecords /\ q.prog = run[c].prog /\ q.steps = Tail(run[c].steps)
      /\ q.asset = asset /\ q.sig = sig /\ q.at = at /\ q.seen = seen
  <2>1. Tail(run[c].steps) \in Seq(Steps)
    BY <1>1, TailIs DEF RunRecords
  <2> QED
    BY <1>1, <1>3, <2>1 DEF Rest, RunRecords
<1>4. run' \in [Clients -> RunRecords] /\ \A d \in Clients : d # c => run'[d] = run[d]
  BY <1>1, <1>2, <1>3, OthersStay
<1>5. /\ ProgramOK(c, q)
      /\ q.steps # <<>> =>
           /\ Head(q.steps).op # "asset"
           /\ Head(q.steps).op = "mint" => Head(run[c].steps) = Step("asset", Head(q.steps).at)
           /\ Head(q.steps).op = "post" =>
                /\ run[c].prog # "seed"
                /\ Head(run[c].steps) \in {Step("mint", Head(q.steps).at),
                                           Step("attach", Head(q.steps).at)}
  BY <1>1, <1>2, RestIsProgram
<1>6. run'[c] = q \/ run'[c] = Idle
  BY <1>3 DEF Becomes
<1>7. CASE run'[c] = q
  BY <1>2, <1>4, <1>5, <1>7
<1>8. CASE run'[c] = Idle
  <2>1. run'[c].steps = <<>> /\ run'[c].asset = 0 /\ ProgramOK(c, run'[c])
    BY <1>8, IdleIs
  <2> QED
    BY <1>4, <1>8, <2>1
<1> QED
  BY <1>6, <1>7, <1>8

\* The asset is chosen: the given one, which is free and the operator's, or a new
\* one; or the passport is there and none is wanted.
LEMMA ChooseAssetIs ==
  ASSUME ProvisionTyped, NEW c \in Clients, NEW known \in BOOLEAN, ChooseAsset(c, known)
  PROVE  \E asset \in Nat :
           /\ Goes(c, asset, run[c].sig, Where(c), Minted(Where(c)))
           /\ \/ run'[c] = Idle /\ owner' = owner
              \/ owner' = owner /\ asset = run[c].asset /\ Minted(Where(c))
              \/ /\ owner' = owner /\ asset = run[c].asset
                 /\ asset # 0 /\ UsedBy(asset) = {}
              \/ owner' = Append(owner, "me") /\ asset = Len(owner) + 1
<1> DEFINE w == Where(c)
           seen == Minted(w)
           r == [run[c] EXCEPT !.at = w, !.seen = seen]
           to(asset) == [Rest(run[c]) EXCEPT !.asset = asset, !.sig = run[c].sig,
                                             !.at = w, !.seen = seen]
<1>1. run[c] \in RunRecords /\ run \in [Clients -> RunRecords]
  BY DEF ProvisionTyped
<1>2. /\ run[c].steps # <<>> /\ w \in Serials /\ w \in Addresses
  BY HeadIs DEF ChooseAsset
<1>3. seen \in BOOLEAN /\ Len(owner) \in Nat
  BY DEF Minted, ProvisionTyped
<1> HIDE DEF w, seen
<1>4. Tail(run[c].steps) \in Seq(Steps)
  BY <1>1, <1>2, TailIs DEF RunRecords
<1>5. Rest(r) = to(run[c].asset)
  BY <1>1, <1>2, <1>3, <1>4 DEF Rest, RunRecords
<1>6. [Rest(r) EXCEPT !.asset = Len(owner) + 1] = to(Len(owner) + 1)
  BY <1>1, <1>2, <1>3, <1>4 DEF Rest, RunRecords
<1>7. r.asset = run[c].asset /\ r.seen = seen /\ r.asset \in Nat
  BY <1>1 DEF RunRecords
<1>8. CASE /\ r.seen \/ ~(IF r.asset = 0 THEN TRUE ELSE ExistingAssetProblem(r.asset))
           /\ Go(c, Rest(r)) /\ owner' = owner
  <2>1. Becomes(c, to(run[c].asset))
    BY <1>1, <1>5, <1>8, GoBecomes
  <2>2. seen \/ (run[c].asset # 0 /\ UsedBy(run[c].asset) = {})
    BY <1>7, <1>8 DEF ExistingAssetProblem
  <2> QED
    BY <1>7, <1>8, <2>1, <2>2 DEF Goes, w, seen
<1>9. CASE Throw(c) /\ owner' = owner
  <2>1. Becomes(c, to(run[c].asset)) /\ run'[c] = Idle
    BY <1>1, <1>9, GoBecomes DEF Throw
  <2> QED
    BY <1>7, <1>9, <2>1 DEF Goes, w, seen
<1>10. CASE CreateCoreAsset /\ Answered(c, known, [Rest(r) EXCEPT !.asset = Len(owner) + 1])
  <2> DEFINE q == [Rest(r) EXCEPT !.asset = Len(owner) + 1]
  <2>0. Answered(c, known, q) /\ q = to(Len(owner) + 1)
    BY <1>6, <1>10
  <2> HIDE DEF q, to
  <2>a. Becomes(c, q)
    BY <1>1, <2>0, GoBecomes
  <2>b. Becomes(c, to(Len(owner) + 1))
    BY <2>0, <2>a, Zenon
  <2>1. Goes(c, Len(owner) + 1, run[c].sig, Where(c), Minted(Where(c)))
    BY <2>b, Zenon DEF Goes, to, w, seen
  <2>2. Len(owner) + 1 \in Nat /\ owner' = Append(owner, "me")
    BY <1>3, <1>10 DEF CreateCoreAsset
  <2> DEFINE n == Len(owner) + 1
  <2>3. n \in Nat /\ n = Len(owner) + 1 /\ Goes(c, n, run[c].sig, Where(c), Minted(Where(c)))
    BY <2>1, <2>2
  <2> HIDE DEF n
  <2> QED
    BY <2>2, <2>3
<1> QED
  BY <1>8, <1>9, <1>10 DEF ChooseAsset, w, seen

\* Done: the asset is no longer wanted, the transaction is to be reported.
LEMMA DoneGoes ==
  ASSUME ProvisionTyped, NEW c \in Clients, run[c].steps # <<>>, NEW sig,
         Becomes(c, Done(run[c], sig))
  PROVE  Goes(c, 0, sig, NoSerial, FALSE)
BY DEF Goes, Done

\* The oldest transaction that created the account, as far as it is found.
LEMMA CreatingSignatureIs ==
  ASSUME ProvisionTyped, NEW a \in Addresses
  PROVE  /\ CreatingSignature(a) \in Nat
         /\ CreatingSignature(a) # 0 =>
              /\ CreatingSignature(a) \in 1..Len(touched[a])
              /\ Creates(a, CreatingSignature(a))
<1> DEFINE hits == {i \in 1..Len(touched[a]) : Creates(a, i)}
           first == CHOOSE i \in hits : \A j \in hits : i <= j
<1>1. CreatingSignature(a) = IF Len(touched[a]) >= Window \/ hits = {} THEN 0 ELSE first
  BY DEF CreatingSignature
<1>2. hits \subseteq Nat
  OBVIOUS
<1>3. ASSUME hits # {} PROVE first \in hits
  <2> HIDE DEF hits
  <2>1. Min(hits) \in hits /\ \A j \in hits : Min(hits) <= j
    BY <1>2, <1>3, MinIs
  <2> QED
    BY <2>1
<1> HIDE DEF first
<1>4. ASSUME hits # {} PROVE first \in Nat /\ first \in 1..Len(touched[a]) /\ Creates(a, first)
  BY <1>2, <1>3, <1>4
<1> QED
  BY <1>1, <1>4

\* What the search for the mint of a bottle does.
LEMMA RecoverMintIs ==
  ASSUME ProvisionTyped, NEW c \in Clients, RecoverMint(c)
  PROVE  /\ AtStep(c, "mint") /\ UNCHANGED <<chain, faults>>
         /\ \E sig \in Nat :
              /\ Goes(c, 0, sig, NoSerial, FALSE)
              /\ \/ run[c].prog = "seed" \/ run'[c] = Idle
                 \/ sig \in 1..Len(touched[Where(c)]) /\ Creates(Where(c), sig)
         /\ \/ kept' = kept
            \/ /\ c = "console" /\ passports[Where(c)].issuer = "me"
               /\ kept' = [asset |-> passports[Where(c)].asset, serial |-> Where(c)]
<1> DEFINE s == Where(c)
           sig == CreatingSignature(s)
<1>1. run \in [Clients -> RunRecords] /\ s \in Addresses /\ run[c].steps # <<>> /\ AtStep(c, "mint")
  BY HeadIs DEF ProvisionTyped, RecoverMint
<1>2. sig \in Nat /\ (sig # 0 => sig \in 1..Len(touched[s]) /\ Creates(s, sig))
  BY <1>1, CreatingSignatureIs
<1> HIDE DEF s, sig
<1>3. CASE run[c].prog = "seed" /\ Go(c, Done(run[c], 0)) /\ UNCHANGED kept
  <2>1. Goes(c, 0, 0, NoSerial, FALSE)
    BY <1>1, <1>3, GoBecomes, DoneGoes
  <2> QED
    BY <1>1, <1>3, <2>1 DEF RecoverMint
<1>4. CASE Throw(c) /\ UNCHANGED kept
  <2>1. Goes(c, 0, 0, NoSerial, FALSE) /\ run'[c] = Idle
    BY <1>1, <1>4, GoBecomes, DoneGoes DEF Throw
  <2> QED
    BY <1>1, <1>4, <2>1 DEF RecoverMint
<1>5. CASE /\ passports[s].issuer = "me" /\ sig # 0
           /\ Go(c, Done(run[c], sig))
           /\ kept' = IF c = "console" THEN [asset |-> passports[s].asset, serial |-> s] ELSE kept
  <2>1. Goes(c, 0, sig, NoSerial, FALSE)
    BY <1>1, <1>5, GoBecomes, DoneGoes
  <2>2. UNCHANGED <<chain, faults>>
    BY DEF RecoverMint
  <2> QED
    BY <1>1, <1>2, <1>5, <2>1, <2>2 DEF s
<1> QED
  BY <1>3, <1>4, <1>5 DEF RecoverMint, s, sig


\* What mint_passport does.
LEMMA MintPassportIs ==
  ASSUME ProvisionTyped, NEW c \in Clients, NEW known \in BOOLEAN, MintPassport(c, known)
  PROVE  /\ AtStep(c, "mint") /\ ~run[c].seen /\ UNCHANGED <<seals, owner, sent, kept>>
         /\ \E sig \in Nat :
              /\ Goes(c, 0, sig, NoSerial, FALSE)
              /\ \/ run'[c] = Idle /\ UNCHANGED <<passports, touched>>
                 \/ /\ ~Minted(Where(c)) /\ sig = Len(touched[Where(c)]) + 1
                    /\ passports' = [passports EXCEPT ![Where(c)].issuer = "me",
                                                      ![Where(c)].asset = run[c].asset,
                                                      ![Where(c)].by = c]
                    /\ touched' = [touched EXCEPT ![Where(c)] = Append(@, "create")]
<1> DEFINE s == Where(c)
           sig == Len(touched[s]) + 1
<1>1. run \in [Clients -> RunRecords] /\ s \in Addresses /\ run[c].steps # <<>>
  BY HeadIs DEF ProvisionTyped, MintPassport
<1>2. sig \in Nat
  BY <1>1 DEF ProvisionTyped
<1>3. AtStep(c, "mint") /\ ~run[c].seen /\ UNCHANGED <<seals, owner, sent, kept>>
  BY DEF MintPassport
<1>4. CASE Throw(c) /\ UNCHANGED <<passports, touched, faults>>
  <2>1. Goes(c, 0, 0, NoSerial, FALSE) /\ run'[c] = Idle
    BY <1>1, <1>4, GoBecomes, DoneGoes DEF Throw
  <2> QED
    BY <1>3, <1>4, <2>1
<1>5. CASE /\ ~Minted(s)
           /\ passports' = [passports EXCEPT ![s].issuer = "me", ![s].asset = run[c].asset,
                                            ![s].by = c]
           /\ touched' = [touched EXCEPT ![s] = Append(@, "create")]
           /\ Answered(c, known, Done(run[c], sig))
  <2> DEFINE k == sig
  <2>0. k \in Nat /\ k = Len(touched[s]) + 1 /\ Answered(c, known, Done(run[c], k))
    BY <1>2, <1>5
  <2> HIDE DEF k
  <2>1. Goes(c, 0, k, NoSerial, FALSE)
    BY <1>1, <2>0, GoBecomes, DoneGoes
  <2> QED
    BY <1>3, <1>5, <2>0, <2>1
<1> QED
  BY <1>4, <1>5 DEF MintPassport, MintRefused, Mints

\* What reading a seal account does.
LEMMA ReadSealIs ==
  ASSUME ProvisionTyped, NEW c \in Clients, ReadSeal(c)
  PROVE  /\ AtStep(c, "attach") /\ UNCHANGED <<chain, kept, faults>>
         /\ run' = [run EXCEPT ![c] = run'[c]] /\ run'[c] \in RunRecords
         /\ run'[c].prog = run[c].prog /\ run'[c].steps = run[c].steps
         /\ run'[c].asset = run[c].asset
         /\ run'[c].seen => Attached(Where(c))
<1> DEFINE u == Where(c)
           seen == Attached(u)
           q == [run[c] EXCEPT !.at = u, !.seen = seen]
<1>1. /\ run \in [Clients -> RunRecords] /\ run[c] \in RunRecords /\ u \in Addresses
      /\ run[c].steps # <<>> /\ AtStep(c, "attach")
  BY HeadIs DEF ProvisionTyped, ReadSeal
<1>2. Go(c, q) /\ UNCHANGED <<chain, kept, faults>>
  BY DEF ReadSeal
<1>3. seen \in BOOLEAN
  BY DEF Attached
<1> HIDE DEF seen
<1>4. /\ q \in RunRecords /\ q.prog = run[c].prog /\ q.steps = run[c].steps
      /\ q.asset = run[c].asset /\ q.seen = seen
  BY <1>1, <1>3 DEF RunRecords
<1> HIDE DEF q
<1>5. run' = [run EXCEPT ![c] = q] /\ run'[c] = q
  BY <1>1, <1>2, <1>4 DEF Go
<1> QED
  BY <1>1, <1>2, <1>4, <1>5 DEF seen

\* What the search for the transaction of an attached seal does.
LEMMA RecoverSealIs ==
  ASSUME ProvisionTyped, NEW c \in Clients, RecoverSeal(c)
  PROVE  /\ AtStep(c, "attach") /\ run[c].at = Where(c) /\ run[c].seen
         /\ UNCHANGED <<chain, kept, faults>>
         /\ \E sig \in Nat :
              /\ Goes(c, 0, sig, NoSerial, FALSE)
              /\ \/ run[c].prog = "seed" \/ run'[c] = Idle
                 \/ sig \in 1..Len(touched[Where(c)]) /\ Creates(Where(c), sig)
<1> DEFINE u == Where(c)
           sig == CreatingSignature(u)
<1>1. /\ run \in [Clients -> RunRecords] /\ u \in Addresses /\ run[c].steps # <<>>
      /\ AtStep(c, "attach") /\ run[c].at = u /\ run[c].seen
      /\ UNCHANGED <<chain, kept, faults>>
  BY HeadIs DEF ProvisionTyped, RecoverSeal
<1>2. sig \in Nat /\ (sig # 0 => sig \in 1..Len(touched[u]) /\ Creates(u, sig))
  BY <1>1, CreatingSignatureIs
<1>3. \/ run[c].prog = "seed" /\ Go(c, Done(run[c], 0))
      \/ Throw(c)
      \/ sig # 0 /\ Go(c, Done(run[c], sig))
  BY DEF RecoverSeal
<1> HIDE DEF u, sig
<1>4. CASE run[c].prog = "seed" /\ Go(c, Done(run[c], 0))
  <2>1. Goes(c, 0, 0, NoSerial, FALSE)
    BY <1>1, <1>4, GoBecomes, DoneGoes
  <2> QED
    BY <1>1, <1>4, <2>1 DEF u
<1>5. CASE Throw(c)
  <2>1. Goes(c, 0, 0, NoSerial, FALSE) /\ run'[c] = Idle
    BY <1>1, <1>5, GoBecomes, DoneGoes DEF Throw
  <2> QED
    BY <1>1, <2>1 DEF u
<1>6. CASE sig # 0 /\ Go(c, Done(run[c], sig))
  <2>1. Goes(c, 0, sig, NoSerial, FALSE)
    BY <1>1, <1>6, GoBecomes, DoneGoes
  <2> QED
    BY <1>1, <1>2, <1>6, <2>1 DEF u
<1> QED
  BY <1>3, <1>4, <1>5, <1>6

\* What attach_seal does.
LEMMA AttachSealIs ==
  ASSUME ProvisionTyped, NEW c \in Clients, NEW known \in BOOLEAN, AttachSeal(c, known)
  PROVE  /\ AtStep(c, "attach") /\ UNCHANGED <<passports, owner, sent, kept>>
         /\ \E sig \in Nat :
              /\ Goes(c, 0, sig, NoSerial, FALSE)
              /\ \/ run'[c] = Idle /\ UNCHANGED <<seals, touched>>
                 \/ /\ ~Attached(Where(c)) /\ TakesSeal(SealOf[Where(c)])
                    /\ sig = Len(touched[Where(c)]) + 1
                    /\ seals' = [seals EXCEPT ![Where(c)].on = SealOf[Where(c)]]
                    /\ touched' = [touched EXCEPT ![Where(c)] = Append(@, "create")]
<1> DEFINE u == Where(c)
           sig == Len(touched[u]) + 1
<1>1. run \in [Clients -> RunRecords] /\ u \in Addresses /\ run[c].steps # <<>>
  BY HeadIs DEF ProvisionTyped, AttachSeal
<1>2. sig \in Nat
  BY <1>1 DEF ProvisionTyped
<1>3. AtStep(c, "attach") /\ UNCHANGED <<passports, owner, sent, kept>>
  BY DEF AttachSeal
<1>4. CASE Throw(c) /\ UNCHANGED <<seals, touched, faults>>
  <2>1. Goes(c, 0, 0, NoSerial, FALSE) /\ run'[c] = Idle
    BY <1>1, <1>4, GoBecomes, DoneGoes DEF Throw
  <2> QED
    BY <1>3, <1>4, <2>1
<1>5. CASE /\ ~Attached(u) /\ TakesSeal(SealOf[u])
           /\ seals' = [seals EXCEPT ![u].on = SealOf[u]]
           /\ touched' = [touched EXCEPT ![u] = Append(@, "create")]
           /\ Answered(c, known, Done(run[c], sig))
  <2> DEFINE k == sig
  <2>0. k \in Nat /\ k = Len(touched[u]) + 1 /\ Answered(c, known, Done(run[c], k))
    BY <1>2, <1>5
  <2> HIDE DEF k
  <2>1. Goes(c, 0, k, NoSerial, FALSE)
    BY <1>1, <2>0, GoBecomes, DoneGoes
  <2> QED
    BY <1>3, <1>5, <2>0, <2>1
<1> QED
  BY <1>4, <1>5 DEF AttachSeal, AttachRefused, Attaches

\* What mark_seal_dead does.
LEMMA MarkSealDeadIs ==
  ASSUME ProvisionTyped, NEW c \in Clients, NEW known \in BOOLEAN, MarkSealDead(c, known)
  PROVE  /\ AtStep(c, "dead") /\ UNCHANGED <<owner, touched, sent, kept>>
         /\ Goes(c, run[c].asset, run[c].sig, run[c].at, run[c].seen)
         /\ \/ UNCHANGED <<seals, passports>>
            \/ /\ seals' = [seals EXCEPT ![Where(c)].dead = TRUE]
               /\ passports' = [passports EXCEPT ![SealOf[Where(c)]].void = TRUE]
<1>1. /\ run \in [Clients -> RunRecords] /\ run[c] \in RunRecords /\ run[c].steps # <<>>
      /\ AtStep(c, "dead") /\ UNCHANGED <<owner, touched, sent, kept>>
  BY HeadIs DEF ProvisionTyped, MarkSealDead
<1>2. Becomes(c, Rest(run[c]))
  BY <1>1, GoBecomes DEF MarkSealDead
<1>3. Tail(run[c].steps) \in Seq(Steps)
  BY <1>1, TailIs DEF RunRecords
<1>4. Rest(run[c]) = [Rest(run[c]) EXCEPT !.asset = run[c].asset, !.sig = run[c].sig,
                                          !.at = run[c].at, !.seen = run[c].seen]
  BY <1>1, <1>3 DEF Rest, RunRecords
<1>5. Goes(c, run[c].asset, run[c].sig, run[c].at, run[c].seen)
  BY <1>2, <1>4, Zenon DEF Goes
<1> QED
  BY <1>1, <1>5 DEF MarkSealDead, Marks

\* What the report to the verifier does.
LEMMA PostEventIs ==
  ASSUME ProvisionTyped, NEW c \in Clients, NEW ok \in BOOLEAN, PostEvent(c, ok)
  PROVE  /\ AtStep(c, "post") /\ UNCHANGED <<chain, kept, faults>>
         /\ Goes(c, 0, 0, NoSerial, FALSE)
<1>1. run \in [Clients -> RunRecords] /\ run[c].steps # <<>>
  BY HeadIs DEF ProvisionTyped, PostEvent
<1>2. Becomes(c, Done(run[c], 0))
  BY <1>1, GoBecomes DEF PostEvent
<1> QED
  BY <1>1, <1>2, DoneGoes DEF PostEvent

-----------------------------------------------------------------------------
(* Provisioning: starting a program                                        *)

\* What each program starts with, and where it marks seals dead.
LEMMA StartedOrder ==
  ASSUME NEW c, NEW prog, NEW a, Started(c, prog, a)
  PROVE  LET st == StepsOf(prog, a) IN
         /\ st \in Seq(Steps) /\ st # <<>> /\ st[1] = Head(st)
         /\ Head(st).op # "post"
         /\ Head(st).op = "mint" => prog = "mint" /\ Head(st).at = a /\ c = "console"
         /\ \A i \in 1..Len(st) : st[i].op = "dead" =>
              /\ SealOf[st[i].at] = a /\ a \in DOMAIN SeedSeals
              /\ \A j \in 1..Len(SeedSeals[a]) :
                   \E k \in 1..(i - 1) : st[k] = Step("attach", SeedSeals[a][j])
<1> DEFINE st == StepsOf(prog, a)
<1>1. CASE c = "console" /\ prog = "mint" /\ a \in Serials
  <2>1. st = <<Step("mint", a), Step("post", a)>>
    BY <1>1 DEF StepsOf
  <2>2. Step("mint", a) \in Steps /\ Step("post", a) \in Steps
    BY <1>1 DEF Step, Steps, Addresses
  <2>3. Step("mint", a).op = "mint" /\ Step("mint", a).at = a /\ Step("post", a).op = "post"
    BY StepIs
  <2> HIDE DEF st
  <2>4. /\ st \in Seq(Steps) /\ Len(st) = 2 /\ st[1] = Head(st)
        /\ st[1] = Step("mint", a) /\ st[2].op = "post"
    BY <2>1, <2>2, <2>3
  <2>5. \A i \in 1..Len(st) : i \in {1, 2}
    BY <2>4
  <2>6. st # <<>> /\ \A i \in 1..Len(st) : st[i].op # "dead"
    BY <2>3, <2>4, <2>5
  <2> QED
    BY <1>1, <2>3, <2>4, <2>6 DEF st
<1>2. CASE c = "console" /\ prog = "attach" /\ a \in Uids
  <2>1. st = <<Step("attach", a), Step("post", a)>>
    BY <1>2 DEF StepsOf
  <2>2. Step("attach", a) \in Steps /\ Step("post", a) \in Steps
    BY <1>2 DEF Step, Steps, Addresses
  <2>3. Step("attach", a).op = "attach" /\ Step("post", a).op = "post"
    BY StepIs
  <2> HIDE DEF st
  <2>4. /\ st \in Seq(Steps) /\ Len(st) = 2 /\ st[1] = Head(st)
        /\ st[1] = Step("attach", a) /\ st[2].op = "post"
    BY <2>1, <2>2, <2>3
  <2>5. \A i \in 1..Len(st) : i \in {1, 2}
    BY <2>4
  <2>6. st # <<>> /\ \A i \in 1..Len(st) : st[i].op # "dead"
    BY <2>3, <2>4, <2>5
  <2> QED
    BY <1>2, <2>3, <2>4, <2>6 DEF st
<1>3. CASE c = "script" /\ prog = "bind" /\ a \in Uids
  <2> DEFINE s == SealOf[a]
  <2>1. st = <<Step("asset", s), Step("mint", s), Step("post", s), Step("attach", a),
               Step("post", a)>>
    BY <1>3 DEF StepsOf
  <2>2. s \in Serials
    BY <1>3, ProvisionAssumption
  <2> HIDE DEF s
  <2>3. /\ Step("asset", s) \in Steps /\ Step("mint", s) \in Steps /\ Step("post", s) \in Steps
        /\ Step("attach", a) \in Steps /\ Step("post", a) \in Steps
    BY <1>3, <2>2 DEF Step, Steps, Addresses
  <2>4. /\ Step("asset", s).op = "asset" /\ Step("mint", s).op = "mint"
        /\ Step("post", s).op = "post" /\ Step("attach", a).op = "attach"
        /\ Step("post", a).op = "post"
    BY StepIs
  <2> HIDE DEF st
  <2>5. /\ st \in Seq(Steps) /\ Len(st) = 5 /\ st[1] = Head(st)
        /\ st[1].op = "asset" /\ st[2].op = "mint" /\ st[3].op = "post"
        /\ st[4].op = "attach" /\ st[5].op = "post"
    BY <2>1, <2>3, <2>4
  <2>6. \A i \in 1..Len(st) : i \in {1, 2, 3, 4, 5}
    BY <2>5
  <2>7. st # <<>> /\ \A i \in 1..Len(st) : st[i].op # "dead"
    BY <2>5, <2>6
  <2> QED
    BY <2>5, <2>7 DEF st
<1>4. CASE c = "script" /\ prog = "seed" /\ a \in DOMAIN SeedSeals
  <2> DEFINE n == Len(SeedSeals[a])
  <2>1. /\ n \in Nat /\ st \in Seq(Steps) /\ n + 2 <= Len(st)
        /\ st[1] = Step("asset", a) /\ st[2] = Step("mint", a)
        /\ \A i \in 1..n : st[i + 2] = Step("attach", SeedSeals[a][i])
        /\ \A i \in 3..Len(st) : i <= n + 2 => st[i].op = "attach"
        /\ \A i \in 3..Len(st) : i > n + 2 =>
             st[i].op = "dead" /\ st[i].at \in Uids /\ SealOf[st[i].at] = a
    BY <1>4, SeedStepsAre
  <2>2. st[1].op = "asset" /\ st[2].op = "mint"
    BY <2>1, StepIs
  <2> HIDE DEF n, st
  <2>3. st # <<>> /\ st[1] = Head(st) /\ Len(st) \in Nat
    BY <2>1
  <2>4. ASSUME NEW i \in 1..Len(st), st[i].op = "dead"
        PROVE  /\ SealOf[st[i].at] = a
               /\ \A j \in 1..n : \E k \in 1..(i - 1) : st[k] = Step("attach", SeedSeals[a][j])
    <3>1. i # 1 /\ i # 2
      BY <2>2, <2>4
    <3>2. i \in 3..Len(st)
      BY <2>3, <3>1
    <3>3. i > n + 2
      BY <2>1, <2>4, <3>2
    <3>4. \A j \in 1..n : j + 2 \in 1..(i - 1) /\ st[j + 2] = Step("attach", SeedSeals[a][j])
      BY <2>1, <3>3
    <3> QED
      BY <2>1, <3>2, <3>3, <3>4
  <2> QED
    BY <1>4, <2>1, <2>2, <2>3, <2>4 DEF n, st
<1> QED
  BY <1>1, <1>2, <1>3, <1>4 DEF Started

\* A client that starts a program.
LEMMA BeginIs ==
  ASSUME ProvisionTyped, NEW c \in Clients, NEW prog, NEW a, Started(c, prog, a),
         NEW asset \in Nat, Begin(c, prog, a, asset)
  PROVE  /\ UNCHANGED <<chain, kept, faults>>
         /\ run' \in [Clients -> RunRecords] /\ ProgramOK(c, run'[c])
         /\ \A d \in Clients : d # c => run'[d] = run[d]
         /\ run'[c].steps = StepsOf(prog, a) /\ run'[c].asset = asset
         /\ run'[c].at = a /\ run'[c].seen = OnChain(a)
<1> DEFINE seen == OnChain(a)
           q == [prog |-> prog, steps |-> StepsOf(prog, a), asset |-> asset,
                 sig |-> 0, at |-> a, seen |-> seen]
<1>1. seen \in BOOLEAN
  BY DEF OnChain, Minted, Attached
<1>2. run' = [run EXCEPT ![c] = q] /\ UNCHANGED <<chain, kept, faults>>
  BY DEF Begin
<1> HIDE DEF seen
<1>3. q \in RunRecords /\ ProgramOK(c, q)
  BY <1>1, StartedProgram
<1>4. q.steps = StepsOf(prog, a) /\ q.asset = asset /\ q.at = a /\ q.seen = seen
  OBVIOUS
<1> HIDE DEF q
<1>5. run \in [Clients -> RunRecords]
  BY DEF ProvisionTyped
<1>6. run'[c] = q /\ run' \in [Clients -> RunRecords] /\ \A d \in Clients : d # c => run'[d] = run[d]
  BY <1>2, <1>3, <1>5
<1> QED
  BY <1>2, <1>3, <1>4, <1>6 DEF seen

-----------------------------------------------------------------------------
(* Provisioning: clients keep what they promise while the chain grows      *)

\* No transaction and no seal is ever taken back.
ChainGrows ==
  /\ \A a \in Addresses : \A i \in 1..Len(touched[a]) :
       i \in 1..Len(touched'[a]) /\ touched'[a][i] = touched[a][i]
  /\ \A u \in Uids : Attached(u) => Attached(u)'

\* The seals of a bottle of the file.
LEMMA SealsOfBottle ==
  ASSUME NEW s \in DOMAIN SeedSeals
  PROVE  /\ s \in Serials /\ Len(SeedSeals[s]) \in Nat
         /\ \A j \in 1..Len(SeedSeals[s]) :
              SeedSeals[s][j] \in Uids /\ SealOf[SeedSeals[s][j]] = s
<1> DEFINE list == SeedSeals[s]
           here == {u \in Uids : SealOf[u] = s}
<1>1. list \in Seq(here)
  BY ProvisionAssumption
<1> HIDE DEF list
<1>2. Len(list) \in Nat /\ \A j \in 1..Len(list) : list[j] \in here
  BY <1>1
<1> QED
  BY <1>2, ProvisionAssumption DEF list

\* What was attached before a step of a program is so ever after.
LEMMA AttachedByGrows ==
  ASSUME NEW s \in DOMAIN SeedSeals, NEW st, NEW i, ChainGrows, AllAttachedBy(s, st, i)
  PROVE  AllAttachedBy(s, st, i)'
BY SealsOfBottle DEF AllAttachedBy, ChainGrows

\* A client that does nothing.
LEMMA ClientStays ==
  ASSUME ProvisionTyped, NEW d \in Clients, ClientOK(d), run'[d] = run[d], ChainGrows
  PROVE  ClientOK(d)'
<1>1. ProgramOK(d, run[d])'
  BY DEF ClientOK, ProgramOK, InOrder
<1>2. SigFound(d)'
  <2> SUFFICES ASSUME AtStep(d, "post")'
               PROVE  (run[d].sig \in 1..Len(touched[Where(d)]) /\ Creates(Where(d), run[d].sig))'
    BY DEF SigFound
  <2>1. AtStep(d, "post") /\ Where(d)' = Where(d)
    BY DEF AtStep, Where
  <2>2. Where(d) \in Addresses
    BY <2>1, HeadIs
  <2> QED
    BY <2>1, <2>2 DEF ClientOK, SigFound, ChainGrows, Creates
<1>3. DeadLast(d)'
  <2> DEFINE r == run[d]
  <2>0. run'[d] = r
    OBVIOUS
  <2>1. r.seen /\ r.at \in Uids => Attached(r.at)
    BY DEF ClientOK, DeadLast
  <2>2. \A i \in 1..Len(r.steps) : r.steps[i].op = "dead" =>
          SealOf[r.steps[i].at] \in DOMAIN SeedSeals
            /\ AllAttachedBy(SealOf[r.steps[i].at], r.steps, i)
    BY DEF ClientOK, DeadLast
  <2>3. PICK q : q = r
    OBVIOUS
  <2>4. q.seen /\ q.at \in Uids => Attached(q.at)'
    BY <2>1, <2>3 DEF ChainGrows
  <2>5. \A i \in 1..Len(q.steps) : q.steps[i].op = "dead" =>
          SealOf[q.steps[i].at] \in DOMAIN SeedSeals
            /\ AllAttachedBy(SealOf[q.steps[i].at], q.steps, i)'
    BY <2>2, <2>3, AttachedByGrows
  <2>6. run'[d] = q
    BY <2>0, <2>3
  <2> HIDE DEF r
  <2> QED
    BY <2>4, <2>5, <2>6 DEF DeadLast
<1> QED
  BY <1>1, <1>2, <1>3 DEF ClientOK

\* A client that has ended.
LEMMA ClientEnds ==
  ASSUME NEW c \in Clients, run'[c] = Idle PROVE ClientOK(c)' /\ AssetFree(c)'
<1>1. ProgramOK(c, run[c])'
  BY IdleIs DEF ProgramOK, InOrder
<1>2. ~AtStep(c, "post")' /\ ~AtStep(c, "mint")'
  BY IdleIs DEF AtStep
<1>3. DeadLast(c)'
  <2>1. Len(run'[c].steps) = 0 /\ ~run'[c].seen /\ \A i \in 1..0 : FALSE
    BY DEF Idle
  <2> QED
    BY <2>1 DEF DeadLast
<1> QED
  BY <1>1, <1>2, <1>3 DEF ClientOK, SigFound, AssetFree

\* A client that goes on.
LEMMA ClientGoes ==
  ASSUME ProvisionTyped, NEW c \in Clients, run[c].steps # <<>>, ClientOK(c), ChainGrows,
         NEW w, w = Where(c),
         NEW asset \in Nat, NEW sig \in Nat, NEW at \in Addresses \cup {NoSerial},
         NEW seen \in BOOLEAN, Goes(c, asset, sig, at, seen),
         \/ run'[c] = Idle \/ run[c].prog = "seed"
         \/ ~AtStep(c, "mint") /\ ~AtStep(c, "attach")
         \/ sig \in 1..Len(touched'[w]) /\ touched'[w][sig] = "create",
         AtStep(c, "attach") => run'[c] = Idle \/ Attached(w)',
         seen /\ at \in Uids => Attached(at)'
  PROVE  ClientOK(c)'
<1>1. /\ ProgramOK(c, run'[c])
      /\ run'[c] = Idle \/ (run'[c].at = at /\ run'[c].seen = seen)
      /\ run'[c].steps # <<>> =>
           /\ run'[c].prog = run[c].prog /\ run'[c].steps = Tail(run[c].steps)
           /\ run'[c].sig = sig
           /\ Head(run'[c].steps).op = "post" =>
                /\ run[c].prog # "seed"
                /\ Head(run[c].steps) \in {Step("mint", Head(run'[c].steps).at),
                                           Step("attach", Head(run'[c].steps).at)}
  BY GoesIs DEF ClientOK
<1> DEFINE st == run[c].steps
           ts == Tail(st)
<1>2. /\ Head(st) = st[1] /\ Len(st) \in Nat /\ Len(st) >= 1 /\ Len(ts) = Len(st) - 1
      /\ \A i \in 1..Len(ts) : i + 1 \in 2..Len(st) /\ ts[i] = st[i + 1]
  BY TailIs DEF ProvisionTyped, RunRecords
<1> HIDE DEF st, ts
<1>3. CASE run'[c] = Idle
  BY <1>3, ClientEnds
<1>4. CASE run'[c] # Idle
  <2> PICK q : q = run'[c]
    OBVIOUS
  <2>0. q = run'[c]
    OBVIOUS
  <2>1. SigFound(c)'
    <3> SUFFICES ASSUME q.steps # <<>>, Head(q.steps).op = "post"
                 PROVE  /\ q.sig \in 1..Len(touched'[Head(q.steps).at])
                        /\ touched'[Head(q.steps).at][q.sig] = "create"
      BY <2>0 DEF SigFound, AtStep, Where, Creates
    <3>1. /\ run[c].prog # "seed" /\ q.sig = sig
          /\ Head(run[c].steps) \in {Step("mint", Head(q.steps).at),
                                     Step("attach", Head(q.steps).at)}
      BY <1>1, <2>0
    <3>2. w = Head(q.steps).at /\ (AtStep(c, "mint") \/ AtStep(c, "attach"))
      BY <3>1, StepIs DEF AtStep, Where
    <3>3. sig \in 1..Len(touched'[w]) /\ touched'[w][sig] = "create"
      BY <1>4, <3>1, <3>2
    <3> QED
      BY <3>1, <3>2, <3>3
  <2>2. q.seen /\ q.at \in Uids => Attached(q.at)'
    BY <1>1, <1>4, <2>0
  <2>3. ASSUME NEW i \in 1..Len(q.steps), q.steps[i].op = "dead"
        PROVE  /\ SealOf[q.steps[i].at] \in DOMAIN SeedSeals
               /\ AllAttachedBy(SealOf[q.steps[i].at], q.steps, i)'
    <3>1. CASE q.steps = <<>>
      BY <2>3, <3>1
    <3>2. CASE q.steps # <<>>
      <4>1. q.steps = ts
        BY <1>1, <2>0, <3>2 DEF ts, st
      <4>2. i \in 1..Len(ts) /\ ts[i].op = "dead"
        BY <2>3, <4>1
      <4>3. i + 1 \in 1..Len(st) /\ ts[i] = st[i + 1] /\ st[i + 1].op = "dead"
        BY <1>2, <4>2
      <4> PICK s : s = SealOf[ts[i].at]
        OBVIOUS
      <4>s. s = SealOf[ts[i].at]
        OBVIOUS
      <4>4. s \in DOMAIN SeedSeals /\ AllAttachedBy(s, st, i + 1)
        BY <4>3, <4>s DEF ClientOK, DeadLast, st
      <4>5. \A j \in 1..Len(SeedSeals[s]) : SeedSeals[s][j] \in Uids
        BY <4>4, SealsOfBottle
      <4>6. ASSUME NEW j \in 1..Len(SeedSeals[s])
            PROVE  \/ Attached(SeedSeals[s][j])'
                   \/ \E k \in 1..(i - 1) : ts[k] = Step("attach", SeedSeals[s][j])
        <5> PICK u : u = SeedSeals[s][j]
          OBVIOUS
        <5>0. u = SeedSeals[s][j] /\ u \in Uids
          BY <4>5
        <5>1. Attached(u) \/ \E k \in 1..i : st[k] = Step("attach", u)
          BY <4>2, <4>4, <5>0 DEF AllAttachedBy
        <5>2. ASSUME Attached(u) PROVE Attached(u)'
          BY <5>0, <5>2 DEF ChainGrows
        <5>3. ASSUME NEW k \in 1..i, st[k] = Step("attach", u)
              PROVE  Attached(u)' \/ \E l \in 1..(i - 1) : ts[l] = Step("attach", u)
          <6>2. CASE k = 1
            <7>1. Head(run[c].steps) = Step("attach", u)
              BY <1>2, <5>3, <6>2 DEF st
            <7>2. AtStep(c, "attach") /\ w = u
              BY <3>2, <7>1, StepIs DEF AtStep, Where
            <7> QED
              BY <1>4, <7>2
          <6>3. CASE k # 1
            <7>1. k - 1 \in 1..(i - 1) /\ k - 1 \in 1..Len(ts) /\ (k - 1) + 1 = k
              BY <4>2, <6>3, <1>2
            <7>2. ts[k - 1] = st[k]
              BY <1>2, <7>1
            <7> QED
              BY <5>3, <7>1, <7>2
          <6> QED
            BY <6>2, <6>3
        <5>4. Attached(u)' \/ \E l \in 1..(i - 1) : ts[l] = Step("attach", u)
          BY <5>1, <5>2, <5>3
        <5> QED
          BY <5>0, <5>4 DEF Attached
      <4>7. \A j \in 1..Len(SeedSeals[s]) :
              \/ seals'[SeedSeals[s][j]].on # NoSerial
              \/ \E k \in 1..(i - 1) : q.steps[k] = Step("attach", SeedSeals[s][j])
        BY <4>1, <4>6 DEF Attached
      <4>8. AllAttachedBy(s, q.steps, i)'
        BY <4>7 DEF AllAttachedBy, Attached
      <4> QED
        BY <4>1, <4>4, <4>8, <4>s
    <3> QED
      BY <3>1, <3>2
  <2>4. DeadLast(c)'
    BY <2>0, <2>2, <2>3 DEF DeadLast
  <2>5. ProgramOK(c, run[c])'
    BY <1>1 DEF ProgramOK, InOrder
  <2> QED
    BY <2>1, <2>4, <2>5 DEF ClientOK
<1> QED
  BY <1>3, <1>4

-----------------------------------------------------------------------------
(* Provisioning: the steps that leave the accounts alone                   *)

\* The accounts as they are.
LEMMA ChainIs ==
  ASSUME ProvisionTyped
  PROVE  /\ \A s \in Serials : passports[s] \in PassportRecords
         /\ \A s \in Serials : passports[s].asset \in Nat
         /\ \A s \in Serials : passports[s].asset <= Len(owner)
         /\ \A u \in Uids : seals[u].on \in {NoSerial, SealOf[u]} /\ SealOf[u] \in Serials
         /\ owner \in Seq({"me", "other"}) /\ Len(owner) \in Nat /\ Len(owner) >= 1
         /\ \A c \in Clients : run[c] \in RunRecords /\ run[c].asset \in Nat /\ run[c].asset <= Len(owner)
         /\ kept.asset \in Nat /\ kept.asset <= Len(owner)
         /\ kept.serial \in Serials \cup {NoSerial}
         /\ \A a \in Addresses : touched[a] \in Seq({"create", "stray"}) /\ Len(touched[a]) \in Nat
<1>1. \A c \in Clients : run[c] \in RunRecords /\ run[c].asset \in Nat
  BY DEF ProvisionTyped, RunRecords
<1>2. owner \in Seq({"me", "other"}) /\ Len(owner) \in Nat /\ Len(owner) >= 1
  BY DEF ProvisionTyped
<1> QED
  BY <1>1, <1>2, ProvisionAssumption DEF ProvisionTyped, TypeOK, PassportRecords

\* A step by which no script mints.
NothingScripted ==
  \A s \in Serials : passports'[s].by = "script" =>
    passports[s].by = "script" /\ passports'[s].asset = passports[s].asset

\* The asset of a client that does nothing stays free.
LEMMA FreeStays ==
  ASSUME NEW d \in Clients, AssetFree(d), run'[d] = run[d], NothingScripted
  PROVE  AssetFree(d)'
BY DEF AssetFree, AtStep, Where, NothingScripted

\* Assets stay apart while no script mints.
LEMMA ApartStays == ASSUME ScriptsBindApart, NothingScripted PROVE ScriptsBindApart'
BY DEF ScriptsBindApart, NothingScripted

\* A transaction under way stays one of a program.
LEMMA SentStays ==
  ASSUME NEW tx, SentOK(tx), ChainGrows, Len(owner) \in Nat, Len(owner') \in Nat,
         Len(owner') >= Len(owner)
  PROVE  SentOK(tx)'
<1>1. tx.asset <= Len(owner')
  BY DEF SentOK
<1>2. ASSUME tx.op = "dead", NEW j \in 1..Len(SeedSeals[SealOf[tx.at]])
      PROVE  Attached(SeedSeals[SealOf[tx.at]][j])'
  <2> PICK u : u = SeedSeals[SealOf[tx.at]][j]
    OBVIOUS
  <2>1. u \in Uids /\ Attached(u)
    BY <1>2, SealsOfBottle DEF SentOK
  <2>2. seals'[u].on # NoSerial
    BY <2>1 DEF ChainGrows, Attached
  <2> QED
    BY <2>2 DEF Attached
<1> QED
  BY <1>1, <1>2 DEF SentOK

\* A void passport stays full: seals are never taken off.
LEMMA FullStays ==
  ASSUME VoidIsFull, ChainGrows, \A s \in Serials : passports'[s].void => passports[s].void
  PROVE  VoidIsFull'
BY SealsOfBottle DEF VoidIsFull, ChainGrows

\* Types after a step that changes any account.
LEMMA TypedAfter ==
  ASSUME ProvisionTyped,
         passports' \in [Serials -> PassportRecords],
         seals' \in [Uids -> [on : Serials \cup {NoSerial}, dead : BOOLEAN]],
         \A u \in Uids : seals'[u].on \in {NoSerial, SealOf[u]},
         touched' \in [Addresses -> Seq({"create", "stray"})],
         owner' \in Seq({"me", "other"}), Len(owner') >= Len(owner),
         \A s \in Serials : passports'[s].asset <= Len(owner'),
         run' \in [Clients -> RunRecords], \A d \in Clients : run'[d].asset <= Len(owner'),
         kept' \in [asset : Nat, serial : Serials \cup {NoSerial}], kept'.asset <= Len(owner')
  PROVE  ProvisionTyped'
<1>1. Len(owner') \in Nat /\ Len(owner') >= 1 /\ owner' # <<>>
  BY ChainIs
<1>2. \A d \in Clients : run'[d].asset \in Nat
  BY DEF RunRecords
<1>3. \A s \in Serials : passports'[s].asset \in Nat
  BY DEF PassportRecords
<1> QED
  BY <1>1, <1>2, <1>3 DEF ProvisionTyped, TypeOK

\* What any step has to show.
LEMMA StepKeeps ==
  ASSUME ProvisionInv, ChainGrows, VoidIsFull', ScriptsBindApart',
         passports' \in [Serials -> PassportRecords],
         \A s \in Serials : passports'[s].asset <= Len(owner'),
         seals' \in [Uids -> [on : Serials \cup {NoSerial}, dead : BOOLEAN]],
         \A u \in Uids : seals'[u].on \in {NoSerial, SealOf[u]},
         touched' \in [Addresses -> Seq({"create", "stray"})],
         owner' \in Seq({"me", "other"}), Len(owner') >= Len(owner),
         kept' \in [asset : Nat, serial : Serials \cup {NoSerial}], kept'.asset <= Len(owner'),
         \A tx \in sent' : tx \in sent \/ SentOK(tx)',
         run' \in [Clients -> RunRecords], \A d \in Clients : run'[d].asset <= Len(owner'),
         \A d \in Clients : ClientOK(d)' /\ AssetFree(d)'
  PROVE  ProvisionInv'
<1>1. ProvisionTyped'
  BY TypedAfter DEF ProvisionInv
<1>2. Len(owner) \in Nat /\ Len(owner') \in Nat
  BY ChainIs DEF ProvisionInv
<1>3. \A tx \in sent' : SentOK(tx)'
  BY <1>2, SentStays DEF ProvisionInv
<1> QED
  BY <1>1, <1>3 DEF ProvisionInv

\* A step that leaves seals and passports alone and by which no script mints.
LEMMA PageStep ==
  ASSUME ProvisionInv, UNCHANGED <<passports, seals, touched>>,
         \A tx \in sent' : tx \in sent \/ SentOK(tx)',
         owner' \in Seq({"me", "other"}), Len(owner') >= Len(owner),
         kept' \in [asset : Nat, serial : Serials \cup {NoSerial}], kept'.asset <= Len(owner'),
         run' \in [Clients -> RunRecords],
         \A d \in Clients : run'[d].asset <= Len(owner') \/ run'[d] = run[d],
         \A d \in Clients : (ClientOK(d)' /\ AssetFree(d)') \/ run'[d] = run[d]
  PROVE  ProvisionInv'
<1>0. ProvisionTyped
  BY DEF ProvisionInv
<1>1. Len(owner) \in Nat /\ Len(owner') \in Nat
  BY <1>0, ChainIs
<1>2. \A d \in Clients : run'[d].asset <= Len(owner')
  <2> TAKE d \in Clients
  <2>1. run[d].asset \in Nat /\ run[d].asset <= Len(owner)
    BY <1>0, ChainIs
  <2>2. run'[d].asset <= Len(owner') \/ run'[d].asset = run[d].asset
    OBVIOUS
  <2> QED
    BY <1>1, <2>1, <2>2
<1>3. /\ passports' \in [Serials -> PassportRecords]
      /\ seals' \in [Uids -> [on : Serials \cup {NoSerial}, dead : BOOLEAN]]
      /\ \A u \in Uids : seals'[u].on \in {NoSerial, SealOf[u]}
      /\ touched' \in [Addresses -> Seq({"create", "stray"})]
  BY <1>0, ChainIs DEF ProvisionTyped
<1>4. \A s \in Serials : passports'[s].asset <= Len(owner')
  <2> TAKE s \in Serials
  <2>1. passports[s].asset \in Nat /\ passports[s].asset <= Len(owner)
    BY <1>0, ChainIs
  <2> QED
    BY <1>1, <2>1
<1>5. ChainGrows
  BY <1>0, ChainIs DEF ChainGrows, Attached
<1>6. NothingScripted
  BY DEF NothingScripted
<1>7. VoidIsFull' /\ ScriptsBindApart'
  BY <1>5, <1>6, FullStays, ApartStays DEF ProvisionInv
<1>8. \A d \in Clients : ClientOK(d)' /\ AssetFree(d)'
  BY <1>0, <1>5, <1>6, ClientStays, FreeStays DEF ProvisionInv
<1> QED
  BY <1>2, <1>3, <1>4, <1>5, <1>7, <1>8, StepKeeps

\* A step of one client that changes no account.
LEMMA RunStep ==
  ASSUME ProvisionInv, NEW c \in Clients, UNCHANGED <<passports, seals, touched, kept>>,
         \A tx \in sent' : tx \in sent \/ SentOK(tx)',
         owner' \in Seq({"me", "other"}), Len(owner') >= Len(owner),
         run' \in [Clients -> RunRecords], run'[c].asset <= Len(owner'),
         \A d \in Clients : d # c => run'[d] = run[d],
         ClientOK(c)', AssetFree(c)'
  PROVE  ProvisionInv'
<1>1. kept' \in [asset : Nat, serial : Serials \cup {NoSerial}] /\ kept'.asset <= Len(owner)
  BY DEF ProvisionInv, ProvisionTyped
<1>2. kept'.asset \in Nat /\ Len(owner) \in Nat /\ Len(owner') \in Nat
  BY <1>1, ChainIs DEF ProvisionInv
<1>3. /\ kept'.asset <= Len(owner')
      /\ \A d \in Clients : run'[d].asset <= Len(owner') \/ run'[d] = run[d]
      /\ \A d \in Clients : (ClientOK(d)' /\ AssetFree(d)') \/ run'[d] = run[d]
  BY <1>1, <1>2
<1> QED
  BY <1>1, <1>3, PageStep

\* A button is pressed or a script started.
LEMMA BeginKeeps ==
  ASSUME ProvisionInv, NEW c \in Clients, NEW prog, NEW a, Started(c, prog, a),
         NEW asset \in Nat, Begin(c, prog, a, asset),
         asset <= Len(owner)
  PROVE  ProvisionInv'
<1>1. /\ UNCHANGED <<chain, kept, faults>>
      /\ run' \in [Clients -> RunRecords] /\ ProgramOK(c, run'[c])
      /\ \A d \in Clients : d # c => run'[d] = run[d]
      /\ run'[c].steps = StepsOf(prog, a) /\ run'[c].asset = asset
      /\ run'[c].at = a /\ run'[c].seen = OnChain(a)
  BY BeginIs DEF ProvisionInv
<1>2. UNCHANGED <<passports, seals, owner, touched, sent, kept>>
  BY <1>1 DEF chain
<1> DEFINE st == StepsOf(prog, a)
<1>3. /\ st # <<>> /\ Head(st).op # "post"
      /\ Head(st).op = "mint" => prog = "mint" /\ Head(st).at = a /\ c = "console"
      /\ \A i \in 1..Len(st) : st[i].op = "dead" =>
           /\ SealOf[st[i].at] = a /\ a \in DOMAIN SeedSeals
           /\ \A j \in 1..Len(SeedSeals[a]) :
                \E k \in 1..(i - 1) : st[k] = Step("attach", SeedSeals[a][j])
  BY StartedOrder, SMTT(60)
<1> HIDE DEF st
<1>4. SigFound(c)'
  BY <1>1, <1>3 DEF SigFound, AtStep, st
<1>5. DeadLast(c)'
  <2>1. a \in Uids => OnChain(a) = Attached(a)
    BY ProvisionAssumption DEF OnChain
  <2>3. run'[c].steps = st
    BY <1>1 DEF st
  <2> PICK q : q = st
    OBVIOUS
  <2>4. \A i \in 1..Len(q) : q[i].op = "dead" =>
          /\ SealOf[q[i].at] \in DOMAIN SeedSeals
          /\ \A j \in 1..Len(SeedSeals[SealOf[q[i].at]]) :
               \/ seals'[SeedSeals[SealOf[q[i].at]][j]].on # NoSerial
               \/ \E k \in 1..(i - 1) : q[k] = Step("attach", SeedSeals[SealOf[q[i].at]][j])
    <3> TAKE i \in 1..Len(q)
    <3> HAVE q[i].op = "dead"
    <3>1. q = st
      OBVIOUS
    <3>2. SealOf[q[i].at] = a /\ a \in DOMAIN SeedSeals
      BY <1>3, <3>1
    <3>3. \A j \in 1..Len(SeedSeals[a]) :
                \E k \in 1..(i - 1) : q[k] = Step("attach", SeedSeals[a][j])
      BY <1>3, <3>1
    <3> QED
      BY <3>2, <3>3
  <2>5. run'[c].steps = q
    BY <2>3
  <2>6. run'[c].seen /\ run'[c].at \in Uids => seals'[run'[c].at].on # NoSerial
    BY <1>1, <1>2, <2>1 DEF Attached
  <2>7. ASSUME NEW i \in 1..Len(run'[c].steps), run'[c].steps[i].op = "dead"
        PROVE  /\ SealOf[run'[c].steps[i].at] \in DOMAIN SeedSeals
               /\ \A j \in 1..Len(SeedSeals[SealOf[run'[c].steps[i].at]]) :
                    \/ seals'[SeedSeals[SealOf[run'[c].steps[i].at]][j]].on # NoSerial
                    \/ \E k \in 1..(i - 1) :
                         run'[c].steps[k] = Step("attach", SeedSeals[SealOf[run'[c].steps[i].at]][j])
    <3>1. i \in 1..Len(q) /\ q[i].op = "dead"
      BY <2>5, <2>7
    <3>2. /\ SealOf[q[i].at] \in DOMAIN SeedSeals
          /\ \A j \in 1..Len(SeedSeals[SealOf[q[i].at]]) :
               \/ seals'[SeedSeals[SealOf[q[i].at]][j]].on # NoSerial
               \/ \E k \in 1..(i - 1) : q[k] = Step("attach", SeedSeals[SealOf[q[i].at]][j])
      BY <2>4, <3>1
    <3> QED
      BY <2>5, <3>2, Zenon
  <2> QED
    BY <2>6, <2>7, Zenon DEF DeadLast, AllAttachedBy, Attached
<1>6. ClientOK(c)'
  <2>1. ProgramOK(c, run[c])'
    BY <1>1 DEF ProgramOK, InOrder
  <2> QED
    BY <2>1, <1>4, <1>5 DEF ClientOK
<1>7. AssetFree(c)'
  <2> SUFFICES ASSUME AtStep(c, "mint")' PROVE c # "script"
    BY DEF AssetFree
  <2>1. Head(st).op = "mint"
    BY <1>1 DEF AtStep, st
  <2> QED
    BY <1>3, <2>1
<1>8. owner' \in Seq({"me", "other"}) /\ Len(owner') >= Len(owner) /\ run'[c].asset <= Len(owner')
  BY <1>1, <1>2, ChainIs DEF ProvisionInv
<1> QED
  BY <1>1, <1>2, <1>6, <1>7, <1>8, RunStep

\* A button or a script starts a program.
LEMMA PressKeeps ==
  ASSUME ProvisionInv,
         \/ \E s \in Serials : PressMint(s)
         \/ \E u \in Uids : PressAttach(u)
         \/ \E u \in Uids, asset \in 0..Len(owner) : StartBind(u, asset)
         \/ \E s \in Serials, asset \in 0..Len(owner) : StartSeed(s, asset)
  PROVE  ProvisionInv'
<1>1. kept.asset \in Nat /\ kept.asset <= Len(owner) /\ Len(owner) \in Nat /\ Len(owner) >= 1
  BY ChainIs DEF ProvisionInv
<1>2. "console" \in Clients /\ "script" \in Clients
  BY DEF Clients
<1>3. ASSUME NEW s \in Serials, PressMint(s) PROVE ProvisionInv'
  <2> PICK asset : asset = kept.asset
    OBVIOUS
  <2>1. asset \in Nat /\ asset <= Len(owner) /\ Begin("console", "mint", s, asset)
    BY <1>1, <1>3 DEF PressMint
  <2>2. Started("console", "mint", s)
    BY DEF Started
  <2> QED
    BY <1>2, <2>1, <2>2, BeginKeeps
<1>4. ASSUME NEW u \in Uids, PressAttach(u) PROVE ProvisionInv'
  <2>1. Begin("console", "attach", u, 0) /\ 0 <= Len(owner)
    BY <1>1, <1>4 DEF PressAttach
  <2>2. Started("console", "attach", u)
    BY DEF Started
  <2> QED
    BY <1>2, <2>1, <2>2, BeginKeeps
<1>5. ASSUME NEW u \in Uids, NEW asset \in 0..Len(owner), StartBind(u, asset) PROVE ProvisionInv'
  <2>1. asset \in Nat /\ asset <= Len(owner) /\ Begin("script", "bind", u, asset)
    BY <1>1, <1>5 DEF StartBind
  <2>2. Started("script", "bind", u)
    BY DEF Started
  <2> QED
    BY <1>2, <2>1, <2>2, BeginKeeps
<1>6. ASSUME NEW s \in Serials, NEW asset \in 0..Len(owner), StartSeed(s, asset)
      PROVE  ProvisionInv'
  <2>1. asset \in Nat /\ asset <= Len(owner) /\ Begin("script", "seed", s, asset)
    BY <1>1, <1>6 DEF StartSeed
  <2>2. Started("script", "seed", s)
    BY <1>6 DEF Started, StartSeed
  <2> QED
    BY <1>2, <2>1, <2>2, BeginKeeps
<1> QED
  BY <1>3, <1>4, <1>5, <1>6

\* A client takes the asset of the bottle, a kept one, or creates one.
LEMMA ChooseAssetKeeps ==
  ASSUME ProvisionInv, NEW c \in Clients, NEW known \in BOOLEAN, ChooseAsset(c, known)
  PROVE  ProvisionInv'
<1>1. PICK asset \in Nat :
           /\ Goes(c, asset, run[c].sig, Where(c), Minted(Where(c)))
           /\ \/ run'[c] = Idle /\ owner' = owner
              \/ owner' = owner /\ asset = run[c].asset /\ Minted(Where(c))
              \/ /\ owner' = owner /\ asset = run[c].asset
                 /\ asset # 0 /\ UsedBy(asset) = {}
              \/ owner' = Append(owner, "me") /\ asset = Len(owner) + 1
  BY ChooseAssetIs DEF ProvisionInv
<1>2. AtStep(c, "asset") /\ UNCHANGED <<passports, seals, touched, sent, kept>>
  BY DEF ChooseAsset
<1>3. ProvisionTyped /\ ClientOK(c)
  BY DEF ProvisionInv
<1>4. /\ run[c].steps # <<>> /\ Head(run[c].steps) = Step("asset", Where(c))
      /\ Where(c) \in Serials /\ Where(c) \in Addresses
      /\ Head(run[c].steps) = run[c].steps[1] /\ 1 \in 1..Len(run[c].steps)
  BY <1>2, <1>3, HeadIs
<1>5. c = "script"
  BY <1>3, <1>4, StepIs DEF ClientOK, ProgramOK
<1>6. run[c].sig \in Nat /\ Minted(Where(c)) \in BOOLEAN /\ Where(c) \notin Uids
  BY <1>3, <1>4, ProvisionAssumption DEF ProvisionTyped, RunRecords, Minted
<1> PICK w : w = Where(c)
  OBVIOUS
<1>w. w = Where(c)
  OBVIOUS
<1> PICK sig : sig = run[c].sig
  OBVIOUS
<1> PICK seen : seen = Minted(Where(c))
  OBVIOUS
<1>7. /\ Goes(c, asset, sig, w, seen) /\ sig \in Nat /\ seen \in BOOLEAN
      /\ w \in Addresses \cup {NoSerial} /\ w \notin Uids /\ w \in Serials
  BY <1>1, <1>4, <1>6
<1>8. ChainGrows
  BY <1>2, <1>3, ChainIs DEF ChainGrows, Attached
<1>9. ~AtStep(c, "mint") /\ ~AtStep(c, "attach")
  BY <1>2 DEF AtStep
<1>10. ClientOK(c)'
  BY <1>3, <1>4, <1>7, <1>8, <1>9, <1>w, ClientGoes
<1>11. /\ run' \in [Clients -> RunRecords] /\ run'[c].asset \in {0, asset}
       /\ \A d \in Clients : d # c => run'[d] = run[d]
       /\ run'[c].steps # <<>> =>
            /\ run'[c].asset = asset /\ run'[c].seen = seen
            /\ Head(run'[c].steps).op = "mint" =>
                 Head(run[c].steps) = Step("asset", Head(run'[c].steps).at)
  BY <1>3, <1>4, <1>7, GoesIs DEF ClientOK
<1>12. /\ Len(owner) \in Nat /\ owner \in Seq({"me", "other"}) /\ kept.asset \in Nat
       /\ kept.asset <= Len(owner) /\ run[c].asset <= Len(owner)
       /\ kept.serial \in Serials \cup {NoSerial}
  BY <1>3, ChainIs
<1>13. /\ owner' \in Seq({"me", "other"}) /\ Len(owner') >= Len(owner)
       /\ run'[c] = Idle \/ asset <= Len(owner')
  <2>1. CASE owner' = owner /\ (run'[c] = Idle \/ asset = run[c].asset)
    BY <1>12, <2>1
  <2>2. CASE owner' = Append(owner, "me") /\ asset = Len(owner) + 1
    BY <1>12, <2>2
  <2> QED
    BY <1>1, <2>1, <2>2
<1>14. run'[c].asset <= Len(owner')
  <2>1. Len(owner') \in Nat /\ Idle.asset = 0
    BY <1>13, IdleIs
  <2> QED
    BY <1>11, <1>13, <2>1
<1>15. AssetFree(c)'
  <2> SUFFICES ASSUME AtStep(c, "mint")', ~run'[c].seen, NEW s \in Serials
               PROVE  passports[s].asset # run'[c].asset
    BY <1>2 DEF AssetFree
  <2>1. run'[c].steps # <<>> /\ run'[c] # Idle
    BY IdleIs DEF AtStep
  <2>2. run'[c].asset = asset /\ ~Minted(Where(c))
    BY <1>11, <2>1
  <2>4. CASE asset = run[c].asset /\ asset # 0 /\ UsedBy(asset) = {}
    BY <2>2, <2>4 DEF UsedBy
  <2>5. CASE asset = Len(owner) + 1
    <3>1. passports[s].asset \in Nat /\ passports[s].asset <= Len(owner)
      BY <1>3, ChainIs
    <3> QED
      BY <1>12, <2>2, <2>5, <3>1
  <2> QED
    BY <1>1, <2>1, <2>2, <2>4, <2>5
<1> QED
  BY <1>2, <1>10, <1>11, <1>13, <1>14, <1>15, RunStep

\* A seal account is read.
LEMMA ReadSealKeeps ==
  ASSUME ProvisionInv, NEW c \in Clients, ReadSeal(c) PROVE ProvisionInv'
<1>1. /\ AtStep(c, "attach") /\ UNCHANGED <<chain, kept, faults>>
      /\ run' = [run EXCEPT ![c] = run'[c]] /\ run'[c] \in RunRecords
      /\ run'[c].prog = run[c].prog /\ run'[c].steps = run[c].steps
      /\ run'[c].asset = run[c].asset
  BY ReadSealIs DEF ProvisionInv
<1>2. UNCHANGED <<passports, seals, owner, touched, sent, kept>>
  BY <1>1 DEF chain
<1>3. ProvisionTyped /\ ClientOK(c)
  BY DEF ProvisionInv
<1>4. run \in [Clients -> RunRecords] /\ run' \in [Clients -> RunRecords]
      /\ \A d \in Clients : d # c => run'[d] = run[d]
  BY <1>1, <1>3 DEF ProvisionTyped
<1>5. ~AtStep(c, "post")' /\ ~AtStep(c, "mint")'
  BY <1>1 DEF AtStep
<1>6. SigFound(c)' /\ AssetFree(c)'
  BY <1>5 DEF SigFound, AssetFree
<1>7. ProgramOK(c, run[c])'
  BY <1>1, <1>3 DEF ClientOK, ProgramOK, InOrder
<1>8. run'[c].seen => Attached(run'[c].at)
  <2>1. AtStep(c, "attach") /\ Go(c, [run[c] EXCEPT !.at = Where(c), !.seen = Attached(Where(c))])
    BY DEF ReadSeal
  <2>2. run'[c] = [run[c] EXCEPT !.at = Where(c), !.seen = Attached(Where(c))]
    BY <2>1, <1>3, <1>4, HeadIs, GoBecomes, <1>1
  <2> QED
    BY <2>2, <1>4 DEF RunRecords
<1>9. DeadLast(c)'
  <2>1. run'[c].seen /\ run'[c].at \in Uids => seals'[run'[c].at].on # NoSerial
    BY <1>2, <1>8 DEF Attached
  <2>2. ASSUME NEW i \in 1..Len(run'[c].steps), run'[c].steps[i].op = "dead"
        PROVE  /\ SealOf[run'[c].steps[i].at] \in DOMAIN SeedSeals
               /\ \A j \in 1..Len(SeedSeals[SealOf[run'[c].steps[i].at]]) :
                    \/ seals'[SeedSeals[SealOf[run'[c].steps[i].at]][j]].on # NoSerial
                    \/ \E k \in 1..(i - 1) :
                         run'[c].steps[k] = Step("attach", SeedSeals[SealOf[run'[c].steps[i].at]][j])
    <3> PICK r : r = run'[c]
      OBVIOUS
    <3>1. r.steps = run[c].steps /\ r = run'[c]
      BY <1>1
    <3>2. i \in 1..Len(run[c].steps) /\ run[c].steps[i].op = "dead"
      BY <2>2, <3>1
    <3> PICK s : s = SealOf[r.steps[i].at]
      OBVIOUS
    <3>3. s = SealOf[run[c].steps[i].at] /\ s = SealOf[run'[c].steps[i].at]
      BY <3>1
    <3>4. s \in DOMAIN SeedSeals /\ AllAttachedBy(s, run[c].steps, i)
      BY <1>3, <3>2, <3>3 DEF ClientOK, DeadLast
    <3>5. \A j \in 1..Len(SeedSeals[s]) :
            seals'[SeedSeals[s][j]].on # NoSerial
              \/ \E k \in 1..(i - 1) : r.steps[k] = Step("attach", SeedSeals[s][j])
      BY <1>2, <3>1, <3>4 DEF AllAttachedBy, Attached
    <3> QED
      BY <3>1, <3>3, <3>4, <3>5
  <2> QED
    BY <2>1, <2>2, Zenon DEF DeadLast, AllAttachedBy, Attached
<1>10. owner' \in Seq({"me", "other"}) /\ Len(owner') >= Len(owner) /\ run'[c].asset <= Len(owner')
  BY <1>1, <1>2, <1>3, ChainIs
<1>11. ClientOK(c)'
  BY <1>6, <1>7, <1>9 DEF ClientOK
<1> QED
  BY <1>2, <1>4, <1>6, <1>10, <1>11, RunStep

\* A step that leaves the program without an asset, a reading and, if it reports
\* a transaction next, with the creation.
LEMMA DoneKeeps ==
  ASSUME ProvisionInv, NEW c \in Clients, NEW sig \in Nat,
         UNCHANGED <<passports, seals, owner, touched, sent, kept>>,
         run[c].steps # <<>>, ~AtStep(c, "asset"), Goes(c, 0, sig, NoSerial, FALSE),
         NEW w, w = Where(c),
         AtStep(c, "attach") => run'[c] = Idle \/ Attached(w),
         \/ run'[c] = Idle \/ run[c].prog = "seed"
         \/ ~AtStep(c, "mint") /\ ~AtStep(c, "attach")
         \/ sig \in 1..Len(touched[w]) /\ touched[w][sig] = "create"
  PROVE  ProvisionInv'
<1>1. ProvisionTyped /\ ClientOK(c)
  BY DEF ProvisionInv
<1>2. ChainGrows /\ (Attached(w) => Attached(w)')
  BY <1>1, ChainIs DEF ChainGrows, Attached
<1>3. ClientOK(c)'
  BY <1>1, <1>2, ClientGoes
<1>4. /\ run' \in [Clients -> RunRecords] /\ run'[c].asset = 0
      /\ \A d \in Clients : d # c => run'[d] = run[d]
      /\ run'[c].steps # <<>> =>
            (Head(run'[c].steps).op = "mint" =>
                 Head(run[c].steps) = Step("asset", Head(run'[c].steps).at))
  BY <1>1, GoesIs DEF ClientOK
<1>5. ~AtStep(c, "mint")'
  BY <1>4, StepIs DEF AtStep
<1>6. AssetFree(c)'
  BY <1>5 DEF AssetFree
<1>7. owner' \in Seq({"me", "other"}) /\ Len(owner') >= Len(owner) /\ run'[c].asset <= Len(owner')
  BY <1>1, <1>4, ChainIs
<1> QED
  BY <1>3, <1>4, <1>6, <1>7, RunStep

\* The transaction of an attached seal is searched for.
LEMMA RecoverSealKeeps ==
  ASSUME ProvisionInv, NEW c \in Clients, RecoverSeal(c) PROVE ProvisionInv'
<1>1. /\ AtStep(c, "attach") /\ run[c].at = Where(c) /\ run[c].seen
      /\ UNCHANGED <<passports, seals, owner, touched, sent, kept>>
  BY RecoverSealIs DEF ProvisionInv, chain
<1>2. PICK sig \in Nat :
              /\ Goes(c, 0, sig, NoSerial, FALSE)
              /\ \/ run[c].prog = "seed" \/ run'[c] = Idle
                 \/ sig \in 1..Len(touched[Where(c)]) /\ Creates(Where(c), sig)
  BY RecoverSealIs DEF ProvisionInv
<1>3. run[c].steps # <<>> /\ Where(c) \in Uids
  BY <1>1, HeadIs DEF ProvisionInv
<1>4. Attached(Where(c))
  BY <1>1, <1>3 DEF ProvisionInv, ClientOK, DeadLast
<1>5. ~AtStep(c, "asset")
  BY <1>1 DEF AtStep
<1> PICK w : w = Where(c)
  OBVIOUS
<1>6. w = Where(c)
  OBVIOUS
<1> QED
  BY <1>1, <1>2, <1>3, <1>4, <1>5, <1>6, DoneKeeps DEF Creates

\* An event is posted.
LEMMA PostEventKeeps ==
  ASSUME ProvisionInv, NEW c \in Clients, NEW ok \in BOOLEAN, PostEvent(c, ok)
  PROVE  ProvisionInv'
<1>1. /\ AtStep(c, "post") /\ UNCHANGED <<passports, seals, owner, touched, sent, kept>>
      /\ Goes(c, 0, 0, NoSerial, FALSE)
  BY PostEventIs DEF ProvisionInv, chain
<1>2. run[c].steps # <<>> /\ ~AtStep(c, "asset") /\ ~AtStep(c, "mint") /\ ~AtStep(c, "attach")
  BY <1>1 DEF AtStep
<1> PICK w : w = Where(c)
  OBVIOUS
<1>3. w = Where(c)
  OBVIOUS
<1> QED
  BY <1>1, <1>2, <1>3, DoneKeeps

\* core-transfer changes the owner of an asset, a stuttering step nothing.
LEMMA OwnerKeeps ==
  ASSUME ProvisionInv, UNCHANGED <<passports, seals, touched, sent, run, kept>>,
         owner' \in Seq({"me", "other"}), Len(owner') = Len(owner)
  PROVE  ProvisionInv'
<1>1. "script" \in Clients
  BY DEF Clients
<1> PICK c : c = "script"
  OBVIOUS
<1>2. c \in Clients
  BY <1>1
<1>3. ChainGrows /\ NothingScripted
  BY ChainIs DEF ChainGrows, Attached, ProvisionInv, NothingScripted
<1>4. ClientOK(c)' /\ AssetFree(c)'
  BY <1>2, <1>3, ClientStays, FreeStays DEF ProvisionInv
<1>5. run' \in [Clients -> RunRecords] /\ run'[c].asset <= Len(owner') /\ Len(owner') >= Len(owner)
  BY <1>2, ChainIs DEF ProvisionInv, ProvisionTyped
<1> QED
  BY <1>2, <1>4, <1>5, RunStep

\* An asset is given away.
LEMMA CoreTransferKeeps ==
  ASSUME ProvisionInv, NEW asset \in Giveable, CoreTransfer(asset) PROVE ProvisionInv'
<1>1. asset \in Nat \ {0} /\ owner \in Seq({"me", "other"})
  BY ProvisionAssumption DEF ProvisionInv, ProvisionTyped
<1>2. owner' \in Seq({"me", "other"}) /\ Len(owner') = Len(owner)
  BY <1>1 DEF CoreTransfer, TransferCoreAsset
<1> QED
  BY <1>2, OwnerKeeps DEF CoreTransfer

\* Nothing happens.
LEMMA StutterKeepsProvision ==
  ASSUME ProvisionInv, UNCHANGED vars
  PROVE  ProvisionInv'
<1>1. owner' \in Seq({"me", "other"}) /\ Len(owner') = Len(owner)
  BY DEF ProvisionInv, ProvisionTyped, vars
<1> QED
  BY <1>1, OwnerKeeps DEF vars

-----------------------------------------------------------------------------
(* Provisioning: the steps that change an account or the page's asset      *)

\* A transaction that lands at an address.
LEMMA TouchedGrows ==
  ASSUME ProvisionTyped, NEW a \in Addresses, NEW e \in {"create", "stray"},
         touched' = [touched EXCEPT ![a] = Append(@, e)]
  PROVE  /\ touched' \in [Addresses -> Seq({"create", "stray"})]
         /\ Len(touched[a]) + 1 \in 1..Len(touched'[a])
         /\ touched'[a][Len(touched[a]) + 1] = e
         /\ \A b \in Addresses : \A i \in 1..Len(touched[b]) :
              i \in 1..Len(touched'[b]) /\ touched'[b][i] = touched[b][i]
<1>1. touched \in [Addresses -> Seq({"create", "stray"})]
  BY DEF ProvisionTyped
<1>2. touched[a] \in Seq({"create", "stray"}) /\ touched'[a] = Append(touched[a], e)
  BY <1>1
<1> PICK list \in Seq({"create", "stray"}) : list = touched[a]
  BY <1>2
<1> PICK more : more = touched'[a]
  OBVIOUS
<1>3. list = touched[a] /\ more = touched'[a] /\ more = Append(list, e)
  BY <1>2
<1>4. /\ more \in Seq({"create", "stray"}) /\ Len(more) = Len(list) + 1 /\ Len(list) \in Nat
      /\ more[Len(list) + 1] = e /\ \A i \in 1..Len(list) : more[i] = list[i]
  BY <1>3
<1>5. touched' \in [Addresses -> Seq({"create", "stray"})]
  BY <1>1, <1>3, <1>4
<1>6. \A b \in Addresses : b # a => touched'[b] = touched[b]
  BY <1>1
<1>7. \A b \in Addresses : \A i \in 1..Len(touched[b]) :
              i \in 1..Len(touched'[b]) /\ touched'[b][i] = touched[b][i]
  <2> TAKE b \in Addresses
  <2> TAKE i \in 1..Len(touched[b])
  <2>1. CASE b = a
    BY <1>3, <1>4, <2>1
  <2>2. CASE b # a
    BY <1>6, <2>2
  <2> QED
    BY <2>1, <2>2
<1> QED
  BY <1>3, <1>4, <1>5, <1>7

\* A client past its first step mints nothing next.
LEMMA DoneMintsNothing ==
  ASSUME ProvisionTyped, NEW c \in Clients, ClientOK(c), run[c].steps # <<>>,
         ~AtStep(c, "asset"), NEW asset \in Nat, NEW sig \in Nat,
         NEW at \in Addresses \cup {NoSerial}, NEW seen \in BOOLEAN,
         Goes(c, asset, sig, at, seen), asset <= Len(owner)
  PROVE  /\ run' \in [Clients -> RunRecords] /\ \A d \in Clients : d # c => run'[d] = run[d]
         /\ \A d \in Clients : run'[d].asset <= Len(owner)
         /\ AssetFree(c)'
<1>4. /\ run' \in [Clients -> RunRecords] /\ run'[c].asset \in {0, asset}
      /\ \A d \in Clients : d # c => run'[d] = run[d]
      /\ run'[c].steps # <<>> =>
            (Head(run'[c].steps).op = "mint" =>
                 Head(run[c].steps) = Step("asset", Head(run'[c].steps).at))
  BY GoesIs DEF ClientOK
<1>5. ~AtStep(c, "mint")'
  BY <1>4, StepIs DEF AtStep
<1>6. AssetFree(c)'
  BY <1>5 DEF AssetFree
<1>7. \A d \in Clients : run'[d].asset <= Len(owner)
  BY <1>4, ChainIs
<1> QED
  BY <1>4, <1>6, <1>7

\* What the mint of a passport leaves of it.
LEMMA MintsIs ==
  ASSUME passports \in [Serials -> PassportRecords], NEW s \in Serials, NEW a \in Nat,
         NEW by \in {"console", "script", "late"}, Mints(s, a, by)
  PROVE  /\ passports' \in [Serials -> PassportRecords]
         /\ passports'[s].asset = a /\ passports'[s].by = by
         /\ passports'[s].void = passports[s].void
         /\ \A t \in Serials : t # s => passports'[t] = passports[t]
<1> DEFINE x == [passports[s] EXCEPT !.issuer = "me", !.asset = a, !.by = by]
<1>1. passports[s] \in PassportRecords
  OBVIOUS
<1>2. x \in PassportRecords /\ x.asset = a /\ x.by = by /\ x.void = passports[s].void
  BY <1>1 DEF PassportRecords
<1>6. passports' = [passports EXCEPT ![s] = x]
  BY DEF Mints
<1> HIDE DEF x
<1>7. passports'[s] = x /\ passports' \in [Serials -> PassportRecords]
      /\ \A t \in Serials : t # s => passports'[t] = passports[t]
  BY <1>2, <1>6
<1> QED
  BY <1>2, <1>7

\* A passport is minted.
LEMMA MintPassportKeeps ==
  ASSUME ProvisionInv, NEW c \in Clients, NEW known \in BOOLEAN, MintPassport(c, known)
  PROVE  ProvisionInv'
<1>1. AtStep(c, "mint") /\ ~run[c].seen /\ UNCHANGED <<seals, owner, sent, kept>>
  BY MintPassportIs DEF ProvisionInv
<1>2. PICK sig \in Nat :
              /\ Goes(c, 0, sig, NoSerial, FALSE)
              /\ \/ run'[c] = Idle /\ UNCHANGED <<passports, touched>>
                 \/ /\ ~Minted(Where(c)) /\ sig = Len(touched[Where(c)]) + 1
                    /\ passports' = [passports EXCEPT ![Where(c)].issuer = "me",
                                                      ![Where(c)].asset = run[c].asset,
                                                      ![Where(c)].by = c]
                    /\ touched' = [touched EXCEPT ![Where(c)] = Append(@, "create")]
  BY MintPassportIs DEF ProvisionInv
<1>3. ProvisionTyped /\ ClientOK(c)
  BY DEF ProvisionInv
<1>4. run[c].steps # <<>> /\ Where(c) \in Serials /\ Where(c) \in Addresses
  BY <1>1, <1>3, HeadIs
<1>5. ~AtStep(c, "asset") /\ ~AtStep(c, "attach")
  BY <1>1 DEF AtStep
<1> PICK s \in Serials : s = Where(c)
  BY <1>4
<1> PICK a : a = run[c].asset
  OBVIOUS
<1>6. s = Where(c) /\ a = run[c].asset
  OBVIOUS
<1>7. CASE run'[c] = Idle /\ UNCHANGED <<passports, touched>>
  BY <1>1, <1>2, <1>4, <1>5, <1>6, <1>7, DoneKeeps
<1>8. CASE /\ ~Minted(s) /\ sig = Len(touched[s]) + 1
           /\ passports' = [passports EXCEPT ![s].issuer = "me", ![s].asset = a, ![s].by = c]
           /\ touched' = [touched EXCEPT ![s] = Append(@, "create")]
  <2>1. /\ a \in Nat /\ a <= Len(owner) /\ Len(owner) \in Nat
        /\ passports[s] \in PassportRecords
    BY <1>3, <1>6, ChainIs
  <2>2. /\ passports' \in [Serials -> PassportRecords]
        /\ passports'[s].asset = a /\ passports'[s].by = c
        /\ passports'[s].void = passports[s].void
        /\ \A t \in Serials : t # s => passports'[t] = passports[t]
    <3>1. passports \in [Serials -> PassportRecords]
      BY <1>3 DEF ProvisionTyped
    <3> PICK by \in {"console", "script", "late"} : by = c
      BY DEF Clients
    <3>2. Mints(s, a, by)
      BY <1>8 DEF Mints
    <3>3. /\ passports' \in [Serials -> PassportRecords]
          /\ passports'[s].asset = a /\ passports'[s].by = by
          /\ passports'[s].void = passports[s].void
          /\ \A t \in Serials : t # s => passports'[t] = passports[t]
      BY <2>1, <3>1, <3>2, MintsIs
    <3> QED
      BY <3>3
  <2>3. /\ touched' \in [Addresses -> Seq({"create", "stray"})]
        /\ sig \in 1..Len(touched'[s]) /\ touched'[s][sig] = "create"
        /\ ChainGrows
    <3>1. s \in Addresses /\ seals' = seals
      BY <1>1 DEF Addresses
    <3> QED
      BY <1>3, <1>8, <3>1, TouchedGrows DEF ChainGrows, Attached
  <2>4. ClientOK(c)'
    BY <1>1, <1>2, <1>3, <1>4, <1>5, <1>6, <2>3, ClientGoes
  <2>5. /\ run' \in [Clients -> RunRecords] /\ \A d \in Clients : d # c => run'[d] = run[d]
        /\ \A d \in Clients : run'[d].asset <= Len(owner)
        /\ AssetFree(c)'
    <3>1. 0 <= Len(owner)
      BY <2>1
    <3> QED
      BY <1>2, <1>3, <1>4, <1>5, <3>1, DoneMintsNothing
  <2>6. c = "script" => \A t \in Serials : passports[t].by = "script" => passports[t].asset # a
    BY <1>1, <1>6 DEF ProvisionInv, AssetFree
  <2>7. ScriptsBindApart'
    <3> SUFFICES ASSUME NEW x \in Serials, NEW y \in Serials, x # y,
                        passports'[x].by = "script", passports'[y].by = "script"
                 PROVE  passports'[x].asset # passports'[y].asset
      BY DEF ScriptsBindApart
    <3>1. CASE x = s
      BY <2>2, <2>6, <3>1
    <3>2. CASE y = s
      BY <2>2, <2>6, <3>2
    <3>3. CASE x # s /\ y # s
      BY <2>2, <3>3 DEF ProvisionInv, ScriptsBindApart
    <3> QED
      BY <3>1, <3>2, <3>3
  <2>8. ASSUME NEW d \in Clients, d # c PROVE AssetFree(d)'
    <3>1. AssetFree(d) /\ run'[d] = run[d] /\ c \in {"console", "script"} /\ d \in {"console", "script"}
      BY <2>5, <2>8 DEF ProvisionInv, Clients
    <3>2. d # "script" \/ c = "console"
      BY <2>8, <3>1
    <3>3. c = "console" => NothingScripted
      BY <2>2 DEF NothingScripted
    <3> QED
      BY <3>1, <3>2, <3>3, FreeStays DEF AssetFree
  <2>9. \A t \in Serials : passports'[t].asset <= Len(owner')
    <3> TAKE t \in Serials
    <3>1. CASE t = s
      BY <1>1, <2>1, <2>2, <3>1
    <3>2. CASE t # s
      BY <1>1, <1>3, <2>2, <3>2, ChainIs
    <3> QED
      BY <3>1, <3>2
  <2>10. /\ seals' \in [Uids -> [on : Serials \cup {NoSerial}, dead : BOOLEAN]]
         /\ \A u \in Uids : seals'[u].on \in {NoSerial, SealOf[u]}
         /\ owner' \in Seq({"me", "other"}) /\ Len(owner') >= Len(owner)
         /\ kept' \in [asset : Nat, serial : Serials \cup {NoSerial}] /\ kept'.asset <= Len(owner')
         /\ \A d \in Clients : run'[d].asset <= Len(owner')
         /\ \A tx \in sent' : tx \in sent
    BY <1>1, <1>3, <2>1, <2>5 DEF ProvisionTyped, TypeOK
  <2>11. VoidIsFull'
    BY <2>2, <2>3, FullStays DEF ProvisionInv
  <2>12. \A d \in Clients : ClientOK(d)' /\ AssetFree(d)'
    BY <1>3, <2>3, <2>4, <2>5, <2>8, ClientStays DEF ProvisionInv
  <2> QED
    BY <2>2, <2>3, <2>5, <2>7, <2>9, <2>10, <2>11, <2>12, StepKeeps
<1> QED
  BY <1>2, <1>6, <1>7, <1>8

\* A step that changes seals, passports or addresses, by which no script mints.
LEMMA AccountStep ==
  ASSUME ProvisionInv, UNCHANGED <<owner, kept>>, \A tx \in sent' : tx \in sent,
         passports' \in [Serials -> PassportRecords],
         \A s \in Serials : passports'[s].asset <= Len(owner), NothingScripted,
         VoidIsFull',
         seals' \in [Uids -> [on : Serials \cup {NoSerial}, dead : BOOLEAN]],
         \A u \in Uids : seals'[u].on \in {NoSerial, SealOf[u]},
         touched' \in [Addresses -> Seq({"create", "stray"})], ChainGrows,
         run' \in [Clients -> RunRecords], \A d \in Clients : run'[d].asset <= Len(owner),
         \A d \in Clients : (ClientOK(d)' /\ AssetFree(d)') \/ run'[d] = run[d]
  PROVE  ProvisionInv'
<1>1. ProvisionTyped
  BY DEF ProvisionInv
<1>2. /\ owner' \in Seq({"me", "other"}) /\ Len(owner') >= Len(owner)
      /\ kept' \in [asset : Nat, serial : Serials \cup {NoSerial}] /\ kept'.asset <= Len(owner')
  BY <1>1, ChainIs DEF ProvisionTyped
<1>3. \A d \in Clients : ClientOK(d)' /\ AssetFree(d)'
  BY <1>1, ClientStays, FreeStays DEF ProvisionInv
<1>4. ScriptsBindApart'
  BY ApartStays DEF ProvisionInv
<1> QED
  BY <1>2, <1>3, <1>4, StepKeeps

\* What is left of the accounts when a seal is attached.
LEMMA AttachesIs ==
  ASSUME ProvisionInv, NEW u \in Uids, UNCHANGED passports,
         seals' = [seals EXCEPT ![u].on = SealOf[u]],
         touched' = [touched EXCEPT ![u] = Append(@, "create")]
  PROVE  /\ passports' \in [Serials -> PassportRecords]
         /\ \A s \in Serials : passports'[s].asset <= Len(owner)
         /\ seals' \in [Uids -> [on : Serials \cup {NoSerial}, dead : BOOLEAN]]
         /\ \A v \in Uids : seals'[v].on \in {NoSerial, SealOf[v]}
         /\ touched' \in [Addresses -> Seq({"create", "stray"})]
         /\ Len(touched[u]) + 1 \in 1..Len(touched'[u])
         /\ touched'[u][Len(touched[u]) + 1] = "create"
         /\ ChainGrows /\ Attached(u)' /\ VoidIsFull' /\ NothingScripted
<1>1. ProvisionTyped
  BY DEF ProvisionInv
<1>2. /\ seals' \in [Uids -> [on : Serials \cup {NoSerial}, dead : BOOLEAN]]
      /\ seals'[u].on = SealOf[u] /\ SealOf[u] # NoSerial
      /\ \A v \in Uids : v # u => seals'[v] = seals[v]
  <2>1. SealOf[u] \in Serials /\ SealOf[u] # NoSerial
    BY <1>1, ChainIs, ProvisionAssumption
  <2>2. seals \in [Uids -> [on : Serials \cup {NoSerial}, dead : BOOLEAN]]
    BY <1>1 DEF ProvisionTyped
  <2> QED
    BY <2>1, <2>2
<1>3. \A v \in Uids : seals'[v].on \in {NoSerial, SealOf[v]}
  BY <1>1, <1>2, ChainIs
<1>4. /\ touched' \in [Addresses -> Seq({"create", "stray"})]
      /\ Len(touched[u]) + 1 \in 1..Len(touched'[u])
      /\ touched'[u][Len(touched[u]) + 1] = "create"
      /\ ChainGrows /\ Attached(u)'
  <2>1. u \in Addresses
    BY DEF Addresses
  <2>2. \A v \in Uids : Attached(v) => Attached(v)'
    BY <1>2 DEF Attached
  <2>3. Attached(u)'
    BY <1>2 DEF Attached
  <2> QED
    BY <1>1, <2>1, <2>2, <2>3, TouchedGrows DEF ChainGrows
<1>5. VoidIsFull'
  BY <1>4, FullStays DEF ProvisionInv
<1>6. NothingScripted /\ passports' \in [Serials -> PassportRecords]
  BY <1>1 DEF NothingScripted, ProvisionTyped
<1>7. \A s \in Serials : passports'[s].asset <= Len(owner)
  BY <1>1, ChainIs
<1> QED
  BY <1>2, <1>3, <1>4, <1>5, <1>6, <1>7

\* A seal is attached.
LEMMA AttachSealKeeps ==
  ASSUME ProvisionInv, NEW c \in Clients, NEW known \in BOOLEAN, AttachSeal(c, known)
  PROVE  ProvisionInv'
<1>1. AtStep(c, "attach") /\ UNCHANGED <<passports, owner, sent, kept>>
  BY AttachSealIs DEF ProvisionInv
<1>2. PICK sig \in Nat :
              /\ Goes(c, 0, sig, NoSerial, FALSE)
              /\ \/ run'[c] = Idle /\ UNCHANGED <<seals, touched>>
                 \/ /\ ~Attached(Where(c)) /\ TakesSeal(SealOf[Where(c)])
                    /\ sig = Len(touched[Where(c)]) + 1
                    /\ seals' = [seals EXCEPT ![Where(c)].on = SealOf[Where(c)]]
                    /\ touched' = [touched EXCEPT ![Where(c)] = Append(@, "create")]
  BY AttachSealIs DEF ProvisionInv
<1>3. ProvisionTyped /\ ClientOK(c)
  BY DEF ProvisionInv
<1>4. run[c].steps # <<>> /\ Where(c) \in Uids /\ Where(c) \in Addresses
  BY <1>1, <1>3, HeadIs
<1>5. ~AtStep(c, "asset") /\ ~AtStep(c, "mint")
  BY <1>1 DEF AtStep
<1> PICK u \in Uids : u = Where(c)
  BY <1>4
<1>6. u = Where(c)
  OBVIOUS
<1>7. CASE run'[c] = Idle /\ UNCHANGED <<seals, touched>>
  BY <1>1, <1>2, <1>4, <1>5, <1>6, <1>7, DoneKeeps
<1>8. CASE /\ sig = Len(touched[u]) + 1
           /\ seals' = [seals EXCEPT ![u].on = SealOf[u]]
           /\ touched' = [touched EXCEPT ![u] = Append(@, "create")]
  <2>1. /\ passports' \in [Serials -> PassportRecords]
        /\ \A s \in Serials : passports'[s].asset <= Len(owner)
        /\ seals' \in [Uids -> [on : Serials \cup {NoSerial}, dead : BOOLEAN]]
        /\ \A v \in Uids : seals'[v].on \in {NoSerial, SealOf[v]}
        /\ touched' \in [Addresses -> Seq({"create", "stray"})]
        /\ sig \in 1..Len(touched'[u]) /\ touched'[u][sig] = "create"
        /\ ChainGrows /\ Attached(u)' /\ VoidIsFull' /\ NothingScripted
    BY <1>1, <1>8, AttachesIs
  <2>4. ClientOK(c)'
    BY <1>2, <1>3, <1>4, <1>6, <2>1, ClientGoes
  <2>5. /\ run' \in [Clients -> RunRecords] /\ \A d \in Clients : d # c => run'[d] = run[d]
        /\ \A d \in Clients : run'[d].asset <= Len(owner)
        /\ AssetFree(c)'
    <3>1. 0 <= Len(owner)
      BY <1>3, ChainIs
    <3> QED
      BY <1>2, <1>3, <1>4, <1>5, <3>1, DoneMintsNothing
  <2>8. \A d \in Clients : (ClientOK(d)' /\ AssetFree(d)') \/ run'[d] = run[d]
    BY <2>4, <2>5
  <2> QED
    BY <1>1, <2>1, <2>5, <2>8, AccountStep
<1> QED
  BY <1>2, <1>6, <1>7, <1>8

\* What is left of the accounts when a seal is marked dead, or found so.
LEMMA MarksIs ==
  ASSUME ProvisionInv, NEW u \in Uids, NEW s \in Serials, s = SealOf[u],
         s \in DOMAIN SeedSeals, \A j \in 1..Len(SeedSeals[s]) : Attached(SeedSeals[s][j]),
         UNCHANGED touched,
         \/ UNCHANGED <<seals, passports>>
         \/ /\ seals' = [seals EXCEPT ![u].dead = TRUE]
            /\ passports' = [passports EXCEPT ![s].void = TRUE]
  PROVE  /\ passports' \in [Serials -> PassportRecords]
         /\ \A t \in Serials : passports'[t].asset <= Len(owner)
         /\ seals' \in [Uids -> [on : Serials \cup {NoSerial}, dead : BOOLEAN]]
         /\ \A v \in Uids : seals'[v].on \in {NoSerial, SealOf[v]}
         /\ touched' \in [Addresses -> Seq({"create", "stray"})]
         /\ ChainGrows /\ VoidIsFull' /\ NothingScripted
<1>1. ProvisionTyped
  BY DEF ProvisionInv
<1>2. /\ passports' \in [Serials -> PassportRecords]
      /\ seals' \in [Uids -> [on : Serials \cup {NoSerial}, dead : BOOLEAN]]
      /\ \A v \in Uids : seals'[v].on = seals[v].on
      /\ \A t \in Serials : /\ passports'[t].asset = passports[t].asset
                            /\ passports'[t].by = passports[t].by
                            /\ t # s => passports'[t].void = passports[t].void
  <2>1. /\ passports \in [Serials -> PassportRecords]
        /\ seals \in [Uids -> [on : Serials \cup {NoSerial}, dead : BOOLEAN]]
    BY <1>1 DEF ProvisionTyped
  <2>2. CASE UNCHANGED <<seals, passports>>
    BY <2>1, <2>2
  <2>3. CASE /\ seals' = [seals EXCEPT ![u].dead = TRUE]
             /\ passports' = [passports EXCEPT ![s].void = TRUE]
    <3>1. /\ seals' \in [Uids -> [on : Serials \cup {NoSerial}, dead : BOOLEAN]]
          /\ \A v \in Uids : seals'[v].on = seals[v].on
      <4>1. seals[u] \in [on : Serials \cup {NoSerial}, dead : BOOLEAN]
        BY <2>1
      <4> DEFINE x == [seals[u] EXCEPT !.dead = TRUE]
      <4>2. x \in [on : Serials \cup {NoSerial}, dead : BOOLEAN] /\ x.on = seals[u].on
        BY <4>1
      <4>3. seals' = [seals EXCEPT ![u] = x]
        BY <2>3
      <4> HIDE DEF x
      <4>4. seals' \in [Uids -> [on : Serials \cup {NoSerial}, dead : BOOLEAN]]
        BY <2>1, <4>2, <4>3
      <4>5. \A v \in Uids : seals'[v] = IF v = u THEN x ELSE seals[v]
        BY <2>1, <4>3
      <4> QED
        BY <4>2, <4>4, <4>5
    <3> DEFINE y == [passports[s] EXCEPT !.void = TRUE]
    <3>2. passports[s] \in PassportRecords
      BY <2>1
    <3>3. /\ y \in PassportRecords
          /\ y.asset = passports[s].asset /\ y.by = passports[s].by
      BY <3>2 DEF PassportRecords
    <3>4. passports' = [passports EXCEPT ![s] = y]
      BY <2>3
    <3> HIDE DEF y
    <3>5. passports' \in [Serials -> PassportRecords]
      BY <2>1, <3>3, <3>4
    <3>6. \A t \in Serials : passports'[t] = IF t = s THEN y ELSE passports[t]
      BY <2>1, <3>4
    <3>7. \A t \in Serials : /\ passports'[t].asset = passports[t].asset
                             /\ passports'[t].by = passports[t].by
                             /\ t # s => passports'[t].void = passports[t].void
      BY <3>3, <3>6
    <3> QED
      BY <3>1, <3>5, <3>7
  <2> QED
    BY <2>2, <2>3
<1>3. ChainGrows
  BY <1>1, <1>2, ChainIs DEF ChainGrows, Attached
<1>4. VoidIsFull'
  <2> SUFFICES ASSUME NEW t \in Serials, passports'[t].void
               PROVE  /\ t \in DOMAIN SeedSeals
                      /\ \A j \in 1..Len(SeedSeals[t]) : Attached(SeedSeals[t][j])'
    BY DEF VoidIsFull
  <2>1. t \in DOMAIN SeedSeals /\ \A j \in 1..Len(SeedSeals[t]) : Attached(SeedSeals[t][j])
    BY <1>2 DEF ProvisionInv, VoidIsFull
  <2> QED
    BY <1>3, <2>1, SealsOfBottle DEF ChainGrows
<1>5. NothingScripted /\ \A t \in Serials : passports'[t].asset <= Len(owner)
  BY <1>1, <1>2, ChainIs DEF NothingScripted
<1>6. /\ \A v \in Uids : seals'[v].on \in {NoSerial, SealOf[v]}
      /\ touched' \in [Addresses -> Seq({"create", "stray"})]
  BY <1>1, <1>2, ChainIs DEF ProvisionTyped
<1> QED
  BY <1>2, <1>3, <1>4, <1>5, <1>6

\* Before a program marks a seal dead, every seal of its bottle is attached.
LEMMA DeadIsLast ==
  ASSUME ProvisionInv, NEW c \in Clients, AtStep(c, "dead"), NEW u, u = Where(c)
  PROVE  /\ u \in Uids /\ SealOf[u] \in Serials /\ SealOf[u] \in DOMAIN SeedSeals
         /\ \A j \in 1..Len(SeedSeals[SealOf[u]]) : Attached(SeedSeals[SealOf[u]][j])
<1>1. ProvisionTyped /\ ClientOK(c)
  BY DEF ProvisionInv
<1>2. run[c].steps # <<>> /\ u \in Uids /\ Head(run[c].steps) = Step("dead", u)
      /\ Head(run[c].steps) = run[c].steps[1] /\ 1 \in 1..Len(run[c].steps)
  BY <1>1, HeadIs
<1>3. run[c].steps[1].op = "dead" /\ run[c].steps[1].at = u
  BY <1>2, StepIs
<1>4. SealOf[u] \in DOMAIN SeedSeals /\ AllAttachedBy(SealOf[u], run[c].steps, 1)
  BY <1>1, <1>2, <1>3 DEF ClientOK, DeadLast
<1>5. 1..(1 - 1) = {}
  OBVIOUS
<1> QED
  BY <1>2, <1>4, <1>5, ProvisionAssumption DEF AllAttachedBy

\* A seal is marked dead, its passport is void.
LEMMA MarkSealDeadKeeps ==
  ASSUME ProvisionInv, NEW c \in Clients, NEW known \in BOOLEAN, MarkSealDead(c, known)
  PROVE  ProvisionInv'
<1>1. /\ AtStep(c, "dead") /\ UNCHANGED <<owner, touched, sent, kept>>
      /\ Goes(c, run[c].asset, run[c].sig, run[c].at, run[c].seen)
      /\ \/ UNCHANGED <<seals, passports>>
         \/ /\ seals' = [seals EXCEPT ![Where(c)].dead = TRUE]
            /\ passports' = [passports EXCEPT ![SealOf[Where(c)]].void = TRUE]
  BY MarkSealDeadIs DEF ProvisionInv
<1>2. ProvisionTyped /\ ClientOK(c)
  BY DEF ProvisionInv
<1>3. run[c].steps # <<>>
  BY <1>1, <1>2, HeadIs
<1>4. ~AtStep(c, "asset") /\ ~AtStep(c, "mint") /\ ~AtStep(c, "attach")
  BY <1>1 DEF AtStep
<1>5. /\ Where(c) \in Uids /\ SealOf[Where(c)] \in Serials
      /\ SealOf[Where(c)] \in DOMAIN SeedSeals
      /\ \A j \in 1..Len(SeedSeals[SealOf[Where(c)]]) : Attached(SeedSeals[SealOf[Where(c)]][j])
  BY <1>1, DeadIsLast
<1>7. /\ passports' \in [Serials -> PassportRecords]
      /\ \A t \in Serials : passports'[t].asset <= Len(owner)
      /\ seals' \in [Uids -> [on : Serials \cup {NoSerial}, dead : BOOLEAN]]
      /\ \A v \in Uids : seals'[v].on \in {NoSerial, SealOf[v]}
      /\ touched' \in [Addresses -> Seq({"create", "stray"})]
      /\ ChainGrows /\ VoidIsFull' /\ NothingScripted
  BY <1>1, <1>5, MarksIs
<1> PICK w : w = Where(c)
  OBVIOUS
<1> PICK asset \in Nat : asset = run[c].asset
  BY <1>2, ChainIs
<1> PICK sig : sig = run[c].sig
  OBVIOUS
<1> PICK at : at = run[c].at
  OBVIOUS
<1> PICK seen : seen = run[c].seen
  OBVIOUS
<1>10. /\ Goes(c, asset, sig, at, seen) /\ sig \in Nat /\ asset <= Len(owner)
       /\ at \in Addresses \cup {NoSerial} /\ seen \in BOOLEAN
       /\ seen /\ at \in Uids => Attached(at)'
  <2>1. run[c] \in RunRecords /\ run[c].asset <= Len(owner)
    BY <1>2, ChainIs
  <2>2. run[c].seen /\ run[c].at \in Uids => Attached(run[c].at)
    BY <1>2 DEF ClientOK, DeadLast
  <2>3. seen /\ at \in Uids => Attached(at)
    BY <2>2
  <2> QED
    BY <1>1, <1>7, <2>1, <2>3 DEF RunRecords, ChainGrows
<1>11. ClientOK(c)'
  BY <1>2, <1>3, <1>4, <1>7, <1>10, ClientGoes
<1>12. /\ run' \in [Clients -> RunRecords] /\ \A d \in Clients : d # c => run'[d] = run[d]
       /\ \A d \in Clients : run'[d].asset <= Len(owner)
       /\ AssetFree(c)'
  <2>1. ~AtStep(c, "asset")
    BY <1>4
  <2>2. Goes(c, asset, sig, at, seen) /\ sig \in Nat /\ asset <= Len(owner)
        /\ at \in Addresses \cup {NoSerial} /\ seen \in BOOLEAN
    BY <1>10
  <2> QED
    BY <1>2, <1>3, <2>1, <2>2, DoneMintsNothing
<1>14. \A d \in Clients : (ClientOK(d)' /\ AssetFree(d)') \/ run'[d] = run[d]
  BY <1>11, <1>12
<1> QED
  BY <1>1, <1>7, <1>12, <1>14, AccountStep

\* A transaction is left under way.
LEMMA LeftUnderWayKeeps ==
  ASSUME ProvisionInv, NEW c \in Clients, NEW op \in {"mint", "attach", "dead"},
         LeftUnderWay(c, op)
  PROVE  ProvisionInv'
<1>1. /\ AtStep(c, op) /\ run' = [run EXCEPT ![c] = Idle]
      /\ UNCHANGED <<passports, seals, owner, touched, kept>>
      /\ sent' = sent \cup {[op |-> op, at |-> Where(c), asset |-> run[c].asset]}
  BY DEF LeftUnderWay, Sends
<1>2. ProvisionTyped
  BY DEF ProvisionInv
<1>3. run' \in [Clients -> RunRecords] /\ run'[c] = Idle
      /\ \A d \in Clients : d # c => run'[d] = run[d]
  BY <1>1, <1>2, IdleIs DEF ProvisionTyped
<1> PICK tx : tx = [op |-> op, at |-> Where(c), asset |-> run[c].asset]
  OBVIOUS
<1>4. /\ tx.op = op /\ tx.at = Where(c) /\ tx.asset = run[c].asset
      /\ tx \in [op : {"mint", "attach", "dead"}, at : Addresses, asset : Nat]
      /\ tx.asset <= Len(owner) /\ Len(owner) \in Nat
      /\ op = "mint" => tx.at \in Serials
      /\ op # "mint" => tx.at \in Uids
  <2>1. run[c].asset \in Nat /\ run[c].asset <= Len(owner) /\ Len(owner) \in Nat
    BY <1>2, ChainIs
  <2>2. Where(c) \in Addresses /\ (op = "mint" => Where(c) \in Serials)
        /\ (op # "mint" => Where(c) \in Uids)
    BY <1>1, <1>2, HeadIs
  <2> QED
    BY <2>1, <2>2
<1>5. op = "dead" =>
        /\ SealOf[tx.at] \in DOMAIN SeedSeals
        /\ \A j \in 1..Len(SeedSeals[SealOf[tx.at]]) : Attached(SeedSeals[SealOf[tx.at]][j])
  BY <1>1, <1>4, DeadIsLast
<1>6. SentOK(tx)
  BY <1>4, <1>5 DEF SentOK
<1>7. SentOK(tx)'
  <2>1. ChainGrows
    BY <1>1, <1>2, ChainIs DEF ChainGrows, Attached
  <2> QED
    BY <1>1, <1>4, <1>6, <2>1, SentStays
<1>8. \A x \in sent' : x \in sent \/ SentOK(x)'
  <2> TAKE x \in sent'
  <2>1. x \in sent \/ x = tx
    BY <1>1
  <2> QED
    BY <1>7, <2>1
<1>9. run'[c].asset <= Len(owner') /\ owner' \in Seq({"me", "other"}) /\ Len(owner') >= Len(owner)
  BY <1>1, <1>2, <1>3, IdleIs, ChainIs
<1> QED
  BY <1>1, <1>3, <1>8, <1>9, ClientEnds, RunStep

\* A transaction under way lands or is refused.
LEMMA SentLandsKeeps == ASSUME ProvisionInv, NEW tx \in sent, SentLands(tx) PROVE ProvisionInv'
<1>1. sent' = sent \ {tx} /\ UNCHANGED <<owner, run, kept, faults>>
  BY DEF SentLands
<1>2. ProvisionTyped /\ SentOK(tx)
  BY DEF ProvisionInv
<1>3. /\ run' \in [Clients -> RunRecords] /\ \A d \in Clients : run'[d].asset <= Len(owner)
      /\ \A d \in Clients : (ClientOK(d)' /\ AssetFree(d)') \/ run'[d] = run[d]
      /\ \A x \in sent' : x \in sent
  BY <1>1, <1>2, ChainIs DEF ProvisionTyped
<1>4. CASE /\ tx.op = "mint" /\ Mints(tx.at, tx.asset, "late") /\ UNCHANGED seals
  <2> PICK s \in Serials : s = tx.at
    BY <1>2, <1>4 DEF SentOK
  <2> PICK a \in Nat : a = tx.asset
    BY <1>2 DEF SentOK
  <2>1. /\ passports' = [passports EXCEPT ![s].issuer = "me", ![s].asset = a, ![s].by = "late"]
        /\ touched' = [touched EXCEPT ![s] = Append(@, "create")]
    BY <1>4 DEF Mints
  <2>2. /\ passports' \in [Serials -> PassportRecords]
        /\ passports'[s].asset = a /\ passports'[s].by = "late"
        /\ passports'[s].void = passports[s].void
        /\ \A t \in Serials : t # s => passports'[t] = passports[t]
    <3>1. passports \in [Serials -> PassportRecords]
      BY <1>2 DEF ProvisionTyped
    <3> PICK by \in {"console", "script", "late"} : by = "late"
      OBVIOUS
    <3>2. Mints(s, a, by)
      BY <2>1 DEF Mints
    <3>3. /\ passports' \in [Serials -> PassportRecords]
          /\ passports'[s].asset = a /\ passports'[s].by = by
          /\ passports'[s].void = passports[s].void
          /\ \A t \in Serials : t # s => passports'[t] = passports[t]
      BY <3>1, <3>2, MintsIs
    <3> QED
      BY <3>3
  <2>3. touched' \in [Addresses -> Seq({"create", "stray"})] /\ ChainGrows
    <3>1. s \in Addresses
      BY DEF Addresses
    <3> QED
      BY <1>2, <1>4, <2>1, <3>1, TouchedGrows DEF ChainGrows, Attached
  <2>4. NothingScripted
    BY <2>2 DEF NothingScripted
  <2>5. VoidIsFull'
    BY <2>2, <2>3, FullStays DEF ProvisionInv
  <2>6. \A t \in Serials : passports'[t].asset <= Len(owner)
    <3> TAKE t \in Serials
    <3>1. a <= Len(owner) /\ passports[t].asset <= Len(owner)
      BY <1>2, ChainIs DEF SentOK
    <3> QED
      BY <2>2, <3>1
  <2>7. /\ seals' \in [Uids -> [on : Serials \cup {NoSerial}, dead : BOOLEAN]]
        /\ \A u \in Uids : seals'[u].on \in {NoSerial, SealOf[u]}
    BY <1>2, <1>4, ChainIs DEF ProvisionTyped
  <2> QED
    BY <1>1, <1>3, <2>2, <2>3, <2>4, <2>5, <2>6, <2>7, AccountStep
<1>5. CASE tx.op = "attach" /\ Attaches(tx.at) /\ UNCHANGED passports
  <2>1. tx.at \in Uids
    BY <1>2, <1>5 DEF SentOK
  <2> QED
    BY <1>1, <1>3, <1>5, <2>1, AttachesIs, AccountStep DEF Attaches
<1>6. CASE tx.op = "dead" /\ Marks(tx.at) /\ UNCHANGED touched
  <2>1. /\ tx.at \in Uids /\ SealOf[tx.at] \in DOMAIN SeedSeals /\ SealOf[tx.at] \in Serials
        /\ \A j \in 1..Len(SeedSeals[SealOf[tx.at]]) : Attached(SeedSeals[SealOf[tx.at]][j])
    BY <1>2, <1>6, ProvisionAssumption DEF SentOK
  <2> QED
    BY <1>1, <1>3, <1>6, <2>1, MarksIs, AccountStep DEF Marks
<1>7. CASE UNCHANGED <<passports, seals, touched>>
  <2>1. /\ owner' \in Seq({"me", "other"}) /\ Len(owner') >= Len(owner)
        /\ kept' \in [asset : Nat, serial : Serials \cup {NoSerial}] /\ kept'.asset <= Len(owner')
    BY <1>1, <1>2, ChainIs DEF ProvisionTyped
  <2> QED
    BY <1>1, <1>3, <1>7, <2>1, PageStep
<1> QED
  BY <1>4, <1>5, <1>6, <1>7 DEF SentLands

\* An unrelated transaction names an address.
LEMMA StrayKeeps ==
  ASSUME ProvisionInv, NEW a \in Addresses, Stray(a) PROVE ProvisionInv'
<1>1. /\ touched' = [touched EXCEPT ![a] = Append(@, "stray")]
      /\ UNCHANGED <<passports, seals, owner, sent, run, kept>>
  BY DEF Stray
<1>2. ProvisionTyped
  BY DEF ProvisionInv
<1>3. touched' \in [Addresses -> Seq({"create", "stray"})] /\ ChainGrows
  BY <1>1, <1>2, TouchedGrows DEF ChainGrows, Attached
<1>4. VoidIsFull' /\ NothingScripted
  BY <1>1, <1>3, FullStays DEF ProvisionInv, NothingScripted
<1>5. /\ passports' \in [Serials -> PassportRecords]
      /\ \A s \in Serials : passports'[s].asset <= Len(owner)
      /\ seals' \in [Uids -> [on : Serials \cup {NoSerial}, dead : BOOLEAN]]
      /\ \A v \in Uids : seals'[v].on \in {NoSerial, SealOf[v]}
      /\ run' \in [Clients -> RunRecords] /\ \A d \in Clients : run'[d].asset <= Len(owner)
  BY <1>1, <1>2, ChainIs DEF ProvisionTyped
<1>6. \A d \in Clients : (ClientOK(d)' /\ AssetFree(d)') \/ run'[d] = run[d]
  BY <1>1
<1> QED
  BY <1>1, <1>3, <1>4, <1>5, <1>6, AccountStep

\* Another issuer mints the passport of a serial number first.
LEMMA RivalMintsKeeps ==
  ASSUME ProvisionInv, NEW s \in Serials, RivalMints(s) PROVE ProvisionInv'
<1>1. /\ passports' = [passports EXCEPT ![s].issuer = "other"]
      /\ UNCHANGED <<seals, owner, touched, sent, run, kept>>
  BY DEF RivalMints
<1>2. ProvisionTyped
  BY DEF ProvisionInv
<1>3. /\ passports' \in [Serials -> PassportRecords]
      /\ \A t \in Serials : /\ passports'[t].asset = passports[t].asset
                            /\ passports'[t].by = passports[t].by
                            /\ passports'[t].void = passports[t].void
  <2> DEFINE x == [passports[s] EXCEPT !.issuer = "other"]
  <2>1. passports \in [Serials -> PassportRecords] /\ passports[s] \in PassportRecords
    BY <1>2 DEF ProvisionTyped
  <2>2. /\ x \in PassportRecords /\ x.asset = passports[s].asset
        /\ x.by = passports[s].by /\ x.void = passports[s].void
    BY <2>1 DEF PassportRecords
  <2>3. passports' = [passports EXCEPT ![s] = x]
    BY <1>1
  <2> HIDE DEF x
  <2>4. \A t \in Serials : passports'[t] = IF t = s THEN x ELSE passports[t]
    BY <2>1, <2>3
  <2> QED
    BY <2>1, <2>2, <2>3, <2>4
<1>4. ChainGrows /\ NothingScripted
  BY <1>1, <1>2, <1>3, ChainIs DEF ChainGrows, Attached, NothingScripted
<1>5. VoidIsFull'
  BY <1>3, <1>4, FullStays DEF ProvisionInv
<1>6. /\ seals' \in [Uids -> [on : Serials \cup {NoSerial}, dead : BOOLEAN]]
      /\ \A v \in Uids : seals'[v].on \in {NoSerial, SealOf[v]}
      /\ touched' \in [Addresses -> Seq({"create", "stray"})]
      /\ run' \in [Clients -> RunRecords] /\ \A d \in Clients : run'[d].asset <= Len(owner)
      /\ \A d \in Clients : (ClientOK(d)' /\ AssetFree(d)') \/ run'[d] = run[d]
      /\ \A t \in Serials : passports'[t].asset <= Len(owner)
  BY <1>1, <1>2, <1>3, ChainIs DEF ProvisionTyped
<1> QED
  BY <1>1, <1>3, <1>4, <1>5, <1>6, AccountStep

\* The mint of a bottle is searched for.
LEMMA RecoverMintKeeps ==
  ASSUME ProvisionInv, NEW c \in Clients, RecoverMint(c) PROVE ProvisionInv'
<1>1. AtStep(c, "mint") /\ UNCHANGED <<passports, seals, owner, touched, sent>>
  BY RecoverMintIs DEF ProvisionInv, chain
<1>2. PICK sig \in Nat :
              /\ Goes(c, 0, sig, NoSerial, FALSE)
              /\ \/ run[c].prog = "seed" \/ run'[c] = Idle
                 \/ sig \in 1..Len(touched[Where(c)]) /\ Creates(Where(c), sig)
  BY RecoverMintIs DEF ProvisionInv
<1>3. \/ kept' = kept
      \/ /\ c = "console" /\ passports[Where(c)].issuer = "me"
         /\ kept' = [asset |-> passports[Where(c)].asset, serial |-> Where(c)]
  BY RecoverMintIs DEF ProvisionInv
<1>4. ProvisionTyped /\ ClientOK(c)
  BY DEF ProvisionInv
<1>5. run[c].steps # <<>> /\ Where(c) \in Serials
  BY <1>1, <1>4, HeadIs
<1>6. ~AtStep(c, "asset") /\ ~AtStep(c, "attach")
  BY <1>1 DEF AtStep
<1> PICK s \in Serials : s = Where(c)
  BY <1>5
<1>7. s = Where(c)
  OBVIOUS
<1>8. CASE kept' = kept
  BY <1>1, <1>2, <1>5, <1>6, <1>7, <1>8, DoneKeeps DEF Creates
<1>9. CASE kept' = [asset |-> passports[s].asset, serial |-> s]
  <2>1. ChainGrows
    BY <1>1, <1>4, ChainIs DEF ChainGrows, Attached
  <2>2. ClientOK(c)'
    BY <1>1, <1>2, <1>4, <1>5, <1>6, <1>7, <2>1, ClientGoes DEF Creates
  <2>3. /\ run' \in [Clients -> RunRecords] /\ \A d \in Clients : d # c => run'[d] = run[d]
        /\ \A d \in Clients : run'[d].asset <= Len(owner)
        /\ AssetFree(c)'
    <3>1. 0 <= Len(owner)
      BY <1>4, ChainIs
    <3> QED
      BY <1>2, <1>4, <1>5, <1>6, <3>1, DoneMintsNothing
  <2>4. passports[s].asset \in Nat /\ passports[s].asset <= Len(owner)
    BY <1>4, ChainIs
  <2>5. kept' \in [asset : Nat, serial : Serials \cup {NoSerial}] /\ kept'.asset <= Len(owner')
    BY <1>1, <1>9, <2>4
  <2>6. /\ owner' \in Seq({"me", "other"}) /\ Len(owner') >= Len(owner)
        /\ \A d \in Clients : run'[d].asset <= Len(owner') \/ run'[d] = run[d]
        /\ \A d \in Clients : (ClientOK(d)' /\ AssetFree(d)') \/ run'[d] = run[d]
    BY <1>1, <1>4, <2>2, <2>3, ChainIs
  <2> QED
    BY <1>1, <2>3, <2>5, <2>6, PageStep
<1> QED
  BY <1>3, <1>7, <1>8, <1>9

\* The console creates an asset for a bottle.
LEMMA MintCoreKeeps ==
  ASSUME ProvisionInv, NEW s \in Serials, NEW known \in BOOLEAN, MintCore(s, known)
  PROVE  ProvisionInv'
<1>1. /\ owner' = Append(owner, "me")
      /\ UNCHANGED <<passports, seals, touched, sent, run>>
      /\ kept' = IF known THEN [asset |-> Len(owner) + 1, serial |-> s] ELSE kept
  BY DEF MintCore, CreateCoreAsset
<1>2. ProvisionTyped
  BY DEF ProvisionInv
<1>3. /\ owner' \in Seq({"me", "other"}) /\ Len(owner') = Len(owner) + 1
      /\ Len(owner) \in Nat
  BY <1>1, <1>2, ChainIs
<1>4. /\ kept \in [asset : Nat, serial : Serials \cup {NoSerial}] /\ kept.asset <= Len(owner)
      /\ run \in [Clients -> RunRecords]
  BY <1>2 DEF ProvisionTyped
<1> PICK n \in Nat : n = Len(owner) + 1
  BY <1>3
<1>5. kept' = IF known THEN [asset |-> n, serial |-> s] ELSE kept
  BY <1>1
<1>7. kept' \in [asset : Nat, serial : Serials \cup {NoSerial}] /\ kept'.asset <= Len(owner')
  BY <1>3, <1>4, <1>5
<1>8. Len(owner') >= Len(owner) /\ run' \in [Clients -> RunRecords]
      /\ \A d \in Clients : run'[d] = run[d]
  BY <1>1, <1>3, <1>4
<1> QED
  BY <1>1, <1>3, <1>7, <1>8, PageStep

\* A page is closed or a script dies.
LEMMA LostKeeps ==
  ASSUME ProvisionInv, NEW c \in Clients, Lost(c) PROVE ProvisionInv'
<1>1. /\ run' = [run EXCEPT ![c] = Idle] /\ UNCHANGED <<passports, seals, owner, touched, sent>>
      /\ kept' = IF c = "console" THEN NothingKept ELSE kept
  BY DEF Lost, chain
<1>2. ProvisionTyped
  BY DEF ProvisionInv
<1>3. run' \in [Clients -> RunRecords] /\ run'[c] = Idle
      /\ \A d \in Clients : d # c => run'[d] = run[d]
  BY <1>1, <1>2, IdleIs DEF ProvisionTyped
<1>4. /\ owner' \in Seq({"me", "other"}) /\ Len(owner') >= Len(owner) /\ Len(owner') \in Nat
      /\ kept \in [asset : Nat, serial : Serials \cup {NoSerial}] /\ kept.asset <= Len(owner')
  BY <1>1, <1>2, ChainIs DEF ProvisionTyped
<1>5. kept' \in [asset : Nat, serial : Serials \cup {NoSerial}] /\ kept'.asset <= Len(owner')
  BY <1>1, <1>4 DEF NothingKept
<1>6. \A d \in Clients : run'[d].asset <= Len(owner') \/ run'[d] = run[d]
  BY <1>3, <1>4, IdleIs
<1>7. \A d \in Clients : (ClientOK(d)' /\ AssetFree(d)') \/ run'[d] = run[d]
  BY <1>3, ClientEnds
<1> QED
  BY <1>1, <1>3, <1>4, <1>5, <1>6, <1>7, PageStep

-----------------------------------------------------------------------------
(* Provisioning: the theorems                                              *)

\* Before anything is provisioned the invariant holds.
LEMMA ProvisionInitially == Init => ProvisionInv
<1> SUFFICES ASSUME Init PROVE ProvisionInv
  OBVIOUS
<1>1. /\ passports = [s \in Serials |->
           [issuer |-> "none", asset |-> 0, void |-> FALSE, by |-> "none"]]
      /\ sent = {}
      /\ seals = [u \in Uids |-> [on |-> NoSerial, dead |-> FALSE]]
      /\ owner = <<"me">> /\ touched = [a \in Addresses |-> <<>>]
      /\ run = [c \in Clients |-> Idle] /\ kept = [asset |-> 0, serial |-> NoSerial]
  BY DEF Init, NothingKept
<1>2. owner \in Seq({"me", "other"}) /\ Len(owner) = 1 /\ owner # <<>>
  BY <1>1
<1>3. \A c \in Clients : run[c] = Idle /\ run[c].asset = 0
  BY <1>1, IdleIs
<1>4. ProvisionTyped
  <2>1. <<>> \in Seq({"create", "stray"})
    OBVIOUS
  <2>2. run \in [Clients -> RunRecords]
    BY <1>1, IdleIs
  <2>3. TypeOK
    BY <1>1, <1>2, <1>3 DEF TypeOK
  <2> QED
    BY <1>1, <1>2, <2>1, <2>2, <2>3 DEF ProvisionTyped, PassportRecords
<1>5. ScriptsBindApart /\ VoidIsFull
  BY <1>1 DEF ScriptsBindApart, VoidIsFull
<1>6. ASSUME NEW c \in Clients PROVE ClientOK(c) /\ AssetFree(c)
  <2>1. run[c] = Idle /\ run[c].steps = <<>> /\ ~run[c].seen
    <3>1. ~Idle.seen
      BY DEF Idle
    <3> QED
      BY <1>3, <3>1, IdleIs
  <2>2. ~AtStep(c, "post") /\ ~AtStep(c, "mint")
    BY <2>1 DEF AtStep
  <2>3. DeadLast(c)
    <3>1. \A i \in 1..Len(run[c].steps) : FALSE
      BY <2>1
    <3> QED
      BY <2>1, <3>1 DEF DeadLast
  <2> QED
    BY <2>1, <2>2, <2>3, IdleIs DEF ClientOK, SigFound, AssetFree
<1> QED
  BY <1>1, <1>4, <1>5, <1>6 DEF ProvisionInv

\* Every step keeps it.
LEMMA ProvisionSteps == ProvisionInv /\ [Next]_vars => ProvisionInv'
<1> SUFFICES ASSUME ProvisionInv, [Next]_vars PROVE ProvisionInv'
  OBVIOUS
<1>1. CASE \E s \in Serials, known \in BOOLEAN : MintCore(s, known)
  BY <1>1, MintCoreKeeps
<1>2. CASE \E s \in Serials : RivalMints(s)
  BY <1>2, RivalMintsKeeps
<1>3. CASE \/ \E s \in Serials : PressMint(s)
           \/ \E u \in Uids : PressAttach(u)
           \/ \E u \in Uids, asset \in 0..Len(owner) : StartBind(u, asset)
           \/ \E s \in Serials, asset \in 0..Len(owner) : StartSeed(s, asset)
  BY <1>3, PressKeeps
<1>4. CASE \E c \in Clients, known \in BOOLEAN : Advance(c, known)
  BY <1>4, ChooseAssetKeeps, RecoverMintKeeps, MintPassportKeeps, ReadSealKeeps,
     RecoverSealKeeps, AttachSealKeeps, MarkSealDeadKeeps, PostEventKeeps DEF Advance
<1>5. CASE \E c \in Clients : Lost(c)
  BY <1>5, LostKeeps
<1>9. CASE \E c \in Clients, op \in {"mint", "attach", "dead"} : LeftUnderWay(c, op)
  BY <1>9, LeftUnderWayKeeps
<1>10. CASE \E tx \in sent : SentLands(tx)
  BY <1>10, SentLandsKeeps
<1>6. CASE \E a \in Addresses : Stray(a)
  BY <1>6, StrayKeeps
<1>7. CASE \E asset \in Giveable : CoreTransfer(asset)
  BY <1>7, CoreTransferKeeps
<1>8. CASE UNCHANGED vars
  BY <1>8, StutterKeepsProvision
<1> QED
  BY <1>1, <1>2, <1>3, <1>4, <1>5, <1>6, <1>7, <1>8, <1>9, <1>10 DEF Next

\* The inductive invariant of provisioning: the chain is well formed, every client is
\* somewhere in its program, and what it is about to use or to report is its own.
THEOREM ProvisionInvariant == Spec => []ProvisionInv
<1>1. Init => ProvisionInv
  BY ProvisionInitially
<1>2. ProvisionInv /\ [Next]_vars => ProvisionInv'
  BY ProvisionSteps
<1> QED
  BY <1>1, <1>2, PTL DEF Spec

\* Bottles whose passports the scripts minted have different Core assets, whichever
\* asset is named for them, whatever the console mints meanwhile and whatever lands
\* late (existingAssetProblem in scripts/lib/core.ts, bind-chip, seed-passports).
THEOREM ScriptsBindOwnAssets == Spec => []ScriptsBindApart
<1>1. ProvisionInv => ScriptsBindApart
  BY DEF ProvisionInv
<1> QED
  BY <1>1, ProvisionInvariant, PTL

\* What a client reports to the verifier is the transaction that created the account
\* (creatingSignature in lib/send-tx.ts and scripts/lib/cli.ts).
THEOREM CreationsReported == Spec => []ReportsCreation
<1>1. ProvisionInv => ReportsCreation
  BY DEF ProvisionInv, ClientOK, SigFound, ReportsCreation
<1> QED
  BY <1>1, ProvisionInvariant, PTL

\* The seed file lists at most two chips for a bottle, and every chip that sits on it.
SeedFileComplete ==
  \A s \in DOMAIN SeedSeals :
    /\ Len(SeedSeals[s]) <= MAX_SEALS_PER_PASSPORT
    /\ \A u \in Uids : SealOf[u] = s => \E j \in 1..Len(SeedSeals[s]) : SeedSeals[s][j] = u

\* If a seal of the file is still to be attached, there is room for it.
LEMMA RoomForTheRest ==
  ASSUME SeedFileComplete, ProvisionTyped, NEW s \in DOMAIN SeedSeals,
         NEW i \in 1..Len(SeedSeals[s]), ~Attached(SeedSeals[s][i])
  PROVE  SealCount(s) < MAX_SEALS_PER_PASSPORT
<1> DEFINE list == SeedSeals[s]
           on == {u \in Uids : seals[u].on = s}
           other == list[3 - i]
<1>1. s \in Serials /\ s # NoSerial /\ Len(list) \in Nat /\ Len(list) <= 2
  BY SealsOfBottle, ProvisionAssumption DEF SeedFileComplete, MAX_SEALS_PER_PASSPORT
<1>2. ASSUME NEW u \in on PROVE u = other
  <2>1. SealOf[u] = s /\ Attached(u) /\ u \in Uids
    BY <1>1, ChainIs DEF Attached
  <2>2. PICK j \in 1..Len(list) : list[j] = u
    BY <2>1 DEF SeedFileComplete
  <2>3. j # i
    BY <2>1, <2>2
  <2>4. j = 3 - i
    BY <1>1, <2>3
  <2> QED
    BY <2>2, <2>4
<1>3. on \in SUBSET {other}
  BY <1>2
<1> HIDE DEF on, other
<1>4. IsFiniteSet({other}) /\ Cardinality({other}) = 1
  BY FS_Singleton
<1>5. IsFiniteSet(on) /\ Cardinality(on) <= 1
  BY <1>3, <1>4, FS_Subset
<1>6. Cardinality(on) \in Nat
  BY <1>5, FS_CardinalityType
<1> QED
  BY <1>5, <1>6 DEF SealCount, MAX_SEALS_PER_PASSPORT, on

\* With such a seed file, every seal of a bottle of the file is attached or can still be,
\* wherever the seed script is ended (sealSeedPlan in scripts/lib/cli.ts: attach all,
\* then mark the dead ones).
THEOREM SeedFinishes == ASSUME SeedFileComplete PROVE Spec => []SeedNeverStuck
<1>1. ProvisionInv => SeedNeverStuck
  <2> SUFFICES ASSUME ProvisionInv, NEW s \in DOMAIN SeedSeals, passports[s].issuer = "me",
                      NEW i \in 1..Len(SeedSeals[s])
               PROVE  Attached(SeedSeals[s][i]) \/ TakesSeal(s)
    BY DEF SeedNeverStuck
  <2>1. CASE passports[s].void
    BY <2>1, SealsOfBottle DEF ProvisionInv, VoidIsFull
  <2>2. CASE ~passports[s].void
    BY <2>2, RoomForTheRest DEF ProvisionInv, TakesSeal
  <2> QED
    BY <2>1, <2>2
<1> QED
  BY <1>1, ProvisionInvariant, PTL

=============================================================================
