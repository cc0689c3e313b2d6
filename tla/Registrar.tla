------------------------------ MODULE Registrar ------------------------------
(***************************************************************************)
(* How the operator keeps the flacon registry with scripts: seed-devnet,   *)
(* which may be run again at any time, server-key and partner              *)
(* (scripts/*.ts, planServerKey and keyStatus in scripts/lib/cli.ts).      *)
(*                                                                         *)
(* One operator with the registry authority's wallet runs one script at a  *)
(* time.  A script may be ended, or give up waiting for a transaction that *)
(* lands later, while another script runs or after it.  The program is     *)
(* external here: module Flacon is about it.                               *)
(***************************************************************************)
EXTENDS Naturals, FiniteSets, FiniteSetsExt

CONSTANTS
  VerifierKeys,   \* public keys of the verifier, the public test key included
  TestKey,        \* serverTestKey of docs/vectors.json
  Local,          \* the RPC is a local validator
  KeyIds,         \* 0..255
  WantedIds,      \* bound: ids that seed-devnet is asked for
  MaxServerKeys,  \* MAX_SERVER_KEYS
  PartnerSites,   \* the sites that seed-devnet adds
  Terms,          \* bound: terms of keys that are added by hand
  FirstTime, LastTime,  \* bound: the clock
  MaxLate         \* bound: transactions of ended scripts under way

ASSUME RegistrarAssumption ==
  /\ Local \in BOOLEAN /\ PartnerSites \subseteq Nat \ {0}
  /\ WantedIds \subseteq KeyIds
  /\ KeyIds \subseteq Nat /\ IsFiniteSet(KeyIds)
  /\ MaxServerKeys \in Nat /\ Cardinality(KeyIds) > MaxServerKeys
  /\ Terms \subseteq [from : Nat, to : Nat]
  /\ FirstTime \in Nat \ {0, 1} /\ LastTime \in Nat /\ MaxLate \in Nat

VARIABLES
  registry,  \* does it exist; its server keys by id, partner or not, sites
  clock,
  wantedId,  \* --key-id, the same in every run of seed-devnet
  script,    \* the script that runs
  late       \* transactions of ended scripts that may still land

registrarVars == <<registry, clock, wantedId, script, late>>

NoServerKey == [pubkey |-> "none", from |-> 0, to |-> 0, by |-> "none"]
NoTx == [op |-> "none"]
NoScript == [prog |-> "none", key |-> "none", at |-> "idle", seen |-> {}, tx |-> NoTx, next |-> "idle"]

RegistrarInit ==
  /\ registry = [exists |-> FALSE, keys |-> [id \in KeyIds |-> NoServerKey],
                 partner |-> FALSE, sites |-> {}]
  /\ clock = FirstTime
  /\ wantedId \in WantedIds
  /\ script = NoScript
  /\ late = {}

-----------------------------------------------------------------------------
(* What the program accepts, and what it makes of the registry             *)

Taken(id) == registry.keys[id] # NoServerKey
TakenIds == {id \in KeyIds : Taken(id)}

RevokedTo == IF clock - 1 > 1 THEN clock - 1 ELSE 1

Accepted(tx) ==
  CASE tx.op = "init" -> ~registry.exists
    [] tx.op = "add_server_key" -> ~Taken(tx.id) /\ Cardinality(TakenIds) < MaxServerKeys
    [] tx.op = "revoke_server_key" ->
         registry.keys[tx.id].to = 0 \/ registry.keys[tx.id].to >= clock
    [] tx.op = "add_partner" -> ~registry.partner
    [] tx.op = "remove_partner" -> registry.partner
    [] tx.op = "add_site" -> tx.id \notin registry.sites

Applied(tx) ==
  CASE tx.op = "init" -> [registry EXCEPT !.exists = TRUE]
    [] tx.op = "add_server_key" -> [registry EXCEPT !.keys[tx.id] = tx.entry]
    [] tx.op = "revoke_server_key" -> [registry EXCEPT !.keys[tx.id].to = RevokedTo]
    [] tx.op \in {"add_partner", "remove_partner"} ->
         [registry EXCEPT !.partner = tx.op = "add_partner"]
    [] tx.op = "add_site" -> [registry EXCEPT !.sites = @ \cup {tx.id}]

-----------------------------------------------------------------------------
(* planServerKey                                                           *)

\* keyStatus, for a key that is there.
keyStatus(id) ==
  LET k == registry.keys[id]
  IN IF k.to # 0 /\ clock > k.to THEN "ended"
     ELSE IF clock < k.from THEN "not yet valid" ELSE "valid"

\* The first id that is free, from the wanted one on and then from 0.
nextFree ==
  LET free == KeyIds \ TakenIds
      above == {id \in free : id >= wantedId}
  IN IF above # {} THEN Min(above) ELSE Min(free)

\* Mutant: only the wanted id is looked at, not where the key is registered.
planServerKeyByIdOnly(key) ==
  LET add(id) == IF Cardinality(TakenIds) < MaxServerKeys
                 THEN [action |-> "add", id |-> id] ELSE [action |-> "refuse", id |-> id]
  IN IF ~Taken(wantedId) THEN add(wantedId)
     ELSE IF registry.keys[wantedId].pubkey = key /\ keyStatus(wantedId) # "ended"
     THEN [action |-> "skip", id |-> wantedId]
     ELSE IF keyStatus(wantedId) = "valid" THEN [action |-> "refuse", id |-> wantedId]
     ELSE add(nextFree)

\* A key that is registered is kept, or refused if it has ended everywhere;
\* a new one goes to the wanted id, or to the next free one if that id has a
\* key that is not valid; another valid key there is not replaced.
planServerKey(key) ==
  LET mine == {id \in TakenIds : registry.keys[id].pubkey = key}
      usable == {id \in mine : keyStatus(id) # "ended"}
      full == Cardinality(TakenIds) >= MaxServerKeys
  IN IF usable # {} THEN [action |-> "skip", id |-> Min(usable)]
     ELSE IF mine # {} \/ (Taken(wantedId) /\ keyStatus(wantedId) = "valid") \/ full
     THEN [action |-> "refuse", id |-> wantedId]
     ELSE [action |-> "add", id |-> nextFree]

\* chooseServerKey: the public test key only for a local validator.
chooseServerKey(key) == key = TestKey => Local

-----------------------------------------------------------------------------
(* A script: it sends a transaction and waits for it                       *)

Send(s, tx, next) == script' = [s EXCEPT !.at = "await", !.tx = tx, !.next = next]

Arrives(s, next) == script' = IF next = "idle" THEN NoScript ELSE [s EXCEPT !.at = next]

Others == UNCHANGED <<registry, clock, wantedId, late>>

\* rpc(): it has landed, or the program has refused it and the script ends.
Lands ==
  /\ script.at = "await"
  /\ IF Accepted(script.tx)
     THEN registry' = Applied(script.tx) /\ Arrives([script EXCEPT !.tx = NoTx], script.next)
     ELSE registry' = registry /\ script' = NoScript
  /\ UNCHANGED <<clock, wantedId, late>>

\* rpc() gives up: the transaction may land later, or never.
GivesUp(lost) ==
  /\ script.at = "await"
  /\ lost \/ Cardinality(late) < MaxLate
  /\ late' = IF lost THEN late ELSE late \cup {script.tx}
  /\ script' = NoScript
  /\ UNCHANGED <<registry, clock, wantedId>>

LandsLate(tx) ==
  /\ tx \in late /\ late' = late \ {tx}
  /\ registry' = IF Accepted(tx) THEN Applied(tx) ELSE registry
  /\ UNCHANGED <<clock, wantedId, script>>

Expires(tx) ==
  /\ tx \in late /\ late' = late \ {tx}
  /\ UNCHANGED <<registry, clock, wantedId, script>>

-----------------------------------------------------------------------------
(* seed-devnet                                                             *)

Seed(key) == [NoScript EXCEPT !.prog = "seed", !.key = key]

\* The registry is created when there is none.
SeedStarts(key) ==
  /\ script = NoScript /\ chooseServerKey(key)
  /\ IF registry.exists THEN Arrives(Seed(key), "plan")
     ELSE Send(Seed(key), [op |-> "init"], "plan")
  /\ Others

\* The registry is read: planServerKey decides, and what is missing of the
\* rest (0 is the partner, other numbers are sites) is known from here on.
SeedPlans ==
  LET plan == planServerKey(script.key)
      missing == PartnerSites \ registry.sites
      s == [script EXCEPT !.seen = IF registry.partner THEN missing ELSE {0} \cup missing]
  IN
  /\ script.at = "plan"
  /\ CASE plan.action = "refuse" -> script' = NoScript
       [] plan.action = "skip" -> Arrives(s, "rest")
       [] plan.action = "add" ->
            Send(s, [op |-> "add_server_key", id |-> plan.id,
                     entry |-> [pubkey |-> script.key, from |-> 0, to |-> 0, by |-> "seed"]],
                 "rest")
  /\ Others

\* The partner first, then the sites: what was there is skipped.
SeedAddsRest ==
  LET n == Min(script.seen) IN
  /\ script.at = "rest"
  /\ IF script.seen = {} THEN script' = NoScript
     ELSE Send([script EXCEPT !.seen = @ \ {n}],
               IF n = 0 THEN [op |-> "add_partner"] ELSE [op |-> "add_site", id |-> n], "rest")
  /\ Others

-----------------------------------------------------------------------------
(* server-key and partner                                                  *)

Hand == [NoScript EXCEPT !.prog = "hand"]

\* parseServerKeyArgs and the check that the id is free.
AddsKey(key, id, term) ==
  /\ script = NoScript /\ registry.exists
  /\ term.to = 0 \/ term.to >= term.from
  /\ ~Taken(id)
  /\ Send(Hand, [op |-> "add_server_key", id |-> id,
                 entry |-> [pubkey |-> key, from |-> term.from, to |-> term.to, by |-> "hand"]],
          "idle")
  /\ Others

RevokesKey(id) ==
  /\ script = NoScript /\ registry.exists /\ Taken(id)
  /\ Send(Hand, [op |-> "revoke_server_key", id |-> id], "idle")
  /\ Others

\* runPartner, for the operator's own wallet: nothing to do is no error.
RunPartner(cmd) ==
  /\ script = NoScript /\ registry.exists
  /\ registry.partner = (cmd = "remove_partner")
  /\ Send(Hand, [op |-> cmd], "idle")
  /\ Others

Ticks ==
  /\ clock < LastTime /\ clock' = clock + 1
  /\ UNCHANGED <<registry, wantedId, script, late>>

RegistrarNext ==
  \/ \E key \in VerifierKeys : SeedStarts(key)
  \/ SeedPlans \/ SeedAddsRest
  \/ \E key \in VerifierKeys, id \in KeyIds, term \in Terms : AddsKey(key, id, term)
  \/ \E id \in KeyIds : RevokesKey(id)
  \/ \E cmd \in {"add_partner", "remove_partner"} : RunPartner(cmd)
  \/ Lands \/ \E lost \in BOOLEAN : GivesUp(lost)
  \/ \E tx \in late : LandsLate(tx) \/ Expires(tx)
  \/ Ticks

RegistrarSpec == RegistrarInit /\ [][RegistrarNext]_registrarVars

-----------------------------------------------------------------------------
\* "The script can be re-run after a rotation" and "a revoked key stays
\* revoked": however often seed-devnet is run with one --key-id, whatever
\* answers were lost and whatever lands late, it registers a verifier key
\* under one id at most, so that revoking this one id ends the key.
RegisteredOnce ==
  \A i, j \in TakenIds :
    /\ registry.keys[i].by = "seed" /\ registry.keys[j].by = "seed"
    /\ registry.keys[i].pubkey = registry.keys[j].pubkey
    => i = j

=============================================================================
