------------------------------ MODULE Provision ------------------------------
(***************************************************************************)
(* How a bottle gets its passport: the certification console of the web    *)
(* client (components/certify-console.tsx) and the operator's scripts      *)
(* bind-chip and seed-passports, with the transaction lookup they recover  *)
(* with (creatingSignature in lib/send-tx.ts and scripts/lib/cli.ts) and   *)
(* the Core asset that backs the passport (scripts/lib/core.ts).           *)
(*                                                                         *)
(* One operator wallet that is a registry partner; a console page and a    *)
(* script may run at the same time.  Every transaction is a step of its    *)
(* own, its answer may be lost, a page may be reloaded and a script may    *)
(* end anywhere, with a transaction under way that lands later or never.   *)
(* The operator may name any asset of the wallet to a script, the one that *)
(* a console page has minted included.  The flacon program and the         *)
(* verifier are external here: modules Flacon and Taps are about them.     *)
(***************************************************************************)
EXTENDS Naturals, Sequences, FiniteSets

CONSTANTS
  Serials, Uids,  \* bottles and chips
  SealOf,         \* the bottle a chip sits on
  SeedSeals,      \* docs/seed/passports.json: serial -> chips, in file order
  DeadSeals,      \* the chips the seed file marks dead
  RivalSerials,   \* serial numbers another partner may take first
  NoSerial,
  Window,         \* SIG_WINDOW: signatures a lookup reads at most
  MaxAssets,      \* bound: Core assets
  MaxStray,       \* bound: other transactions that touch an address
  Giveable,       \* bound: the assets the operator may give away
  MaxFaults       \* bound: lost answers, reloads, ended scripts

ASSUME ProvisionAssumption ==
  /\ SealOf \in [Uids -> Serials] /\ NoSerial \notin Serials
  /\ Serials \cap Uids = {}
  /\ DOMAIN SeedSeals \subseteq Serials /\ DeadSeals \subseteq Uids
  /\ \A s \in DOMAIN SeedSeals : SeedSeals[s] \in Seq({u \in Uids : SealOf[u] = s})
  /\ RivalSerials \subseteq Serials
  /\ Window \in Nat /\ MaxAssets \in Nat \ {0} /\ MaxStray \in Nat
  /\ Giveable \subseteq Nat \ {0} /\ MaxFaults \in Nat

Clients == {"console", "script"}
Addresses == Serials \cup Uids

VARIABLES
  passports,  \* flacon: issuer ("none", "me", "other"), asset, void; by is
              \* history: who minted, and whether after having ended ("late")
  seals,      \* flacon: the passport of a chip, whether it is dead
  owner,      \* Core: owner of asset 1, 2, ...
  touched,    \* transactions that touched an address: "create" or "stray"
  sent,       \* transactions under way whose program has ended
  run,        \* per client: the program that runs and its steps to come
  kept,       \* console: the Core asset of this page and its serial number
  faults      \* spent of MaxFaults

vars == <<passports, seals, owner, touched, sent, run, kept, faults>>
chain == <<passports, seals, owner, touched, sent>>

(* A running program: its remaining steps and what it carries from step to *)
(* step: the asset it will bind, the transaction it will report, and the   *)
(* address it has read last with what it saw there.                        *)
Idle == [prog |-> "none", steps |-> <<>>, asset |-> 0, sig |-> 0,
         at |-> NoSerial, seen |-> FALSE]
NothingKept == [asset |-> 0, serial |-> NoSerial]

\* An operator's wallet holds one Core asset from before.
Init ==
  /\ passports = [s \in Serials |->
       [issuer |-> "none", asset |-> 0, void |-> FALSE, by |-> "none"]]
  /\ seals = [u \in Uids |-> [on |-> NoSerial, dead |-> FALSE]]
  /\ owner = <<"me">>
  /\ touched = [a \in Addresses |-> <<>>]
  /\ sent = {}
  /\ run = [c \in Clients |-> Idle]
  /\ kept = NothingKept
  /\ faults = 0

\* fetchPassportChain, fetchSealStates, fetchCoreAsset: what is read of an
\* account.
Minted(s) == passports[s].issuer # "none"
Attached(u) == seals[u].on # NoSerial
OnChain(a) == IF a \in Serials THEN Minted(a) ELSE Attached(a)
SealCount(s) == Cardinality({u \in Uids : seals[u].on = s})
MAX_SEALS_PER_PASSPORT == 2
Owned(asset) == owner[asset] = "me"
TakesSeal(s) == /\ passports[s].issuer = "me" /\ ~passports[s].void
                /\ SealCount(s) < MAX_SEALS_PER_PASSPORT

-----------------------------------------------------------------------------
(* Looking up the transaction that created an account                      *)

\* txCreates, txCreatesAccount: the transaction is the expected instruction,
\* signed by the wallet, with the account at its place.
Creates(a, i) == touched[a][i] = "create"

\* Mutant: the newest transaction of the address is taken.
CreatingSignatureNewest(a) ==
  IF Len(touched[a]) >= Window THEN 0 ELSE Len(touched[a])

\* creatingSignature: the oldest transaction that is the expected
\* instruction; 0 when the window ends before the first one.
CreatingSignature(a) ==
  LET hits == {i \in 1..Len(touched[a]) : Creates(a, i)}
  IN IF Len(touched[a]) >= Window \/ hits = {} THEN 0
     ELSE CHOOSE i \in hits : \A j \in hits : i <= j

\* passportsUsingAsset
UsedBy(asset) == {s \in Serials : passports[s].asset = asset}

\* Mutant: nobody looks whether the asset backs a passport already.
ExistingAssetProblemOwnerOnly(asset) == ~Owned(asset)

\* existingAssetProblem
ExistingAssetProblem(asset) == ~Owned(asset) \/ UsedBy(asset) # {}

-----------------------------------------------------------------------------
(* Programs                                                                *)

Step(op, at) == [op |-> op, at |-> at]

\* Mutant: every seal is attached and marked in the order of the file.
SealSeedPlanInOrder(s) ==
  LET both(u) == IF u \in DeadSeals THEN <<Step("attach", u), Step("dead", u)>>
                 ELSE <<Step("attach", u)>>
      list == SeedSeals[s]
      upTo[n \in 0..Len(list)] == IF n = 0 THEN <<>> ELSE upTo[n - 1] \o both(list[n])
  IN upTo[Len(list)]

\* seals.filter((s) => s.dead)
MarkedDead(list) ==
  LET upTo[n \in 0..Len(list)] ==
        IF n = 0 THEN <<>>
        ELSE IF list[n] \in DeadSeals THEN Append(upTo[n - 1], list[n]) ELSE upTo[n - 1]
  IN upTo[Len(list)]

\* sealSeedPlan: attach every seal first, then mark the dead ones.
SealSeedPlan(s) ==
  LET list == SeedSeals[s]
      dead == MarkedDead(list)
  IN [i \in 1..Len(list) |-> Step("attach", list[i])]
     \o [i \in 1..Len(dead) |-> Step("dead", dead[i])]

\* The steps of each program, started for a bottle or for one of its chips.
StepsOf(prog, a) ==
  CASE prog = "mint" -> <<Step("mint", a), Step("post", a)>>
    [] prog = "attach" -> <<Step("attach", a), Step("post", a)>>
    [] prog = "bind" -> <<Step("asset", SealOf[a]), Step("mint", SealOf[a]),
                          Step("post", SealOf[a]), Step("attach", a), Step("post", a)>>
    [] prog = "seed" -> <<Step("asset", a), Step("mint", a)>> \o SealSeedPlan(a)

\* The buttons of a page that is busy are disabled; one script at a time.
Ready(c) == run[c] = Idle

Begin(c, prog, a, asset) ==
  /\ Ready(c)
  /\ run' = [run EXCEPT ![c] = [prog |-> prog, steps |-> StepsOf(prog, a), asset |-> asset,
                                sig |-> 0, at |-> a, seen |-> OnChain(a)]]
  /\ UNCHANGED <<chain, kept, faults>>

\* "Mint passport": a passport on chain must be the wallet's own; for a new
\* one the page wants the Core asset it has minted for this serial number.
PressMint(s) ==
  /\ Minted(s) => passports[s].issuer = "me"
  /\ ~Minted(s) => kept.serial = s
  /\ Begin("console", "mint", s, kept.asset)

\* "Attach seal": a new one is checked against the passport first.
PressAttach(u) ==
  /\ Attached(u) => seals[u].on = SealOf[u]
  /\ ~Attached(u) => TakesSeal(SealOf[u])
  /\ Begin("console", "attach", u, 0)

\* bind-chip with "new" (0) or any asset the operator names.
StartBind(u, asset) == Begin("script", "bind", u, asset)

\* seed-passports, for one bottle of the file, with the file's asset or none.
StartSeed(s, asset) == s \in DOMAIN SeedSeals /\ Begin("script", "seed", s, asset)

-----------------------------------------------------------------------------
(* Steps                                                                   *)

Go(c, r) == run' = [run EXCEPT ![c] = IF r.steps = <<>> THEN Idle ELSE r]
Rest(r) == [r EXCEPT !.steps = Tail(@)]
Done(r, sig) == [Rest(r) EXCEPT !.asset = 0, !.sig = sig, !.at = NoSerial, !.seen = FALSE]
AtStep(c, op) == run[c].steps # <<>> /\ Head(run[c].steps).op = op
Where(c) == Head(run[c].steps).at

\* The transaction of a step is on chain; its answer may be lost, which ends
\* the handler or the script with an error.
Answered(c, known, r) ==
  IF known THEN Go(c, r) /\ UNCHANGED faults
  ELSE /\ faults < MaxFaults /\ faults' = faults + 1
       /\ run' = [run EXCEPT ![c] = Idle]

Throw(c) == run' = [run EXCEPT ![c] = Idle]

\* createCoreAssetIx: owned by the payer.
CreateCoreAsset == owner' = Append(owner, "me")

\* mintCore: a new asset of this wallet; the page keeps it if it learns that
\* it landed, by the answer or by reading the account.
MintCore(s, known) ==
  /\ Ready("console") /\ Len(owner) < MaxAssets
  /\ CreateCoreAsset
  /\ kept' = IF known THEN [asset |-> Len(owner) + 1, serial |-> s] ELSE kept
  /\ UNCHANGED <<passports, seals, touched, sent, run, faults>>

\* The scripts read the passport; a new one needs an asset: the given one if
\* it is usable (bind-chip gives up otherwise), or one minted now, while the
\* wallet can pay for it.
ChooseAsset(c, known) ==
  LET r == [run[c] EXCEPT !.at = Where(c), !.seen = Minted(Where(c))]
      unusable == IF r.asset = 0 THEN TRUE ELSE ExistingAssetProblem(r.asset)
      mintsNew == r.asset = 0 \/ r.prog = "seed"
  IN
  /\ AtStep(c, "asset")
  /\ \/ /\ r.seen \/ ~unusable
        /\ Go(c, Rest(r)) /\ UNCHANGED <<owner, faults>>
     \/ /\ ~r.seen /\ unusable /\ (~mintsNew \/ Len(owner) = MaxAssets)
        /\ Throw(c) /\ UNCHANGED <<owner, faults>>
     \/ /\ ~r.seen /\ unusable /\ mintsNew /\ Len(owner) < MaxAssets
        /\ CreateCoreAsset
        /\ Answered(c, known, [Rest(r) EXCEPT !.asset = Len(owner) + 1])
  /\ UNCHANGED <<passports, seals, touched, sent, kept>>

\* The passport was on chain: the scripts go on, the seed without a report;
\* the console shows the chain's asset.
RecoverMint(c) ==
  LET r == run[c]
      s == Where(c)
      sig == CreatingSignature(s)
  IN
  /\ AtStep(c, "mint") /\ r.seen
  /\ \/ /\ r.prog = "seed" /\ Go(c, Done(r, 0)) /\ UNCHANGED kept
     \/ /\ r.prog # "seed" /\ (passports[s].issuer # "me" \/ sig = 0)
        /\ Throw(c) /\ UNCHANGED kept
     \/ /\ r.prog # "seed" /\ passports[s].issuer = "me" /\ sig # 0
        /\ Go(c, Done(r, sig))
        /\ kept' = IF c = "console" THEN [asset |-> passports[s].asset, serial |-> s] ELSE kept
  /\ UNCHANGED <<chain, faults>>

\* mint_passport: refused for a serial number or an asset that is gone; any
\* asset of the issuer will do.
MintRefused(s, asset) == Minted(s) \/ ~Owned(asset)
Mints(s, asset, by) ==
  /\ passports' = [passports EXCEPT ![s].issuer = "me", ![s].asset = asset,
                                    ![s].by = by]
  /\ touched' = [touched EXCEPT ![s] = Append(@, "create")]

MintPassport(c, known) ==
  LET r == run[c]
      s == Where(c)
  IN
  /\ AtStep(c, "mint") /\ ~r.seen
  /\ \/ MintRefused(s, r.asset) /\ Throw(c) /\ UNCHANGED <<passports, touched, faults>>
     \/ /\ ~MintRefused(s, r.asset)
        /\ Mints(s, r.asset, c)
        /\ Answered(c, known, Done(r, Len(touched[s]) + 1))
  /\ UNCHANGED <<seals, owner, sent, kept>>

\* The scripts read a seal when they come to it.
ReadSeal(c) ==
  /\ AtStep(c, "attach") /\ run[c].at # Where(c)
  /\ Go(c, [run[c] EXCEPT !.at = Where(c), !.seen = Attached(Where(c))])
  /\ UNCHANGED <<chain, kept, faults>>

\* The seal was on chain: the seed goes on, the others look for its
\* transaction to report it.
RecoverSeal(c) ==
  LET r == run[c]
      u == Where(c)
      sig == CreatingSignature(u)
  IN
  /\ AtStep(c, "attach") /\ r.at = u /\ r.seen
  /\ IF r.prog = "seed" THEN Go(c, Done(r, 0))
     ELSE IF seals[u].on # SealOf[u] \/ sig = 0 THEN Throw(c)
     ELSE Go(c, Done(r, sig))
  /\ UNCHANGED <<chain, kept, faults>>

\* attach_seal
AttachRefused(u) == Attached(u) \/ ~TakesSeal(SealOf[u])
Attaches(u) ==
  /\ seals' = [seals EXCEPT ![u].on = SealOf[u]]
  /\ touched' = [touched EXCEPT ![u] = Append(@, "create")]

AttachSeal(c, known) ==
  LET u == Where(c) IN
  /\ AtStep(c, "attach") /\ run[c].at = u /\ ~run[c].seen
  /\ \/ AttachRefused(u) /\ Throw(c) /\ UNCHANGED <<seals, touched, faults>>
     \/ /\ ~AttachRefused(u)
        /\ Attaches(u)
        /\ Answered(c, known, Done(run[c], Len(touched[u]) + 1))
  /\ UNCHANGED <<passports, owner, sent, kept>>

\* mark_seal_dead of the seed script: the passport is void from now on.
MarkRefused(u) == seals[u].dead \/ ~Attached(u)
Marks(u) ==
  /\ seals' = [seals EXCEPT ![u].dead = TRUE]
  /\ passports' = [passports EXCEPT ![SealOf[u]].void = TRUE]

MarkSealDead(c, known) ==
  LET u == Where(c) IN
  /\ AtStep(c, "dead")
  /\ IF MarkRefused(u)
     THEN Go(c, Rest(run[c])) /\ UNCHANGED <<seals, passports, faults>>
     ELSE Marks(u) /\ Answered(c, known, Rest(run[c]))
  /\ UNCHANGED <<owner, touched, sent, kept>>

\* POST /api/events: the verifier answers, or the program ends with an error
\* after its retries; what was sent stays on chain.
PostEvent(c, ok) ==
  /\ AtStep(c, "post")
  /\ IF ok THEN Go(c, Done(run[c], 0)) ELSE Throw(c)
  /\ UNCHANGED <<chain, kept, faults>>

-----------------------------------------------------------------------------
(* Faults and everybody else                                               *)

Fault == faults < MaxFaults /\ faults' = faults + 1

\* The page is reloaded (its asset is forgotten), the script is ended.
Lost(c) ==
  /\ Fault
  /\ run[c] # Idle \/ (c = "console" /\ kept # NothingKept)
  /\ run' = [run EXCEPT ![c] = Idle]
  /\ kept' = IF c = "console" THEN NothingKept ELSE kept
  /\ UNCHANGED chain

\* What the step that comes next sends, once the account was read.
Sends(c, op) ==
  /\ AtStep(c, op)
  /\ \/ op \in {"mint", "attach"} /\ run[c].at = Where(c) /\ ~run[c].seen
     \/ op = "dead" /\ ~MarkRefused(Where(c))

\* A transaction is sent and the program ends before it is on chain: the
\* script is ended, the page's confirmation fails.
LeftUnderWay(c, op) ==
  /\ Sends(c, op)
  /\ Fault
  /\ sent' = sent \cup {[op |-> op, at |-> Where(c), asset |-> run[c].asset]}
  /\ run' = [run EXCEPT ![c] = Idle]
  /\ UNCHANGED <<passports, seals, owner, touched, kept>>

\* It lands after all, or it is refused by then.
SentLands(tx) ==
  /\ sent' = sent \ {tx}
  /\ \/ /\ tx.op = "mint" /\ ~MintRefused(tx.at, tx.asset)
        /\ Mints(tx.at, tx.asset, "late")
        /\ UNCHANGED seals
     \/ /\ tx.op = "attach" /\ ~AttachRefused(tx.at)
        /\ Attaches(tx.at)
        /\ UNCHANGED passports
     \/ /\ tx.op = "dead" /\ ~MarkRefused(tx.at)
        /\ Marks(tx.at)
        /\ UNCHANGED touched
     \/ UNCHANGED <<passports, seals, touched>>
  /\ UNCHANGED <<owner, run, kept, faults>>

\* Anyone can send to an address that can be computed from public data,
\* before the account is there and after.
Stray(a) ==
  /\ Cardinality({e \in Addresses \X (1..Window) :
                    /\ e[2] <= Len(touched[e[1]])
                    /\ touched[e[1]][e[2]] = "stray"}) < MaxStray
  /\ touched' = [touched EXCEPT ![a] = Append(@, "stray")]
  /\ UNCHANGED <<passports, seals, owner, sent, run, kept, faults>>

RivalMints(s) ==
  /\ s \in RivalSerials /\ ~Minted(s)
  /\ passports' = [passports EXCEPT ![s].issuer = "other"]
  /\ UNCHANGED <<seals, owner, touched, sent, run, kept, faults>>

\* transferCoreAssetIx
TransferCoreAsset(asset, to) == owner' = [owner EXCEPT ![asset] = to]

\* core-transfer: the operator gives an asset of his away.
CoreTransfer(asset) ==
  /\ asset <= Len(owner) /\ Owned(asset)
  /\ TransferCoreAsset(asset, "other")
  /\ UNCHANGED <<passports, seals, touched, sent, run, kept, faults>>

-----------------------------------------------------------------------------
Advance(c, known) ==
  \/ ChooseAsset(c, known) \/ RecoverMint(c) \/ MintPassport(c, known)
  \/ ReadSeal(c) \/ RecoverSeal(c) \/ AttachSeal(c, known)
  \/ MarkSealDead(c, known) \/ PostEvent(c, known)

Next ==
  \/ \E s \in Serials, known \in BOOLEAN : MintCore(s, known)
  \/ \E s \in Serials : PressMint(s) \/ RivalMints(s)
  \/ \E u \in Uids : PressAttach(u)
  \/ \E u \in Uids, asset \in 0..Len(owner) : StartBind(u, asset)
  \/ \E s \in Serials, asset \in 0..Len(owner) : StartSeed(s, asset)
  \/ \E c \in Clients, known \in BOOLEAN : Advance(c, known)
  \/ \E c \in Clients : Lost(c)
  \/ \E c \in Clients, op \in {"mint", "attach", "dead"} : LeftUnderWay(c, op)
  \/ \E tx \in sent : SentLands(tx)
  \/ \E a \in Addresses : Stray(a)
  \/ \E asset \in Giveable : CoreTransfer(asset)

Spec == Init /\ [][Next]_vars

-----------------------------------------------------------------------------
(* Properties                                                              *)

TypeOK ==
  /\ \A s \in Serials : passports[s].asset \in 0..Len(owner)
  /\ \A u \in Uids : seals[u].on \in {NoSerial, SealOf[u]}
  /\ \A c \in Clients : run[c].asset \in 0..Len(owner)

\* "An asset that already backs a passport would let two passports share one
\* asset (the escrow lets the asset's owner sell the bottle)": no two
\* passports of the operator have the same one.  The scripts look before they
\* mint; the console does not, and the program takes any asset of the issuer.
OneAssetPerPassport ==
  \A s, t \in Serials :
    s # t /\ passports[s].issuer = "me" /\ passports[t].issuer = "me"
      => passports[s].asset # passports[t].asset

\* What the scripts' look does promise: of the bottles whose passport a script
\* minted that was not ended in the middle of it, no two have the same asset,
\* whatever asset is named for them, whatever the console mints meanwhile and
\* whichever earlier transaction still lands.
ScriptsBindApart ==
  \A s, t \in Serials :
    s # t /\ passports[s].by = "script" /\ passports[t].by = "script"
      => passports[s].asset # passports[t].asset

\* "A stray transfer to a PDA ... is never mistaken for its creation": what
\* a client reports, from the answer or found again after a lost one, is the
\* transaction that created the account.
ReportsCreation ==
  \A c \in Clients : AtStep(c, "post") => Creates(Where(c), run[c].sig)

\* "A dead seal listed first must not block the others": wherever the seed
\* script is ended, and whatever the console does, every seal of the file is
\* attached or can still be.
SeedNeverStuck ==
  \A s \in DOMAIN SeedSeals : passports[s].issuer = "me" =>
    \A i \in 1..Len(SeedSeals[s]) : Attached(SeedSeals[s][i]) \/ TakesSeal(s)

=============================================================================
