------------------------------- MODULE Anchor -------------------------------
(***************************************************************************)
(* The anchor step of a scan: "Sign and send" / "Retry confirmation"       *)
(* (lib/anchor-scan.ts, lib/send-tx.ts, components/scan-flow.tsx).          *)
(*                                                                         *)
(* One scan that the server signed, for a wallet or for none, is open on   *)
(* the device that made it and perhaps, through a resume link, in the      *)
(* browser of a wallet app.  A press runs through the calls of anchorScan; *)
(* between two of them the other device, the chain and the verifier move.  *)
(* Answers get lost: a transaction whose outcome the page never learns may *)
(* still land.                                                             *)
(***************************************************************************)
EXTENDS Naturals, FiniteSets

CONSTANTS
  Wallets,      \* wallets a device may connect
  NoWallet,     \* none connected; a scan signed without a wallet
  Maker, Link,  \* the device that made the scan, the one that opens the link
  Installed,    \* the wallets each of the two can connect
  Partners,     \* registry partners when the scan is signed
  Roles, Tiers, \* bound: roles and tiers a user may pick
  Obstacles,    \* bound: what else the chain may hold against a scan
  MaxTxs        \* bound: record_scan transactions sent

Devices == {Maker, Link}

ASSUME AnchorAssumption ==
  /\ NoWallet \notin Wallets
  /\ Maker # Link
  /\ Installed \in [Devices -> SUBSET Wallets]
  /\ Partners \subseteq Wallets
  /\ Roles \subseteq {"OWNER", "SELLER", "BUYER", "VAULT", "PARTNER"}
  /\ Tiers \subseteq 1..4
  /\ Obstacles \subseteq {"counter", "dead", "void", "key", "site"}
  /\ MaxTxs \in Nat

TxIds == 1..MaxTxs
NoSig == 0

VARIABLES
  signedFor,  \* bundle.attester.pubkey of the signed scan
  claim,      \* bundle.attester.tier and role
  partners,   \* the registry's partner list
  against,    \* what else on chain makes record_scan refuse the scan
  page,       \* per device, the state of the page and of its press
  txs,        \* transactions sent: signer and status
  proof,      \* the transaction that created the ScanProof account, or NoSig
  event,      \* the verifier's SCAN event: "pending", "failed", or confirmed
  late        \* the signature is too old for the program

scanVars == <<signedFor, claim, partners, against>>
vars == <<signedFor, claim, partners, against, page, txs, proof, event, late>>

(* step: "none" the scan is not open here, "tx", "done".                   *)
(* at: where the press is; me, sig: what it has captured and found.        *)
(* landed: the signature kept between presses (txSig).                     *)
ClosedPage ==
  [step |-> "none", wallet |-> NoWallet, resumed |-> FALSE, own |-> FALSE,
   landed |-> NoSig, at |-> "idle", me |-> NoWallet, sig |-> NoSig]

\* Tier.SELF_MEDIA, Tier.CERTIFIED and the professional roles.
SelfMedia == 2
Certified == 3
ProRoles == {"VAULT", "PARTNER"}

needsPartnerWallet(c) == c.tier >= Certified \/ c.role \in ProRoles

\* Mutant: the certified page keeps the owner's roles.
roleChoicesAll(certified) ==
  IF certified THEN {"VAULT", "PARTNER", "OWNER"} ELSE {"OWNER", "SELLER", "BUYER"}

roleChoices(certified) ==
  IF certified THEN ProRoles ELSE {"OWNER", "SELLER", "BUYER"}

\* What the page asks the server to sign: the tier of the certification
\* console's link, or 1 or 2 by whether there are photos.
Asked(certified) ==
  [tier : {t \in Tiers : (t >= Certified) = certified},
   role : roleChoices(certified) \cap Roles]

\* partnerWalletGate: a certified scan is signed for the connected wallet.
partnerWalletGate(c, wallet) == needsPartnerWallet(c) => wallet # NoWallet

\* _needs_partner: a certified claim is signed for a partner only.  The
\* server does not compare tier and role.
Signed(c, attester) == needsPartnerWallet(c) => attester \in partners

\* record_scan, step 3.
RoleAllowed(c, attester) ==
  /\ c.role \notin ProRoles => c.tier <= SelfMedia
  /\ c.role \in ProRoles \/ c.tier >= Certified => attester \in partners

(* record_scan, steps 1 and 2 and the site: a later tap of the seal was     *)
(* anchored ("counter"), seal dead, passport void, server key not valid     *)
(* (any more), site not registered.  A site goes with a professional role.  *)
(* The server asks its own tables and not the chain, and the page takes the *)
(* site from its address: each may be so when the scan is signed.           *)
ObstaclesTo(c) == {o \in Obstacles : o = "site" => c.role \in ProRoles}

Init ==
  /\ partners = Partners
  /\ signedFor \in Installed[Maker] \cup {NoWallet}
  /\ claim \in UNION {Asked(certified) : certified \in BOOLEAN}
  /\ partnerWalletGate(claim, signedFor) /\ Signed(claim, signedFor)
  /\ against \in SUBSET ObstaclesTo(claim)
  /\ page = [d \in Devices |->
       IF d = Maker THEN [ClosedPage EXCEPT !.step = "tx", !.wallet = signedFor]
       ELSE ClosedPage]
  /\ txs = [t \in TxIds |-> [by |-> NoWallet, claim |-> claim, status |-> "unsent"]]
  /\ proof = NoSig
  /\ event = [status |-> "pending", sig |-> NoSig]
  /\ late = FALSE

Idle(d) == page[d].step = "tx" /\ page[d].at = "idle"

Set(d, p) == page' = [page EXCEPT ![d] = p]

\* The press ends in catch: what is kept for the next one.
Ended(p, landed) ==
  [p EXCEPT !.at = "idle", !.landed = landed, !.me = NoWallet, !.sig = NoSig]

-----------------------------------------------------------------------------
(* The user                                                                *)

\* The wallet button.
Connect(d, w) ==
  /\ page[d].step = "tx" /\ page[d].wallet # w
  /\ Set(d, [page[d] EXCEPT !.wallet = w])
  /\ UNCHANGED <<scanVars, txs, proof, event, late>>

\* resumeRef and GET /api/verify/{eventId}: the link names a pending scan.
ResumeLink == event.status = "pending"

\* ?resume=: the scan is opened with what the verifier has of it.
OpenLink ==
  /\ page[Link].step = "none"
  /\ ResumeLink
  /\ Set(Link, [page[Link] EXCEPT !.step = "tx", !.resumed = TRUE])
  /\ UNCHANGED <<scanVars, txs, proof, event, late>>

\* needsOwnScanConfirmation
OwnScanNeeded(p) == p.resumed /\ signedFor = NoWallet

\* "This is my own scan of this bottle."
TickOwnScan(d) ==
  /\ page[d].step = "tx" /\ OwnScanNeeded(page[d])
  /\ Set(d, [page[d] EXCEPT !.own = ~@])
  /\ UNCHANGED <<scanVars, txs, proof, event, late>>

\* Mutant: the wallet is compared only on the device that made the scan.
MayAnchorUnlessResumed(p) ==
  /\ p.wallet # NoWallet
  /\ p.resumed \/ signedFor \in {NoWallet, p.wallet}
  /\ OwnScanNeeded(p) => p.own

\* attesterMismatch and the confirmation: what anchorScan refuses at once.
MayAnchor(p) ==
  /\ p.wallet # NoWallet
  /\ signedFor \in {NoWallet, p.wallet}
  /\ OwnScanNeeded(p) => p.own

\* sendTx: a landed signature is only confirmed, otherwise look and send.
Press(d) ==
  /\ Idle(d)
  /\ MayAnchor(page[d])
  /\ Set(d, [page[d] EXCEPT !.me = page[d].wallet, !.sig = page[d].landed,
                            !.at = IF page[d].landed = NoSig THEN "look"
                                   ELSE "confirm"])
  /\ UNCHANGED <<scanVars, txs, proof, event, late>>

\* The page is closed or reloaded: what it knew is gone.
Close(d) ==
  /\ page[d].step = "tx"
  /\ Set(d, ClosedPage)
  /\ UNCHANGED <<scanVars, txs, proof, event, late>>

-----------------------------------------------------------------------------
(* One press, call by call                                                 *)

Attester == IF proof = NoSig THEN NoWallet ELSE txs[proof].by

\* Mutant: an existing proof is not looked at.
AnchorPlanSend(me) == "send"

\* anchorPlan: by whom the ScanProof at the scan's address was attested.
AnchorPlan(me) ==
  IF Attester = NoWallet THEN "send"
  ELSE IF Attester = me THEN "recover" ELSE "refuse"

\* build and accountInfo
Look(d) ==
  LET p == page[d]
      plan == AnchorPlan(p.me)
  IN
  /\ p.at = "look"
  /\ Set(d, IF plan = "refuse" THEN Ended(p, NoSig)
            ELSE [p EXCEPT !.at = IF plan = "send" THEN "sign" ELSE "find"])
  /\ UNCHANGED <<scanVars, txs, proof, event, late>>

\* creatingSignature with signer me: the RPC may not have it yet.
Find(d) ==
  LET p == page[d] IN
  /\ p.at = "find"
  /\ \/ Set(d, [p EXCEPT !.at = "confirm", !.sig = proof])
     \/ Set(d, Ended(p, NoSig))
  /\ UNCHANGED <<scanVars, txs, proof, event, late>>

NextTx == Cardinality({t \in TxIds : txs[t].status # "unsent"}) + 1

\* buildRecordScanTx: the attester is the wallet that pressed; tier, role and
\* every signed field, and with them the address of the proof, are the
\* server's, also on a page that a link opened.
RecordScanTx(attester) == [by |-> attester, claim |-> claim, status |-> "sent"]

\* signAndSend: the wallet signs and the page sends.  An expired blockhash
\* is answered by signing once more; nothing was sent by then.
Sign(d) ==
  LET p == page[d] IN
  /\ p.at = "sign"
  /\ NextTx \in TxIds
  /\ txs' = [txs EXCEPT ![NextTx] = RecordScanTx(p.me)]
  /\ Set(d, [p EXCEPT !.at = "await", !.sig = NextTx])
  /\ UNCHANGED <<scanVars, proof, event, late>>

\* The user declines, the simulation fails or the call does.
SignFails(d) ==
  /\ page[d].at = "sign"
  /\ Set(d, Ended(page[d], NoSig))
  /\ UNCHANGED <<scanVars, txs, proof, event, late>>

\* confirmLanded: confirmed, or at least seen by lookupStatus, is success; a
\* failed transaction and one not seen end the press, and send() has
\* returned no signature to keep.
Await(d) ==
  LET p == page[d] IN
  /\ p.at = "await"
  /\ \/ /\ txs[p.sig].status \in {"seen", "landed"}
        /\ Set(d, [p EXCEPT !.at = "confirm"])
     \/ Set(d, Ended(p, NoSig))
  /\ UNCHANGED <<scanVars, txs, proof, event, late>>

\* POST /api/events {eventId, txSig, actor}: the answer and the event after
\* it.  A confirmed event is final; a failed transaction of the wallet the
\* scan was signed for fails it; a late success revives it.
Served(p) ==
  LET t == txs[p.sig] IN
  IF event.status = "confirmed" /\ event.sig = p.sig
  THEN [answer |-> "ok", event |-> event]
  ELSE IF event.status = "confirmed" /\ event.sig # NoSig
  THEN [answer |-> "event_confirmed", event |-> event]
  ELSE IF t.status = "failed"
  THEN [answer |-> "tx_failed",
        event |-> IF event.status = "pending" /\ signedFor = p.me
                  THEN [event EXCEPT !.status = "failed"] ELSE event]
  ELSE IF t.status = "landed"
  THEN [answer |-> "ok", event |-> [status |-> "confirmed", sig |-> p.sig]]
  ELSE [answer |-> "tx_not_visible", event |-> event]

\* resetsTxSig
ResetsTxSig(answer) == answer = "tx_failed"

\* Mutant: an event that is confirmed already counts as this confirmation.
ConfirmAlready(d) ==
  LET p == page[d]
      served == Served(p)
  IN
  /\ p.at = "confirm"
  /\ event' = served.event
  /\ Set(d, IF served.answer \in {"ok", "event_confirmed"}
            THEN [Ended(p, p.sig) EXCEPT !.step = "done"]
            ELSE Ended(p, IF ResetsTxSig(served.answer) THEN NoSig ELSE p.sig))
  /\ UNCHANGED <<scanVars, txs, proof, late>>

\* confirm, when its answer arrives.
Confirm(d) ==
  LET p == page[d]
      served == Served(p)
  IN
  /\ p.at = "confirm"
  /\ event' = served.event
  /\ Set(d, IF served.answer = "ok" THEN [Ended(p, p.sig) EXCEPT !.step = "done"]
            ELSE Ended(p, IF ResetsTxSig(served.answer) THEN NoSig ELSE p.sig))
  /\ UNCHANGED <<scanVars, txs, proof, late>>

\* The request or its answer is lost; the signature is kept.
ConfirmLost(d) ==
  /\ page[d].at = "confirm"
  /\ event' \in {event, Served(page[d]).event}
  /\ Set(d, Ended(page[d], page[d].sig))
  /\ UNCHANGED <<scanVars, txs, proof, late>>

-----------------------------------------------------------------------------
(* Chain and verifier (external to the page)                               *)

\* A transaction is seen in a block that is not confirmed yet: the order in
\* which it and another one of this scan will count is still open.
Seen(t) ==
  /\ txs[t].status = "sent"
  /\ txs' = [txs EXCEPT ![t].status = "seen"]
  /\ UNCHANGED <<scanVars, page, proof, event, late>>

\* record_scan: one proof per tap, a signature that is recent enough, nothing
\* against the scan, and an attester who may make the claim.  That the signed
\* fields are in range the server has checked.
Executes(t) ==
  /\ txs[t].status = "seen"
  /\ IF /\ proof = NoSig /\ ~late /\ against = {}
        /\ RoleAllowed(txs[t].claim, txs[t].by)
     THEN proof' = t /\ txs' = [txs EXCEPT ![t].status = "landed"]
     ELSE UNCHANGED proof /\ txs' = [txs EXCEPT ![t].status = "failed"]
  /\ UNCHANGED <<scanVars, page, event, late>>

\* Its blockhash expires first.
Dropped(t) ==
  /\ txs[t].status = "sent"
  /\ txs' = [txs EXCEPT ![t].status = "dropped"]
  /\ UNCHANGED <<scanVars, page, proof, event, late>>

TooOld ==
  /\ ~late /\ late' = TRUE
  /\ UNCHANGED <<scanVars, page, txs, proof, event>>

\* The registry authority removes a partner, or adds it again; to a claim
\* that needs no partner it makes no difference.
PartnerChanges(w) ==
  /\ w \in Partners /\ needsPartnerWallet(claim)
  /\ partners' = IF w \in partners THEN partners \ {w} ELSE partners \cup {w}
  /\ UNCHANGED <<signedFor, claim, against, page, txs, proof, event, late>>

\* A later tap is anchored, the seal marked dead, its passport void, the key
\* revoked or expired.
ObstacleArises ==
  /\ \E o \in ObstaclesTo(claim) \ {"site"} : against' = against \cup {o}
  /\ UNCHANGED <<signedFor, claim, partners, page, txs, proof, event, late>>

\* add_site; nothing else goes away again.
SiteAdded ==
  /\ "site" \in against /\ against' = against \ {"site"}
  /\ UNCHANGED <<signedFor, claim, partners, page, txs, proof, event, late>>

\* The reconcile job: an anchored scan is confirmed, with its signature when
\* the lookup finds it; one that can no longer be anchored fails.
Reconcile ==
  /\ event.status # "confirmed"
  /\ \/ /\ proof # NoSig
        /\ \E sig \in {proof, NoSig} : event' = [status |-> "confirmed", sig |-> sig]
     \/ proof = NoSig /\ late /\ event' = [event EXCEPT !.status = "failed"]
  /\ UNCHANGED <<scanVars, page, txs, proof, late>>

-----------------------------------------------------------------------------
Press1(d) ==
  \/ Press(d) \/ Look(d) \/ Find(d) \/ Sign(d) \/ SignFails(d) \/ Await(d)
  \/ Confirm(d) \/ ConfirmLost(d)

User(d) ==
  \/ \E w \in Installed[d] \cup {NoWallet} : Connect(d, w)
  \/ TickOwnScan(d) \/ Close(d)

Chain == \E t \in TxIds : Seen(t) \/ Executes(t) \/ Dropped(t)

Next ==
  \/ \E d \in Devices : Press1(d) \/ User(d)
  \/ OpenLink
  \/ Chain \/ TooOld \/ ObstacleArises \/ SiteAdded \/ Reconcile
  \/ \E w \in Partners : PartnerChanges(w)

Spec == Init /\ [][Next]_vars

(* The user keeps pressing and every call of a press ends; the lookup of a *)
(* landed transaction and a confirmation get through when they are tried   *)
(* often enough; blocks keep coming.  Nothing is asked of the reconcile    *)
(* job.                                                                    *)
Fairness ==
  /\ \A d \in Devices :
       /\ SF_vars(Press(d))
       /\ WF_vars(Look(d)) /\ WF_vars(Sign(d) \/ SignFails(d)) /\ WF_vars(Await(d))
       /\ SF_vars(Find(d) /\ page'[d].at = "confirm")
       /\ SF_vars(Confirm(d))
  /\ \A t \in TxIds : WF_vars(Executes(t))

FairSpec == Spec /\ Fairness

-----------------------------------------------------------------------------
(* Properties                                                              *)

Claims == [tier : Tiers, role : Roles]

PageRecords ==
  [step : {"none", "tx", "done"}, wallet : Wallets \cup {NoWallet},
   resumed : BOOLEAN, own : BOOLEAN, landed : TxIds \cup {NoSig},
   at : {"idle", "look", "find", "sign", "await", "confirm"},
   me : Wallets \cup {NoWallet}, sig : TxIds \cup {NoSig}]

TxRecords ==
  [by : Wallets \cup {NoWallet}, claim : Claims,
   status : {"unsent", "sent", "seen", "landed", "failed", "dropped"}]

\* The scan, the pages, the chain and the event hold values of their types.
TypeOK ==
  /\ signedFor \in Wallets \cup {NoWallet}
  /\ claim \in Claims
  /\ partners \subseteq Partners
  /\ against \subseteq Obstacles
  /\ page \in [Devices -> PageRecords]
  /\ txs \in [TxIds -> TxRecords]
  /\ proof \in TxIds \cup {NoSig}
  /\ event \in [status : {"pending", "failed", "confirmed"},
                sig : TxIds \cup {NoSig}]
  /\ late \in BOOLEAN

\* A scan that the server signed for a wallet is anchored by no other one,
\* on whichever device it is opened and however often wallets are switched
\* while a press is under way.  The program does not check it: the signed
\* message names no attester.
AnchoredByItsWallet ==
  proof # NoSig => signedFor \in {NoWallet, Attester}

\* No scan is signed in vain for its claim: the program refuses the tier and
\* role that the page let the user ask for and the server signed only if the
\* wallet is no partner any more, whichever device and wallet sends it and
\* whatever was changed on the page.  What else it refuses a scan for comes
\* from the chain: too late, anchored before, or something against it.  "It
\* would do so only after the server had signed."
SignedIsAccepted ==
  [][\A t \in TxIds : txs[t].status = "seen" /\ txs'[t].status = "failed" =>
       \/ late \/ proof # NoSig \/ against # {}
       \/ needsPartnerWallet(claim) /\ signedFor \notin partners]_vars

\* "Done" is never shown for a transaction that did not anchor the scan,
\* though a page may wait for one transaction while another one of the same
\* scan lands, and what is confirmed is never undone.
DoneIsAnchored ==
  \A d \in Devices : page[d].step = "done" =>
    /\ proof # NoSig /\ page[d].landed = proof
    /\ event = [status |-> "confirmed", sig |-> proof]

Stays(d, w) == page[d].step = "tx" /\ page[d].wallet = w /\ MayAnchor(page[d])

\* A wallet that stays on the page gets its anchored scan into the history
\* by pressing again, without the reconcile job: whatever answers were lost,
\* whether a transaction was taken for lost and sent again, and whichever
\* copy landed.  "Instead of posting the same signature forever."
AnchoredGetsConfirmed ==
  \A d \in Devices : \A w \in Installed[d] :
    (Attester = w /\ Stays(d, w)) ~> (event.status = "confirmed" \/ ~Stays(d, w))

=============================================================================
