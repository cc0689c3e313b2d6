---------------------------- MODULE AnchorProofs -----------------------------
(***************************************************************************)
(* Proofs about the anchor step of a scan (module Anchor): any wallets on  *)
(* the two devices, any partners, roles and tiers, any number of           *)
(* transactions.                                                           *)
(*                                                                         *)
(* What is promised about the chain and about "done" rests on what a press *)
(* holds while its calls are under way, and on what was sent by then.      *)
(***************************************************************************)
EXTENDS Anchor, FiniteSetTheorems, TLAPS

USE AnchorAssumption

-----------------------------------------------------------------------------
(* The inductive invariant                                                 *)

\* A certified scan is signed for a wallet, and has a professional role.
ClaimSigned ==
  /\ (claim.tier >= Certified) <=> claim.role \in ProRoles
  /\ needsPartnerWallet(claim) => signedFor # NoWallet

\* Transactions are sent one after the other.
SentInOrder ==
  \E n \in 0..MaxTxs : \A t \in TxIds : txs[t].status # "unsent" <=> t <= n

\* Who may anchor the scan: any wallet, or the one that it was signed for.
MayAttest(w) == w \in Wallets /\ signedFor \in {NoWallet, w}

\* What was sent makes the claim that was signed, for a wallet that may.
SentByItsWallet ==
  \A t \in TxIds :
    /\ txs[t].claim = claim
    /\ txs[t].status # "unsent" => MayAttest(txs[t].by)

\* A press holds a wallet that may anchor, and a transaction once it has one.
\* A page that is done, and one that has no scan, are at rest.
Pressing ==
  \A d \in Devices :
    /\ page[d].at # "idle" => page[d].step = "tx" /\ MayAttest(page[d].me)
    /\ page[d].at = "find" => proof # NoSig
    /\ page[d].at \in {"await", "confirm"} => page[d].sig # NoSig

\* The proof is the transaction that landed, and an event with a signature is
\* confirmed with that of the proof.
OneLands ==
  /\ proof # NoSig => txs[proof].status = "landed"
  /\ \A t \in TxIds : txs[t].status = "landed" => t = proof
  /\ event.sig # NoSig => event = [status |-> "confirmed", sig |-> proof]

IInv == /\ TypeOK /\ ClaimSigned /\ SentInOrder /\ SentByItsWallet
        /\ Pressing /\ OneLands /\ DoneIsAnchored

-----------------------------------------------------------------------------
(* Pages                                                                   *)

\* A page takes a new state, the other one keeps its own.
LEMMA SetDoes ==
  ASSUME page \in [Devices -> PageRecords], NEW d \in Devices,
         NEW q \in PageRecords, Set(d, q)
  PROVE  /\ page' \in [Devices -> PageRecords] /\ page'[d] = q
         /\ \A e \in Devices : e # d => page'[e] = page[e]
BY DEF Set

\* The end of a press.
LEMMA EndedIs ==
  ASSUME NEW p \in PageRecords, NEW landed \in TxIds \cup {NoSig}
  PROVE  /\ Ended(p, landed) \in PageRecords
         /\ Ended(p, landed).step = p.step /\ Ended(p, landed).at = "idle"
         /\ Ended(p, landed).landed = landed
BY DEF Ended, PageRecords

\* What may hold of one page, whatever the other one does.
PageFits(p) ==
  /\ p.at # "idle" => p.step = "tx" /\ MayAttest(p.me)
  /\ p.at = "find" => proof # NoSig
  /\ p.at \in {"await", "confirm"} => p.sig # NoSig

\* A step of one page that sends and asks nothing.
LEMMA PageSteps ==
  ASSUME IInv, NEW d \in Devices, NEW q \in PageRecords, Set(d, q),
         PageFits(q), q.step # "done",
         UNCHANGED <<signedFor, claim, partners, against, txs, proof, event, late>>
  PROVE  IInv'
<1>1. /\ page' \in [Devices -> PageRecords] /\ page'[d] = q
      /\ \A e \in Devices : e # d => page'[e] = page[e]
  BY SetDoes DEF IInv, TypeOK
<1>2. TypeOK'
  BY <1>1 DEF IInv, TypeOK
<1>3. ClaimSigned' /\ SentInOrder' /\ SentByItsWallet' /\ OneLands'
  BY DEF IInv, ClaimSigned, SentInOrder, SentByItsWallet, MayAttest, OneLands,
         needsPartnerWallet
<1>4. Pressing'
  BY <1>1 DEF IInv, Pressing, PageFits, MayAttest
<1>5. DoneIsAnchored'
  BY <1>1 DEF IInv, DoneIsAnchored
<1> QED
  BY <1>2, <1>3, <1>4, <1>5 DEF IInv

\* A page, as the invariant has it.
LEMMA PageIs ==
  ASSUME IInv, NEW d \in Devices
  PROVE  page[d] \in PageRecords /\ PageFits(page[d])
BY DEF IInv, TypeOK, Pressing, PageFits

\* The page is closed.
LEMMA ClosedIs ==
  ClosedPage \in PageRecords /\ PageFits(ClosedPage) /\ ClosedPage.step = "none"
BY DEF ClosedPage, PageRecords, PageFits

-----------------------------------------------------------------------------
(* The user                                                                *)

\* Wallets may be switched while a press is under way: it holds its own.
LEMMA ConnectKeeps ==
  ASSUME IInv, NEW d \in Devices, NEW w \in Wallets \cup {NoWallet}, Connect(d, w)
  PROVE  IInv'
<1> DEFINE q == [page[d] EXCEPT !.wallet = w]
<1>1. page[d] \in PageRecords /\ PageFits(page[d]) /\ page[d].step = "tx"
  BY PageIs DEF Connect
<1>2. q \in PageRecords /\ PageFits(q) /\ q.step = "tx"
  BY <1>1 DEF PageRecords, PageFits
<1>3. Set(d, q) /\ UNCHANGED <<signedFor, claim, partners, against, txs, proof, event, late>>
  BY DEF Connect, scanVars
<1> HIDE DEF q
<1> QED
  BY <1>2, <1>3, PageSteps

\* The scan is opened on the other device.
LEMMA OpenLinkKeeps ==
  ASSUME IInv, OpenLink
  PROVE  IInv'
<1> DEFINE q == [page[Link] EXCEPT !.step = "tx", !.resumed = TRUE]
<1>1. /\ Link \in Devices /\ page[Link] \in PageRecords /\ PageFits(page[Link])
      /\ page[Link].step = "none"
  BY PageIs DEF OpenLink, Devices
<1>2. q \in PageRecords /\ q.step = "tx"
  BY <1>1 DEF PageRecords
<1>3. q.at = page[Link].at /\ page[Link].at = "idle"
  BY <1>1 DEF PageRecords, PageFits
<1>4. Set(Link, q)
      /\ UNCHANGED <<signedFor, claim, partners, against, txs, proof, event, late>>
  BY DEF OpenLink, scanVars
<1> HIDE DEF q
<1>5. PageFits(q)
  BY <1>3 DEF PageFits
<1> QED
  BY <1>1, <1>2, <1>4, <1>5, PageSteps

\* "This is my own scan of this bottle."
LEMMA TickOwnScanKeeps ==
  ASSUME IInv, NEW d \in Devices, TickOwnScan(d)
  PROVE  IInv'
<1>1. page[d] \in PageRecords /\ PageFits(page[d]) /\ page[d].step = "tx"
  BY PageIs DEF TickOwnScan
<1>2. PICK own \in BOOLEAN : Set(d, [page[d] EXCEPT !.own = own])
  BY DEF TickOwnScan
<1> DEFINE q == [page[d] EXCEPT !.own = own]
<1>3. q \in PageRecords /\ PageFits(q) /\ q.step = "tx"
  BY <1>1 DEF PageRecords, PageFits
<1>4. Set(d, q) /\ UNCHANGED <<signedFor, claim, partners, against, txs, proof, event, late>>
  BY <1>2 DEF TickOwnScan, scanVars
<1> HIDE DEF q
<1> QED
  BY <1>3, <1>4, PageSteps

\* A press begins with a wallet that may anchor the scan.
LEMMA PressKeeps ==
  ASSUME IInv, NEW d \in Devices, Press(d)
  PROVE  IInv'
<1>1. page[d] \in PageRecords /\ page[d].step = "tx" /\ MayAnchor(page[d])
  BY PageIs DEF Press, Idle
<1>2. MayAttest(page[d].wallet) /\ page[d].wallet \in Wallets
  BY <1>1 DEF MayAnchor, MayAttest, PageRecords
<1>3. PICK at \in {"look", "confirm"} :
        /\ Set(d, [page[d] EXCEPT !.me = page[d].wallet, !.sig = page[d].landed,
                                  !.at = at])
        /\ at = "confirm" => page[d].landed # NoSig
  BY DEF Press
<1> DEFINE q == [page[d] EXCEPT !.me = page[d].wallet, !.sig = page[d].landed,
                                !.at = at]
<1>4. /\ q \in PageRecords /\ q.step = "tx" /\ q.me = page[d].wallet
      /\ q.at = at /\ q.sig = page[d].landed
  BY <1>1 DEF PageRecords
<1>5. Set(d, q) /\ UNCHANGED <<signedFor, claim, partners, against, txs, proof, event, late>>
  BY <1>3 DEF Press, scanVars
<1> HIDE DEF q
<1>6. PageFits(q)
  BY <1>2, <1>3, <1>4 DEF PageFits
<1> QED
  BY <1>4, <1>5, <1>6, PageSteps

\* What a closed page knew is gone.
LEMMA CloseKeeps ==
  ASSUME IInv, NEW d \in Devices, Close(d)
  PROVE  IInv'
<1>1. Set(d, ClosedPage)
      /\ UNCHANGED <<signedFor, claim, partners, against, txs, proof, event, late>>
  BY DEF Close, scanVars
<1> QED
  BY <1>1, ClosedIs, PageSteps

-----------------------------------------------------------------------------
(* One press                                                               *)

\* A press that ends leaves a page at rest in the tx step.
LEMMA EndKeeps ==
  ASSUME IInv, NEW d \in Devices, NEW landed \in TxIds \cup {NoSig},
         page[d].at # "idle", Set(d, Ended(page[d], landed)),
         UNCHANGED <<signedFor, claim, partners, against, txs, proof, event, late>>
  PROVE  IInv'
<1>1. page[d] \in PageRecords /\ page[d].step = "tx"
  BY PageIs DEF PageFits
<1>2. /\ Ended(page[d], landed) \in PageRecords
      /\ Ended(page[d], landed).step = "tx" /\ Ended(page[d], landed).at = "idle"
  BY <1>1, EndedIs
<1>3. PageFits(Ended(page[d], landed))
  BY <1>2 DEF PageFits
<1> QED
  BY <1>2, <1>3, PageSteps

\* A press that goes on.
LEMMA GoesOn ==
  ASSUME IInv, NEW d \in Devices, page[d].at # "idle",
         NEW at \in {"sign", "find", "confirm"}, NEW sig \in TxIds \cup {NoSig},
         Set(d, [page[d] EXCEPT !.at = at, !.sig = sig]),
         at = "find" => proof # NoSig, at = "confirm" => sig # NoSig,
         UNCHANGED <<signedFor, claim, partners, against, txs, proof, event, late>>
  PROVE  IInv'
<1> DEFINE q == [page[d] EXCEPT !.at = at, !.sig = sig]
<1>1. page[d] \in PageRecords /\ page[d].step = "tx" /\ MayAttest(page[d].me)
  BY PageIs DEF PageFits
<1>2. /\ q \in PageRecords /\ q.step = "tx" /\ q.me = page[d].me
      /\ q.at = at /\ q.sig = sig
  BY <1>1 DEF PageRecords
<1> HIDE DEF q
<1>3. PageFits(q)
  BY <1>1, <1>2 DEF PageFits
<1>4. Set(d, q)
  BY DEF q
<1> QED
  BY <1>2, <1>3, <1>4, PageSteps

\* The proof that is there is of the same wallet, of another one, or none.
LEMMA LookKeeps ==
  ASSUME IInv, NEW d \in Devices, Look(d)
  PROVE  IInv'
<1>1. /\ page[d] \in PageRecords /\ page[d].at = "look"
      /\ UNCHANGED <<signedFor, claim, partners, against, txs, proof, event, late>>
  BY PageIs DEF Look, scanVars
<1>2. CASE AnchorPlan(page[d].me) = "refuse"
  BY <1>1, <1>2, EndKeeps DEF Look
<1>3. CASE AnchorPlan(page[d].me) = "send"
  <2>1. [page[d] EXCEPT !.at = "sign"]
          = [page[d] EXCEPT !.at = "sign", !.sig = page[d].sig]
    BY <1>1 DEF PageRecords
  <2>2. page[d].sig \in TxIds \cup {NoSig}
    BY <1>1 DEF PageRecords
  <2> QED
    BY <1>1, <1>3, <2>1, <2>2, GoesOn DEF Look
<1>4. CASE AnchorPlan(page[d].me) = "recover"
  <2>1. [page[d] EXCEPT !.at = "find"]
          = [page[d] EXCEPT !.at = "find", !.sig = page[d].sig]
    BY <1>1 DEF PageRecords
  <2>2. page[d].sig \in TxIds \cup {NoSig}
    BY <1>1 DEF PageRecords
  <2>3. proof # NoSig
    BY <1>4 DEF AnchorPlan, Attester
  <2> QED
    BY <1>1, <1>4, <2>1, <2>2, <2>3, GoesOn DEF Look
<1> QED
  BY <1>2, <1>3, <1>4 DEF AnchorPlan

\* The transaction found is the one that created the proof.
LEMMA FindKeeps ==
  ASSUME IInv, NEW d \in Devices, Find(d)
  PROVE  IInv'
<1>1. /\ page[d].at = "find" /\ proof # NoSig /\ proof \in TxIds \cup {NoSig}
      /\ UNCHANGED <<signedFor, claim, partners, against, txs, proof, event, late>>
  BY PageIs DEF Find, scanVars, PageFits, IInv, TypeOK
<1>2. CASE Set(d, [page[d] EXCEPT !.at = "confirm", !.sig = proof])
  BY <1>1, <1>2, GoesOn
<1>3. CASE Set(d, Ended(page[d], NoSig))
  BY <1>1, <1>3, EndKeeps
<1> QED
  BY <1>2, <1>3 DEF Find

\* The next transaction has not been sent.
LEMMA NextTxIs ==
  ASSUME SentInOrder, NextTx \in TxIds
  PROVE  \E n \in 0..MaxTxs :
           /\ NextTx = n + 1
           /\ \A t \in TxIds : txs[t].status # "unsent" <=> t <= n
<1>1. PICK n \in 0..MaxTxs : \A t \in TxIds : txs[t].status # "unsent" <=> t <= n
  BY DEF SentInOrder
<1>2. {t \in TxIds : txs[t].status # "unsent"} = 1..n
  BY <1>1 DEF TxIds
<1>3. Cardinality(1..n) = n
  BY FS_Interval
<1>4. NextTx = n + 1
  BY <1>2, <1>3 DEF NextTx
<1> QED
  BY <1>1, <1>4

\* Signed and sent: by the wallet of the press, for the claim of the scan.
LEMMA SignKeeps ==
  ASSUME IInv, NEW d \in Devices, Sign(d)
  PROVE  IInv'
<1> DEFINE q == [page[d] EXCEPT !.at = "await", !.sig = NextTx]
           tx == RecordScanTx(page[d].me)
<1>1. /\ page[d] \in PageRecords /\ page[d].step = "tx"
      /\ MayAttest(page[d].me) /\ NextTx \in TxIds
  BY PageIs DEF PageFits, Sign
<1>2. PICK n \in 0..MaxTxs :
        /\ NextTx = n + 1
        /\ \A t \in TxIds : txs[t].status # "unsent" <=> t <= n
  BY <1>1, NextTxIs DEF IInv
<1>3. /\ q \in PageRecords /\ q.step = "tx" /\ q.me = page[d].me
      /\ q.at = "await" /\ q.sig = NextTx
  BY <1>1 DEF PageRecords
<1>4. NextTx # NoSig
  BY <1>1 DEF TxIds, NoSig
<1>5. /\ tx \in TxRecords /\ tx.by = page[d].me
      /\ tx.claim = claim /\ tx.status = "sent"
  BY <1>1 DEF RecordScanTx, TxRecords, PageRecords, IInv, TypeOK
<1>6. /\ txs' = [txs EXCEPT ![NextTx] = tx] /\ Set(d, q)
      /\ UNCHANGED <<signedFor, claim, partners, against, proof, event, late>>
  BY DEF Sign, scanVars
<1> HIDE DEF q, tx
<1>7. /\ txs' \in [TxIds -> TxRecords] /\ txs'[NextTx] = tx
      /\ \A t \in TxIds : t # NextTx => txs'[t] = txs[t]
  BY <1>1, <1>5, <1>6 DEF IInv, TypeOK
<1>8. /\ page' \in [Devices -> PageRecords] /\ page'[d] = q
      /\ \A e \in Devices : e # d => page'[e] = page[e]
  BY <1>3, <1>6, SetDoes DEF IInv, TypeOK
<1>9. TypeOK'
  BY <1>6, <1>7, <1>8 DEF IInv, TypeOK
<1>10. ClaimSigned'
  BY <1>6 DEF IInv, ClaimSigned, needsPartnerWallet
<1>11. SentInOrder'
  <2>1. n + 1 \in 0..MaxTxs
    BY <1>1, <1>2 DEF TxIds
  <2>2. \A t \in TxIds : txs'[t].status # "unsent" <=> t <= n + 1
    BY <1>2, <1>5, <1>7 DEF TxIds
  <2> QED
    BY <2>1, <2>2 DEF SentInOrder
<1>12. SentByItsWallet'
  BY <1>1, <1>5, <1>6, <1>7 DEF IInv, SentByItsWallet, MayAttest
<1>13. Pressing'
  BY <1>1, <1>3, <1>4, <1>6, <1>8 DEF IInv, Pressing, MayAttest
<1>14. OneLands'
  <2>1. txs[NextTx].status = "unsent"
    BY <1>1, <1>2 DEF TxIds
  <2>2. proof # NoSig => proof # NextTx /\ proof \in TxIds
    BY <2>1 DEF IInv, TypeOK, OneLands
  <2> QED
    BY <1>5, <1>6, <1>7, <2>2 DEF IInv, OneLands
<1>15. DoneIsAnchored'
  BY <1>3, <1>6, <1>8 DEF IInv, DoneIsAnchored
<1> QED
  BY <1>9, <1>10, <1>11, <1>12, <1>13, <1>14, <1>15 DEF IInv

\* The user declines, or the call fails.
LEMMA SignFailsKeeps ==
  ASSUME IInv, NEW d \in Devices, SignFails(d)
  PROVE  IInv'
BY EndKeeps DEF SignFails, scanVars

\* The page has waited for its transaction.
LEMMA AwaitKeeps ==
  ASSUME IInv, NEW d \in Devices, Await(d)
  PROVE  IInv'
<1>1. /\ page[d] \in PageRecords /\ page[d].at = "await"
      /\ page[d].sig # NoSig
      /\ UNCHANGED <<signedFor, claim, partners, against, txs, proof, event, late>>
  BY PageIs DEF Await, scanVars, PageFits
<1>2. [page[d] EXCEPT !.at = "confirm"]
        = [page[d] EXCEPT !.at = "confirm", !.sig = page[d].sig]
  BY <1>1 DEF PageRecords
<1>3. page[d].sig \in TxIds \cup {NoSig}
  BY <1>1 DEF PageRecords
<1>4. CASE Set(d, [page[d] EXCEPT !.at = "confirm"])
  BY <1>1, <1>2, <1>3, <1>4, GoesOn
<1>5. CASE Set(d, Ended(page[d], NoSig))
  BY <1>1, <1>5, EndKeeps
<1> QED
  BY <1>4, <1>5 DEF Await

\* What the verifier answers to a confirmation: "ok" for the transaction of
\* the proof alone, and an event that has a signature keeps it.
LEMMA ServedIs ==
  ASSUME IInv, NEW d \in Devices, page[d].at = "confirm"
  PROVE  LET served == Served(page[d]) IN
         /\ served.event \in [status : {"pending", "failed", "confirmed"},
                              sig : TxIds \cup {NoSig}]
         /\ event.sig # NoSig => served.event = event
         /\ served.event.sig # NoSig =>
              served.event = [status |-> "confirmed", sig |-> proof]
         /\ served.answer = "ok" =>
              /\ page[d].sig = proof /\ proof # NoSig
              /\ served.event = [status |-> "confirmed", sig |-> proof]
<1> DEFINE p == page[d]
           Events == [status : {"pending", "failed", "confirmed"},
                      sig : TxIds \cup {NoSig}]
<1>1. p \in PageRecords /\ p.sig # NoSig /\ p.sig \in TxIds
  <2>1. page[d] \in PageRecords /\ PageFits(page[d])
    BY PageIs
  <2> QED
    BY <2>1 DEF PageFits, PageRecords
<1>2. /\ event \in Events
      /\ event.sig # NoSig => event = [status |-> "confirmed", sig |-> proof]
  BY DEF IInv, TypeOK, OneLands
<1>3. event.sig # NoSig => event.status = "confirmed" /\ event.sig = proof
  BY <1>2
<1> HIDE DEF p
<1>4. CASE event.status = "confirmed" /\ event.sig = p.sig
  <2>1. Served(p) = [answer |-> "ok", event |-> event]
    BY <1>4 DEF Served
  <2>2. event = [status |-> "confirmed", sig |-> proof] /\ event.sig = proof
    BY <1>1, <1>2, <1>3, <1>4
  <2>3. Served(p).answer = "ok" /\ Served(p).event = event
    BY <2>1
  <2> QED
    BY <1>1, <1>2, <1>4, <2>2, <2>3 DEF p, IInv, TypeOK
<1>5. CASE event.status = "confirmed" /\ event.sig # NoSig /\ event.sig # p.sig
  <2>1. Served(p) = [answer |-> "event_confirmed", event |-> event]
    BY <1>5 DEF Served
  <2>2. Served(p).answer = "event_confirmed" /\ Served(p).event = event
    BY <2>1
  <2> QED
    BY <1>2, <2>2 DEF p, IInv, TypeOK
<1>6. CASE ~(event.status = "confirmed" /\ event.sig \in {p.sig} \cup TxIds)
  <2>1. event.sig = NoSig
    BY <1>2, <1>3, <1>6 DEF IInv, TypeOK
  <2>2. CASE txs[p.sig].status = "failed"
    <3> DEFINE e == IF event.status = "pending" /\ signedFor = p.me
                    THEN [event EXCEPT !.status = "failed"] ELSE event
    <3>1. Served(p) = [answer |-> "tx_failed", event |-> e]
      BY <1>1, <1>6, <2>1, <2>2 DEF Served
    <3>2. e \in Events /\ e.sig = NoSig
      BY <2>1 DEF IInv, TypeOK
    <3> HIDE DEF e
    <3>3. Served(p).answer = "tx_failed" /\ Served(p).event = e
      BY <3>1
    <3> QED
      BY <2>1, <3>2, <3>3 DEF p
  <2>3. CASE txs[p.sig].status = "landed"
    <3>1. Served(p) = [answer |-> "ok",
                       event |-> [status |-> "confirmed", sig |-> p.sig]]
      BY <1>1, <1>6, <2>1, <2>3 DEF Served
    <3>2. p.sig = proof /\ proof # NoSig
      BY <1>1, <2>3 DEF IInv, OneLands
    <3>3. /\ Served(p).answer = "ok"
          /\ Served(p).event = [status |-> "confirmed", sig |-> proof]
      BY <3>1, <3>2
    <3> QED
      BY <1>1, <2>1, <3>2, <3>3 DEF p
  <2>4. CASE txs[p.sig].status \notin {"failed", "landed"}
    <3>1. Served(p) = [answer |-> "tx_not_visible", event |-> event]
      BY <1>1, <1>6, <2>1, <2>4 DEF Served
    <3>2. Served(p).answer = "tx_not_visible" /\ Served(p).event = event
      BY <3>1
    <3> QED
      BY <2>1, <3>2 DEF p, IInv, TypeOK
  <2> QED
    BY <2>2, <2>3, <2>4
<1>7. 0 \notin TxIds
  BY DEF TxIds
<1> QED
  BY <1>1, <1>4, <1>5, <1>6, <1>7 DEF NoSig

\* An answer of the verifier, whether it arrives or not: a page that is done
\* is done with the proof.
LEMMA Answers ==
  ASSUME IInv, NEW d \in Devices, page[d].at = "confirm",
         NEW q \in PageRecords, Set(d, q), PageFits(q), q.at = "idle",
         event' \in {event, Served(page[d]).event},
         q.step = "done" => /\ Served(page[d]).answer = "ok"
                            /\ event' = Served(page[d]).event
                            /\ q.landed = page[d].sig,
         UNCHANGED <<signedFor, claim, partners, against, txs, proof, late>>
  PROVE  IInv'
<1>1. /\ page' \in [Devices -> PageRecords] /\ page'[d] = q
      /\ \A e \in Devices : e # d => page'[e] = page[e]
  BY SetDoes DEF IInv, TypeOK
<1>2. /\ event' \in [status : {"pending", "failed", "confirmed"},
                     sig : TxIds \cup {NoSig}]
      /\ event.sig # NoSig => event' = event
      /\ event'.sig # NoSig => event' = [status |-> "confirmed", sig |-> proof]
      /\ q.step = "done" =>
           /\ q.landed = proof /\ proof # NoSig
           /\ event' = [status |-> "confirmed", sig |-> proof]
  <2>1. CASE event' = event /\ q.step # "done"
    BY <2>1 DEF IInv, TypeOK, OneLands
  <2>2. CASE event' = Served(page[d]).event
    BY <2>2, ServedIs
  <2> QED
    BY <2>1, <2>2
<1>3. TypeOK'
  BY <1>1, <1>2 DEF IInv, TypeOK
<1>4. ClaimSigned' /\ SentInOrder' /\ SentByItsWallet'
  BY DEF IInv, ClaimSigned, SentInOrder, SentByItsWallet, MayAttest,
         needsPartnerWallet
<1>5. Pressing'
  BY <1>1 DEF IInv, Pressing, PageFits, MayAttest
<1>6. OneLands'
  BY <1>2 DEF IInv, OneLands
<1>7. DoneIsAnchored'
  <2>1. \A e \in Devices : e # d /\ page[e].step = "done" => event' = event
    BY <1>2 DEF IInv, DoneIsAnchored
  <2> QED
    BY <1>1, <1>2, <2>1 DEF IInv, DoneIsAnchored
<1> QED
  BY <1>3, <1>4, <1>5, <1>6, <1>7 DEF IInv

\* The page of a press whose answer is there: done, or at rest.
LEMMA ConfirmKeeps ==
  ASSUME IInv, NEW d \in Devices, Confirm(d)
  PROVE  IInv'
<1>1. /\ page[d] \in PageRecords /\ page[d].at = "confirm"
      /\ page[d].step = "tx" /\ page[d].sig \in TxIds \cup {NoSig}
      /\ event' = Served(page[d]).event
      /\ UNCHANGED <<signedFor, claim, partners, against, txs, proof, late>>
  BY PageIs DEF Confirm, scanVars, PageFits, PageRecords
<1>2. CASE Served(page[d]).answer = "ok"
  <2> DEFINE p == Ended(page[d], page[d].sig)
             q == [p EXCEPT !.step = "done"]
  <2>1. p \in PageRecords /\ p.at = "idle" /\ p.landed = page[d].sig
    BY <1>1, EndedIs
  <2>2. Set(d, q)
    BY <1>2 DEF Confirm
  <2> HIDE DEF p
  <2>3. /\ q \in PageRecords /\ q.at = "idle" /\ q.landed = page[d].sig
        /\ q.step = "done"
    BY <2>1 DEF PageRecords
  <2> HIDE DEF q
  <2>4. PageFits(q)
    BY <2>3 DEF PageFits
  <2> QED
    BY <1>1, <1>2, <2>2, <2>3, <2>4, Answers
<1>3. CASE Served(page[d]).answer # "ok"
  <2>1. PICK landed \in TxIds \cup {NoSig} : Set(d, Ended(page[d], landed))
    BY <1>1, <1>3 DEF Confirm
  <2>2. /\ Ended(page[d], landed) \in PageRecords
        /\ Ended(page[d], landed).step = "tx" /\ Ended(page[d], landed).at = "idle"
    BY <1>1, EndedIs
  <2>3. PageFits(Ended(page[d], landed))
    BY <2>2 DEF PageFits
  <2> QED
    BY <1>1, <2>1, <2>2, <2>3, Answers
<1> QED
  BY <1>2, <1>3

\* The request or its answer is lost.
LEMMA ConfirmLostKeeps ==
  ASSUME IInv, NEW d \in Devices, ConfirmLost(d)
  PROVE  IInv'
<1> DEFINE q == Ended(page[d], page[d].sig)
<1>1. /\ page[d] \in PageRecords /\ page[d].at = "confirm"
      /\ page[d].step = "tx" /\ page[d].sig \in TxIds \cup {NoSig}
      /\ event' \in {event, Served(page[d]).event} /\ Set(d, q)
      /\ UNCHANGED <<signedFor, claim, partners, against, txs, proof, late>>
  BY PageIs DEF ConfirmLost, scanVars, PageFits, PageRecords
<1>2. q \in PageRecords /\ q.step = "tx" /\ q.at = "idle"
  BY <1>1, EndedIs
<1> HIDE DEF q
<1>3. PageFits(q)
  BY <1>2 DEF PageFits
<1> QED
  BY <1>1, <1>2, <1>3, Answers

-----------------------------------------------------------------------------
(* Chain and verifier                                                      *)

\* A transaction that was sent gets another status.
LEMMA TxMoves ==
  ASSUME IInv, NEW t \in TxIds, txs[t].status \notin {"unsent", "landed"},
         NEW status \in {"seen", "landed", "failed", "dropped"},
         txs' = [txs EXCEPT ![t].status = status],
         IF status = "landed" THEN proof = NoSig /\ proof' = t
         ELSE proof' = proof,
         UNCHANGED <<signedFor, claim, partners, against, page, event, late>>
  PROVE  IInv'
<1>1. /\ txs' \in [TxIds -> TxRecords]
      /\ txs'[t].status = status /\ txs'[t].by = txs[t].by
      /\ txs'[t].claim = txs[t].claim
      /\ \A u \in TxIds : u # t => txs'[u] = txs[u]
  BY DEF IInv, TypeOK, TxRecords
<1>2. t # NoSig
  BY DEF TxIds, NoSig
<1>3. /\ proof' \in TxIds \cup {NoSig} /\ (proof # NoSig => proof' = proof)
      /\ proof # NoSig => proof # t /\ proof \in TxIds
  BY DEF IInv, TypeOK, OneLands
<1>4. TypeOK'
  BY <1>1, <1>3 DEF IInv, TypeOK
<1>5. ClaimSigned'
  BY DEF IInv, ClaimSigned, needsPartnerWallet
<1>6. SentInOrder'
  <2>1. \A u \in TxIds : txs'[u].status # "unsent" <=> txs[u].status # "unsent"
    BY <1>1
  <2>2. PICK n \in 0..MaxTxs : \A u \in TxIds : txs[u].status # "unsent" <=> u <= n
    BY DEF IInv, SentInOrder
  <2> QED
    BY <2>1, <2>2 DEF SentInOrder
<1>7. SentByItsWallet'
  BY <1>1 DEF IInv, SentByItsWallet, MayAttest
<1>8. Pressing'
  BY <1>3 DEF IInv, Pressing, MayAttest
<1>9. OneLands' /\ DoneIsAnchored'
  <2>1. proof' # NoSig => txs'[proof'].status = "landed"
    BY <1>1, <1>3 DEF IInv, OneLands
  <2>2. ASSUME NEW u \in TxIds, txs'[u].status = "landed" PROVE u = proof'
    <3>1. CASE u = t
      BY <1>1, <2>2, <3>1
    <3>2. CASE u # t
      <4>1. u = proof /\ u # NoSig
        BY <1>1, <2>2, <3>2 DEF IInv, OneLands, TxIds, NoSig
      <4> QED
        BY <1>3, <4>1
    <3> QED
      BY <3>1, <3>2
  <2>0. /\ event \in [status : {"pending", "failed", "confirmed"},
                     sig : TxIds \cup {NoSig}]
        /\ event.sig # NoSig => event = [status |-> "confirmed", sig |-> proof]
    BY DEF IInv, TypeOK, OneLands
  <2>3. event.sig # NoSig => proof # NoSig
    BY <2>0
  <2>4. event'.sig # NoSig => event' = [status |-> "confirmed", sig |-> proof']
    BY <1>3, <2>3 DEF IInv, OneLands
  <2>5. OneLands'
    BY <2>1, <2>2, <2>4 DEF OneLands
  <2>6. DoneIsAnchored'
    BY <1>3 DEF IInv, DoneIsAnchored
  <2> QED
    BY <2>5, <2>6
<1> QED
  BY <1>4, <1>5, <1>6, <1>7, <1>8, <1>9 DEF IInv

\* Transactions are seen, executed or dropped, in any order.
LEMMA ChainKeeps ==
  ASSUME IInv, NEW t \in TxIds, Seen(t) \/ Executes(t) \/ Dropped(t)
  PROVE  IInv'
<1>1. UNCHANGED <<signedFor, claim, partners, against, page, event, late>>
  BY DEF Seen, Executes, Dropped, scanVars
<1>2. CASE Seen(t)
  BY <1>1, <1>2, TxMoves DEF Seen
<1>3. CASE Dropped(t)
  BY <1>1, <1>3, TxMoves DEF Dropped
<1>4. CASE Executes(t)
  <2>1. txs[t].status = "seen"
    BY <1>4 DEF Executes
  <2>2. CASE proof = NoSig /\ ~late /\ RoleAllowed(txs[t].claim, txs[t].by)
    BY <1>1, <1>4, <2>1, <2>2, TxMoves DEF Executes
  <2>3. CASE ~(proof = NoSig /\ ~late /\ RoleAllowed(txs[t].claim, txs[t].by))
    BY <1>1, <1>4, <2>1, <2>3, TxMoves DEF Executes
  <2> QED
    BY <2>2, <2>3
<1> QED
  BY <1>2, <1>3, <1>4

\* Time passes, the registry changes, and so does what is on chain.
LEMMA WorldKeeps ==
  ASSUME IInv, \/ TooOld \/ ObstacleArises \/ SiteAdded
               \/ \E w \in Partners : PartnerChanges(w)
  PROVE  IInv'
<1>1. /\ UNCHANGED <<signedFor, claim, page, txs, proof, event>>
      /\ partners' \subseteq Partners /\ late' \in BOOLEAN
      /\ against' \subseteq Obstacles
  BY DEF TooOld, ObstacleArises, SiteAdded, PartnerChanges, ObstaclesTo,
         scanVars, IInv, TypeOK
<1>2. TypeOK'
  BY <1>1 DEF IInv, TypeOK
<1>3. ClaimSigned' /\ SentInOrder' /\ SentByItsWallet' /\ OneLands'
  BY <1>1 DEF IInv, ClaimSigned, SentInOrder, SentByItsWallet, MayAttest,
              OneLands, needsPartnerWallet
<1>4. Pressing' /\ DoneIsAnchored'
  BY <1>1 DEF IInv, Pressing, MayAttest, DoneIsAnchored
<1> QED
  BY <1>2, <1>3, <1>4 DEF IInv

\* The reconcile job confirms or fails what no answer has confirmed.
LEMMA ReconcileKeeps ==
  ASSUME IInv, Reconcile
  PROVE  IInv'
<1>1. /\ UNCHANGED <<signedFor, claim, partners, against, page, txs, proof, late>>
      /\ event.status # "confirmed" /\ event.sig = NoSig
  BY DEF Reconcile, scanVars, IInv, TypeOK, OneLands
<1>2. /\ event' \in [status : {"pending", "failed", "confirmed"},
                     sig : TxIds \cup {NoSig}]
      /\ event'.sig # NoSig => event' = [status |-> "confirmed", sig |-> proof]
  <2>1. CASE \E sig \in {proof, NoSig} :
               event' = [status |-> "confirmed", sig |-> sig]
    BY <2>1 DEF IInv, TypeOK
  <2>2. CASE event' = [event EXCEPT !.status = "failed"]
    BY <1>1, <2>2 DEF IInv, TypeOK
  <2> QED
    BY <2>1, <2>2 DEF Reconcile
<1>3. TypeOK'
  BY <1>1, <1>2 DEF IInv, TypeOK
<1>4. ClaimSigned' /\ SentInOrder' /\ SentByItsWallet' /\ OneLands'
  BY <1>1, <1>2 DEF IInv, ClaimSigned, SentInOrder, SentByItsWallet, MayAttest,
                    OneLands, needsPartnerWallet
<1>5. \A d \in Devices : page[d].step # "done"
  BY <1>1 DEF IInv, DoneIsAnchored
<1>6. Pressing' /\ DoneIsAnchored'
  BY <1>1, <1>5 DEF IInv, Pressing, MayAttest, DoneIsAnchored
<1> QED
  BY <1>3, <1>4, <1>6 DEF IInv

-----------------------------------------------------------------------------
(* Theorems                                                                *)

\* A signed scan that nobody has anchored, shown where it was made.
LEMMA InitInv == Init => IInv
<1> SUFFICES ASSUME Init PROVE IInv
  OBVIOUS
<1> DEFINE first == [ClosedPage EXCEPT !.step = "tx", !.wallet = signedFor]
           tx0 == [by |-> NoWallet, claim |-> claim, status |-> "unsent"]
<1>1. signedFor \in Wallets \cup {NoWallet}
  BY DEF Init, Devices
<1>2. PICK certified \in BOOLEAN : claim \in Asked(certified)
  BY DEF Init
<1>3. /\ claim.tier \in Tiers /\ (claim.tier >= Certified) = certified
      /\ claim.role \in roleChoices(certified) /\ claim.role \in Roles
      /\ claim \in Claims
  BY <1>2 DEF Asked, Claims
<1>4. (claim.tier >= Certified) <=> claim.role \in ProRoles
  BY <1>3 DEF roleChoices, ProRoles
<1>5. ClaimSigned
  BY <1>4 DEF Init, partnerWalletGate, ClaimSigned
<1>6. first \in PageRecords /\ first.at = "idle" /\ first.step = "tx"
  BY <1>1 DEF ClosedPage, PageRecords
<1>7. ClosedPage \in PageRecords /\ ClosedPage.at = "idle"
      /\ ClosedPage.step = "none"
  BY DEF ClosedPage, PageRecords
<1>8. tx0 \in TxRecords /\ tx0.claim = claim /\ tx0.status = "unsent"
  BY <1>3 DEF TxRecords
<1>9. /\ page = [d \in Devices |-> IF d = Maker THEN first ELSE ClosedPage]
      /\ txs = [t \in TxIds |-> tx0]
      /\ partners = Partners /\ proof = NoSig /\ late = FALSE
      /\ against \subseteq Obstacles
      /\ event = [status |-> "pending", sig |-> NoSig]
  BY DEF Init, ObstaclesTo
<1> HIDE DEF first, tx0
<1>10. /\ page \in [Devices -> PageRecords]
       /\ \A d \in Devices : page[d].at = "idle" /\ page[d].step # "done"
  BY <1>6, <1>7, <1>9
<1>11. /\ txs \in [TxIds -> TxRecords]
       /\ \A t \in TxIds : txs[t].claim = claim /\ txs[t].status = "unsent"
  BY <1>8, <1>9
<1>12. TypeOK
  BY <1>1, <1>3, <1>9, <1>10, <1>11 DEF TypeOK
<1>13. SentInOrder
  <2>1. 0 \in 0..MaxTxs /\ \A t \in TxIds : ~(t <= 0)
    BY DEF TxIds
  <2> QED
    BY <1>11, <2>1 DEF SentInOrder
<1>14. SentByItsWallet /\ Pressing /\ DoneIsAnchored
  BY <1>10, <1>11 DEF SentByItsWallet, Pressing, DoneIsAnchored
<1>15. OneLands
  BY <1>9, <1>11 DEF OneLands
<1> QED
  BY <1>5, <1>12, <1>13, <1>14, <1>15 DEF IInv

\* Every call of a press, the user, the chain and the verifier keep it.
LEMMA NextInv == IInv /\ [Next]_vars => IInv'
<1> SUFFICES ASSUME IInv, [Next]_vars PROVE IInv'
  OBVIOUS
<1>1. ASSUME NEW d \in Devices, Press1(d) PROVE IInv'
  BY <1>1, PressKeeps, LookKeeps, FindKeeps, SignKeeps, SignFailsKeeps,
     AwaitKeeps, ConfirmKeeps, ConfirmLostKeeps DEF Press1
<1>2. ASSUME NEW d \in Devices, User(d) PROVE IInv'
  <2>1. Installed[d] \subseteq Wallets
    OBVIOUS
  <2> QED
    BY <1>2, <2>1, ConnectKeeps, TickOwnScanKeeps, CloseKeeps DEF User
<1>3. CASE \/ OpenLink \/ TooOld \/ ObstacleArises \/ SiteAdded \/ Reconcile
           \/ \E w \in Partners : PartnerChanges(w)
  BY <1>3, OpenLinkKeeps, WorldKeeps, ReconcileKeeps
<1>4. CASE Chain
  BY <1>4, ChainKeeps DEF Chain
<1>5. CASE UNCHANGED vars
  <2>1. UNCHANGED <<signedFor, claim, partners, against, page, txs, proof, event, late>>
    BY <1>5 DEF vars, scanVars
  <2>2. TypeOK' /\ ClaimSigned' /\ SentInOrder' /\ SentByItsWallet'
    BY <2>1 DEF IInv, TypeOK, ClaimSigned, SentInOrder, SentByItsWallet,
                MayAttest, needsPartnerWallet
  <2>3. Pressing' /\ OneLands' /\ DoneIsAnchored'
    BY <2>1 DEF IInv, Pressing, MayAttest, OneLands, DoneIsAnchored
  <2> QED
    BY <2>2, <2>3 DEF IInv
<1> QED
  BY <1>1, <1>2, <1>3, <1>4, <1>5 DEF Next

\* IInv holds in every behaviour of the two devices, the chain and the
\* verifier.
THEOREM Invariant == Spec => []IInv
BY InitInv, NextInv, PTL DEF Spec

\* The pages, the transactions and the event keep their types.
THEOREM TypeCorrect == Spec => []TypeOK
<1>1. IInv => TypeOK
  BY DEF IInv
<1> QED
  BY <1>1, Invariant, PTL

\* A scan signed for a wallet is anchored by this wallet: the program, which
\* does not know for whom the server has signed, is never asked by another
\* one, on either device.
THEOREM AnchoredByTheSigned == Spec => []AnchoredByItsWallet
<1>1. IInv => AnchoredByItsWallet
  <2> SUFFICES ASSUME IInv, proof # NoSig PROVE signedFor \in {NoWallet, Attester}
    BY DEF AnchoredByItsWallet
  <2>1. proof \in TxIds /\ txs[proof].status # "unsent"
    BY DEF IInv, TypeOK, OneLands
  <2>2. MayAttest(txs[proof].by)
    BY <2>1 DEF IInv, SentByItsWallet
  <2> QED
    BY <2>2 DEF MayAttest, Attester
<1> QED
  BY <1>1, Invariant, PTL

\* "Done" means anchored and confirmed with the very transaction, and stays
\* true: no answer, late transaction or reconcile run undoes it.
THEOREM DoneMeansAnchored == Spec => []DoneIsAnchored
<1>1. IInv => DoneIsAnchored
  BY DEF IInv
<1> QED
  BY <1>1, Invariant, PTL

\* The tier and role that the page lets the user ask for and the server signs
\* are never what the program refuses a transaction for, unless the partner
\* is none any more: a scan that is in time, not anchored yet and that nothing
\* on chain stands against is accepted.
THEOREM NothingSignedInVain == Spec => SignedIsAccepted
<1>1. ASSUME IInv, [Next]_vars, NEW t \in TxIds,
             txs[t].status = "seen", txs'[t].status = "failed"
      PROVE  \/ late \/ proof # NoSig \/ against # {}
             \/ needsPartnerWallet(claim) /\ signedFor \notin partners
  <2>1. txs[t] \in TxRecords /\ txs \in [TxIds -> TxRecords]
    BY <1>1 DEF IInv, TypeOK
  <2>2. CASE Executes(t)
    <3> SUFFICES ASSUME ~late, proof = NoSig, against = {}
                 PROVE  needsPartnerWallet(claim) /\ signedFor \notin partners
      OBVIOUS
    <3>1. ~RoleAllowed(txs[t].claim, txs[t].by)
      BY <1>1, <2>1, <2>2 DEF Executes, TxRecords
    <3>2. txs[t].claim = claim /\ MayAttest(txs[t].by)
      BY <1>1 DEF IInv, SentByItsWallet
    <3>3. claim.tier \in Tiers /\ claim.tier \in Nat
      <4>1. claim.tier \in Tiers
        BY <1>1 DEF IInv, TypeOK, Claims
      <4>2. Tiers \subseteq 1..4
        BY AnchorAssumption
      <4>3. claim.tier \in 1..4
        BY <4>1, <4>2, Zenon
      <4>4. claim.tier \in Nat
        BY <4>3
      <4> QED
        BY <4>1, <4>4
    <3>4. claim.role \notin ProRoles => claim.tier <= SelfMedia
      BY <1>1, <3>3 DEF IInv, ClaimSigned, SelfMedia, Certified
    <3>5. needsPartnerWallet(claim) /\ txs[t].by \notin partners
      BY <3>1, <3>2, <3>4 DEF RoleAllowed, needsPartnerWallet
    <3>6. signedFor # NoWallet
      BY <1>1, <3>5 DEF IInv, ClaimSigned
    <3> QED
      BY <3>2, <3>5, <3>6 DEF MayAttest
  <2>3. CASE \E u \in TxIds : \/ Seen(u) \/ Dropped(u)
                              \/ Executes(u) /\ u # t
    BY <1>1, <2>1, <2>3 DEF Seen, Dropped, Executes, TxRecords
  <2>4. CASE \E d \in Devices : Sign(d)
    <3>1. PICK d \in Devices : Sign(d)
      BY <2>4
    <3>2. NextTx \in TxIds /\ txs' = [txs EXCEPT ![NextTx] = RecordScanTx(page[d].me)]
      BY <3>1 DEF Sign
    <3>3. RecordScanTx(page[d].me).status = "sent"
      BY DEF RecordScanTx
    <3> QED
      BY <1>1, <2>1, <3>2, <3>3
  <2>5. CASE UNCHANGED txs
    BY <1>1, <2>5
  <2>6. \/ \E u \in TxIds : Seen(u) \/ Executes(u) \/ Dropped(u)
        \/ \E d \in Devices : Sign(d)
        \/ UNCHANGED txs
    BY <1>1 DEF Next, Press1, User, Chain, Press, Look, Find, SignFails, Await,
       Confirm, ConfirmLost, Connect, TickOwnScan, Close, OpenLink, TooOld,
       ObstacleArises, SiteAdded, Reconcile, PartnerChanges, vars
  <2> QED
    BY <2>2, <2>3, <2>4, <2>5, <2>6
<1>2. IInv /\ [Next]_vars =>
        [\A t \in TxIds :
           txs[t].status = "seen" /\ txs'[t].status = "failed" =>
             \/ late \/ proof # NoSig \/ against # {}
             \/ needsPartnerWallet(claim) /\ signedFor \notin partners]_vars
  BY <1>1
<1> QED
  BY <1>2, Invariant, PTL DEF Spec, SignedIsAccepted

=============================================================================
