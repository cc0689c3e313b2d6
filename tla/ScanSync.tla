------------------------------ MODULE ScanSync ------------------------------
(***************************************************************************)
(* The life of a signed scan between the verifier's database and the       *)
(* chain, for one passport.  /api/verify signs a scan and stores it as     *)
(* pending; any wallet may anchor the signature with record_scan; the      *)
(* browser reports the transaction (POST /api/events), or never does; the  *)
(* reconcile job compares the database with what an RPC node shows.        *)
(*                                                                         *)
(* Neither of the two writers holds the write lock while it talks to the   *)
(* RPC: a confirm request reads the event, verifies the transaction and    *)
(* then writes (ConfirmRead, ConfirmWrite); reconcile reads events and     *)
(* ScanProofs, then the Passport account, and then applies what it read    *)
(* (ReconcileRead, ReconcileAccounts, ReconcileApply).  The node it asks   *)
(* may lag behind the cluster (node, NodeCatchesUp).                       *)
(***************************************************************************)
EXTENDS Integers, FiniteSets

CONSTANTS
  Wallets,
  NoWallet,        \* no attester was named at /api/verify; no actor
  NoTx,            \* tx_sig NULL
  Seals,           \* seals of the passport
  Cycles,          \* reconcile cycles that may overlap: the background loop's
                   \* and that of POST /api/reconcile, which share no lock
  MaxScans,        \* bound: scans signed; they are numbered, like events.id
  Histories,       \* bound: the scans that may be signed, in this order: the
                   \* seal, the grade and the attester named at /api/verify
  MaxRequests,     \* bound: different confirm requests in flight
  Skew,            \* MAX_SCAN_TS_SKEW_S
  Timeout,         \* FV_RECONCILE_TIMEOUT_S
  FailedRecheck,   \* FAILED_RECHECK_S
  LastSign,        \* bound: nothing is signed after this time
  MaxTime          \* bound: the clock stops here

Ids == 1..MaxScans
Grades == {"A", "B", "C", "D", "VOID"}
Statuses == {"none", "pending", "confirmed", "failed"}

\* A record_scan transaction that landed, with or without success.  The
\* successful ones are the ScanProofs of the chain; a failed one leaves no
\* trace but its signature, which a client may report.
Txs == [id : Ids, signer : Wallets, ok : BOOLEAN]

ASSUME ScanSyncAssumption ==
  /\ NoWallet \notin Wallets
  /\ NoTx \notin Txs
  /\ Seals # {}
  /\ Histories \subseteq
       [Ids -> [seal : Seals, grade : {"A", "B", "C", "D"},
                claim : Wallets \cup {NoWallet}]]
  /\ MaxScans \in Nat /\ MaxRequests \in Nat /\ Skew \in Nat
  /\ Timeout \in Nat /\ FailedRecheck \in Nat
  /\ LastSign \in Nat /\ MaxTime \in Nat

VARIABLES
  db,        \* the verifier's tables
  chain,     \* the cluster
  node,      \* the accounts as the RPC node of reconcile shows them
  requests,  \* confirm requests between their RPC call and their write
  cycle,     \* what each reconcile cycle has read
  now

vars == <<db, chain, node, requests, cycle, now>>

(* db.event[id]: a SCAN row of the events table; its number is its id.     *)
(* counter and seal name the tap, grade is what the server computed, claim *)
(* is the attester named at /api/verify.  db.credit is scan_count of the   *)
(* attesters table.                                                        *)
EventRows ==
  [status : Statuses, seal : Seals, counter : Nat, grade : Grades, ts : Nat,
   claim : Wallets \cup {NoWallet}, actor : Wallets \cup {NoWallet},
   tx : Txs \cup {NoTx}]

NoEvent ==
  [status |-> "none", seal |-> CHOOSE s \in Seals : TRUE, counter |-> 0,
   grade |-> "A", ts |-> 0, claim |-> NoWallet, actor |-> NoWallet, tx |-> NoTx]

(* chain.attester[id]: attester of the ScanProof of scan id, NoWallet if   *)
(* there is none; count, grade and void of the Passport account; counter   *)
(* of every Seal account.                                                  *)
EmptyChain ==
  [attester |-> [id \in Ids |-> NoWallet], count |-> 0, grade |-> "A",
   void |-> FALSE, counter |-> [s \in Seals |-> 0]]

\* The fields of the Passport account reconcile looks at.
Account(c) == [count |-> c.count, grade |-> c.grade, void |-> c.void]

Idle == [phase |-> "idle", status |-> [id \in Ids |-> "none"],
         attester |-> EmptyChain.attester, account |-> Account(EmptyChain),
         ts |-> 0]

Init ==
  /\ db = [event |-> [id \in Ids |-> NoEvent], grade |-> "A", void |-> FALSE,
           credit |-> [w \in Wallets |-> 0]]
  /\ chain = EmptyChain
  /\ node = EmptyChain
  /\ requests = {}
  /\ cycle = [k \in Cycles |-> Idle]
  /\ now = 0

-----------------------------------------------------------------------------
(* Rules both sides share: proof.py and grade.rs                           *)

\* proof.passport_after_scan; on chain every scan is the latest.
AfterScan(grade, void, scanGrade, latest) ==
  IF void \/ "VOID" \in {grade, scanGrade} THEN [grade |-> "VOID", void |-> TRUE]
  ELSE IF "C" \in {grade, scanGrade} THEN [grade |-> "C", void |-> FALSE]
  ELSE [grade |-> IF latest THEN scanGrade ELSE grade, void |-> FALSE]

\* Mutant: the account always wins.
FromChainOnly(d, c, current) ==
  IF c.void \/ c.grade = "VOID" THEN [grade |-> "VOID", void |-> TRUE]
  ELSE [grade |-> c.grade, void |-> FALSE]

\* proof.passport_from_chain
FromChain(d, c, current) ==
  IF d.void \/ c.void \/ "VOID" \in {d.grade, c.grade}
  THEN [grade |-> "VOID", void |-> TRUE]
  ELSE IF "C" \in {d.grade, c.grade} THEN [grade |-> "C", void |-> FALSE]
  ELSE [grade |-> IF current THEN c.grade ELSE d.grade, void |-> FALSE]

Confirmed(d) == {id \in Ids : d.event[id].status = "confirmed"}

\* db.newer_confirmed_scan_exists
NewerConfirmed(d, id) ==
  LET e == d.event[id] IN
  \E other \in Confirmed(d) \ {id} :
    LET f == d.event[other] IN
    IF f.seal = e.seal THEN f.counter > e.counter
    ELSE f.ts > e.ts \/ (f.ts = e.ts /\ other > id)

\* An event turns confirmed, and service.apply_confirmed_scan.
ConfirmScan(d, id, actor, tx) ==
  LET event == [d.event EXCEPT ![id].status = "confirmed", ![id].actor = actor,
                               ![id].tx = tx]
      after == AfterScan(d.grade, d.void, d.event[id].grade,
                         ~NewerConfirmed([d EXCEPT !.event = event], id))
  IN  [event |-> event, grade |-> after.grade, void |-> after.void,
       credit |-> [d.credit EXCEPT ![actor] = @ + 1]]

-----------------------------------------------------------------------------
(* The cluster                                                             *)

\* The scan that event e stands for.
ScanOf(e) == [seal |-> e.seal, grade |-> e.grade, claim |-> e.claim]

\* POST /api/verify: the next counter of the seal, a pending event.
SignScan(scan) ==
  LET known == {id \in Ids : db.event[id].status # "none"}
      id == Cardinality(known) + 1
      counter == Cardinality({k \in known : db.event[k].seal = scan.seal}) + 1
  IN
  /\ id \in Ids
  /\ now <= LastSign
  /\ \E h \in Histories :
       h[id] = scan /\ \A k \in known : h[k] = ScanOf(db.event[k])
  /\ db' = [db EXCEPT !.event[id] =
       [NoEvent EXCEPT !.status = "pending", !.seal = scan.seal,
                       !.counter = counter, !.grade = scan.grade, !.ts = now,
                       !.claim = scan.claim]]
  /\ UNCHANGED <<chain, node, requests, cycle, now>>

\* A wallet anchors a signature it holds; the event may be failed by then.
RecordScan(id, wallet) ==
  LET e == db.event[id]
      after == AfterScan(chain.grade, chain.void, e.grade, TRUE)
  IN
  /\ e.status # "none"
  /\ now - e.ts <= Skew
  /\ ~chain.void
  /\ e.counter > chain.counter[e.seal]
  /\ chain' = [attester |-> [chain.attester EXCEPT ![id] = wallet],
               count |-> chain.count + 1, grade |-> after.grade,
               void |-> after.void,
               counter |-> [chain.counter EXCEPT ![e.seal] = e.counter]]
  /\ UNCHANGED <<db, node, requests, cycle, now>>

\* mark_seal_dead: the passport is void.
MarkSealDead ==
  /\ ~chain.void
  /\ chain' = [chain EXCEPT !.void = TRUE, !.grade = "VOID"]
  /\ UNCHANGED <<db, node, requests, cycle, now>>

NodeCatchesUp ==
  /\ node # chain
  /\ node' = chain
  /\ UNCHANGED <<db, chain, requests, cycle, now>>

Tick ==
  /\ now < MaxTime
  /\ now' = now + 1
  /\ UNCHANGED <<db, chain, node, requests, cycle>>

-----------------------------------------------------------------------------
(* POST /api/events                                                        *)

\* The wallet a confirmation must come from.
ExpectedActor(e) == IF e.actor # NoWallet THEN e.actor ELSE e.claim

\* _confirm_event up to the verified transaction: a confirmed event is only
\* looked at again for a signature it lacks; the actor is the expected one and
\* signed the transaction.  A failed transaction is reported for a scan with a
\* claimed attester only.
ConfirmRead(tx) ==
  LET e == db.event[tx.id] IN
  /\ Cardinality(requests \cup {tx}) <= MaxRequests
  /\ e.status # "none"
  /\ tx.ok => chain.attester[tx.id] = tx.signer
  /\ e.status = "confirmed" => e.tx = NoTx
  /\ ExpectedActor(e) \in {NoWallet, tx.signer}
  /\ tx.ok \/ ExpectedActor(e) = tx.signer
  /\ requests' = requests \cup {tx}
  /\ UNCHANGED <<db, chain, node, cycle, now>>

\* Mutant: the status found before the RPC call is trusted.
WrittenBlindly(e, tx) ==
  IF ~tx.ok
  THEN IF e.status = "pending"
       THEN [db EXCEPT !.event[tx.id].status = "failed", !.event[tx.id].tx = tx]
       ELSE db
  ELSE ConfirmScan(db, tx.id, tx.signer, tx)

\* _confirm_event, the write transaction: the event is read again.
Written(e, tx) ==
  IF ~tx.ok
  THEN IF e.status = "pending"
       THEN [db EXCEPT !.event[tx.id].status = "failed", !.event[tx.id].tx = tx]
       ELSE db
  ELSE IF e.status = "confirmed"
       THEN IF e.tx = NoTx THEN [db EXCEPT !.event[tx.id].tx = tx] ELSE db
       ELSE ConfirmScan(db, tx.id, tx.signer, tx)

\* Any number of equal requests may have come this far: tx stays in requests.
ConfirmWrite(tx) ==
  /\ tx \in requests
  /\ db' = Written(db.event[tx.id], tx)
  /\ UNCHANGED <<chain, node, requests, cycle, now>>

\* The last request with tx is answered, or lost before its write.
RequestEnds(tx) ==
  /\ tx \in requests
  /\ requests' = requests \ {tx}
  /\ UNCHANGED <<db, chain, node, cycle, now>>

\* SEAL_DEAD with a verified mark_seal_dead transaction.
SealDeadEvent ==
  /\ chain.void /\ ~db.void
  /\ db' = [db EXCEPT !.void = TRUE, !.grade = "VOID"]
  /\ UNCHANGED <<chain, node, requests, cycle, now>>

-----------------------------------------------------------------------------
(* reconcile_once                                                          *)

\* Phase 1 and the first RPC call: pending events, failed ones that are recent
\* enough, and their ScanProofs as the node shows them.
ReconcileRead(k) ==
  LET work == {id \in Ids :
                 LET e == db.event[id] IN
                 \/ e.status = "pending"
                 \/ e.status = "failed" /\ e.ts >= now - FailedRecheck}
  IN
  /\ cycle[k].phase = "idle"
  /\ cycle' = [cycle EXCEPT ![k] = [Idle EXCEPT
       !.phase = "proofs",
       !.status = [id \in Ids |->
                     IF id \in work THEN db.event[id].status ELSE "none"],
       !.attester = [id \in Ids |->
                       IF id \in work THEN node.attester[id] ELSE NoWallet],
       !.ts = now]]
  /\ UNCHANGED <<db, chain, node, requests, now>>

\* The second RPC call, for the Passport account.
ReconcileAccounts(k) ==
  /\ cycle[k].phase = "proofs"
  /\ cycle' = [cycle EXCEPT ![k].phase = "accounts", ![k].account = Account(node)]
  /\ UNCHANGED <<db, chain, node, requests, now>>

\* The signature reconcile found, or none.
Signature(k, id, found) ==
  IF id \in found
  THEN [id |-> id, signer |-> cycle[k].attester[id], ok |-> TRUE] ELSE NoTx

\* Mutant: the failed transaction of a recovered scan is kept.
ReconciledKeepTx(k, d, id, found) ==
  LET e == d.event[id]
      attester == cycle[k].attester[id]
  IN
  IF cycle[k].status[id] = "none" \/ cycle[k].status[id] # e.status THEN d
  ELSE IF attester # NoWallet
       THEN ConfirmScan(d, id, attester,
              IF e.tx # NoTx THEN e.tx ELSE Signature(k, id, found))
  ELSE IF e.status = "pending" /\ cycle[k].ts - e.ts > Timeout
       THEN [d EXCEPT !.event[id].status = "failed"]
  ELSE d

\* Mutant: nothing times out.
ReconciledForever(k, d, id, found) ==
  IF \/ cycle[k].status[id] = "none" \/ cycle[k].status[id] # d.event[id].status
     \/ cycle[k].attester[id] = NoWallet
  THEN d
  ELSE ConfirmScan(d, id, cycle[k].attester[id], Signature(k, id, found))

\* One event of the work list: skipped unless its status is still the one
\* that was read.  found: the creating signature was found as well.
Reconciled(k, d, id, found) ==
  LET e == d.event[id]
      attester == cycle[k].attester[id]
  IN
  IF cycle[k].status[id] = "none" \/ cycle[k].status[id] # e.status THEN d
  ELSE IF attester # NoWallet
       THEN ConfirmScan(d, id, attester, Signature(k, id, found))
  ELSE IF e.status = "pending" /\ cycle[k].ts - e.ts > Timeout
       THEN [d EXCEPT !.event[id].status = "failed"]
  ELSE d

\* The work list in the order of the ids.
AfterEvents(k, found) ==
  LET upTo[n \in 0..MaxScans] ==
        IF n = 0 THEN db ELSE Reconciled(k, upTo[n - 1], n, found)
  IN  upTo[MaxScans]

\* Mutant: an account that shows every confirmed scan counts as lagging.
RefreshedStrictly(k, d) ==
  LET current == cycle[k].account.count > Cardinality(Confirmed(d))
      after == FromChain(d, cycle[k].account, current)
  IN
  IF \/ \E id \in Ids : d.event[id].status = "pending"
     \/ cycle[k].account.count = 0 /\ ~cycle[k].account.void
  THEN d
  ELSE [d EXCEPT !.grade = after.grade, !.void = after.void]

\* The passport row takes what the account shows, once nothing is pending and
\* the account has recorded something.
Refreshed(k, d) ==
  LET current == cycle[k].account.count >= Cardinality(Confirmed(d))
      after == FromChain(d, cycle[k].account, current)
  IN
  IF \/ \E id \in Ids : d.event[id].status = "pending"
     \/ cycle[k].account.count = 0 /\ ~cycle[k].account.void
  THEN d
  ELSE [d EXCEPT !.grade = after.grade, !.void = after.void]

\* Phase 3, one write transaction.
ReconcileApply(k, found) ==
  /\ cycle[k].phase = "accounts"
  /\ found \subseteq {id \in Ids : /\ cycle[k].attester[id] # NoWallet
                                  /\ cycle[k].status[id] # "none"}
  /\ db' = Refreshed(k, AfterEvents(k, found))
  /\ cycle' = [cycle EXCEPT ![k] = Idle]
  /\ UNCHANGED <<chain, node, requests, now>>

\* An RPC error ends the cycle before it writes.
ReconcileAborts(k) ==
  /\ cycle[k].phase # "idle"
  /\ cycle' = [cycle EXCEPT ![k] = Idle]
  /\ UNCHANGED <<db, chain, node, requests, now>>

-----------------------------------------------------------------------------
ClusterStep ==
  \/ \E scan \in {h[id] : h \in Histories, id \in Ids} : SignScan(scan)
  \/ \E id \in Ids, wallet \in Wallets : RecordScan(id, wallet)
  \/ MarkSealDead
  \/ NodeCatchesUp
  \/ Tick

Next ==
  \/ ClusterStep
  \/ \E tx \in Txs : ConfirmRead(tx)
  \/ \E tx \in requests : ConfirmWrite(tx) \/ RequestEnds(tx)
  \/ SealDeadEvent
  \/ \E k \in Cycles :
       \/ ReconcileRead(k)
       \/ ReconcileAccounts(k)
       \/ \E found \in SUBSET Ids : ReconcileApply(k, found)
       \/ ReconcileAborts(k)

Spec == Init /\ [][Next]_vars

(* The loop of main.py runs a cycle every FV_RECONCILE_INTERVAL_S and goes *)
(* on after any error; the node is assumed to answer infinitely often and  *)
(* to catch up with the cluster.  No browser is assumed to report back.    *)
Fairness ==
  /\ WF_vars(Tick)
  /\ WF_vars(NodeCatchesUp)
  /\ \A k \in Cycles :
       /\ WF_vars(ReconcileRead(k))
       /\ SF_vars(ReconcileAccounts(k))
       /\ SF_vars(\E found \in SUBSET Ids : ReconcileApply(k, found))

FairSpec == Spec /\ Fairness

-----------------------------------------------------------------------------
(* Properties                                                              *)

Databases == [event : [Ids -> EventRows], grade : Grades, void : BOOLEAN,
              credit : [Wallets -> Nat]]

Chains == [attester : [Ids -> Wallets \cup {NoWallet}], count : Nat,
           grade : Grades, void : BOOLEAN, counter : [Seals -> Nat]]

CycleRecords ==
  [phase : {"idle", "proofs", "accounts"},
   status : [Ids -> {"none", "pending", "failed"}],
   attester : [Ids -> Wallets \cup {NoWallet}],
   account : [count : Nat, grade : Grades, void : BOOLEAN], ts : Nat]

\* Every row and account holds values of its type; the transaction of a
\* request that passed verification is on the chain.
TypeOK ==
  /\ db \in Databases
  /\ chain \in Chains /\ node \in Chains
  /\ requests \subseteq {tx \in Txs : tx.ok => chain.attester[tx.id] = tx.signer}
  /\ cycle \in [Cycles -> CycleRecords]
  /\ now \in Nat

\* A confirmed scan is one the chain has: its actor is the attester of the
\* ScanProof, whoever was named at /api/verify, and its signature, if there is
\* one, is the transaction that created the proof, never a failed one that an
\* earlier confirmation attempt left behind.
ConfirmedOnChain ==
  \A id \in Confirmed(db) :
    LET e == db.event[id] IN
    /\ e.actor \in Wallets
    /\ chain.attester[id] = e.actor
    /\ e.tx \in {NoTx, [id |-> id, signer |-> e.actor, ok |-> TRUE]}

\* Every confirmed scan is credited once to its attester, although a browser
\* and the reconcile job, and repeated requests, may all confirm it.
CreditedOnce ==
  \A w \in Wallets :
    db.credit[w] = Cardinality({id \in Confirmed(db) : db.event[id].actor = w})

\* Damage is never forgotten: the database shows C or VOID as soon as one
\* confirmed scan found it, whatever older account a lagging node returns, and
\* never shows damage the chain does not have.
DamageIsKept ==
  /\ (\E id \in Confirmed(db) : db.event[id].grade = "C") =>
       db.grade \in {"C", "VOID"}
  /\ db.void => chain.void
  /\ db.grade = "C" => chain.grade \in {"C", "VOID"}
  /\ db.void <=> db.grade = "VOID"

\* Every signed scan comes to rest where the chain has it: confirmed if some
\* wallet anchored it, even when no browser reported it, the job had timed it
\* out or a failed attempt was reported before; failed otherwise, not pending.
ScansSettle ==
  <>[](\A id \in Ids :
         db.event[id].status \in
           IF chain.attester[id] # NoWallet THEN {"confirmed"}
           ELSE {"none", "failed"})

\* The grade the passport page shows settles on the grade of the chain, in
\* whatever order scans of its two seals were signed, anchored and confirmed.
GradeConverges == <>[](db.grade = chain.grade /\ db.void = chain.void)

=============================================================================
