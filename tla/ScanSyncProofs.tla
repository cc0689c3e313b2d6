--------------------------- MODULE ScanSyncProofs ---------------------------
(***************************************************************************)
(* Proofs about signed scans between the verifier's database and the       *)
(* chain, for every number of wallets, seals, scans, requests and          *)
(* overlapping reconcile cycles, and every lag of the node they ask.       *)
(***************************************************************************)
EXTENDS ScanSync, FiniteSetTheorems, WellFoundedInduction, TLAPS

USE ScanSyncAssumption

-----------------------------------------------------------------------------
(* The inductive invariant                                                 *)

\* The three properties of the runs, of a database d: reconcile's transaction
\* goes through several on its way from db to db'.
AttestedBy(id, w) == w \in Wallets /\ chain.attester[id] = w

Creating(id, w) == {NoTx, [id |-> id, signer |-> w, ok |-> TRUE]}

OnChain(d) ==
  \A id \in Confirmed(d) :
    /\ AttestedBy(id, d.event[id].actor)
    /\ d.event[id].tx \in Creating(id, d.event[id].actor)

ConfirmedBy(d, w) == {id \in Confirmed(d) : d.event[id].actor = w}

Credited(d) == \A w \in Wallets : d.credit[w] = Cardinality(ConfirmedBy(d, w))

Damage(d) ==
  /\ (\E id \in Confirmed(d) : d.event[id].grade = "C") =>
       d.grade \in {"C", "VOID"}
  /\ d.void => chain.void
  /\ d.grade = "C" => chain.grade \in {"C", "VOID"}
  /\ d.void <=> d.grade = "VOID"

\* Nothing but /api/verify makes a scan or changes what was signed.
SameScans(d) ==
  \A id \in Ids :
    /\ d.event[id].status = "none" <=> db.event[id].status = "none"
    /\ d.event[id].seal = db.event[id].seal
    /\ d.event[id].counter = db.event[id].counter
    /\ d.event[id].grade = db.event[id].grade

Sound(d) == d \in Databases /\ OnChain(d) /\ Credited(d) /\ Damage(d)

\* Scans are numbered without a gap, and no signature carries the grade VOID.
ScansInOrder ==
  /\ \E n \in 0..MaxScans :
       \A id \in Ids : db.event[id].status # "none" <=> id <= n
  /\ \A id \in Ids : db.event[id].grade # "VOID"

\* A ScanProof is of a signed scan, its seal's counter is not behind it, and the
\* damage it carries shows in the account.
ProofsCounted ==
  /\ \A id \in Ids :
       chain.attester[id] # NoWallet =>
         LET e == db.event[id] IN
         /\ e.status # "none"
         /\ e.counter <= chain.counter[e.seal]
         /\ e.grade = "C" => chain.grade \in {"C", "VOID"}
  /\ chain.void <=> chain.grade = "VOID"

\* What was read from a node is something the chain still has.
Behind(attester, account) ==
  /\ \A id \in Ids : attester[id] \in {NoWallet, chain.attester[id]}
  /\ account.void \/ account.grade = "VOID" => chain.void
  /\ account.grade = "C" => chain.grade \in {"C", "VOID"}

ReadsBehind ==
  /\ Behind(node.attester, node)
  /\ \A k \in Cycles : Behind(cycle[k].attester, cycle[k].account)

IInv == TypeOK /\ Sound(db) /\ ScansInOrder /\ ProofsCounted /\ ReadsBehind

-----------------------------------------------------------------------------
(* Induction along the work list of reconcile_once                         *)

\* Induction over an interval, stated with a set: the least number outside the
\* set would have a predecessor in it.
LEMMA SetInduction ==
  ASSUME NEW m \in Nat, NEW S, 0 \in S,
         \A n \in 0..(m - 1) : n \in S => n + 1 \in S
  PROVE  0..m \subseteq S
<1> DEFINE T == (0..m) \ S
<1> SUFFICES ASSUME T # {} PROVE FALSE
  OBVIOUS
<1>1. IsWellFoundedOn(OpToRel(<, Nat), Nat)
  BY NatLessThanWellFounded, Zenon
<1>2. T \subseteq Nat
  OBVIOUS
<1> HIDE DEF T
<1>3. PICK x \in T : \A y \in T : ~(<<y, x>> \in OpToRel(<, Nat))
  BY <1>1, <1>2, WFMin, Zenon
<1>4. \A y \in T : ~(y < x)
  BY <1>2, <1>3 DEF OpToRel
<1>5. QED
  BY <1>4 DEF T

\* The function AfterEvents defines: the database after the first n events.
IsUpTo(upTo, m, k, found) ==
  upTo = [n \in 0..m |->
            IF n = 0 THEN db ELSE Reconciled(k, upTo[n - 1], n, found)]

\* The work list is walked to its end: the recursion defines a function.
LEMMA UpToExists ==
  ASSUME NEW k, NEW found
  PROVE  \E upTo : IsUpTo(upTo, MaxScans, k, found)
<1> DEFINE S == {m \in 0..MaxScans : \E upTo : IsUpTo(upTo, m, k, found)}
<1>1. 0 \in S
  <2>1. IsUpTo([n \in 0..0 |-> db], 0, k, found)
    BY DEF IsUpTo
  <2>2. QED
    BY <2>1
<1>2. ASSUME NEW m \in 0..(MaxScans - 1), m \in S
      PROVE  m + 1 \in S
  <2>1. PICK f : IsUpTo(f, m, k, found)
    BY <1>2
  <2> DEFINE g == [n \in 0..(m + 1) |->
                     IF n <= m THEN f[n] ELSE Reconciled(k, f[m], m + 1, found)]
  <2>2. \A n \in 0..m : f[n] = IF n = 0 THEN db
                               ELSE Reconciled(k, f[n - 1], n, found)
    BY <2>1 DEF IsUpTo
  <2>3. \A n \in 0..(m + 1) :
          g[n] = IF n = 0 THEN db ELSE Reconciled(k, g[n - 1], n, found)
    <3>1. TAKE n \in 0..(m + 1)
    <3>2. CASE n <= m
      BY <2>2, <3>2
    <3>3. CASE n = m + 1
      BY <3>3
    <3>4. QED
      BY <3>2, <3>3
  <2>4. g = [n \in 0..(m + 1) |-> g[n]]
    OBVIOUS
  <2> HIDE DEF g
  <2>5. IsUpTo(g, m + 1, k, found)
    BY <2>3, <2>4 DEF IsUpTo
  <2>6. QED
    BY <2>5
<1> HIDE DEF S
<1>3. 0..MaxScans \subseteq S
  BY <1>1, <1>2, SetInduction
<1>4. QED
  BY <1>3 DEF S

\* What holds of the database before reconcile's write transaction and is kept
\* by every event of the work list holds at its end.
LEMMA WorkListInduction ==
  ASSUME NEW k, NEW found, NEW S, db \in S,
         \A d \in S : \A n \in Ids : Reconciled(k, d, n, found) \in S
  PROVE  AfterEvents(k, found) \in S
<1> DEFINE upTo == CHOOSE f : IsUpTo(f, MaxScans, k, found)
<1>1. IsUpTo(upTo, MaxScans, k, found)
  BY UpToExists
<1>2. AfterEvents(k, found) = upTo[MaxScans]
  BY DEF AfterEvents, IsUpTo
<1> HIDE DEF upTo
<1>3. \A n \in 0..MaxScans :
        upTo[n] = IF n = 0 THEN db ELSE Reconciled(k, upTo[n - 1], n, found)
  BY <1>1 DEF IsUpTo
<1> DEFINE I == {n \in 0..MaxScans : upTo[n] \in S}
<1>4. 0 \in I
  BY <1>3
<1>5. \A n \in 0..(MaxScans - 1) : n \in I => n + 1 \in I
  BY <1>3 DEF Ids
<1> HIDE DEF I
<1>6. 0..MaxScans \subseteq I
  BY <1>4, <1>5, SetInduction
<1>7. QED
  BY <1>2, <1>6 DEF I
-----------------------------------------------------------------------------
(* Writing one event                                                       *)

\* The rule both sides share: a grade and a flag that agree, damage kept, and
\* none that neither the passport nor the scan showed (proof.py
\* passport_after_scan, grade.rs).
LEMMA AfterScanRule ==
  ASSUME NEW grade \in Grades, NEW void \in BOOLEAN,
         NEW scanGrade \in Grades \ {"VOID"}, NEW latest,
         void <=> grade = "VOID"
  PROVE  LET after == AfterScan(grade, void, scanGrade, latest) IN
         /\ after.grade \in Grades /\ after.void \in BOOLEAN
         /\ after.void <=> after.grade = "VOID"
         /\ after.void <=> void
         /\ after.grade = "C" => grade = "C" \/ scanGrade = "C"
         /\ grade = "C" \/ scanGrade = "C" => after.grade \in {"C", "VOID"}
BY DEF AfterScan, Grades

\* A database in which one row changed its status, actor or transaction and
\* nothing turned confirmed.
LEMMA RowWritten ==
  ASSUME NEW d, Sound(d), SameScans(d), NEW id \in Ids, NEW new \in EventRows,
         new.status # "none", d.event[id].status # "none",
         new.status = "confirmed" <=> d.event[id].status = "confirmed",
         new.status = "confirmed" =>
           /\ new.actor = d.event[id].actor
           /\ new.tx \in Creating(id, new.actor),
         new.seal = d.event[id].seal, new.counter = d.event[id].counter,
         new.grade = d.event[id].grade,
         NEW c, c = [d EXCEPT !.event = [d.event EXCEPT ![id] = new]]
  PROVE  Sound(c) /\ SameScans(c)
<1>1. d \in Databases /\ OnChain(d) /\ Credited(d) /\ Damage(d)
  BY DEF Sound
<1>2. /\ d.event \in [Ids -> EventRows] /\ d.grade \in Grades
      /\ d.void \in BOOLEAN /\ d.credit \in [Wallets -> Nat]
  BY <1>1 DEF Databases
<1>3. /\ c \in Databases /\ c.grade = d.grade /\ c.credit = d.credit
      /\ c.event = [d.event EXCEPT ![id] = new]
  BY <1>1, <1>2 DEF Databases
<1>4. c.void = d.void
  BY <1>1, <1>2 DEF Databases
<1>5. c.event[id] = new /\ \A x \in Ids \ {id} : c.event[x] = d.event[x]
  BY <1>2, <1>3
<1>6. Confirmed(c) = Confirmed(d)
  BY <1>5 DEF Confirmed
<1>7. \A x \in Confirmed(c) : /\ c.event[x].actor = d.event[x].actor
                             /\ c.event[x].grade = d.event[x].grade
  BY <1>5, <1>6 DEF Confirmed
<1>8. OnChain(c)
  BY <1>1, <1>5, <1>6, <1>7 DEF OnChain, Confirmed
<1>9. \A w \in Wallets : ConfirmedBy(c, w) = ConfirmedBy(d, w)
  BY <1>6, <1>7 DEF ConfirmedBy
<1>10. Credited(c)
  BY <1>1, <1>3, <1>9 DEF Credited
<1>11. Damage(c)
  BY <1>1, <1>3, <1>4, <1>6, <1>7 DEF Damage
<1>12. SameScans(c)
  BY <1>5 DEF SameScans
<1>13. QED
  BY <1>3, <1>8, <1>10, <1>11, <1>12 DEF Sound

\* Any number of scans is a finite number.
LEMMA FiniteIds == \A S \in SUBSET Ids : IsFiniteSet(S)
<1>1. IsFiniteSet(Ids)
  BY FS_Interval DEF Ids
<1>2. QED
  BY <1>1, FS_Subset

\* service.apply_confirmed_scan of an event that was not confirmed and is on
\* the chain: credited to the attester of its ScanProof, its damage shown.
LEMMA ConfirmSound ==
  ASSUME IInv, NEW d, Sound(d), SameScans(d), NEW id \in Ids,
         NEW actor, AttestedBy(id, actor),
         NEW tx \in Creating(id, actor),
         d.event[id].status # "confirmed"
  PROVE  Sound(ConfirmScan(d, id, actor, tx))
         /\ SameScans(ConfirmScan(d, id, actor, tx))
<1> DEFINE c == ConfirmScan(d, id, actor, tx)
<1> DEFINE event == [d.event EXCEPT ![id].status = "confirmed",
                                    ![id].actor = actor, ![id].tx = tx]
<1>0. PICK latest : latest = ~NewerConfirmed([d EXCEPT !.event = event], id)
  OBVIOUS
<1> DEFINE after == AfterScan(d.grade, d.void, d.event[id].grade, latest)
<1>1. c = [event |-> event, grade |-> after.grade, void |-> after.void,
           credit |-> [d.credit EXCEPT ![actor] = @ + 1]]
  BY <1>0 DEF ConfirmScan
<1>2. d \in Databases /\ OnChain(d) /\ Credited(d) /\ Damage(d)
  BY DEF Sound
<1>3. /\ d.event \in [Ids -> EventRows] /\ d.grade \in Grades
      /\ d.void \in BOOLEAN /\ d.credit \in [Wallets -> Nat]
  BY <1>2 DEF Databases
<1>4. tx \in Txs \cup {NoTx}
  <2>1. TRUE \in BOOLEAN
    OBVIOUS
  <2>2. [id |-> id, signer |-> actor, ok |-> TRUE] \in Txs
    BY <2>1, Zenon DEF Txs, AttestedBy
  <2>3. QED
    BY <2>2 DEF Creating
<1>45. PICK e \in EventRows : e = d.event[id]
  BY <1>3
<1>5. /\ event[id] = [[[e EXCEPT !.status = "confirmed"] EXCEPT !.actor = actor]
                      EXCEPT !.tx = tx]
      /\ \A x \in Ids \ {id} : event[x] = d.event[x]
      /\ event = [x \in Ids |-> event[x]]
  BY <1>3, <1>45
<1> HIDE DEF event
<1>55. /\ event[id] \in EventRows
      /\ event[id].status = "confirmed" /\ event[id].actor = actor
      /\ event[id].tx = tx
      /\ event[id].seal = d.event[id].seal
      /\ event[id].counter = d.event[id].counter
      /\ event[id].grade = d.event[id].grade
  <2>1. "confirmed" \in Statuses /\ actor \in Wallets \cup {NoWallet}
    BY DEF Statuses, AttestedBy
  <2>2. QED
    BY <1>4, <1>5, <1>45, <2>1 DEF EventRows
<1>6. event \in [Ids -> EventRows]
  BY <1>3, <1>5, <1>55
<1>7. /\ d.event[id].status # "none" /\ d.event[id].grade \in Grades \ {"VOID"}
      /\ d.event[id].grade = "C" => chain.grade \in {"C", "VOID"}
  BY <1>3
  DEF IInv, ProofsCounted, ScansInOrder, SameScans, EventRows, AttestedBy
<1>8. /\ after.grade \in Grades /\ after.void \in BOOLEAN
      /\ after.void <=> after.grade = "VOID"
      /\ after.void <=> d.void
      /\ after.grade = "C" => d.grade = "C" \/ d.event[id].grade = "C"
      /\ d.grade = "C" \/ d.event[id].grade = "C" =>
           after.grade \in {"C", "VOID"}
  BY <1>2, <1>3, <1>7, AfterScanRule DEF Damage
<1> HIDE DEF event, after, c
<1>9. /\ c.event = event /\ c.grade = after.grade
      /\ c.credit = [d.credit EXCEPT ![actor] = @ + 1]
  BY <1>1
<1>10. c.void = after.void
  BY <1>1
<1>11. /\ \A x \in Ids \ {id} : c.event[x] = d.event[x]
       /\ c.event[id].status = "confirmed" /\ c.event[id].actor = actor
       /\ c.event[id].tx = tx
       /\ c.event[id].seal = d.event[id].seal
       /\ c.event[id].counter = d.event[id].counter
       /\ c.event[id].grade = d.event[id].grade
  BY <1>5, <1>9, <1>55
<1>12. c \in Databases
  <2>1. event \in [Ids -> EventRows]
    BY <1>6
  <2>2. [d.credit EXCEPT ![actor] = @ + 1] \in [Wallets -> Nat]
    BY <1>3 DEF AttestedBy
  <2>3. QED
    BY <1>1, <1>8, <2>1, <2>2 DEF Databases
<1>13. Confirmed(c) = Confirmed(d) \cup {id} /\ id \notin Confirmed(d)
  BY <1>55, <1>11 DEF Confirmed
<1>14. \A x \in Confirmed(d) : c.event[x] = d.event[x]
  BY <1>11, <1>13 DEF Confirmed
<1>15. OnChain(c)
  BY <1>2, <1>55, <1>11, <1>13, <1>14 DEF OnChain
<1>16. Credited(c)
  <2>1. ConfirmedBy(c, actor) = ConfirmedBy(d, actor) \cup {id}
        /\ id \notin ConfirmedBy(d, actor)
    BY <1>55, <1>11, <1>13, <1>14 DEF ConfirmedBy
  <2>2. \A w \in Wallets \ {actor} : ConfirmedBy(c, w) = ConfirmedBy(d, w)
    BY <1>55, <1>11, <1>13, <1>14 DEF ConfirmedBy
  <2>3. IsFiniteSet(ConfirmedBy(d, actor))
    BY FiniteIds DEF ConfirmedBy, Confirmed
  <2>4. Cardinality(ConfirmedBy(d, actor) \cup {id})
          = Cardinality(ConfirmedBy(d, actor)) + 1
    BY <2>1, <2>3, FS_AddElement
  <2>5. /\ c.credit[actor] = d.credit[actor] + 1
        /\ \A w \in Wallets \ {actor} : c.credit[w] = d.credit[w]
    BY <1>3, <1>9 DEF AttestedBy
  <2>6. QED
    BY <1>2, <2>1, <2>2, <2>4, <2>5 DEF Credited
<1>17. Damage(c)
  BY <1>2, <1>55, <1>7, <1>8, <1>9, <1>10, <1>11, <1>13, <1>14 DEF Damage
<1>18. SameScans(c)
  BY <1>55, <1>7, <1>11 DEF SameScans
<1>19. QED
  BY <1>12, <1>15, <1>16, <1>17, <1>18 DEF Sound, c
\* What the signature search of reconcile hands on.
LEMMA SignatureType ==
  ASSUME NEW k, NEW id \in Ids, NEW found
  PROVE  Signature(k, id, found) \in Creating(id, cycle[k].attester[id])
BY DEF Signature, Creating

\* One event of reconcile's work list: whatever was read before the write lock,
\* an event that another writer settled is left alone.
LEMMA ReconciledSound ==
  ASSUME IInv, NEW k \in Cycles, NEW found, NEW d, Sound(d), SameScans(d),
         NEW id \in Ids
  PROVE  Sound(Reconciled(k, d, id, found))
         /\ SameScans(Reconciled(k, d, id, found))
<1>1. /\ TypeOK /\ Behind(cycle[k].attester, cycle[k].account)
      /\ cycle[k] \in CycleRecords
  BY DEF IInv, ReadsBehind, TypeOK
<1>2. d.event \in [Ids -> EventRows]
  BY DEF Sound, Databases
<1>3. CASE cycle[k].status[id] = "none" \/ cycle[k].status[id] # d.event[id].status
  BY <1>3 DEF Reconciled
<1>4. CASE /\ cycle[k].status[id] # "none"
           /\ cycle[k].status[id] = d.event[id].status
           /\ cycle[k].attester[id] # NoWallet
  <2> DEFINE actor == cycle[k].attester[id]
  <2>1. AttestedBy(id, actor) /\ d.event[id].status # "confirmed"
    BY <1>1, <1>4 DEF Behind, AttestedBy, CycleRecords
  <2>2. Signature(k, id, found) \in Creating(id, actor)
    BY SignatureType
  <2>3. Reconciled(k, d, id, found)
          = ConfirmScan(d, id, actor, Signature(k, id, found))
    BY <1>4 DEF Reconciled
  <2> HIDE DEF actor
  <2>4. QED
    BY <2>1, <2>2, <2>3, ConfirmSound
<1>5. CASE /\ cycle[k].status[id] # "none"
           /\ cycle[k].status[id] = d.event[id].status
           /\ cycle[k].attester[id] = NoWallet
  <2>1. CASE d.event[id].status = "pending" /\ cycle[k].ts - d.event[id].ts > Timeout
    <3> DEFINE new == [d.event[id] EXCEPT !.status = "failed"]
    <3>1. /\ new \in EventRows /\ new.status = "failed"
          /\ new.seal = d.event[id].seal /\ new.counter = d.event[id].counter
          /\ new.grade = d.event[id].grade
      BY <1>2 DEF EventRows, Statuses
    <3>2. Reconciled(k, d, id, found)
            = [d EXCEPT !.event = [d.event EXCEPT ![id] = new]]
      BY <1>2, <1>5, <2>1 DEF Reconciled
    <3> HIDE DEF new
    <3>3. QED
      BY <2>1, <3>1, <3>2, RowWritten
  <2>2. CASE ~(d.event[id].status = "pending"
               /\ cycle[k].ts - d.event[id].ts > Timeout)
    BY <1>5, <2>2 DEF Reconciled
  <2>3. QED
    BY <2>1, <2>2
<1>6. QED
  BY <1>3, <1>4, <1>5

\* The end of reconcile's transaction.
LEMMA RefreshedSound ==
  ASSUME IInv, NEW k \in Cycles, NEW d, Sound(d), SameScans(d)
  PROVE  Sound(Refreshed(k, d)) /\ SameScans(Refreshed(k, d))
<1> DEFINE account == cycle[k].account
<1>1. /\ TypeOK /\ Behind(cycle[k].attester, account)
      /\ ProofsCounted /\ cycle[k] \in CycleRecords
  BY DEF IInv, ReadsBehind, TypeOK
<1>2. account.grade \in Grades /\ account.void \in BOOLEAN
  BY <1>1 DEF CycleRecords
<1>3. d \in Databases /\ OnChain(d) /\ Credited(d) /\ Damage(d)
  BY DEF Sound
<1>4. /\ d.event \in [Ids -> EventRows] /\ d.grade \in Grades
      /\ d.void \in BOOLEAN /\ d.credit \in [Wallets -> Nat]
  BY <1>3 DEF Databases
<1>0. PICK current : current = (account.count >= Cardinality(Confirmed(d)))
  OBVIOUS
<1> DEFINE after == FromChain(d, account, current)
           c == [d EXCEPT !.grade = after.grade, !.void = after.void]
<1>5. Refreshed(k, d) \in {d, c}
  BY <1>0 DEF Refreshed
<1>6. /\ after.grade \in Grades /\ after.void \in BOOLEAN
      /\ after.void <=> after.grade = "VOID"
      /\ after.void => d.void \/ account.void
                       \/ d.grade = "VOID" \/ account.grade = "VOID"
      /\ after.grade = "C" => d.grade = "C" \/ account.grade = "C"
      /\ d.grade \in {"C", "VOID"} => after.grade \in {"C", "VOID"}
  BY <1>2, <1>4 DEF FromChain, Grades
<1> HIDE DEF after
<1>7. /\ c \in Databases /\ c.event = d.event /\ c.credit = d.credit
      /\ c.grade = after.grade
  BY <1>3, <1>4, <1>6 DEF Databases
<1>8. c.void = after.void
  BY <1>3, <1>4, <1>6 DEF Databases
<1> HIDE DEF c, account
<1>9. Confirmed(c) = Confirmed(d)
  BY <1>7 DEF Confirmed
<1>10. OnChain(c) /\ Credited(c) /\ SameScans(c)
  BY <1>3, <1>7, <1>9 DEF OnChain, Credited, ConfirmedBy, SameScans
<1>11. Damage(c)
  BY <1>1, <1>3, <1>6, <1>7, <1>8, <1>9 DEF Damage, Behind, ProofsCounted
<1>12. Sound(c) /\ SameScans(c)
  BY <1>7, <1>10, <1>11 DEF Sound
<1>13. QED
  BY <1>5, <1>12

\* The whole write transaction of a reconcile cycle, however long ago it read
\* and whoever wrote in between.
LEMMA ReconcileSound ==
  ASSUME IInv, NEW k \in Cycles, NEW found
  PROVE  LET c == Refreshed(k, AfterEvents(k, found)) IN
         Sound(c) /\ SameScans(c)
<1> DEFINE S == {d \in Databases : Sound(d) /\ SameScans(d)}
<1>1. \A d : Sound(d) /\ SameScans(d) <=> d \in S
  BY DEF Sound
<1>2. db \in S
  BY <1>1 DEF IInv, SameScans
<1> HIDE DEF S
<1>3. \A d \in S : \A n \in Ids : Reconciled(k, d, n, found) \in S
  BY <1>1, ReconciledSound
<1>4. AfterEvents(k, found) \in S
  BY <1>2, <1>3, WorkListInduction
<1>5. QED
  BY <1>1, <1>4, RefreshedSound
\* _confirm_event's write transaction: the event is read again in it, so what it
\* writes is right whatever happened during the RPC call.
LEMMA WrittenSound ==
  ASSUME IInv, NEW tx \in requests
  PROVE  LET c == Written(db.event[tx.id], tx) IN Sound(c) /\ SameScans(c)
<1>1. TypeOK /\ Sound(db) /\ ProofsCounted
  BY DEF IInv
<1>2. tx \in Txs /\ (tx.ok => chain.attester[tx.id] = tx.signer)
  BY <1>1 DEF TypeOK
<1>3. tx.id \in Ids /\ tx.signer \in Wallets
  BY <1>2 DEF Txs
<1>4. SameScans(db)
  BY DEF SameScans
<1> DEFINE e == db.event[tx.id]
<1>5. e \in EventRows /\ db.event \in [Ids -> EventRows]
  BY <1>1, <1>3 DEF Sound, Databases
<1>6. CASE ~tx.ok
  <2>1. CASE e.status = "pending"
    <3> DEFINE new == [[e EXCEPT !.status = "failed"] EXCEPT !.tx = tx]
    <3>1. /\ new \in EventRows /\ new.status = "failed"
          /\ new.seal = e.seal /\ new.counter = e.counter
          /\ new.grade = e.grade
      BY <1>2, <1>5 DEF EventRows, Statuses
    <3>2. Written(e, tx) = [db EXCEPT !.event = [db.event EXCEPT ![tx.id] = new]]
      BY <1>3, <1>5, <1>6, <2>1 DEF Written
    <3> HIDE DEF new
    <3>3. QED
      BY <1>1, <1>3, <1>4, <2>1, <3>1, <3>2, RowWritten
  <2>2. CASE e.status # "pending"
    BY <1>1, <1>4, <1>6, <2>2 DEF Written
  <2>3. QED
    BY <2>1, <2>2
<1>7. CASE tx.ok /\ e.status = "confirmed"
  <2>1. CASE e.tx = NoTx
    <3> DEFINE new == [e EXCEPT !.tx = tx]
    <3>1. /\ new \in EventRows /\ new.status = e.status /\ new.actor = e.actor
          /\ new.seal = e.seal /\ new.counter = e.counter
          /\ new.grade = e.grade /\ new.tx = tx
      BY <1>2, <1>5 DEF EventRows
    <3>2. Written(e, tx) = [db EXCEPT !.event = [db.event EXCEPT ![tx.id] = new]]
      BY <1>3, <1>5, <1>7, <2>1 DEF Written
    <3> HIDE DEF new
    <3>3. e.actor = tx.signer
      BY <1>1, <1>2, <1>3, <1>7 DEF Sound, OnChain, Confirmed, AttestedBy
    <3>4. tx = [id |-> tx.id, signer |-> tx.signer, ok |-> TRUE]
      BY <1>2, <1>7 DEF Txs
    <3>5. new.tx \in Creating(tx.id, new.actor)
      BY <3>1, <3>3, <3>4 DEF Creating
    <3>6. QED
      BY <1>1, <1>3, <1>4, <1>7, <3>1, <3>2, <3>5, RowWritten
  <2>2. CASE e.tx # NoTx
    BY <1>1, <1>4, <1>7, <2>2 DEF Written
  <2>3. QED
    BY <2>1, <2>2
<1>8. CASE tx.ok /\ e.status # "confirmed"
  <2>1. tx = [id |-> tx.id, signer |-> tx.signer, ok |-> TRUE]
    BY <1>2, <1>8 DEF Txs
  <2>2. tx \in Creating(tx.id, tx.signer)
    BY <2>1 DEF Creating
  <2>3. AttestedBy(tx.id, tx.signer)
    BY <1>2, <1>3, <1>8 DEF AttestedBy
  <2>4. Written(e, tx) = ConfirmScan(db, tx.id, tx.signer, tx)
    BY <1>8 DEF Written
  <2>5. QED
    BY <1>1, <1>3, <1>4, <1>8, <2>2, <2>3, <2>4, ConfirmSound
<1>9. QED
  BY <1>6, <1>7, <1>8

-----------------------------------------------------------------------------
(* Steps                                                                   *)

\* A write of the verifier while the chain stands still.
LEMMA DatabaseStep ==
  ASSUME IInv, Sound(db'), SameScans(db'),
         UNCHANGED <<chain, node, requests, now>>,
         cycle' \in [Cycles -> CycleRecords],
         \A k \in Cycles : Behind(cycle'[k].attester, cycle'[k].account)
  PROVE  IInv'
<1>1. TypeOK'
  BY DEF IInv, TypeOK, Sound
<1>2. Sound(db)'
  BY DEF Sound, OnChain, Credited, Damage, ConfirmedBy, Confirmed, AttestedBy,
         Databases
<1>3. ScansInOrder'
  BY DEF IInv, ScansInOrder, SameScans
<1>4. ProofsCounted'
  BY DEF IInv, ProofsCounted, SameScans
<1>5. ReadsBehind'
  BY DEF IInv, ReadsBehind, Behind
<1>6. QED
  BY <1>1, <1>2, <1>3, <1>4, <1>5 DEF IInv

\* A step of the cluster: ScanProofs stay, a void passport stays void and a
\* damaged one damaged.
ChainGrows ==
  /\ \A id \in Ids :
       chain.attester[id] # NoWallet => chain'.attester[id] = chain.attester[id]
  /\ chain.void => chain'.void
  /\ chain.grade \in {"C", "VOID"} => chain'.grade \in {"C", "VOID"}

\* Nothing anybody read or wrote goes wrong when the cluster moves on.
LEMMA ChainStep ==
  ASSUME IInv, chain' \in Chains, ChainGrows, ProofsCounted',
         UNCHANGED <<db, node, requests, cycle, now>>
  PROVE  IInv'
<1>1. TypeOK /\ Sound(db) /\ ScansInOrder /\ ReadsBehind
  BY DEF IInv
<1>2. chain \in Chains
  BY <1>1 DEF TypeOK
<1>3. TypeOK'
  <2>1. \A tx \in requests : tx.id \in Ids /\ tx.signer \in Wallets
    BY <1>1 DEF TypeOK, Txs
  <2>2. requests' \subseteq
          {tx \in Txs : tx.ok => chain'.attester[tx.id] = tx.signer}
    BY <1>1, <2>1 DEF TypeOK, ChainGrows
  <2>3. QED
    BY <1>1, <2>2 DEF TypeOK
<1>4. Sound(db)'
  <2>1. OnChain(db)'
    BY <1>1 DEF Sound, OnChain, AttestedBy, Creating, Confirmed, ChainGrows
  <2>2. Damage(db)'
    BY <1>1 DEF Sound, Damage, Confirmed, ChainGrows
  <2>3. Credited(db)'
    BY <1>1 DEF Sound, Credited, ConfirmedBy, Confirmed
  <2>4. QED
    BY <1>1, <2>1, <2>2, <2>3 DEF Sound, Databases
<1>5. ScansInOrder'
  BY <1>1 DEF ScansInOrder
<1>6. ReadsBehind'
  BY <1>1, <1>2 DEF ReadsBehind, Behind, ChainGrows
<1>7. QED
  BY <1>3, <1>4, <1>5, <1>6 DEF IInv

\* record_scan of a signed scan, in any order with the others.
LEMMA RecordScanKeeps ==
  ASSUME IInv, NEW id \in Ids, NEW wallet \in Wallets, RecordScan(id, wallet)
  PROVE  IInv'
<1> DEFINE e == db.event[id]
           after == AfterScan(chain.grade, chain.void, e.grade, TRUE)
<1>1. TypeOK /\ ProofsCounted /\ ScansInOrder
  BY DEF IInv
<1>2. e \in EventRows /\ e.grade \in Grades \ {"VOID"} /\ e.counter \in Nat
      /\ e.seal \in Seals
  BY <1>1 DEF TypeOK, Databases, EventRows, ScansInOrder
<1>3. /\ chain \in Chains /\ chain.attester \in [Ids -> Wallets \cup {NoWallet}]
      /\ chain.count \in Nat /\ chain.grade \in Grades /\ chain.void \in BOOLEAN
      /\ chain.counter \in [Seals -> Nat]
  BY <1>1 DEF TypeOK, Chains
<1>4. /\ e.status # "none" /\ ~chain.void /\ e.counter > chain.counter[e.seal]
      /\ chain' = [attester |-> [chain.attester EXCEPT ![id] = wallet],
                   count |-> chain.count + 1, grade |-> after.grade,
                   void |-> after.void,
                   counter |-> [chain.counter EXCEPT ![e.seal] = e.counter]]
      /\ UNCHANGED <<db, node, requests, cycle, now>>
  BY DEF RecordScan
<1>5. /\ after.grade \in Grades /\ after.void \in BOOLEAN
      /\ after.void <=> after.grade = "VOID"
      /\ after.void <=> chain.void
      /\ after.grade = "C" => chain.grade = "C" \/ e.grade = "C"
      /\ chain.grade = "C" \/ e.grade = "C" => after.grade \in {"C", "VOID"}
  BY <1>1, <1>2, <1>3 DEF ProofsCounted, AfterScan, Grades
<1> HIDE DEF after, e
<1>6. /\ chain'.attester = [chain.attester EXCEPT ![id] = wallet]
      /\ chain'.counter = [chain.counter EXCEPT ![e.seal] = e.counter]
      /\ chain'.grade = after.grade
  BY <1>4
<1>7. chain'.void = after.void
  BY <1>4
<1>8. chain' \in Chains
  BY <1>2, <1>3, <1>4, <1>5 DEF Chains
<1>9. chain.attester[id] = NoWallet
  BY <1>1, <1>2, <1>3, <1>4 DEF ProofsCounted, e
<1>10. ChainGrows
  BY <1>1, <1>3, <1>4, <1>5, <1>6, <1>7, <1>9 DEF ChainGrows, ProofsCounted
<1>11. ProofsCounted'
  <2>1. \A s \in Seals : chain.counter[s] <= chain'.counter[s]
    BY <1>2, <1>3, <1>4, <1>6
  <2>2. ASSUME NEW x \in Ids, chain'.attester[x] # NoWallet
        PROVE  /\ db.event[x].status # "none"
               /\ db.event[x].counter <= chain'.counter[db.event[x].seal]
               /\ db.event[x].grade = "C" => chain'.grade \in {"C", "VOID"}
    <3>1. CASE x = id
      <4>1. db.event[x] = e
        BY <3>1 DEF e
      <4>2. chain'.counter[e.seal] = e.counter
        BY <1>2, <1>3, <1>6
      <4>3. QED
        BY <1>2, <1>4, <1>5, <1>6, <4>1, <4>2
    <3>2. CASE x # id
      <4>1. chain.attester[x] # NoWallet
        BY <1>3, <1>6, <2>2, <3>2
      <4>2. db.event[x].seal \in Seals /\ db.event[x].counter \in Nat
        BY <1>1 DEF TypeOK, Databases, EventRows
      <4>3. chain.counter[db.event[x].seal] \in Nat
            /\ chain'.counter[db.event[x].seal] \in Nat
        BY <1>3, <1>8, <4>2 DEF Chains
      <4>4. QED
        BY <1>1, <1>10, <2>1, <4>1, <4>2, <4>3 DEF ProofsCounted, ChainGrows
    <3>3. QED
      BY <3>1, <3>2
  <2>3. chain'.void <=> chain'.grade = "VOID"
    BY <1>5, <1>6, <1>7
  <2>4. QED
    BY <1>4, <2>2, <2>3 DEF ProofsCounted
<1>12. QED
  BY <1>4, <1>8, <1>10, <1>11, ChainStep

\* mark_seal_dead.
LEMMA MarkSealDeadKeeps ==
  ASSUME IInv, MarkSealDead
  PROVE  IInv'
<1>1. TypeOK /\ ProofsCounted
  BY DEF IInv
<1>2. chain \in Chains
  BY <1>1 DEF TypeOK
<1>3. chain' = [chain EXCEPT !.void = TRUE, !.grade = "VOID"]
      /\ UNCHANGED <<db, node, requests, cycle, now>>
  BY DEF MarkSealDead
<1>4. /\ chain' \in Chains /\ chain'.grade = "VOID"
      /\ chain'.attester = chain.attester /\ chain'.counter = chain.counter
  BY <1>2, <1>3 DEF Chains, Grades
<1>5. chain'.void = TRUE
  BY <1>2, <1>3 DEF Chains
<1>6. ChainGrows
  BY <1>4, <1>5 DEF ChainGrows
<1>7. ProofsCounted'
  BY <1>1, <1>3, <1>4, <1>5 DEF ProofsCounted
<1>8. QED
  BY <1>3, <1>4, <1>6, <1>7, ChainStep
\* /api/verify: the next number is free, so no row is written over.
LEMMA SignScanKeeps ==
  ASSUME IInv, NEW h0 \in Histories, NEW i0 \in Ids, SignScan(h0[i0])
  PROVE  IInv'
<1>s. PICK scan \in [seal : Seals, grade : {"A", "B", "C", "D"},
                     claim : Wallets \cup {NoWallet}] : scan = h0[i0]
  OBVIOUS
<1> DEFINE known == {id \in Ids : db.event[id].status # "none"}
           counter == Cardinality({k \in known :
                                     db.event[k].seal = scan.seal}) + 1
           row == [NoEvent EXCEPT !.status = "pending", !.seal = scan.seal,
                       !.counter = counter, !.grade = scan.grade, !.ts = now,
                       !.claim = scan.claim]
<1>1. /\ TypeOK /\ Sound(db) /\ ScansInOrder /\ ProofsCounted /\ ReadsBehind
      /\ OnChain(db) /\ Credited(db) /\ Damage(db)
  BY DEF IInv, Sound
<1>2. /\ db \in Databases /\ db.event \in [Ids -> EventRows] /\ now \in Nat
      /\ db.grade \in Grades /\ db.void \in BOOLEAN
      /\ db.credit \in [Wallets -> Nat]
  BY <1>1 DEF TypeOK, Databases
<1>3. PICK n \in 0..MaxScans :
        \A id \in Ids : db.event[id].status # "none" <=> id <= n
  BY <1>1 DEF ScansInOrder
<1>4. Cardinality(known) = n
  <2>1. known = 1..n
    BY <1>3 DEF Ids
  <2>2. Cardinality(1..n) = n
    BY FS_Interval
  <2> HIDE DEF known
  <2>3. QED
    BY <2>1, <2>2
<1>5. PICK id \in Ids : id = n + 1
  BY <1>4 DEF SignScan
<1>6. db' = [db EXCEPT !.event[id] = row]
      /\ UNCHANGED <<chain, node, requests, cycle, now>>
  BY <1>s, <1>4, <1>5 DEF SignScan
<1>7. counter \in Nat
  <2>1. IsFiniteSet({k \in known : db.event[k].seal = scan.seal})
    BY FiniteIds
  <2>2. QED
    BY <2>1, FS_CardinalityType
<1> HIDE DEF counter, known
<1>8. row \in EventRows /\ row.status = "pending" /\ row.grade = scan.grade
  <2>1. (CHOOSE s \in Seals : TRUE) \in Seals
    OBVIOUS
  <2>2. QED
    BY <1>2, <1>7, <2>1 DEF NoEvent, EventRows, Statuses, Grades
<1> HIDE DEF row
<1>9. /\ db'.event = [db.event EXCEPT ![id] = row] /\ db'.grade = db.grade
      /\ db'.credit = db.credit /\ db' \in Databases
  BY <1>2, <1>6, <1>8 DEF Databases
<1>10. db'.void = db.void
  BY <1>2, <1>6 DEF Databases
<1>11. db'.event[id] = row /\ \A x \in Ids \ {id} : db'.event[x] = db.event[x]
  BY <1>2, <1>9
<1>12. db.event[id].status = "none" /\ chain.attester[id] = NoWallet
  BY <1>1, <1>3, <1>5 DEF ProofsCounted
<1>13. Confirmed(db)' = Confirmed(db) /\ id \notin Confirmed(db)
  BY <1>8, <1>11, <1>12 DEF Confirmed
<1>14. \A x \in Confirmed(db) : db'.event[x] = db.event[x]
  BY <1>11, <1>13 DEF Confirmed
<1>15. OnChain(db)'
  BY <1>1, <1>6, <1>13, <1>14 DEF OnChain, AttestedBy, Creating
<1>16. Credited(db)'
  <2>1. \A w \in Wallets : ConfirmedBy(db, w)' = ConfirmedBy(db, w)
    BY <1>13, <1>14 DEF ConfirmedBy
  <2>2. QED
    BY <1>1, <1>9, <2>1 DEF Credited
<1>17. Damage(db)'
  BY <1>1, <1>6, <1>9, <1>10, <1>13, <1>14 DEF Damage
<1>18. TypeOK' /\ ReadsBehind'
  BY <1>1, <1>6, <1>9 DEF TypeOK, ReadsBehind, Behind
<1>19. ScansInOrder'
  <2>1. n + 1 \in 0..MaxScans
    BY <1>5 DEF Ids
  <2>2. \A x \in Ids : db'.event[x].status # "none" <=> x <= n + 1
    BY <1>3, <1>5, <1>8, <1>11 DEF Ids
  <2>3. \A x \in Ids : db'.event[x].grade # "VOID"
    BY <1>1, <1>8, <1>11 DEF ScansInOrder
  <2>4. QED
    BY <2>1, <2>2, <2>3 DEF ScansInOrder
<1>20. ProofsCounted'
  BY <1>1, <1>6, <1>11, <1>12 DEF ProofsCounted
<1>21. QED
  BY <1>9, <1>15, <1>16, <1>17, <1>18, <1>19, <1>20 DEF IInv, Sound

\* A cycle that has read nothing.
LEMMA IdleCycle ==
  Idle \in CycleRecords /\ Behind(Idle.attester, Idle.account)
  /\ EmptyChain \in Chains
BY DEF Idle, EmptyChain, Account, CycleRecords, Behind, Chains, Grades

\* reconcile_once reads: the work list, the ScanProofs, later the account.
LEMMA CycleKeeps ==
  ASSUME IInv, NEW k \in Cycles, NEW found,
         \/ ReconcileRead(k) \/ ReconcileAccounts(k)
         \/ ReconcileApply(k, found) \/ ReconcileAborts(k)
  PROVE  IInv'
<1>1. /\ TypeOK /\ Sound(db) /\ ReadsBehind /\ Behind(node.attester, node)
      /\ cycle \in [Cycles -> CycleRecords] /\ node \in Chains /\ now \in Nat
      /\ db.event \in [Ids -> EventRows]
      /\ \A q \in Cycles : Behind(cycle[q].attester, cycle[q].account)
  BY DEF IInv, TypeOK, ReadsBehind, Databases
<1>2. SameScans(db)
  BY DEF SameScans
<1>3. ASSUME NEW new \in CycleRecords, Behind(new.attester, new.account),
             cycle' = [cycle EXCEPT ![k] = new],
             UNCHANGED <<chain, node, requests, now>>,
             Sound(db'), SameScans(db')
      PROVE  IInv'
  <2>1. cycle' \in [Cycles -> CycleRecords]
    BY <1>1, <1>3
  <2>2. \A q \in Cycles : Behind(cycle'[q].attester, cycle'[q].account)
    BY <1>1, <1>3
  <2>3. QED
    BY <1>3, <2>1, <2>2, DatabaseStep
<1>4. CASE ReconcileRead(k)
  <2> DEFINE work == {id \in Ids :
                        LET e == db.event[id] IN
                        \/ e.status = "pending"
                        \/ e.status = "failed" /\ e.ts >= now - FailedRecheck}
             status == [id \in Ids |->
                          IF id \in work THEN db.event[id].status ELSE "none"]
             attester == [id \in Ids |->
                            IF id \in work THEN node.attester[id] ELSE NoWallet]
             new == [Idle EXCEPT !.phase = "proofs", !.status = status,
                                 !.attester = attester, !.ts = now]
  <2>1. /\ cycle' = [cycle EXCEPT ![k] = new]
        /\ UNCHANGED <<db, chain, node, requests, now>>
    BY <1>4 DEF ReconcileRead
  <2>2. status \in [Ids -> {"none", "pending", "failed"}]
    BY <1>1
  <2>3. attester \in [Ids -> Wallets \cup {NoWallet}]
    BY <1>1 DEF Chains
  <2>4. \A id \in Ids : attester[id] \in {NoWallet, chain.attester[id]}
    BY <1>1 DEF Behind
  <2> HIDE DEF status, attester, work
  <2>5. /\ new \in CycleRecords /\ new.attester = attester
        /\ new.account = Idle.account
    BY <1>1, <2>2, <2>3, IdleCycle DEF CycleRecords
  <2>6. Behind(new.attester, new.account)
    BY <2>4, <2>5, IdleCycle DEF Behind
  <2> HIDE DEF new
  <2>7. QED
    BY <1>1, <1>2, <1>3, <2>1, <2>5, <2>6
<1>5. CASE ReconcileAccounts(k)
  <2> DEFINE new == [[cycle[k] EXCEPT !.phase = "accounts"]
                       EXCEPT !.account = Account(node)]
  <2>1. /\ cycle' = [cycle EXCEPT ![k] = new]
        /\ UNCHANGED <<db, chain, node, requests, now>>
    BY <1>1, <1>5 DEF ReconcileAccounts
  <2>2. Account(node) \in [count : Nat, grade : Grades, void : BOOLEAN]
    BY <1>1 DEF Account, Chains
  <2>3. Account(node).grade = node.grade /\ Account(node).void = node.void
    BY DEF Account
  <2>4. /\ new \in CycleRecords /\ new.attester = cycle[k].attester
        /\ new.account = Account(node)
    BY <1>1, <2>2, ZenonT(30) DEF CycleRecords
  <2>5. Behind(new.attester, new.account)
    BY <1>1, <2>3, <2>4 DEF Behind
  <2> HIDE DEF new
  <2>6. QED
    BY <1>1, <1>2, <1>3, <2>1, <2>4, <2>5
<1>6. CASE ReconcileApply(k, found)
  <2>1. Sound(db') /\ SameScans(db')
    BY <1>6, ReconcileSound DEF ReconcileApply
  <2>2. cycle' = [cycle EXCEPT ![k] = Idle]
        /\ UNCHANGED <<chain, node, requests, now>>
    BY <1>6 DEF ReconcileApply
  <2>3. QED
    BY <1>3, <2>1, <2>2, IdleCycle
<1>7. CASE ReconcileAborts(k)
  <2>1. cycle' = [cycle EXCEPT ![k] = Idle]
        /\ UNCHANGED <<db, chain, node, requests, now>>
    BY <1>7 DEF ReconcileAborts
  <2>2. QED
    BY <1>1, <1>2, <1>3, <2>1, IdleCycle
<1>8. QED
  BY <1>4, <1>5, <1>6, <1>7

\* POST /api/events: reading, writing and answering or losing a request.
LEMMA RequestKeeps ==
  ASSUME IInv, NEW tx,
         \/ tx \in Txs /\ ConfirmRead(tx)
         \/ tx \in requests /\ (ConfirmWrite(tx) \/ RequestEnds(tx))
  PROVE  IInv'
<1>1. /\ TypeOK /\ Sound(db) /\ ScansInOrder /\ ProofsCounted /\ ReadsBehind
      /\ cycle \in [Cycles -> CycleRecords]
      /\ \A q \in Cycles : Behind(cycle[q].attester, cycle[q].account)
  BY DEF IInv, TypeOK, ReadsBehind
<1>2. CASE tx \in requests /\ ConfirmWrite(tx)
  <2>1. Sound(db') /\ SameScans(db')
    BY <1>2, WrittenSound DEF ConfirmWrite
  <2>2. UNCHANGED <<chain, node, requests, cycle, now>>
    BY <1>2 DEF ConfirmWrite
  <2>3. QED
    BY <1>1, <2>1, <2>2, DatabaseStep
<1>3. ASSUME requests' \subseteq
               {x \in Txs : x.ok => chain.attester[x.id] = x.signer},
             UNCHANGED <<db, chain, node, cycle, now>>
      PROVE  IInv'
  BY <1>1, <1>3
  DEF IInv, TypeOK, Sound, OnChain, Credited, ConfirmedBy, Confirmed, Damage,
      AttestedBy, ScansInOrder, ProofsCounted, ReadsBehind, Behind
<1>4. CASE tx \in Txs /\ ConfirmRead(tx)
  BY <1>1, <1>3, <1>4 DEF ConfirmRead, TypeOK
<1>5. CASE tx \in requests /\ RequestEnds(tx)
  BY <1>1, <1>3, <1>5 DEF RequestEnds, TypeOK
<1>6. QED
  BY <1>2, <1>4, <1>5
\* The other steps: the node catches up, time passes, SEAL_DEAD is confirmed.
LEMMA OtherStepsKeep ==
  ASSUME IInv, NodeCatchesUp \/ Tick \/ SealDeadEvent
  PROVE  IInv'
<1>1. /\ TypeOK /\ Sound(db) /\ ScansInOrder /\ ProofsCounted /\ ReadsBehind
      /\ OnChain(db) /\ Credited(db) /\ Damage(db)
      /\ cycle \in [Cycles -> CycleRecords] /\ chain \in Chains
      /\ \A q \in Cycles : Behind(cycle[q].attester, cycle[q].account)
  BY DEF IInv, TypeOK, ReadsBehind, Sound
<1>2. CASE NodeCatchesUp
  <2>1. node' = chain /\ UNCHANGED <<db, chain, requests, cycle, now>>
    BY <1>2 DEF NodeCatchesUp
  <2>2. Behind(node.attester, node)'
    BY <1>1, <2>1 DEF Behind, ProofsCounted
  <2>3. ReadsBehind'
    BY <1>1, <2>1, <2>2 DEF ReadsBehind, Behind
  <2>4. QED
    BY <1>1, <2>1, <2>3
    DEF IInv, TypeOK, Sound, OnChain, Credited, ConfirmedBy, Confirmed, Damage,
        AttestedBy, ScansInOrder, ProofsCounted
<1>3. CASE Tick
  <2>1. now' \in Nat /\ UNCHANGED <<db, chain, node, requests, cycle>>
    BY <1>1, <1>3 DEF Tick, TypeOK
  <2>2. QED
    BY <1>1, <2>1
    DEF IInv, TypeOK, Sound, OnChain, Credited, ConfirmedBy, Confirmed, Damage,
        AttestedBy, ScansInOrder, ProofsCounted, ReadsBehind, Behind
<1>4. CASE SealDeadEvent
  <2>1. /\ chain.void /\ db' = [db EXCEPT !.void = TRUE, !.grade = "VOID"]
        /\ UNCHANGED <<chain, node, requests, cycle, now>>
    BY <1>4 DEF SealDeadEvent
  <2>2. db \in Databases
    BY <1>1 DEF TypeOK
  <2>3. /\ db' \in Databases /\ db'.event = db.event /\ db'.grade = "VOID"
        /\ db'.credit = db.credit
    BY <2>1, <2>2 DEF Databases, Grades
  <2>4. db'.void = TRUE
    BY <2>1, <2>2 DEF Databases
  <2>5. Confirmed(db') = Confirmed(db)
    BY <2>3 DEF Confirmed
  <2>6. OnChain(db') /\ Credited(db') /\ SameScans(db')
    BY <1>1, <2>3, <2>5 DEF OnChain, Credited, ConfirmedBy, SameScans
  <2>7. Damage(db')
    BY <2>1, <2>3, <2>4 DEF Damage
  <2>8. QED
    BY <1>1, <2>1, <2>3, <2>6, <2>7, DatabaseStep DEF Sound
<1>5. QED
  BY <1>2, <1>3, <1>4

-----------------------------------------------------------------------------
(* The invariant holds                                                     *)

\* Nothing is signed, anchored or read yet.
LEMMA InitKeeps == Init => IInv
<1> SUFFICES ASSUME Init PROVE IInv
  OBVIOUS
<1>1. NoEvent \in EventRows /\ NoEvent.status = "none" /\ NoEvent.grade = "A"
  <2>1. (CHOOSE s \in Seals : TRUE) \in Seals
    OBVIOUS
  <2>2. QED
    BY <2>1 DEF NoEvent, EventRows, Statuses, Grades
<1>2. /\ db = [event |-> [id \in Ids |-> NoEvent], grade |-> "A",
               void |-> FALSE, credit |-> [w \in Wallets |-> 0]]
      /\ chain = EmptyChain /\ node = EmptyChain /\ requests = {}
      /\ cycle = [k \in Cycles |-> Idle] /\ now = 0
  BY DEF Init
<1>3. db \in Databases
  BY <1>1, <1>2 DEF Databases, Grades
<1>4. TypeOK
  BY <1>2, <1>3, IdleCycle DEF TypeOK
<1>5. \A id \in Ids : db.event[id] = NoEvent
  BY <1>2
<1>6. Confirmed(db) = {}
  BY <1>1, <1>5 DEF Confirmed
<1>7. Sound(db)
  <2>1. Credited(db)
    BY <1>2, <1>6, FS_EmptySet DEF Credited, ConfirmedBy
  <2>2. OnChain(db) /\ Damage(db)
    BY <1>2, <1>6 DEF OnChain, Damage
  <2>3. QED
    BY <1>3, <2>1, <2>2 DEF Sound
<1>8. ScansInOrder
  <2>1. \A id \in Ids : db.event[id].status # "none" <=> id <= 0
    BY <1>1, <1>5 DEF Ids
  <2>2. QED
    BY <1>1, <1>5, <2>1 DEF ScansInOrder
<1>9. ProofsCounted
  BY <1>2 DEF ProofsCounted, EmptyChain
<1>10. ReadsBehind
  BY <1>2, IdleCycle DEF ReadsBehind, Behind, EmptyChain
<1>11. QED
  BY <1>4, <1>7, <1>8, <1>9, <1>10 DEF IInv

\* Every step of the cluster, the browsers and the job keeps the invariant.
LEMMA NextKeeps == IInv /\ [Next]_vars => IInv'
<1> SUFFICES ASSUME IInv, [Next]_vars PROVE IInv'
  OBVIOUS
<1>1. CASE ClusterStep
  BY <1>1, SignScanKeeps, RecordScanKeeps, MarkSealDeadKeeps, OtherStepsKeep
  DEF ClusterStep
<1>2. CASE \E tx \in Txs : ConfirmRead(tx)
  BY <1>2, RequestKeeps
<1>3. CASE \E tx \in requests : ConfirmWrite(tx) \/ RequestEnds(tx)
  BY <1>3, RequestKeeps
<1>4. CASE SealDeadEvent
  BY <1>4, OtherStepsKeep
<1>5. CASE \E k \in Cycles :
             \/ ReconcileRead(k)
             \/ ReconcileAccounts(k)
             \/ \E found \in SUBSET Ids : ReconcileApply(k, found)
             \/ ReconcileAborts(k)
  BY <1>5, CycleKeeps
<1>6. CASE UNCHANGED vars
  BY <1>6
  DEF vars, IInv, TypeOK, Sound, OnChain, Credited, ConfirmedBy, Confirmed,
      Damage, AttestedBy, ScansInOrder, ProofsCounted, ReadsBehind, Behind
<1>7. QED
  BY <1>1, <1>2, <1>3, <1>4, <1>5, <1>6 DEF Next

\* The inductive invariant, for every number of scans, requests and cycles.
THEOREM Invariant == Spec => []IInv
<1>1. QED
  BY InitKeeps, NextKeeps, PTL DEF Spec

-----------------------------------------------------------------------------
(* What it says                                                            *)

\* The tables, the accounts and what the job remembers hold values of their
\* types, and a verified request names a transaction of the chain.
THEOREM TypeCorrect == Spec => []TypeOK
<1>1. IInv => TypeOK
  BY DEF IInv
<1>2. QED
  BY <1>1, Invariant, PTL

\* A confirmed event is a ScanProof of the chain, by its attester and with its
\* creating transaction (main.py _confirm_event, reconcile.py).
THEOREM ConfirmedAreAnchored == Spec => []ConfirmedOnChain
<1>1. IInv => ConfirmedOnChain
  BY DEF IInv, Sound, OnChain, AttestedBy, Creating, ConfirmedOnChain
<1>2. QED
  BY <1>1, Invariant, PTL

\* attesters.scan_count is the number of confirmed scans, although a browser
\* and overlapping cycles of the job may all confirm one
\* (service.apply_confirmed_scan).
THEOREM CreditIsExact == Spec => []CreditedOnce
<1>1. IInv => CreditedOnce
  BY DEF IInv, Sound, Credited, ConfirmedBy, CreditedOnce
<1>2. QED
  BY <1>1, Invariant, PTL

\* Neither a late confirmation nor a lagging account hides damage or invents
\* any (proof.passport_after_scan, proof.passport_from_chain).
THEOREM DamageStays == Spec => []DamageIsKept
<1>1. IInv => DamageIsKept
  BY DEF IInv, Sound, Damage, DamageIsKept
<1>2. QED
  BY <1>1, Invariant, PTL
=============================================================================
