------------------------------ MODULE OrderBook ------------------------------
(***************************************************************************)
(* The verifier's memory of escrow sales, for one Order PDA: the table     *)
(* escrow_orders and the counters escrows_ok / escrows_disputed that wallet*)
(* pages show.                                                             *)
(*                                                                         *)
(* The PDA is used for one sale after the other: close_order removes the   *)
(* account and the seller may list again.  Two writers keep the table: a   *)
(* client reports the transaction that settled a sale (verified over RPC   *)
(* first, with the Order account as it is at that moment), and the         *)
(* reconcile job reads all Order accounts and applies what it read later.  *)
(* Neither holds a lock while it reads.                                    *)
(***************************************************************************)
EXTENDS Integers, FiniteSets

CONSTANTS
  Seller,      \* the seller of the PDA
  Buyers,      \* wallets that may reserve
  NoBuyer,     \* buyer NULL, Pubkey::default() on chain
  NoAccount,   \* no Order account, or one that could not be read
  Traced,      \* TRUE: once the PDA is used again, reconcile reads every
               \* listing before its sale ends
  Gap,         \* least seconds from the end of a sale to the next listing
  SaleTime,    \* least seconds from the reservation to the end of a sale
  Lag,         \* most seconds from reconcile's read to its write
  MaxReports,  \* bound: different reports in flight
  MaxSales,    \* bound: listings of the PDA
  MaxClock     \* bound: the clock stops here

Wallets == Buyers \cup {Seller}
SaleOutcomes == {"RELEASED", "DISPUTE"}
OrderTerminal == SaleOutcomes \cup {"CANCELLED"}

\* FUNDED stands for the five funded states, which the table stores and
\* nothing here tells apart.
OrderStates == {"LISTED", "FUNDED"} \cup OrderTerminal

Accounts == [listed_at : Nat, buyer : Buyers \cup {NoBuyer}, state : OrderStates]

\* A row is an Order account as last heard of.  A negative listed_at is a
\* placeholder for a listing nobody has seen, keyed by the time it ended.
Rows == [listed_at : Int, buyer : Buyers \cup {NoBuyer}, state : OrderStates]

\* A transaction that settled a sale: its block time and the buyer among its
\* accounts.  listed_at tells which listing it settled; the verifier does not
\* see it.
Settlements == [listed_at : Nat, at : Nat, buyer : Buyers, state : SaleOutcomes]

ASSUME OrderBookAssumption ==
  /\ Seller \notin Buyers /\ NoBuyer \notin Wallets
  /\ NoAccount \notin Accounts
  /\ Traced \in BOOLEAN
  /\ Gap \in Nat /\ SaleTime \in Nat /\ Lag \in Nat
  /\ MaxReports \in Nat /\ MaxSales \in Nat /\ MaxClock \in Nat

VARIABLES
  account,   \* the Order account
  ended,     \* when the last sale ended, or may end at the earliest
  sales,     \* listings so far
  settled,   \* settlement transactions on chain
  rows,      \* escrow_orders of this PDA
  recorded,  \* settlements recorded as RELEASE or DISPUTE events
  credit,    \* escrows_ok and escrows_disputed of every wallet
  reports,   \* reports between verification and write: [tx, order]
  cycle,     \* reconcile: [phase, order, ts]
  clock

chainVars == <<account, ended, sales, settled>>
bookVars == <<account, ended, sales, settled, rows, recorded, credit, reports,
          cycle, clock>>

Idle == [phase |-> "idle", order |-> NoAccount, ts |-> 0]

BookInit ==
  /\ account = NoAccount
  /\ ended = 0
  /\ sales = 0
  /\ settled = {}
  /\ rows = {}
  /\ recorded = {}
  /\ credit = [w \in Wallets |-> [ok |-> 0, disputed |-> 0]]
  /\ reports = {}
  /\ cycle = Idle
  /\ clock = 1

-----------------------------------------------------------------------------
(* The Order account, as the escrow program changes it                     *)

List ==
  /\ account = NoAccount
  /\ sales < MaxSales
  /\ clock >= ended + Gap
  /\ account' = [listed_at |-> clock, buyer |-> NoBuyer, state |-> "LISTED"]
  /\ sales' = sales + 1
  /\ UNCHANGED <<ended, settled, rows, recorded, credit, reports, cycle, clock>>

Reserve(b) ==
  /\ account # NoAccount /\ account.state = "LISTED"
  /\ account' = [account EXCEPT !.state = "FUNDED", !.buyer = b]
  /\ ended' = clock + SaleTime
  /\ UNCHANGED <<sales, settled, rows, recorded, credit, reports, cycle, clock>>

Settle(outcome) ==
  /\ account # NoAccount /\ account.state = "FUNDED"
  /\ clock >= ended
  /\ Traced /\ sales > 1 => \E r \in rows : r.listed_at = account.listed_at
  /\ account' = [account EXCEPT !.state = outcome]
  /\ settled' = settled \cup {[listed_at |-> account.listed_at, at |-> clock,
                               buyer |-> account.buyer, state |-> outcome]}
  /\ ended' = clock
  /\ UNCHANGED <<sales, rows, recorded, credit, reports, cycle, clock>>

Cancel ==
  /\ account # NoAccount /\ account.state = "LISTED"
  /\ account' = [account EXCEPT !.state = "CANCELLED"]
  /\ ended' = clock
  /\ UNCHANGED <<sales, settled, rows, recorded, credit, reports, cycle, clock>>

CloseOrder ==
  /\ account # NoAccount /\ account.state \in OrderTerminal
  /\ account' = NoAccount
  /\ UNCHANGED <<ended, sales, settled, rows, recorded, credit, reports, cycle,
                 clock>>

-----------------------------------------------------------------------------
(* The table                                                               *)

\* INSERT ... ON CONFLICT(order_pda, listed_at) DO UPDATE.
Put(table, row) ==
  {r \in table : r.listed_at # row.listed_at} \cup {row}

Newest(table) ==
  CHOOSE r \in table : \A q \in table : q.listed_at <= r.listed_at

Oldest(table) ==
  CHOOSE r \in table : \A q \in table : r.listed_at <= q.listed_at

Count(table, w, state) ==
  Cardinality({r \in table : r.state = state /\ (w = Seller \/ r.buyer = w)})

\* sync_escrow_counters, limited to some wallets.
Synced(table, some) ==
  [w \in Wallets |->
     IF w \in some THEN [ok |-> Count(table, w, "RELEASED"),
                         disputed |-> Count(table, w, "DISPUTE")]
                   ELSE credit[w]]

\* Placeholders that a listing of this time merges.
Placeholders(table, listed_at) ==
  {r \in table : r.listed_at < 0 /\ -r.listed_at >= listed_at}

\* Mutant: a stale read moves a finished sale back.
UpsertedBack(table, o) ==
  LET ph == Placeholders(table, o.listed_at)
      state == IF ph = {} \/ o.state \in OrderTerminal THEN o.state
               ELSE Oldest(ph).state
  IN  Put(table \ ph, [o EXCEPT !.state = state])

\* upsert_escrow_order: placeholders of this listing go, and give it the state
\* they hold; a row in a final state does not move.
Upserted(table, o) ==
  LET ph == Placeholders(table, o.listed_at)
      kept == table \ ph
      state == IF ph = {} \/ o.state \in OrderTerminal THEN o.state
               ELSE Oldest(ph).state
      final == \E r \in kept : r.listed_at = o.listed_at
                               /\ r.state \in OrderTerminal
  IN  IF final THEN kept ELSE Put(kept, [o EXCEPT !.state = state])

\* Mutant: the newest listing, whenever it was listed.
KnownAtAll(table, at) == {r \in table : 0 <= r.listed_at}

\* Listings the table had when the settlement happened.
KnownBy(table, at) == {r \in table : 0 <= r.listed_at /\ r.listed_at <= at}

\* record_escrow_outcome: the row a settlement is written to.
OutcomeRow(table, tx, order) ==
  LET known == KnownBy(table, tx.at) IN
  IF order # NoAccount /\ order.listed_at <= tx.at
  THEN [listed_at |-> order.listed_at,
        buyer |-> IF order.buyer # NoBuyer THEN order.buyer ELSE tx.buyer,
        state |-> tx.state]
  ELSE IF known # {}
  THEN [Newest(known) EXCEPT
          !.state = tx.state,
          !.buyer = IF @ = NoBuyer THEN tx.buyer ELSE @]
  ELSE [listed_at |-> -tx.at, buyer |-> tx.buyer, state |-> tx.state]

-----------------------------------------------------------------------------
(* POST /api/events, RELEASE and DISPUTE                                   *)

\* The transaction is verified and the Order account read, outside of any
\* database transaction.  An account that is gone or cannot be read is none.
ReportRead(tx, readable) ==
  /\ tx \in settled \ recorded
  /\ Cardinality(reports) < MaxReports
  /\ reports' = reports \cup
       {[tx |-> tx, order |-> IF readable THEN account ELSE NoAccount]}
  /\ UNCHANGED chainVars
  /\ UNCHANGED <<rows, recorded, credit, cycle, clock>>

\* The write transaction.
ReportWrite(r) ==
  LET row == OutcomeRow(rows, r.tx, r.order)
  IN
  /\ r \in reports
  /\ reports' = reports \ {r}
  /\ recorded' = recorded \cup {r.tx}
  /\ IF r.tx \in recorded THEN UNCHANGED <<rows, credit>>
     ELSE /\ rows' = Put(rows, row)
          /\ credit' = Synced(rows', {Seller, row.buyer})
  /\ UNCHANGED chainVars
  /\ UNCHANGED <<cycle, clock>>

\* The client goes away before the write.
ReportLost(r) ==
  /\ r \in reports
  /\ reports' = reports \ {r}
  /\ UNCHANGED chainVars
  /\ UNCHANGED <<rows, recorded, credit, cycle, clock>>

(* reconcile_once                                                          *)

\* getProgramAccounts.
ReconcileRead ==
  /\ cycle.phase = "idle"
  /\ cycle' = [phase |-> "read", order |-> account, ts |-> clock]
  /\ UNCHANGED chainVars
  /\ UNCHANGED <<rows, recorded, credit, reports, clock>>

\* The write transaction: the order, then every counter.
ReconcileApply ==
  /\ cycle.phase = "read"
  /\ rows' = IF cycle.order = NoAccount THEN rows ELSE Upserted(rows, cycle.order)
  /\ credit' = Synced(rows', Wallets)
  /\ cycle' = Idle
  /\ UNCHANGED chainVars
  /\ UNCHANGED <<recorded, reports, clock>>

ClockTicks ==
  /\ clock < MaxClock
  /\ cycle.phase = "read" => clock < cycle.ts + Lag
  /\ clock' = clock + 1
  /\ UNCHANGED chainVars
  /\ UNCHANGED <<rows, recorded, credit, reports, cycle>>

BookNext ==
  \/ List \/ Cancel \/ CloseOrder
  \/ \E b \in Buyers : Reserve(b)
  \/ \E outcome \in SaleOutcomes : Settle(outcome)
  \/ \E tx \in settled, readable \in BOOLEAN : ReportRead(tx, readable)
  \/ \E r \in reports : ReportWrite(r) \/ ReportLost(r)
  \/ ReconcileRead \/ ReconcileApply
  \/ ClockTicks

BookSpec == BookInit /\ [][BookNext]_bookVars

-----------------------------------------------------------------------------
(* Properties                                                              *)

\* Every table holds rows of its type, one per key.
BookTypeOK ==
  /\ account \in Accounts \cup {NoAccount}
  /\ settled \subseteq Settlements /\ recorded \subseteq settled
  /\ rows \subseteq Rows
  /\ \A r, q \in rows : r.listed_at = q.listed_at => r = q
  /\ credit \in [Wallets -> [ok : Nat, disputed : Nat]]
  /\ cycle.order \in Accounts \cup {NoAccount}
  /\ clock \in Nat

\* A wallet's reputation counts no sale twice, none with an outcome it did not
\* have and none of somebody else: placeholder, read account and reported
\* transaction of one sale end in one row, so the counters stay within what
\* was settled on chain.
NotOvercounted ==
  \A w \in Wallets :
    LET settledAs(outcome) ==
          Cardinality({tx \in settled : /\ tx.state = outcome
                                        /\ w \in {Seller, tx.buyer}})
    IN  /\ credit[w].ok <= settledAs("RELEASED")
        /\ credit[w].disputed <= settledAs("DISPUTE")

\* A sale whose outcome was reported has that outcome in the table, under its
\* own listing or as a placeholder, with its buyer, and nothing that happens
\* to the account later takes it away.
OutcomeKept ==
  \A tx \in recorded :
    \E r \in rows : /\ r.listed_at \in {tx.listed_at, -tx.at}
                    /\ r.state = tx.state
                    /\ r.buyer = tx.buyer

=============================================================================
