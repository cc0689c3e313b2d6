------------------------------- MODULE Escrow -------------------------------
(***************************************************************************)
(* The escrow program: one USDC sale of one bottle at a time per           *)
(* (passport, seller) pair.  Every instruction of programs/escrow is one   *)
(* action; a Solana transaction is atomic, so an action either makes all   *)
(* of the handler's changes or (its guard being false) none of them.       *)
(*                                                                         *)
(* The escrow reads four things it does not own: flacon passports, seals   *)
(* and ScanProofs, the flacon partner list, the owner of a Metaplex Core   *)
(* asset and USDC token balances.  They are variables here too, changed by *)
(* the actions of the section "What the escrow reads".                     *)
(***************************************************************************)
EXTENDS Integers, FiniteSets

CONSTANTS
  Wallets,          \* key pairs that can sign
  Admin,            \* EscrowConfig.admin
  Sellers, Buyers,  \* the wallets that list, the wallets that reserve
  Passports,        \* flacon passports
  Issuer,           \* passport -> the wallet that minted it
  Assets,           \* addresses stored in Passport.asset
  AssetOf,          \* passport -> its asset
  NoCoreAsset,      \* "owner" of an address that holds no Core asset
  Seals,            \* flacon seals
  SealOf,           \* seal -> its passport
  NoSeal,           \* the optional seal account of dispute, not passed
  NoScan,           \* Pubkey::default() in seller_scan and buyer_scan
  NoBuyer,          \* Pubkey::default() in buyer
  Readings,         \* what a scan measures: [fill, heat, hum]
  FillTolerance,    \* FILL_TOLERANCE
  Skew,             \* MAX_SCAN_TS_SKEW_S
  MinWindow,        \* MIN_DISPUTE_AFTER_S
  MaxWindow,        \* MAX_DISPUTE_AFTER_S
  Windows,          \* windows an admin may ask for
  Prices,           \* prices a seller may ask for
  Funds,            \* USDC in every wallet at the start
  Receivers,        \* who a wallet may hand its Core asset to
  Gifts,            \* amounts a wallet may send straight to a vault
  MaxCounter,       \* bound: highest tap counter of a seal
  MaxTime,          \* bound: the clock stops here
  LastStart         \* bound: reserve and ship happen no later than this

Orders == Passports \X Wallets

PassportOf(o) == o[1]
SellerOf(o) == o[2]
OrderAsset(o) == AssetOf[PassportOf(o)]

(***************************************************************************)
(* Core lets any address own an asset: a wallet, or an Order PDA.          *)
(***************************************************************************)
Owners == Wallets \cup Orders \cup {NoCoreAsset}

Funded == {"RESERVED", "PRESHIP_SCANNED", "SHIPPED", "RECEIPT_SCANNED",
           "MISMATCH"}
Terminal == {"RELEASED", "DISPUTE", "CANCELLED"}

\* "NONE": the Order account does not exist.
States == {"NONE", "LISTED"} \cup Funded \cup Terminal

Reasons == {"none", "ADMIN", "TIMEOUT", "SEAL_DEAD"}

\* The part of a ScanProof account the escrow reads.
ScanProofs == [seal : Seals, counter : 1..MaxCounter, attester : Wallets,
               ts : Int, reading : Readings]

\* The Order account.  reason is not stored on chain: it is what the last
\* OrderDisputed event of the order carries.
OrderRecords ==
  [state : States, buyer : Wallets \cup {NoBuyer}, price : Nat,
   reserved_at : Nat, shipped_at : Nat,
   seller_scan : ScanProofs \cup {NoScan},
   buyer_scan : ScanProofs \cup {NoScan},
   window : Int, deposited : BOOLEAN, reason : Reasons]

\* What an order account holds before anything happened to it.
EmptyOrder ==
  [state |-> "NONE", buyer |-> NoBuyer, price |-> 0,
   reserved_at |-> 0, shipped_at |-> 0,
   seller_scan |-> NoScan, buyer_scan |-> NoScan,
   window |-> MinWindow, deposited |-> FALSE, reason |-> "none"]

ASSUME WalletAssumption ==
  /\ Admin \in Wallets
  /\ Sellers \subseteq Wallets
  /\ Buyers \subseteq Wallets
  /\ Receivers \subseteq Wallets \cup Orders
  /\ NoBuyer \notin Wallets

ASSUME AccountAssumption ==
  /\ Issuer \in [Passports -> Wallets]
  /\ AssetOf \in [Passports -> Assets]
  /\ SealOf \in [Seals -> Passports]
  /\ NoSeal \notin Seals
  /\ Wallets \cap Orders = {}
  /\ NoCoreAsset \notin Wallets \cup Orders

ASSUME ReadingAssumption ==
  /\ \A r \in Readings : r \in [fill : Nat, heat : Nat, hum : Nat]
  /\ NoScan \notin ScanProofs

ASSUME NumberAssumption ==
  /\ MinWindow \in Nat /\ MaxWindow \in Nat /\ MinWindow <= MaxWindow
  /\ Windows \subseteq Int
  /\ Prices \subseteq Nat
  /\ Gifts \subseteq Nat \ {0}
  /\ Skew \in Nat /\ FillTolerance \in Nat /\ Funds \in Nat
  /\ MaxCounter \in Nat /\ MaxTime \in Nat /\ LastStart \in Nat

VARIABLES
  order,        \* order account of every (passport, seller) pair
  vault,        \* USDC in the vault of an order
  openVaults,   \* orders whose vault token account exists
  window,       \* EscrowConfig.dispute_after_s
  offers,       \* reserve transactions signed by a buyer and not yet landed
  now,          \* cluster clock
  usdc,         \* USDC token balance of every wallet
  owner,        \* owner of every Core asset
  partners,     \* flacon: registry partners and the authority
  voided,       \* flacon: void passports
  deadSeals,    \* flacon: dead seals
  scans         \* flacon: ScanProof accounts

escrowVars == <<order, vault, openVaults, window>>
flaconVars == <<partners, voided, deadSeals, scans>>
vars == <<order, vault, openVaults, window, offers, now, usdc, owner,
          partners, voided, deadSeals, scans>>

Init ==
  /\ order = [o \in Orders |-> EmptyOrder]
  /\ vault = [o \in Orders |-> 0]
  /\ openVaults = {}
  /\ window \in {w \in Windows : MinWindow <= w /\ w <= MaxWindow}
  /\ offers = {}
  /\ now = 1
  /\ usdc = [w \in Wallets |-> Funds]
  /\ owner \in [Assets -> Sellers \cup {NoCoreAsset}]
  /\ partners = {Issuer[p] : p \in Passports}
  /\ voided = {}
  /\ deadSeals = {}
  /\ scans = {}

-----------------------------------------------------------------------------
(* rules.rs                                                                *)

EffectiveWindow(w) ==
  IF w < MinWindow THEN MinWindow ELSE IF w > MaxWindow THEN MaxWindow ELSE w

CheckWindow(w) == MinWindow <= w /\ w <= MaxWindow

\* Mutant: the deadline itself already counts as elapsed.
ElapsedAtDeadline(start, w) == now >= start + EffectiveWindow(w)

Elapsed(start, w) == now > start + EffectiveWindow(w)

AdminMayRefund(state) == state \in {"RESERVED", "PRESHIP_SCANNED", "SHIPPED"}

\* Mutant: a buyer's timeout that still looks at orders already shipped.
BuyerDisputeShipped(o, seal) ==
  IF order[o].state \notin {"RESERVED", "PRESHIP_SCANNED", "SHIPPED"} THEN {}
  ELSE IF seal # NoSeal
       THEN IF SealOf[seal] = PassportOf(o) /\ seal \in deadSeals
            THEN {"SEAL_DEAD"} ELSE {}
       ELSE IF Elapsed(order[o].reserved_at, order[o].window)
            THEN {"TIMEOUT"} ELSE {}

\* Mutant: a buyer's timeout that forgets the pre-ship scanned orders.
BuyerDisputeReservedOnly(o, seal) ==
  IF order[o].state # "RESERVED" THEN {}
  ELSE IF seal # NoSeal
       THEN IF SealOf[seal] = PassportOf(o) /\ seal \in deadSeals
            THEN {"SEAL_DEAD"} ELSE {}
       ELSE IF Elapsed(order[o].reserved_at, order[o].window)
            THEN {"TIMEOUT"} ELSE {}

\* Reasons a buyer's dispute of o can have, at most one: {} is an error.
BuyerDisputeReason(o, seal) ==
  IF order[o].state \notin {"RESERVED", "PRESHIP_SCANNED"} THEN {}
  ELSE IF seal # NoSeal
       THEN IF SealOf[seal] = PassportOf(o) /\ seal \in deadSeals
            THEN {"SEAL_DEAD"} ELSE {}
       ELSE IF Elapsed(order[o].reserved_at, order[o].window)
            THEN {"TIMEOUT"} ELSE {}

\* Mutant: the issuer may always sell, whoever owns the Core asset.
CheckSellerOrIssuer(o) ==
  SellerOf(o) \in {owner[OrderAsset(o)], Issuer[PassportOf(o)]}

\* Who may sell: the owner of the Core asset; without one, the issuer while
\* it is a partner.
CheckSeller(o) ==
  LET holder == owner[OrderAsset(o)]
      issuer == Issuer[PassportOf(o)]
  IN  IF holder # NoCoreAsset
      THEN holder = SellerOf(o)
      ELSE issuer = SellerOf(o) /\ issuer \in partners

CheckScanNotBefore(ts, stepAt) == ts >= stepAt - Skew

\* Mutant: anybody's scan will do.
CheckScanOfAnybody(o, scan, attester, notBefore) ==
  /\ SealOf[scan.seal] = PassportOf(o)
  /\ CheckScanNotBefore(scan.ts, notBefore)

CheckScan(o, scan, attester, notBefore) ==
  /\ SealOf[scan.seal] = PassportOf(o)
  /\ scan.attester = attester
  /\ CheckScanNotBefore(scan.ts, notBefore)

AbsDiff(a, b) == IF a > b THEN a - b ELSE b - a

Matches(r1, r2) ==
  /\ r1.heat = r2.heat
  /\ r1.hum = r2.hum
  /\ AbsDiff(r1.fill, r2.fill) <= FillTolerance

-----------------------------------------------------------------------------
(* Token and asset movements                                               *)

\* Core executes a transfer only for the current owner of the asset.
CoreTransfer(asset, from, to) ==
  /\ owner[asset] = from
  /\ owner' = [owner EXCEPT ![asset] = to]

\* The vault is created if needed; an existing one keeps its balance.
FundVault(o, buyer) ==
  /\ usdc[buyer] >= order[o].price
  /\ usdc' = [usdc EXCEPT ![buyer] = @ - order[o].price]
  /\ vault' = [vault EXCEPT ![o] = @ + order[o].price]
  /\ openVaults' = openVaults \cup {o}

\* Mutant: the token account stays open.
DrainVaultKeepOpen(o, to) ==
  /\ o \in openVaults
  /\ usdc' = [usdc EXCEPT ![to] = @ + vault[o]]
  /\ vault' = [vault EXCEPT ![o] = 0]
  /\ UNCHANGED openVaults

\* The whole balance leaves and the token account is closed.
DrainVault(o, to) ==
  /\ o \in openVaults
  /\ usdc' = [usdc EXCEPT ![to] = @ + vault[o]]
  /\ vault' = [vault EXCEPT ![o] = 0]
  /\ openVaults' = openVaults \ {o}

ReturnAsset(o, to) ==
  IF order[o].deposited THEN CoreTransfer(OrderAsset(o), o, to)
                        ELSE owner' = owner

SettleToSeller(o) ==
  /\ DrainVault(o, SellerOf(o))
  /\ ReturnAsset(o, order[o].buyer)
  /\ order' = [order EXCEPT ![o].state = "RELEASED", ![o].deposited = FALSE]

\* Mutant: the buyer gets the money and the asset.
RefundWithAsset(o, reason) ==
  /\ DrainVault(o, order[o].buyer)
  /\ ReturnAsset(o, order[o].buyer)
  /\ order' = [order EXCEPT ![o].state = "DISPUTE", ![o].deposited = FALSE,
                            ![o].reason = reason]

RefundBuyer(o, reason) ==
  /\ DrainVault(o, order[o].buyer)
  /\ ReturnAsset(o, SellerOf(o))
  /\ order' = [order EXCEPT ![o].state = "DISPUTE", ![o].deposited = FALSE,
                            ![o].reason = reason]

-----------------------------------------------------------------------------
(* Instructions                                                            *)

SetDisputeWindow(w) ==
  /\ CheckWindow(w)
  /\ window' = w
  /\ UNCHANGED <<order, vault, openVaults, offers, now, usdc, owner>>
  /\ UNCHANGED flaconVars

List(o, price) ==
  /\ order[o].state = "NONE"
  /\ price > 0
  /\ PassportOf(o) \notin voided
  /\ CheckSeller(o)
  /\ order' = [order EXCEPT ![o] = [EmptyOrder EXCEPT
                 !.state = "LISTED", !.price = price,
                 !.window = EffectiveWindow(window)]]
  /\ UNCHANGED <<vault, openVaults, window, offers, now, usdc, owner>>
  /\ UNCHANGED flaconVars

DepositAsset(o) ==
  /\ order[o].state = "LISTED"
  /\ ~order[o].deposited
  /\ CoreTransfer(OrderAsset(o), SellerOf(o), o)
  /\ order' = [order EXCEPT ![o].deposited = TRUE]
  /\ UNCHANGED <<vault, openVaults, window, offers, now, usdc>>
  /\ UNCHANGED flaconVars

\* Mutant: the flag is still set when the asset has left.
CancelKeepsFlag(o) ==
  /\ order[o].state = "LISTED"
  /\ ReturnAsset(o, SellerOf(o))
  /\ order' = [order EXCEPT ![o].state = "CANCELLED"]
  /\ UNCHANGED <<vault, openVaults, window, offers, now, usdc>>
  /\ UNCHANGED flaconVars

Cancel(o) ==
  /\ order[o].state = "LISTED"
  /\ ReturnAsset(o, SellerOf(o))
  /\ order' = [order EXCEPT ![o].state = "CANCELLED", ![o].deposited = FALSE]
  /\ UNCHANGED <<vault, openVaults, window, offers, now, usdc>>
  /\ UNCHANGED flaconVars

CloseOrder(o) ==
  /\ order[o].state \in Terminal
  /\ order' = [order EXCEPT ![o] = EmptyOrder]
  /\ UNCHANGED <<vault, openVaults, window, offers, now, usdc, owner>>
  /\ UNCHANGED flaconVars

\* Mutant: a price that rose in the meantime is charged.
PriceAtLeast(o, expectedPrice) == order[o].price >= expectedPrice

PriceAgreed(o, expectedPrice) == order[o].price = expectedPrice

Reserve(o, buyer, expectedPrice) ==
  /\ <<o, buyer, expectedPrice>> \in offers
  /\ now <= LastStart
  /\ order[o].state = "LISTED"
  /\ buyer # SellerOf(o)
  /\ PriceAgreed(o, expectedPrice)
  /\ PassportOf(o) \notin voided
  /\ ~order[o].deposited => CheckSeller(o)
  /\ FundVault(o, buyer)
  /\ order' = [order EXCEPT ![o].state = "RESERVED", ![o].buyer = buyer,
                            ![o].reserved_at = now]
  /\ offers' = offers \ {<<o, buyer, expectedPrice>>}
  /\ UNCHANGED <<window, now, owner>>
  /\ UNCHANGED flaconVars

RecordPreShipScan(o, scan) ==
  /\ order[o].state = "RESERVED"
  /\ CheckScan(o, scan, SellerOf(o), order[o].reserved_at)
  /\ order' = [order EXCEPT ![o].state = "PRESHIP_SCANNED",
                            ![o].seller_scan = scan]
  /\ UNCHANGED <<vault, openVaults, window, offers, now, usdc, owner>>
  /\ UNCHANGED flaconVars

Ship(o) ==
  /\ now <= LastStart
  /\ order[o].state = "PRESHIP_SCANNED"
  /\ order' = [order EXCEPT ![o].state = "SHIPPED", ![o].shipped_at = now]
  /\ UNCHANGED <<vault, openVaults, window, offers, now, usdc, owner>>
  /\ UNCHANGED flaconVars

\* Two scans of the same seal must be two taps, the receipt the later one.
NewerTap(receipt, preship) ==
  receipt.seal = preship.seal => receipt.counter > preship.counter

RecordReceiptScan(o, scan) ==
  /\ order[o].state = "SHIPPED"
  /\ CheckScan(o, scan, order[o].buyer, order[o].shipped_at)
  /\ NewerTap(scan, order[o].seller_scan)
  /\ order' = [order EXCEPT
       ![o].buyer_scan = scan,
       ![o].state = IF Matches(scan.reading, order[o].seller_scan.reading)
                    THEN "RECEIPT_SCANNED" ELSE "MISMATCH"]
  /\ UNCHANGED <<vault, openVaults, window, offers, now, usdc, owner>>
  /\ UNCHANGED flaconVars

Release(o) ==
  /\ order[o].state = "RECEIPT_SCANNED"
  /\ SettleToSeller(o)
  /\ UNCHANGED <<window, offers, now>>
  /\ UNCHANGED flaconVars

ReleaseAfterTimeout(o) ==
  /\ order[o].state = "SHIPPED"
  /\ Elapsed(order[o].shipped_at, order[o].window)
  /\ SettleToSeller(o)
  /\ UNCHANGED <<window, offers, now>>
  /\ UNCHANGED flaconVars

\* The admin branch comes first, also for an admin who is the buyer.
DisputeReason(o, signer, seal) ==
  IF signer = Admin
  THEN IF AdminMayRefund(order[o].state) THEN {"ADMIN"} ELSE {}
  ELSE IF signer = order[o].buyer THEN BuyerDisputeReason(o, seal) ELSE {}

Dispute(o, signer, seal) ==
  /\ \E reason \in DisputeReason(o, signer, seal) : RefundBuyer(o, reason)
  /\ UNCHANGED <<window, offers, now>>
  /\ UNCHANGED flaconVars

Resolve(o, toSeller) ==
  /\ order[o].state = "MISMATCH"
  /\ IF toSeller THEN SettleToSeller(o) ELSE RefundBuyer(o, "none")
  /\ UNCHANGED <<window, offers, now>>
  /\ UNCHANGED flaconVars

-----------------------------------------------------------------------------
(* What the escrow reads                                                   *)

\* The buyer's client shows a listing and has the buyer sign reserve with the
\* price it showed.  At most one signed transaction per buyer is in flight.
SignReserve(o, buyer) ==
  /\ order[o].state = "LISTED"
  /\ \A offer \in offers : offer[2] # buyer
  /\ offers' = offers \cup {<<o, buyer, order[o].price>>}
  /\ UNCHANGED <<now, usdc, owner>>
  /\ UNCHANGED escrowVars /\ UNCHANGED flaconVars

\* A signed transaction that fails or whose blockhash expires is gone.
DropReserve(offer) ==
  /\ offer \in offers
  /\ offers' = offers \ {offer}
  /\ UNCHANGED <<now, usdc, owner>>
  /\ UNCHANGED escrowVars /\ UNCHANGED flaconVars

Tick ==
  /\ now < MaxTime
  /\ now' = now + 1
  /\ UNCHANGED <<offers, usdc, owner>>
  /\ UNCHANGED escrowVars /\ UNCHANGED flaconVars

\* A wallet hands its Core asset to anybody, an Order PDA included.
TransferAsset(asset, to) ==
  /\ owner[asset] \in Wallets
  /\ to # owner[asset]
  /\ owner' = [owner EXCEPT ![asset] = to]
  /\ UNCHANGED <<offers, now, usdc>>
  /\ UNCHANGED escrowVars /\ UNCHANGED flaconVars

\* Anybody can send tokens to a token account that exists.
SendToVault(wallet, o, amount) ==
  /\ o \in openVaults
  /\ usdc[wallet] >= amount
  /\ usdc' = [usdc EXCEPT ![wallet] = @ - amount]
  /\ vault' = [vault EXCEPT ![o] = @ + amount]
  /\ UNCHANGED <<order, openVaults, window, offers, now, owner>>
  /\ UNCHANGED flaconVars

\* The flacon accounts change as their program promises.
Evid == INSTANCE Evidence WITH sealOf <- SealOf

\* flacon record_scan, of a message that is not too old.
FlaconRecordScan(seal, counter, attester, ts, reading, opened) ==
  /\ AbsDiff(ts, now) <= Skew
  /\ Evid!RecordScan([seal |-> seal, counter |-> counter, attester |-> attester,
                      ts |-> ts, reading |-> reading], opened)
  /\ UNCHANGED <<offers, now, usdc, owner, partners>>
  /\ UNCHANGED escrowVars

\* flacon mark_seal_dead.
FlaconMarkSealDead(seal) ==
  /\ Evid!MarkSealDead(seal)
  /\ UNCHANGED <<offers, now, usdc, owner, partners>>
  /\ UNCHANGED escrowVars

\* flacon add_partner, of a wallet that may sell as an issuer.
FlaconAddPartner(wallet) ==
  /\ wallet \notin partners
  /\ partners' = partners \cup {wallet}
  /\ UNCHANGED <<offers, now, usdc, owner, voided, deadSeals, scans>>
  /\ UNCHANGED escrowVars

\* flacon remove_partner.
FlaconRemovePartner(wallet) ==
  /\ wallet \in partners
  /\ partners' = partners \ {wallet}
  /\ UNCHANGED <<offers, now, usdc, owner, voided, deadSeals, scans>>
  /\ UNCHANGED escrowVars

-----------------------------------------------------------------------------
OrderStep(o) ==
  \/ \E price \in Prices : SellerOf(o) \in Sellers /\ List(o, price)
  \/ DepositAsset(o)
  \/ Cancel(o)
  \/ CloseOrder(o)
  \/ \E buyer \in Buyers, price \in Prices : Reserve(o, buyer, price)
  \/ \E scan \in scans : RecordPreShipScan(o, scan)
  \/ Ship(o)
  \/ \E scan \in scans : RecordReceiptScan(o, scan)
  \/ Release(o)
  \/ ReleaseAfterTimeout(o)
  \/ \E signer \in Wallets, seal \in Seals \cup {NoSeal} :
       Dispute(o, signer, seal)
  \/ \E toSeller \in BOOLEAN : Resolve(o, toSeller)

FlaconStep ==
  \/ \E seal \in Seals, counter \in 1..MaxCounter,
        attester \in Sellers \cup Buyers, ts \in (now - Skew)..(now + Skew),
        reading \in Readings, opened \in BOOLEAN :
       FlaconRecordScan(seal, counter, attester, ts, reading, opened)
  \/ \E seal \in Seals : FlaconMarkSealDead(seal)
  \/ \E p \in Passports : FlaconAddPartner(Issuer[p])
  \/ \E wallet \in Wallets : FlaconRemovePartner(wallet)

WorldStep ==
  \/ Tick
  \/ \E o \in Orders, buyer \in Buyers : SignReserve(o, buyer)
  \/ \E offer \in offers : DropReserve(offer)
  \/ \E asset \in Assets, to \in Receivers :
       TransferAsset(asset, to)
  \/ \E wallet \in Wallets, o \in Orders, amount \in Gifts :
       SendToVault(wallet, o, amount)

Next ==
  \/ \E o \in Orders : OrderStep(o)
  \/ \E w \in Windows : SetDisputeWindow(w)
  \/ FlaconStep
  \/ WorldStep

Spec == Init /\ [][Next]_vars

-----------------------------------------------------------------------------
(* Fairness.  Time passes, and the one who is owed money acts: a buyer      *)
(* claims the refund of an order that was never shipped, anybody (the      *)
(* seller, a crank) releases what may be released, the admin decides a     *)
(* mismatch.  Nobody is assumed to list, reserve, scan or ship.            *)

BuyerTimeout(o) ==
  order[o].buyer \in Wallets /\ Dispute(o, order[o].buyer, NoSeal)

Fairness ==
  /\ WF_vars(Tick)
  /\ \A o \in Orders :
       /\ WF_vars(BuyerTimeout(o))
       /\ WF_vars(Release(o))
       /\ WF_vars(ReleaseAfterTimeout(o))
       /\ WF_vars(\E toSeller \in BOOLEAN : Resolve(o, toSeller))

FairSpec == Spec /\ Fairness

-----------------------------------------------------------------------------
(* Properties                                                              *)

\* Every account holds a value of its type.
TypeOK ==
  /\ order \in [Orders -> OrderRecords]
  /\ vault \in [Orders -> Nat]
  /\ openVaults \subseteq Orders
  /\ window \in Int
  /\ offers \subseteq Orders \X Buyers \X Nat
  /\ now \in Nat
  /\ usdc \in [Wallets -> Nat]
  /\ owner \in [Assets -> Owners]
  /\ partners \subseteq Wallets
  /\ voided \subseteq Passports
  /\ deadSeals \subseteq Seals
  /\ scans \subseteq ScanProofs

\* The vault of an order exists exactly while the order is funded
\* (state.rs is_funded), holds at least the price the buyer agreed to, and
\* leaves nothing behind for the next order of the same PDA (reserve uses
\* init_if_needed and drains whole balances only).
VaultBacksOrder ==
  \A o \in Orders :
    /\ o \in openVaults <=> order[o].state \in Funded
    /\ order[o].state \in Funded => /\ order[o].price > 0
                                   /\ vault[o] >= order[o].price
    /\ o \notin openVaults => vault[o] = 0

\* asset_deposited is true only while Core really names the Order PDA as the
\* owner, so the transfer every settlement and cancel needs can never fail
\* for lack of ownership, and no two orders hold the same asset.
CustodyIsReal ==
  \A o \in Orders :
    order[o].deposited => /\ owner[OrderAsset(o)] = o
                          /\ order[o].state \in {"LISTED"} \cup Funded

\* What TypeOK, VaultBacksOrder and CustodyIsReal need to be inductive: an
\* order on offer or funded has a price, a funded one a buyer who can sign, and
\* one that was never reserved no buyer.
PartiesKnown ==
  \A o \in Orders :
    /\ order[o].state \in {"LISTED"} \cup Funded => order[o].price > 0
    /\ order[o].state \in Funded => order[o].buyer \in Wallets \ {SellerOf(o)}
    /\ order[o].state \in {"NONE", "LISTED"} => order[o].buyer = NoBuyer

CoreInv == TypeOK /\ PartiesKnown /\ VaultBacksOrder /\ CustodyIsReal

\* s is a scan of this bottle, made by its seller for this reservation.
PreShipEvidence(o) ==
  LET s == order[o].seller_scan
  IN  /\ s \in scans
      /\ SealOf[s.seal] = PassportOf(o)
      /\ s.attester = SellerOf(o)
      /\ s.ts >= order[o].reserved_at - Skew

\* b is another scan of this bottle, made by the buyer for this delivery.
ReceiptEvidence(o) ==
  LET b == order[o].buyer_scan
      s == order[o].seller_scan
  IN  /\ b \in scans
      /\ b # s
      /\ SealOf[b.seal] = PassportOf(o)
      /\ b.attester = order[o].buyer
      /\ b.ts >= order[o].shipped_at - Skew
      /\ NewerTap(b, s)

ScansMatch(o) ==
  Matches(order[o].buyer_scan.reading, order[o].seller_scan.reading)

\* The scans that the state of o claims to rest on exist.
ScansBack(o) ==
  /\ order[o].state \in {"PRESHIP_SCANNED", "SHIPPED", "RECEIPT_SCANNED",
                         "MISMATCH"} => PreShipEvidence(o)
  /\ order[o].state \in {"RECEIPT_SCANNED", "MISMATCH"} =>
       /\ ReceiptEvidence(o)
       /\ order[o].state = "RECEIPT_SCANNED" <=> ScansMatch(o)

\* What has to have happened before the seller of o was paid.
PaidWithCause(o) ==
  order[o].state = "RELEASED" =>
    /\ PreShipEvidence(o)
    /\ order[o].reserved_at <= order[o].shipped_at
    /\ order[o].shipped_at > 0
    /\ IF order[o].buyer_scan = NoScan
       THEN now > order[o].shipped_at + order[o].window
       ELSE ReceiptEvidence(o)

\* What has to have happened before the buyer of o was refunded.
RefundedWithCause(o) ==
  order[o].state = "DISPUTE" =>
    /\ order[o].buyer_scan # NoScan => ReceiptEvidence(o) /\ ~ScansMatch(o)
    /\ order[o].reason = "TIMEOUT" =>
         /\ order[o].shipped_at = 0
         /\ now > order[o].reserved_at + order[o].window
    /\ order[o].reason = "SEAL_DEAD" =>
         /\ order[o].shipped_at = 0
         /\ \E seal \in deadSeals : SealOf[seal] = PassportOf(o)

\* A seller is paid only for a bottle that was scanned by the seller after
\* the reservation and then shipped, and either the buyer scanned it on
\* arrival or the buyer's whole window after shipping passed without a scan.
SellerPaidWithCause == \A o \in Orders : PaidWithCause(o)

\* A refund has the cause its event names, and no refund ever follows a
\* receipt scan that matched; only the admin refunds a shipped order.
RefundWithCause == \A o \in Orders : RefundedWithCause(o)

\* An order that is being settled rests on the scans its state claims:
\* RECEIPT_SCANNED exactly when the two scans agree.
ScansBackState == \A o \in Orders : ScansBack(o)

\* A buyer is charged exactly a price that buyer signed for, however the
\* seller cancelled, closed and listed again while the transaction was on
\* its way (expected_price).
ChargedWhatWasSeen ==
  [][\A o \in Orders :
       order[o].state = "LISTED" /\ order'[o].state = "RESERVED" =>
         \E offer \in offers :
           /\ offer[1] = o
           /\ offer[2] = order'[o].buyer
           /\ usdc'[offer[2]] = usdc[offer[2]] - offer[3]
           /\ order'[o].price = offer[3]]_vars

\* While one order holds an asset in custody, nobody buys the asset through
\* another order, not even one listed before the deposit.
NoSaleAroundCustody ==
  [][\A o, other \in Orders :
       /\ order[o].state = "LISTED" /\ order'[o].state = "RESERVED"
       /\ other # o /\ OrderAsset(other) = OrderAsset(o)
       => ~order[other].deposited]_vars

\* Nobody's money stays locked: a funded order is settled eventually,
\* whatever the other party does or does not do.
FundedSettles ==
  \A o \in Orders :
    order[o].state \in Funded ~> order[o].state \in Terminal \cup {"NONE"}

\* Delivery against payment: every step of the escrow is a step of Sale.
StageOf(state) ==
  IF state = "NONE" THEN "idle"
  ELSE IF state = "LISTED" THEN "offered"
  ELSE IF state \in Funded THEN "held" ELSE "settled"

SaleStage == [o \in Orders |-> StageOf(order[o].state)]
SaleBuyer == [o \in Orders |-> order[o].buyer]
SaleCustody == [o \in Orders |-> order[o].deposited]
SaleVendor == [o \in Orders |-> SellerOf(o)]
SaleGood == [o \in Orders |-> OrderAsset(o)]

Promise == INSTANCE Sale WITH
  Sales <- Orders,
  Nobody <- NoBuyer,
  Vendor <- SaleVendor,
  Good <- SaleGood,
  stage <- SaleStage,
  buyer <- SaleBuyer,
  held <- vault,
  custody <- SaleCustody

\* The escrow program implements the abstract sale.
DeliveryAgainstPayment == Promise!Spec

=============================================================================
