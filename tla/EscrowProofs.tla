---------------------------- MODULE EscrowProofs ----------------------------
(***************************************************************************)
(* Proofs about the escrow program for every set of wallets, passports,    *)
(* seals and assets, every price, window and clock.                        *)
(***************************************************************************)
EXTENDS Escrow, TLAPS

USE WalletAssumption, AccountAssumption, NumberAssumption

\* An empty order account has the type of an order account.
LEMMA EmptyOrderType == EmptyOrder \in OrderRecords
BY DEF EmptyOrder, OrderRecords, States, Reasons

\* The two components of an order's identity.
LEMMA OrderParts ==
  ASSUME NEW o \in Orders
  PROVE  /\ PassportOf(o) \in Passports
         /\ SellerOf(o) \in Wallets
         /\ OrderAsset(o) \in Assets
BY DEF Orders, PassportOf, SellerOf, OrderAsset

\* The clamped window is an integer.
LEMMA EffectiveWindowType ==
  ASSUME NEW w \in Int
  PROVE  EffectiveWindow(w) \in Int
BY DEF EffectiveWindow

\* Wherever an asset in custody goes, its owner stays an owner.
LEMMA ReturnAssetType ==
  ASSUME TypeOK, NEW o \in Orders, NEW to \in Wallets, ReturnAsset(o, to)
  PROVE  owner' \in [Assets -> Owners]
<1>1. CASE order[o].deposited
  BY <1>1, OrderParts DEF ReturnAsset, CoreTransfer, TypeOK, Owners
<1>2. CASE ~order[o].deposited
  BY <1>2 DEF ReturnAsset, TypeOK
<1>3. QED
  BY <1>1, <1>2

\* Draining a vault moves natural numbers.
LEMMA DrainVaultType ==
  ASSUME TypeOK, NEW o \in Orders, NEW to \in Wallets, DrainVault(o, to)
  PROVE  /\ usdc' \in [Wallets -> Nat]
         /\ vault' \in [Orders -> Nat]
         /\ openVaults' \subseteq Orders
<1>1. vault[o] \in Nat /\ usdc[to] \in Nat
  BY DEF TypeOK
<1>2. QED
  BY <1>1 DEF DrainVault, TypeOK

\* The order record a settlement or a cancellation leaves behind.
LEMMA SettledOrderType ==
  ASSUME TypeOK, NEW o \in Orders, NEW state \in States,
         NEW reason \in Reasons
  PROVE  /\ [order EXCEPT ![o].state = state, ![o].deposited = FALSE]
              \in [Orders -> OrderRecords]
         /\ [order EXCEPT ![o].state = state, ![o].deposited = FALSE,
                          ![o].reason = reason]
              \in [Orders -> OrderRecords]
<1>1. order[o] \in OrderRecords
  BY DEF TypeOK
<1>2. QED
  BY <1>1 DEF TypeOK, OrderRecords

\* The order records the other instructions leave behind.
LEMMA UpdatedOrderType ==
  ASSUME TypeOK, NEW o \in Orders, NEW state \in States, NEW at \in Nat,
         NEW b \in BOOLEAN
  PROVE  /\ [order EXCEPT ![o].deposited = b] \in [Orders -> OrderRecords]
         /\ [order EXCEPT ![o].state = state, ![o].shipped_at = at]
              \in [Orders -> OrderRecords]
<1>1. order[o] \in OrderRecords
  BY DEF TypeOK
<1>2. [order EXCEPT ![o].deposited = b] \in [Orders -> OrderRecords]
  BY <1>1 DEF TypeOK, OrderRecords
<1>3. [order EXCEPT ![o].state = state, ![o].shipped_at = at]
              \in [Orders -> OrderRecords]
  BY <1>1 DEF TypeOK, OrderRecords
<1>4. QED
  BY <1>2, <1>3

\* The order records a recorded scan leaves behind.
LEMMA ScannedOrderType ==
  ASSUME TypeOK, NEW o \in Orders, NEW state \in States,
         NEW scan \in ScanProofs
  PROVE  /\ [order EXCEPT ![o].state = state, ![o].seller_scan = scan]
              \in [Orders -> OrderRecords]
         /\ [order EXCEPT ![o].buyer_scan = scan, ![o].state = state]
              \in [Orders -> OrderRecords]
<1>1. order[o] \in OrderRecords
  BY DEF TypeOK
<1>2. [order EXCEPT ![o].state = state, ![o].seller_scan = scan]
              \in [Orders -> OrderRecords]
  BY <1>1 DEF TypeOK, OrderRecords
<1>3. [order EXCEPT ![o].buyer_scan = scan, ![o].state = state]
              \in [Orders -> OrderRecords]
  BY <1>1 DEF TypeOK, OrderRecords
<1>4. QED
  BY <1>2, <1>3

\* A funded order has a buyer: only reserve makes an order funded.
LEMMA SettleToSellerType ==
  ASSUME TypeOK, NEW o \in Orders, order[o].buyer \in Wallets,
         SettleToSeller(o)
  PROVE  /\ usdc' \in [Wallets -> Nat]
         /\ vault' \in [Orders -> Nat]
         /\ openVaults' \subseteq Orders
         /\ owner' \in [Assets -> Owners]
         /\ order' \in [Orders -> OrderRecords]
<1>1. /\ DrainVault(o, SellerOf(o))
      /\ ReturnAsset(o, order[o].buyer)
      /\ order' = [order EXCEPT ![o].state = "RELEASED",
                                ![o].deposited = FALSE]
  BY DEF SettleToSeller
<1>2. "RELEASED" \in States /\ "none" \in Reasons
  BY DEF States, Terminal, Reasons
<1>3. QED
  BY <1>1, <1>2, OrderParts, DrainVaultType, ReturnAssetType,
     SettledOrderType

\* A refund of a funded order keeps the types: its buyer is a wallet.
LEMMA RefundBuyerType ==
  ASSUME TypeOK, NEW o \in Orders, order[o].buyer \in Wallets,
         NEW reason \in Reasons, RefundBuyer(o, reason)
  PROVE  /\ usdc' \in [Wallets -> Nat]
         /\ vault' \in [Orders -> Nat]
         /\ openVaults' \subseteq Orders
         /\ owner' \in [Assets -> Owners]
         /\ order' \in [Orders -> OrderRecords]
<1>1. /\ DrainVault(o, order[o].buyer)
      /\ ReturnAsset(o, SellerOf(o))
      /\ order' = [order EXCEPT ![o].state = "DISPUTE",
                                ![o].deposited = FALSE,
                                ![o].reason = reason]
  BY DEF RefundBuyer
<1>2. "DISPUTE" \in States
  BY DEF States, Terminal
<1>3. QED
  BY <1>1, <1>2, OrderParts, DrainVaultType, ReturnAssetType,
     SettledOrderType

-----------------------------------------------------------------------------
(* One lemma per kind of step: it keeps the core invariant.                *)

\* list (instructions/list.rs handle_list) keeps the invariant.
LEMMA ListKeeps ==
  ASSUME CoreInv, NEW o \in Orders, NEW price \in Prices, List(o, price)
  PROVE  CoreInv'
<1> DEFINE new == [EmptyOrder EXCEPT !.state = "LISTED", !.price = price,
                                     !.window = EffectiveWindow(window)]
<1>1. new \in OrderRecords
  BY EmptyOrderType, EffectiveWindowType
  DEF OrderRecords, States, TypeOK, CoreInv
<1>2. /\ new.state = "LISTED" /\ new.price = price
      /\ new.deposited = FALSE /\ new.buyer = NoBuyer
  BY DEF EmptyOrder
<1>3. /\ order' = [order EXCEPT ![o] = new]
      /\ order[o].state = "NONE" /\ price > 0
      /\ UNCHANGED <<vault, openVaults, window, offers, now, usdc, owner,
                     partners, voided, deadSeals, scans>>
  BY DEF List, flaconVars
<1> HIDE DEF new
<1>4. TypeOK'
  BY <1>1, <1>3 DEF TypeOK, CoreInv
<1>5. PartiesKnown' /\ VaultBacksOrder' /\ CustodyIsReal'
  BY <1>2, <1>3
  DEF CoreInv, TypeOK, PartiesKnown, VaultBacksOrder, CustodyIsReal, Funded
<1>6. QED
  BY <1>4, <1>5 DEF CoreInv

\* deposit_asset keeps the invariant: the flag is set by the transfer alone.
LEMMA DepositAssetKeeps ==
  ASSUME CoreInv, NEW o \in Orders, DepositAsset(o)
  PROVE  CoreInv'
<1> USE OrderParts
<1>0. TypeOK /\ PartiesKnown /\ VaultBacksOrder /\ CustodyIsReal
  BY DEF CoreInv
<1>1. TypeOK'
  <2>1. order' \in [Orders -> OrderRecords]
    BY <1>0, UpdatedOrderType DEF DepositAsset, States
  <2>2. owner' \in [Assets -> Owners]
    BY <1>0 DEF DepositAsset, CoreTransfer, TypeOK, Owners
  <2>3. QED
    BY <1>0, <2>1, <2>2 DEF DepositAsset, TypeOK, flaconVars
<1>2. PartiesKnown' /\ VaultBacksOrder'
  BY <1>0 DEF DepositAsset, TypeOK, OrderRecords, PartiesKnown, VaultBacksOrder,
         Funded
<1>3. CustodyIsReal'
  BY <1>0 DEF DepositAsset, CoreTransfer, TypeOK, OrderRecords, CustodyIsReal,
         Orders, OrderAsset
<1>4. QED
  BY <1>1, <1>2, <1>3 DEF CoreInv

\* cancel keeps the invariant: what was deposited goes back.
LEMMA CancelKeeps ==
  ASSUME CoreInv, NEW o \in Orders, Cancel(o)
  PROVE  CoreInv'
<1> USE OrderParts DEF CoreInv
<1>1. TypeOK'
  <2>1. "CANCELLED" \in States /\ "none" \in Reasons
    BY DEF States, Terminal, Reasons
  <2>2. order' \in [Orders -> OrderRecords]
    BY <2>1, SettledOrderType DEF Cancel
  <2>3. owner' \in [Assets -> Owners]
    BY ReturnAssetType DEF Cancel
  <2>4. QED
    BY <2>2, <2>3 DEF Cancel, TypeOK, flaconVars
<1>2. PartiesKnown' /\ VaultBacksOrder'
  BY DEF Cancel, TypeOK, OrderRecords, PartiesKnown, VaultBacksOrder, Funded
<1>3. CustodyIsReal'
  BY DEF Cancel, ReturnAsset, CoreTransfer, TypeOK, OrderRecords,
         CustodyIsReal, Orders, OrderAsset
<1>4. QED
  BY <1>1, <1>2, <1>3

\* close_order keeps the invariant: a terminal order owns nothing.
LEMMA CloseOrderKeeps ==
  ASSUME CoreInv, NEW o \in Orders, CloseOrder(o)
  PROVE  CoreInv'
<1>1. TypeOK'
  BY EmptyOrderType DEF CoreInv, CloseOrder, TypeOK, flaconVars
<1>2. PartiesKnown' /\ VaultBacksOrder' /\ CustodyIsReal'
  BY DEF CoreInv, CloseOrder, TypeOK, PartiesKnown, VaultBacksOrder,
         CustodyIsReal, Funded, Terminal, EmptyOrder
<1>3. QED
  BY <1>1, <1>2 DEF CoreInv

\* reserve keeps the invariant: the vault is filled as the state changes.
LEMMA ReserveKeeps ==
  ASSUME CoreInv, NEW o \in Orders, NEW buyer \in Buyers,
         NEW price \in Prices, Reserve(o, buyer, price)
  PROVE  CoreInv'
<1> USE OrderParts DEF CoreInv
<1>1. /\ order[o] \in OrderRecords /\ order[o].price \in Nat
      /\ usdc[buyer] \in Nat /\ vault[o] \in Nat
  BY DEF TypeOK, OrderRecords
<1>2. order' \in [Orders -> OrderRecords]
  BY <1>1 DEF Reserve, FundVault, TypeOK, OrderRecords, States, Funded
<1>3. usdc' \in [Wallets -> Nat] /\ vault' \in [Orders -> Nat]
  BY <1>1 DEF Reserve, FundVault, TypeOK
<1>4. TypeOK'
  BY <1>2, <1>3 DEF Reserve, FundVault, TypeOK, flaconVars
<1>5. PartiesKnown' /\ VaultBacksOrder' /\ CustodyIsReal'
  BY <1>1 DEF Reserve, FundVault, TypeOK, PartiesKnown, VaultBacksOrder,
              CustodyIsReal, Funded
<1>6. QED
  BY <1>4, <1>5

\* What scanning and shipping have in common: order o stays a funded order
\* of the same parties, and nothing else changes.
StaysFunded(o) ==
  /\ order' \in [Orders -> OrderRecords]
  /\ \A x \in Orders \ {o} : order'[x] = order[x]
  /\ order[o].state \in Funded /\ order'[o].state \in Funded
  /\ order'[o].buyer = order[o].buyer
  /\ order'[o].price = order[o].price
  /\ order'[o].deposited = order[o].deposited
  /\ UNCHANGED <<vault, openVaults, window, offers, now, usdc, owner,
                 partners, voided, deadSeals, scans>>

\* The steps that record progress on the order account move nothing.
LEMMA ProgressStaysFunded ==
  ASSUME CoreInv, NEW o \in Orders,
         \/ \E scan \in scans : RecordPreShipScan(o, scan)
         \/ Ship(o)
         \/ \E scan \in scans : RecordReceiptScan(o, scan)
  PROVE  StaysFunded(o)
<1>0. TypeOK /\ order[o] \in OrderRecords /\ now \in Nat
  BY DEF CoreInv, TypeOK
<1>1. ASSUME NEW scan \in scans, RecordPreShipScan(o, scan)
      PROVE  StaysFunded(o)
  <2>1. scan \in ScanProofs /\ "PRESHIP_SCANNED" \in States
    BY <1>0 DEF TypeOK, States, Funded
  <2>2. order' \in [Orders -> OrderRecords]
    BY <1>0, <1>1, <2>1, ScannedOrderType DEF RecordPreShipScan
  <2>3. QED
    BY <1>0, <1>1, <2>2
    DEF RecordPreShipScan, StaysFunded, TypeOK, OrderRecords, Funded,
        flaconVars
<1>2. ASSUME Ship(o)
      PROVE  StaysFunded(o)
  <2>1. "SHIPPED" \in States
    BY DEF States, Funded
  <2>2. order' \in [Orders -> OrderRecords]
    BY <1>0, <1>2, <2>1, UpdatedOrderType DEF Ship
  <2>3. QED
    BY <1>0, <1>2, <2>2
    DEF Ship, StaysFunded, TypeOK, OrderRecords, Funded, flaconVars
<1>3. ASSUME NEW scan \in scans, RecordReceiptScan(o, scan)
      PROVE  StaysFunded(o)
  <2> DEFINE next ==
        IF Matches(scan.reading, order[o].seller_scan.reading)
        THEN "RECEIPT_SCANNED" ELSE "MISMATCH"
  <2>1. scan \in ScanProofs /\ next \in States /\ next \in Funded
    BY <1>0 DEF TypeOK, States, Funded
  <2>2. order' = [order EXCEPT ![o].buyer_scan = scan, ![o].state = next]
    BY <1>3 DEF RecordReceiptScan
  <2> HIDE DEF next
  <2>3. order' \in [Orders -> OrderRecords]
    BY <1>0, <2>1, <2>2, ScannedOrderType
  <2>4. /\ order[o].state \in Funded
        /\ UNCHANGED <<vault, openVaults, window, offers, now, usdc, owner,
                       partners, voided, deadSeals, scans>>
    BY <1>3 DEF RecordReceiptScan, Funded, flaconVars
  <2>5. QED
    BY <1>0, <2>1, <2>2, <2>3, <2>4
    DEF StaysFunded, TypeOK, OrderRecords
<1>4. QED
  BY <1>1, <1>2, <1>3

\* Nothing the core invariant speaks of changes while an order stays funded.
LEMMA ProgressKeeps ==
  ASSUME CoreInv, NEW o \in Orders, StaysFunded(o)
  PROVE  CoreInv'
<1>0. TypeOK /\ PartiesKnown /\ VaultBacksOrder /\ CustodyIsReal
  BY DEF CoreInv
<1>1. TypeOK'
  BY <1>0 DEF TypeOK, StaysFunded
<1>2. PartiesKnown' /\ VaultBacksOrder' /\ CustodyIsReal'
  BY <1>0 DEF StaysFunded, PartiesKnown, VaultBacksOrder, CustodyIsReal,
              Funded
<1>3. QED
  BY <1>1, <1>2 DEF CoreInv

\* A settlement in favour of the seller: release, release_after_timeout,
\* resolve(to_seller).
LEMMA SettleToSellerKeeps ==
  ASSUME CoreInv, NEW o \in Orders, order[o].state \in Funded,
         SettleToSeller(o),
         UNCHANGED <<window, offers, now>>, UNCHANGED flaconVars
  PROVE  CoreInv'
<1> USE OrderParts DEF CoreInv
<1>0. order[o].buyer \in Wallets
  BY DEF PartiesKnown
<1>1. TypeOK'
  BY <1>0, SettleToSellerType DEF TypeOK, flaconVars
<1>2. PartiesKnown' /\ VaultBacksOrder'
  BY DEF SettleToSeller, DrainVault, TypeOK, OrderRecords, PartiesKnown,
         VaultBacksOrder, Funded
<1>3. CustodyIsReal'
  BY DEF SettleToSeller, ReturnAsset, CoreTransfer, TypeOK, OrderRecords,
         CustodyIsReal, Orders, OrderAsset
<1>4. QED
  BY <1>1, <1>2, <1>3

\* A settlement in favour of the buyer: dispute, resolve(not to_seller).
LEMMA RefundBuyerKeeps ==
  ASSUME CoreInv, NEW o \in Orders, order[o].state \in Funded,
         NEW reason \in Reasons, RefundBuyer(o, reason),
         UNCHANGED <<window, offers, now>>, UNCHANGED flaconVars
  PROVE  CoreInv'
<1> USE OrderParts DEF CoreInv
<1>0. order[o].buyer \in Wallets
  BY DEF PartiesKnown
<1>1. TypeOK'
  BY <1>0, RefundBuyerType DEF TypeOK, flaconVars
<1>2. PartiesKnown' /\ VaultBacksOrder'
  BY DEF RefundBuyer, DrainVault, TypeOK, OrderRecords, PartiesKnown,
         VaultBacksOrder, Funded
<1>3. CustodyIsReal'
  BY DEF RefundBuyer, ReturnAsset, CoreTransfer, TypeOK, OrderRecords,
         CustodyIsReal, Orders, OrderAsset
<1>4. QED
  BY <1>1, <1>2, <1>3

\* The actions outside the order accounts.
LEMMA WorldKeeps ==
  ASSUME CoreInv,
         \/ FlaconStep
         \/ WorldStep
         \/ \E w \in Windows : SetDisputeWindow(w)
  PROVE  CoreInv'
<1>0. TypeOK /\ PartiesKnown /\ VaultBacksOrder /\ CustodyIsReal
  BY DEF CoreInv
<1> USE DEF escrowVars, flaconVars
<1>1. ASSUME NEW w \in Windows, SetDisputeWindow(w)
      PROVE  CoreInv'
  BY <1>0, <1>1 DEF SetDisputeWindow, CoreInv, TypeOK, PartiesKnown,
                    VaultBacksOrder, CustodyIsReal
<1>2. ASSUME FlaconStep
      PROVE  CoreInv'
  <2>1. ASSUME NEW seal \in Seals, NEW counter \in 1..MaxCounter,
               NEW attester \in Sellers \cup Buyers,
               NEW ts \in (now - Skew)..(now + Skew),
               NEW reading \in Readings, NEW opened \in BOOLEAN,
               FlaconRecordScan(seal, counter, attester, ts, reading, opened)
        PROVE  CoreInv'
    <3>1. ts \in Int /\ attester \in Wallets /\ SealOf[seal] \in Passports
      BY <1>0 DEF TypeOK
    <3>2. scans' \subseteq ScanProofs
      BY <1>0, <2>1, <3>1 DEF FlaconRecordScan, Evid!RecordScan, TypeOK, ScanProofs
    <3>3. voided' \subseteq Passports
      BY <1>0, <2>1, <3>1 DEF FlaconRecordScan, Evid!RecordScan, TypeOK
    <3>4. QED
      BY <1>0, <2>1, <3>2, <3>3
      DEF FlaconRecordScan, Evid!RecordScan, CoreInv, TypeOK, PartiesKnown,
          VaultBacksOrder, CustodyIsReal
  <2>2. ASSUME NEW seal \in Seals, FlaconMarkSealDead(seal)
        PROVE  CoreInv'
    BY <1>0, <2>2 DEF FlaconMarkSealDead, Evid!MarkSealDead, CoreInv, TypeOK,
                      PartiesKnown, VaultBacksOrder, CustodyIsReal
  <2>3. ASSUME NEW wallet \in Wallets, FlaconRemovePartner(wallet)
        PROVE  CoreInv'
    BY <1>0, <2>3 DEF FlaconRemovePartner, CoreInv, TypeOK, PartiesKnown,
                      VaultBacksOrder, CustodyIsReal
  <2>4. ASSUME NEW p \in Passports, FlaconAddPartner(Issuer[p])
        PROVE  CoreInv'
    <3>1. partners' \subseteq Wallets
      BY <1>0, <2>4 DEF FlaconAddPartner, TypeOK
    <3> QED
      BY <1>0, <2>4, <3>1 DEF FlaconAddPartner, CoreInv, TypeOK, PartiesKnown,
                              VaultBacksOrder, CustodyIsReal
  <2>5. QED
    BY <1>2, <2>1, <2>2, <2>3, <2>4 DEF FlaconStep
<1>3. ASSUME WorldStep
      PROVE  CoreInv'
  <2>1. CASE Tick
    BY <1>0, <2>1 DEF Tick, CoreInv, TypeOK, PartiesKnown, VaultBacksOrder,
                      CustodyIsReal
  <2>2. ASSUME NEW o \in Orders, NEW buyer \in Buyers, SignReserve(o, buyer)
        PROVE  CoreInv'
    <3>1. order[o].price \in Nat
      BY <1>0 DEF TypeOK, OrderRecords
    <3>2. QED
      BY <1>0, <2>2, <3>1 DEF SignReserve, CoreInv, TypeOK, PartiesKnown,
                              VaultBacksOrder, CustodyIsReal
  <2>3. ASSUME NEW offer \in offers, DropReserve(offer)
        PROVE  CoreInv'
    BY <1>0, <2>3 DEF DropReserve, CoreInv, TypeOK, PartiesKnown,
                      VaultBacksOrder, CustodyIsReal
  <2>4. ASSUME NEW asset \in Assets, NEW to \in Receivers,
               TransferAsset(asset, to)
        PROVE  CoreInv'
    <3>1. owner' \in [Assets -> Owners]
      BY <1>0, <2>4 DEF TransferAsset, TypeOK, Owners
    \* No order holds the asset: its owner is a wallet, not an Order PDA.
    <3>2. CustodyIsReal'
      BY <1>0, <2>4, OrderParts DEF TransferAsset, CustodyIsReal, TypeOK
    <3>3. QED
      BY <1>0, <2>4, <3>1, <3>2 DEF TransferAsset, CoreInv, TypeOK,
                                    PartiesKnown, VaultBacksOrder
  <2>5. ASSUME NEW wallet \in Wallets, NEW o \in Orders, NEW amount \in Gifts,
               SendToVault(wallet, o, amount)
        PROVE  CoreInv'
    <3>1. /\ amount \in Nat /\ usdc[wallet] \in Nat /\ vault[o] \in Nat
          /\ order[o].price \in Nat
      BY <1>0 DEF TypeOK, OrderRecords
    <3>2. usdc' \in [Wallets -> Nat] /\ vault' \in [Orders -> Nat]
      BY <1>0, <2>5, <3>1 DEF SendToVault, TypeOK
    <3>3. VaultBacksOrder'
      BY <1>0, <2>5, <3>1 DEF SendToVault, VaultBacksOrder, TypeOK
    <3>4. QED
      BY <1>0, <2>5, <3>2, <3>3 DEF SendToVault, CoreInv, TypeOK,
                                    PartiesKnown, CustodyIsReal
  <2>6. QED
    BY <1>3, <2>1, <2>2, <2>3, <2>4, <2>5 DEF WorldStep
<1>4. QED
  BY <1>1, <1>2, <1>3

-----------------------------------------------------------------------------
\* Every instruction on an order account keeps the invariant.
LEMMA OrderStepKeeps ==
  ASSUME CoreInv, NEW o \in Orders, OrderStep(o)
  PROVE  CoreInv'
<1>1. CASE Release(o)
  BY <1>1, SettleToSellerKeeps DEF Release, Funded
<1>2. CASE ReleaseAfterTimeout(o)
  BY <1>2, SettleToSellerKeeps DEF ReleaseAfterTimeout, Funded
<1>3. ASSUME NEW signer \in Wallets, NEW seal \in Seals \cup {NoSeal},
             Dispute(o, signer, seal)
      PROVE  CoreInv'
  <2>1. PICK reason \in DisputeReason(o, signer, seal) :
               RefundBuyer(o, reason)
    BY <1>3 DEF Dispute
  <2>2. reason \in Reasons /\ order[o].state \in Funded
    BY <2>1 DEF DisputeReason, BuyerDisputeReason, AdminMayRefund, Reasons,
                Funded
  <2>3. QED
    BY <1>3, <2>1, <2>2, RefundBuyerKeeps DEF Dispute
<1>4. ASSUME NEW toSeller \in BOOLEAN, Resolve(o, toSeller)
      PROVE  CoreInv'
  <2>1. order[o].state \in Funded /\ "none" \in Reasons
    BY <1>4 DEF Resolve, Funded, Reasons
  <2>2. CASE toSeller
    BY <1>4, <2>1, <2>2, SettleToSellerKeeps DEF Resolve
  <2>3. CASE ~toSeller
    BY <1>4, <2>1, <2>3, RefundBuyerKeeps DEF Resolve
  <2>4. QED
    BY <2>2, <2>3
<1>5. QED
  BY <1>1, <1>2, <1>3, <1>4, ListKeeps, DepositAssetKeeps, CancelKeeps,
     CloseOrderKeeps, ReserveKeeps, ProgressStaysFunded, ProgressKeeps
  DEF OrderStep

\* No order exists at the start, so nothing is held for one.
LEMMA InitCore == Init => CoreInv
<1> SUFFICES ASSUME Init
             PROVE  CoreInv
  OBVIOUS
<1>1. TypeOK
  BY EmptyOrderType DEF Init, TypeOK, Owners
<1>2. PartiesKnown /\ VaultBacksOrder /\ CustodyIsReal
  BY DEF Init, EmptyOrder, PartiesKnown, VaultBacksOrder, CustodyIsReal,
         Funded
<1>3. QED
  BY <1>1, <1>2 DEF CoreInv

\* Every step, of the escrow or around it, keeps the core invariant.
LEMMA NextKeepsCore == CoreInv /\ [Next]_vars => CoreInv'
<1> SUFFICES ASSUME CoreInv, [Next]_vars
             PROVE  CoreInv'
  OBVIOUS
<1>1. CASE Next
  BY <1>1, OrderStepKeeps, WorldKeeps DEF Next
<1>2. CASE UNCHANGED vars
  BY <1>2 DEF vars, CoreInv, TypeOK, PartiesKnown, VaultBacksOrder,
              CustodyIsReal
<1>3. QED
  BY <1>1, <1>2

\* The core invariant of the escrow holds in every reachable state, for every
\* number of wallets, passports, seals, assets and concurrent orders.
THEOREM CoreInvariant == Spec => []CoreInv
BY InitCore, NextKeepsCore, PTL DEF Spec

\* Every account keeps a value of its type, in whatever order instructions of
\* the escrow and of flacon land.
THEOREM TypeCorrect == Spec => []TypeOK
<1>1. CoreInv => TypeOK
  BY DEF CoreInv
<1>2. QED
  BY <1>1, CoreInvariant, PTL

\* A vault exists exactly while its order is funded, covers the price, and a
\* settled order leaves nothing in it (reserve.rs, settle.rs drain_vault).
THEOREM VaultsBackOrders == Spec => []VaultBacksOrder
<1>1. CoreInv => VaultBacksOrder
  BY DEF CoreInv
<1>2. QED
  BY <1>1, CoreInvariant, PTL

\* asset_deposited never lies about who owns the Core asset (list.rs
\* deposit_asset, settle.rs return_asset).
THEOREM CustodyReal == Spec => []CustodyIsReal
<1>1. CoreInv => CustodyIsReal
  BY DEF CoreInv
<1>2. QED
  BY <1>1, CoreInvariant, PTL

-----------------------------------------------------------------------------
(* The evidence behind a settlement.  ScansBackState, SellerPaidWithCause  *)
(* and RefundWithCause speak of scans, times and windows recorded several  *)
(* instructions earlier: what an order account holds at each stage is what *)
(* makes them inductive.                                                   *)

\* A window the clamp leaves alone, a reservation in the past, a shipping time
\* from ship on only and no earlier than the reservation, a buyer scan from
\* the receipt on only.
StageFacts(o) ==
  LET r == order[o]
  IN  /\ MinWindow <= r.window /\ r.window <= MaxWindow
      /\ r.reserved_at <= now
      /\ r.state \in {"NONE", "LISTED", "RESERVED", "PRESHIP_SCANNED"} =>
           r.shipped_at = 0
      /\ r.state \in {"NONE", "LISTED", "RESERVED", "PRESHIP_SCANNED",
                      "SHIPPED"} => r.buyer_scan = NoScan
      /\ r.state \in {"SHIPPED", "RECEIPT_SCANNED", "MISMATCH"} =>
           r.shipped_at > 0 /\ r.reserved_at <= r.shipped_at

OrderFacts(o) ==
  StageFacts(o) /\ ScansBack(o) /\ PaidWithCause(o) /\ RefundedWithCause(o)

EvidenceInv == CoreInv /\ now > 0 /\ \A o \in Orders : OrderFacts(o)

\* The stored window is the one every elapsed-time test uses.
LEMMA EffectiveWindowIsStored ==
  ASSUME NEW w \in Int, MinWindow <= w, w <= MaxWindow
  PROVE  EffectiveWindow(w) = w
BY DEF EffectiveWindow

\* list clamps the configured window (list.rs, rules.rs effective_window).
LEMMA EffectiveWindowInRange ==
  ASSUME NEW w \in Int
  PROVE  MinWindow <= EffectiveWindow(w) /\ EffectiveWindow(w) <= MaxWindow
BY DEF EffectiveWindow

\* The clock, the ScanProofs and the dead seals only grow, and an order account
\* nobody touched keeps its facts.
LEMMA UntouchedKeepsFacts ==
  ASSUME CoreInv, NEW o \in Orders, OrderFacts(o), order'[o] = order[o],
         now' \in Nat, now <= now', scans \subseteq scans',
         deadSeals \subseteq deadSeals'
  PROVE  OrderFacts(o)'
<1>1. /\ order[o] \in OrderRecords /\ now \in Nat
      /\ order[o].reserved_at \in Nat /\ order[o].shipped_at \in Nat
      /\ order[o].window \in Int
  BY DEF CoreInv, TypeOK, OrderRecords
<1>2. PreShipEvidence(o) => PreShipEvidence(o)'
  BY DEF PreShipEvidence
<1>3. ReceiptEvidence(o) => ReceiptEvidence(o)'
  BY DEF ReceiptEvidence
<1>4. ScansMatch(o)' <=> ScansMatch(o)
  BY DEF ScansMatch
<1>5. StageFacts(o)'
  BY <1>1 DEF OrderFacts, StageFacts
<1>6. ScansBack(o)'
  BY <1>2, <1>3, <1>4 DEF OrderFacts, ScansBack
<1>7. PaidWithCause(o)'
  BY <1>1, <1>2, <1>3 DEF OrderFacts, PaidWithCause
<1>8. RefundedWithCause(o)'
  BY <1>1, <1>3, <1>4 DEF OrderFacts, RefundedWithCause
<1>9. QED
  BY <1>5, <1>6, <1>7, <1>8 DEF OrderFacts

\* An instruction on one order leaves every other order account alone, and the
\* clock and what flacon records.
LEMMA OtherOrdersUntouched ==
  ASSUME CoreInv, NEW o \in Orders, OrderStep(o)
  PROVE  /\ \A x \in Orders \ {o} : order'[x] = order[x]
         /\ UNCHANGED <<now, scans, deadSeals>>
<1>1. order = [x \in Orders |-> order[x]]
  BY DEF CoreInv, TypeOK
<1> USE DEF flaconVars
<1>2. ASSUME NEW price \in Prices, List(o, price)
      PROVE  /\ \A x \in Orders \ {o} : order'[x] = order[x]
             /\ UNCHANGED <<now, scans, deadSeals>>
  BY <1>1, <1>2 DEF List
<1>3. CASE DepositAsset(o) \/ Cancel(o) \/ CloseOrder(o) \/ Ship(o)
  BY <1>1, <1>3 DEF DepositAsset, Cancel, CloseOrder, Ship
<1>4. ASSUME NEW buyer \in Buyers, NEW price \in Prices,
             Reserve(o, buyer, price)
      PROVE  /\ \A x \in Orders \ {o} : order'[x] = order[x]
             /\ UNCHANGED <<now, scans, deadSeals>>
  BY <1>1, <1>4 DEF Reserve
<1>5. ASSUME NEW scan \in scans,
             RecordPreShipScan(o, scan) \/ RecordReceiptScan(o, scan)
      PROVE  /\ \A x \in Orders \ {o} : order'[x] = order[x]
             /\ UNCHANGED <<now, scans, deadSeals>>
  BY <1>1, <1>5 DEF RecordPreShipScan, RecordReceiptScan
<1>6. CASE Release(o) \/ ReleaseAfterTimeout(o)
  BY <1>1, <1>6 DEF Release, ReleaseAfterTimeout, SettleToSeller
<1>7. ASSUME NEW signer \in Wallets, NEW seal \in Seals \cup {NoSeal},
             Dispute(o, signer, seal)
      PROVE  /\ \A x \in Orders \ {o} : order'[x] = order[x]
             /\ UNCHANGED <<now, scans, deadSeals>>
  BY <1>1, <1>7 DEF Dispute, RefundBuyer
<1>8. ASSUME NEW toSeller \in BOOLEAN, Resolve(o, toSeller)
      PROVE  /\ \A x \in Orders \ {o} : order'[x] = order[x]
             /\ UNCHANGED <<now, scans, deadSeals>>
  BY <1>1, <1>8 DEF Resolve, SettleToSeller, RefundBuyer
<1>9. QED
  BY <1>2, <1>3, <1>4, <1>5, <1>6, <1>7, <1>8 DEF OrderStep

\* A listing, a deposit, a cancellation, a closed account: nothing of it is a
\* settlement, and the account starts over without scans and times.
LEMMA OnOfferKeepsFacts ==
  ASSUME EvidenceInv, NEW o \in Orders,
         \/ \E price \in Prices : List(o, price)
         \/ DepositAsset(o) \/ Cancel(o) \/ CloseOrder(o)
  PROVE  OrderFacts(o)'
<1>1. /\ order[o] \in OrderRecords /\ order \in [Orders -> OrderRecords]
      /\ now \in Nat /\ now' = now /\ window \in Int
  BY DEF EvidenceInv, CoreInv, TypeOK, List, DepositAsset, Cancel, CloseOrder
<1>2. OrderFacts(o)
  BY DEF EvidenceInv
<1> USE DEF OrderFacts, StageFacts, ScansBack, PaidWithCause,
            RefundedWithCause, OrderRecords
<1>3. ASSUME NEW price \in Prices, List(o, price)
      PROVE  OrderFacts(o)'
  <2>1. /\ order'[o].state = "LISTED" /\ order'[o].shipped_at = 0
        /\ order'[o].reserved_at = 0 /\ order'[o].buyer_scan = NoScan
        /\ order'[o].window = EffectiveWindow(window)
    BY <1>1, <1>3 DEF List, EmptyOrder
  <2>2. QED
    BY <1>1, <2>1, EffectiveWindowInRange
<1>4. CASE DepositAsset(o)
  BY <1>1, <1>2, <1>4 DEF DepositAsset
<1>5. CASE Cancel(o)
  BY <1>1, <1>2, <1>5 DEF Cancel
<1>6. CASE CloseOrder(o)
  BY <1>1, <1>6 DEF CloseOrder, EmptyOrder
<1>7. QED
  BY <1>3, <1>4, <1>5, <1>6

\* reserve stamps the clock; nothing has been scanned or shipped yet.
LEMMA ReserveKeepsFacts ==
  ASSUME EvidenceInv, NEW o \in Orders, NEW buyer \in Buyers,
         NEW price \in Prices, Reserve(o, buyer, price)
  PROVE  OrderFacts(o)'
<1>1. /\ order[o] \in OrderRecords /\ order \in [Orders -> OrderRecords]
      /\ now \in Nat /\ now' = now
  BY DEF EvidenceInv, CoreInv, TypeOK, Reserve
<1>2. OrderFacts(o) /\ order[o].state = "LISTED"
  BY DEF EvidenceInv, Reserve
<1>3. /\ order'[o].state = "RESERVED" /\ order'[o].reserved_at = now
      /\ order'[o].shipped_at = order[o].shipped_at
      /\ order'[o].buyer_scan = order[o].buyer_scan
      /\ order'[o].window = order[o].window
  BY <1>1 DEF Reserve, OrderRecords
<1>4. QED
  BY <1>1, <1>2, <1>3 DEF OrderFacts, StageFacts, ScansBack, PaidWithCause,
                          RefundedWithCause

\* A pre-ship scan is stored only when it is the evidence it stands for
\* (record_preship_scan, check_scan).
LEMMA PreShipScanKeepsFacts ==
  ASSUME EvidenceInv, NEW o \in Orders, NEW scan \in scans,
         RecordPreShipScan(o, scan)
  PROVE  OrderFacts(o)'
<1>1. /\ order[o] \in OrderRecords /\ order \in [Orders -> OrderRecords]
      /\ now \in Nat /\ now' = now /\ scans' = scans
  BY DEF EvidenceInv, CoreInv, TypeOK, RecordPreShipScan, flaconVars
<1>2. OrderFacts(o) /\ order[o].state = "RESERVED"
  BY DEF EvidenceInv, RecordPreShipScan
<1>3. /\ order'[o].state = "PRESHIP_SCANNED" /\ order'[o].seller_scan = scan
      /\ order'[o].reserved_at = order[o].reserved_at
      /\ order'[o].shipped_at = order[o].shipped_at
      /\ order'[o].buyer_scan = order[o].buyer_scan
      /\ order'[o].window = order[o].window
  BY <1>1 DEF RecordPreShipScan, OrderRecords
<1>4. PreShipEvidence(o)'
  BY <1>1, <1>3 DEF RecordPreShipScan, CheckScan, CheckScanNotBefore,
                    PreShipEvidence
<1>5. QED
  BY <1>1, <1>2, <1>3, <1>4 DEF OrderFacts, StageFacts, ScansBack,
                                PaidWithCause, RefundedWithCause

\* ship stamps a positive time, no earlier than the reservation.
LEMMA ShipKeepsFacts ==
  ASSUME EvidenceInv, NEW o \in Orders, Ship(o)
  PROVE  OrderFacts(o)'
<1>1. /\ order[o] \in OrderRecords /\ order \in [Orders -> OrderRecords]
      /\ now \in Nat /\ now > 0 /\ now' = now /\ scans' = scans
  BY DEF EvidenceInv, CoreInv, TypeOK, Ship, flaconVars
<1>2. OrderFacts(o) /\ order[o].state = "PRESHIP_SCANNED"
  BY DEF EvidenceInv, Ship
<1>3. /\ order'[o].state = "SHIPPED" /\ order'[o].shipped_at = now
      /\ order'[o].seller_scan = order[o].seller_scan
      /\ order'[o].reserved_at = order[o].reserved_at
      /\ order'[o].buyer_scan = order[o].buyer_scan
      /\ order'[o].window = order[o].window
  BY <1>1 DEF Ship, OrderRecords
<1>4. PreShipEvidence(o)'
  BY <1>1, <1>2, <1>3 DEF OrderFacts, ScansBack, PreShipEvidence
<1>5. QED
  BY <1>1, <1>2, <1>3, <1>4 DEF OrderFacts, StageFacts, ScansBack,
                                PaidWithCause, RefundedWithCause

\* A receipt scan is a second tap by the buyer, and the state it leads to says
\* whether the readings agree (record_receipt_scan).
LEMMA ReceiptScanKeepsFacts ==
  ASSUME EvidenceInv, NEW o \in Orders, NEW scan \in scans,
         RecordReceiptScan(o, scan)
  PROVE  OrderFacts(o)'
<1>1. /\ order[o] \in OrderRecords /\ order \in [Orders -> OrderRecords]
      /\ now \in Nat /\ now' = now
      /\ scans' = scans /\ scans \subseteq ScanProofs
  BY DEF EvidenceInv, CoreInv, TypeOK, RecordReceiptScan, flaconVars
<1>2. OrderFacts(o) /\ order[o].state = "SHIPPED"
  BY DEF EvidenceInv, RecordReceiptScan
<1>3. /\ order'[o].buyer_scan = scan
      /\ order'[o].state =
           IF Matches(scan.reading, order[o].seller_scan.reading)
           THEN "RECEIPT_SCANNED" ELSE "MISMATCH"
      /\ order'[o].seller_scan = order[o].seller_scan
      /\ order'[o].buyer = order[o].buyer
      /\ order'[o].reserved_at = order[o].reserved_at
      /\ order'[o].shipped_at = order[o].shipped_at
      /\ order'[o].window = order[o].window
  BY <1>1 DEF RecordReceiptScan, OrderRecords
<1>4. PreShipEvidence(o)'
  BY <1>1, <1>2, <1>3 DEF OrderFacts, ScansBack, PreShipEvidence
<1>5. ReceiptEvidence(o)'
  <2>1. scan.counter \in Nat
    BY <1>1 DEF ScanProofs
  \* One tap cannot be both scans: on the same seal the counter has risen.
  <2>2. scan # order[o].seller_scan
    BY <2>1 DEF RecordReceiptScan, NewerTap
  <2>3. QED
    BY <1>1, <1>3, <2>2 DEF RecordReceiptScan, CheckScan, CheckScanNotBefore,
                            ReceiptEvidence, NewerTap
<1>6. order'[o].state = "RECEIPT_SCANNED" <=> ScansMatch(o)'
  BY <1>3 DEF ScansMatch
<1>7. QED
  BY <1>1, <1>2, <1>3, <1>4, <1>5, <1>6
  DEF OrderFacts, StageFacts, ScansBack, PaidWithCause, RefundedWithCause

\* The seller is paid after a receipt scan, or after the buyer's whole window
\* (release, release_after_timeout, resolve).
LEMMA SettleToSellerKeepsFacts ==
  ASSUME EvidenceInv, NEW o \in Orders,
         \/ Release(o) \/ ReleaseAfterTimeout(o) \/ Resolve(o, TRUE)
  PROVE  OrderFacts(o)'
<1>1. /\ order[o] \in OrderRecords /\ order \in [Orders -> OrderRecords]
      /\ now \in Nat /\ now' = now
      /\ scans' = scans /\ scans \subseteq ScanProofs
  BY DEF EvidenceInv, CoreInv, TypeOK, Release, ReleaseAfterTimeout, Resolve,
         flaconVars
<1>2. OrderFacts(o)
  BY DEF EvidenceInv
<1>3. /\ order'[o].state = "RELEASED"
      /\ order'[o].seller_scan = order[o].seller_scan
      /\ order'[o].buyer_scan = order[o].buyer_scan
      /\ order'[o].buyer = order[o].buyer
      /\ order'[o].reserved_at = order[o].reserved_at
      /\ order'[o].shipped_at = order[o].shipped_at
      /\ order'[o].window = order[o].window
  BY <1>1 DEF Release, ReleaseAfterTimeout, Resolve, SettleToSeller,
              OrderRecords
<1>4. PreShipEvidence(o) /\ order[o].shipped_at > 0
      /\ order[o].reserved_at <= order[o].shipped_at
  BY <1>2 DEF OrderFacts, StageFacts, ScansBack, Release, ReleaseAfterTimeout,
              Resolve
<1>5. PreShipEvidence(o)'
  BY <1>1, <1>3, <1>4 DEF PreShipEvidence
<1>6. IF order[o].buyer_scan = NoScan
      THEN now > order[o].shipped_at + order[o].window
      ELSE ReceiptEvidence(o)
  <2>1. CASE order[o].state = "SHIPPED"
    <3>1. Elapsed(order[o].shipped_at, order[o].window)
      BY <2>1 DEF Release, ReleaseAfterTimeout, Resolve
    <3>2. EffectiveWindow(order[o].window) = order[o].window
      BY <1>1, <1>2, EffectiveWindowIsStored
      DEF OrderFacts, StageFacts, OrderRecords
    <3>3. QED
      BY <1>2, <2>1, <3>1, <3>2 DEF Elapsed, OrderFacts, StageFacts
  <2>2. CASE order[o].state \in {"RECEIPT_SCANNED", "MISMATCH"}
    <3>1. ReceiptEvidence(o)
      BY <1>2, <2>2 DEF OrderFacts, ScansBack
    <3>2. order[o].buyer_scan # NoScan
      BY <1>1, <3>1, ReadingAssumption DEF ReceiptEvidence
    <3>3. QED
      BY <3>1, <3>2
  <2>3. QED
    BY <2>1, <2>2 DEF Release, ReleaseAfterTimeout, Resolve
<1>7. ReceiptEvidence(o) => ReceiptEvidence(o)'
  BY <1>1, <1>3 DEF ReceiptEvidence
<1>8. PaidWithCause(o)'
  BY <1>1, <1>3, <1>4, <1>5, <1>6, <1>7 DEF PaidWithCause
<1>9. StageFacts(o)' /\ ScansBack(o)' /\ RefundedWithCause(o)'
  BY <1>1, <1>2, <1>3 DEF OrderFacts, StageFacts, ScansBack,
                          RefundedWithCause
<1>10. QED
  BY <1>8, <1>9 DEF OrderFacts

\* The buyer is refunded by the admin, for a dead seal, after the time to ship
\* has passed, or because the two scans disagree (dispute, resolve).
LEMMA RefundBuyerKeepsFacts ==
  ASSUME EvidenceInv, NEW o \in Orders,
         \/ \E signer \in Wallets, seal \in Seals \cup {NoSeal} :
              Dispute(o, signer, seal)
         \/ Resolve(o, FALSE)
  PROVE  OrderFacts(o)'
<1>1. /\ order[o] \in OrderRecords /\ order \in [Orders -> OrderRecords]
      /\ now \in Nat /\ now' = now /\ scans' = scans
      /\ deadSeals' = deadSeals
  BY DEF EvidenceInv, CoreInv, TypeOK, Dispute, Resolve, flaconVars
<1>2. OrderFacts(o)
  BY DEF EvidenceInv
<1>3. PICK reason :
        /\ RefundBuyer(o, reason)
        /\ \/ /\ order[o].state = "MISMATCH" /\ reason = "none"
           \/ /\ order[o].state \in {"RESERVED", "PRESHIP_SCANNED", "SHIPPED"}
              /\ reason = "ADMIN"
           \/ /\ order[o].state \in {"RESERVED", "PRESHIP_SCANNED"}
              /\ \/ /\ reason = "SEAL_DEAD"
                    /\ \E seal \in deadSeals : SealOf[seal] = PassportOf(o)
                 \/ /\ reason = "TIMEOUT"
                    /\ Elapsed(order[o].reserved_at, order[o].window)
  <2>1. ASSUME NEW signer \in Wallets, NEW seal \in Seals \cup {NoSeal},
               Dispute(o, signer, seal)
        PROVE  \E reason \in DisputeReason(o, signer, seal) :
                 RefundBuyer(o, reason)
    BY <2>1 DEF Dispute
  <2>2. CASE Resolve(o, FALSE)
    BY <2>2 DEF Resolve
  <2>3. QED
    BY <2>1, <2>2 DEF DisputeReason, AdminMayRefund, BuyerDisputeReason
<1>4. /\ order'[o].state = "DISPUTE" /\ order'[o].reason = reason
      /\ order'[o].seller_scan = order[o].seller_scan
      /\ order'[o].buyer_scan = order[o].buyer_scan
      /\ order'[o].buyer = order[o].buyer
      /\ order'[o].reserved_at = order[o].reserved_at
      /\ order'[o].shipped_at = order[o].shipped_at
      /\ order'[o].window = order[o].window
  BY <1>1, <1>3 DEF RefundBuyer, OrderRecords
<1>5. order[o].buyer_scan # NoScan => ReceiptEvidence(o) /\ ~ScansMatch(o)
  BY <1>2, <1>3 DEF OrderFacts, StageFacts, ScansBack
<1>6. /\ ReceiptEvidence(o) => ReceiptEvidence(o)'
      /\ ScansMatch(o)' <=> ScansMatch(o)
  BY <1>1, <1>4 DEF ReceiptEvidence, ScansMatch
<1>7. reason = "TIMEOUT" =>
        order[o].shipped_at = 0 /\ now > order[o].reserved_at + order[o].window
  <2>1. EffectiveWindow(order[o].window) = order[o].window
    BY <1>1, <1>2, EffectiveWindowIsStored
    DEF OrderFacts, StageFacts, OrderRecords
  <2>2. QED
    BY <1>2, <1>3, <2>1 DEF Elapsed, OrderFacts, StageFacts
<1>8. reason = "SEAL_DEAD" =>
        /\ order[o].shipped_at = 0
        /\ \E seal \in deadSeals : SealOf[seal] = PassportOf(o)
  BY <1>2, <1>3 DEF OrderFacts, StageFacts
<1>9. RefundedWithCause(o)'
  BY <1>1, <1>4, <1>5, <1>6, <1>7, <1>8 DEF RefundedWithCause
<1>10. StageFacts(o)' /\ ScansBack(o)' /\ PaidWithCause(o)'
  BY <1>1, <1>2, <1>4 DEF OrderFacts, StageFacts, ScansBack, PaidWithCause
<1>11. QED
  BY <1>9, <1>10 DEF OrderFacts

\* Around the orders the clock runs on and flacon adds scans and dead seals.
LEMMA WorldMovesOn ==
  ASSUME CoreInv,
         \/ FlaconStep
         \/ WorldStep
         \/ \E w \in Windows : SetDisputeWindow(w)
  PROVE  /\ order' = order
         /\ now <= now'
         /\ scans \subseteq scans' /\ deadSeals \subseteq deadSeals'
<1>1. now \in Nat
  BY DEF CoreInv, TypeOK
<1>2. CASE FlaconStep
  BY <1>1, <1>2
  DEF FlaconStep, FlaconRecordScan, FlaconMarkSealDead, FlaconAddPartner,
      FlaconRemovePartner, Evid!RecordScan, Evid!MarkSealDead, escrowVars
<1>3. CASE WorldStep
  BY <1>1, <1>3 DEF WorldStep, Tick, SignReserve, DropReserve,
                    TransferAsset, SendToVault, escrowVars, flaconVars
<1>4. CASE \E w \in Windows : SetDisputeWindow(w)
  BY <1>1, <1>4 DEF SetDisputeWindow, flaconVars
<1>5. QED
  BY <1>2, <1>3, <1>4

\* An instruction on one order keeps the facts of that order.
LEMMA OrderStepKeepsFacts ==
  ASSUME EvidenceInv, NEW o \in Orders, OrderStep(o)
  PROVE  OrderFacts(o)'
<1>1. ASSUME NEW toSeller \in BOOLEAN, Resolve(o, toSeller)
      PROVE  Resolve(o, TRUE) \/ Resolve(o, FALSE)
  BY <1>1
<1>2. QED
  BY <1>1, OnOfferKeepsFacts, ReserveKeepsFacts, PreShipScanKeepsFacts,
     ShipKeepsFacts, ReceiptScanKeepsFacts, SettleToSellerKeepsFacts,
     RefundBuyerKeepsFacts
  DEF OrderStep

\* What the orders rest on holds in every reachable state.
THEOREM EvidenceInvariant == Spec => []EvidenceInv
<1>1. Init => EvidenceInv
  <2> SUFFICES ASSUME Init
               PROVE  EvidenceInv
    OBVIOUS
  <2>1. CoreInv
    BY InitCore
  <2>2. ASSUME NEW o \in Orders
        PROVE  OrderFacts(o)
    BY DEF Init, EmptyOrder, OrderFacts, StageFacts, ScansBack, PaidWithCause,
           RefundedWithCause
  <2>3. QED
    BY <2>1, <2>2 DEF EvidenceInv, Init
<1>2. EvidenceInv /\ [Next]_vars => EvidenceInv'
  <2> SUFFICES ASSUME EvidenceInv, [Next]_vars
               PROVE  EvidenceInv'
    OBVIOUS
  <2>1. CoreInv /\ CoreInv' /\ now \in Nat /\ now' \in Nat
    BY NextKeepsCore DEF EvidenceInv, CoreInv, TypeOK
  <2>2. ASSUME NEW o \in Orders, OrderStep(o)
        PROVE  EvidenceInv'
    <3>1. /\ \A x \in Orders \ {o} : order'[x] = order[x]
          /\ UNCHANGED <<now, scans, deadSeals>>
      BY <2>1, <2>2, OtherOrdersUntouched
    <3>2. \A x \in Orders \ {o} : OrderFacts(x)'
      BY <2>1, <3>1, UntouchedKeepsFacts DEF EvidenceInv
    <3>3. OrderFacts(o)'
      BY <2>2, OrderStepKeepsFacts
    <3>4. QED
      BY <2>1, <3>1, <3>2, <3>3 DEF EvidenceInv
  <2>3. CASE \/ FlaconStep \/ WorldStep \/ UNCHANGED vars
             \/ \E w \in Windows : SetDisputeWindow(w)
    <3>1. /\ order' = order /\ now <= now'
          /\ scans \subseteq scans' /\ deadSeals \subseteq deadSeals'
      BY <2>1, <2>3, WorldMovesOn DEF vars
    <3>2. QED
      BY <2>1, <3>1, UntouchedKeepsFacts DEF EvidenceInv
  <2>4. QED
    BY <2>2, <2>3 DEF Next
<1>3. QED
  BY <1>1, <1>2, PTL DEF Spec

\* The seller is paid only for a bottle scanned for this reservation and
\* shipped, after the buyer's receipt scan or the buyer's whole window
\* (settle.rs, rules.rs elapsed).
THEOREM SellersPaidWithCause == Spec => []SellerPaidWithCause
<1>1. EvidenceInv => SellerPaidWithCause
  BY DEF EvidenceInv, OrderFacts, SellerPaidWithCause
<1>2. QED
  BY <1>1, EvidenceInvariant, PTL

\* A refund has the cause that OrderDisputed names, and never follows a receipt
\* scan that matched (dispute.rs, resolve.rs).
THEOREM RefundsWithCause == Spec => []RefundWithCause
<1>1. EvidenceInv => RefundWithCause
  BY DEF EvidenceInv, OrderFacts, RefundWithCause
<1>2. QED
  BY <1>1, EvidenceInvariant, PTL

\* An order's state never claims a scan that flacon did not record, and
\* RECEIPT_SCANNED means that the two scans agree (record_preship_scan,
\* record_receipt_scan).
THEOREM ScansBackStates == Spec => []ScansBackState
<1>1. EvidenceInv => ScansBackState
  BY DEF EvidenceInv, OrderFacts, ScansBackState
<1>2. QED
  BY <1>1, EvidenceInvariant, PTL

-----------------------------------------------------------------------------
(* What a step may never do.                                               *)

\* Only reserve takes a listed order to RESERVED, whoever else acts.
LEMMA OnlyReserveReserves ==
  ASSUME CoreInv, [Next]_vars, NEW o \in Orders,
         order[o].state = "LISTED", order'[o].state = "RESERVED"
  PROVE  \E buyer \in Buyers, price \in Prices : Reserve(o, buyer, price)
<1>1. /\ order \in [Orders -> OrderRecords] /\ order[o] \in OrderRecords
  BY DEF CoreInv, TypeOK
<1>2. PICK x \in Orders : OrderStep(x)
  <2>1. ~UNCHANGED order
    OBVIOUS
  <2>2. ~(FlaconStep \/ WorldStep \/ \E w \in Windows : SetDisputeWindow(w))
    BY <2>1, WorldMovesOn
  <2>3. QED
    BY <2>1, <2>2 DEF Next, vars
<1>3. x = o
  BY <1>2, OtherOrdersUntouched
<1>4. ~(\E price \in Prices : List(o, price))
  BY DEF List
<1>5. ~DepositAsset(o)
  BY <1>1 DEF DepositAsset, OrderRecords
<1>6. ~Cancel(o)
  BY <1>1 DEF Cancel, OrderRecords
<1>7. ~CloseOrder(o)
  BY DEF CloseOrder, Terminal
<1>8. QED
  BY <1>2, <1>3, <1>4, <1>5, <1>6, <1>7
  DEF OrderStep, RecordPreShipScan, Ship, RecordReceiptScan, Release,
      ReleaseAfterTimeout, Dispute, DisputeReason, AdminMayRefund,
      BuyerDisputeReason, Resolve

\* A buyer pays exactly a price that buyer signed for, however the order was
\* cancelled, closed and listed again in between (reserve.rs expected_price).
THEOREM BuyersChargedWhatTheySaw == Spec => ChargedWhatWasSeen
<1> DEFINE Charged ==
      \A o \in Orders :
       order[o].state = "LISTED" /\ order'[o].state = "RESERVED" =>
         \E offer \in offers :
           /\ offer[1] = o
           /\ offer[2] = order'[o].buyer
           /\ usdc'[offer[2]] = usdc[offer[2]] - offer[3]
           /\ order'[o].price = offer[3]
<1>1. CoreInv /\ [Next]_vars => Charged
  <2> SUFFICES ASSUME CoreInv, [Next]_vars, NEW o \in Orders,
                      order[o].state = "LISTED", order'[o].state = "RESERVED"
               PROVE  \E offer \in offers :
                        /\ offer[1] = o
                        /\ offer[2] = order'[o].buyer
                        /\ usdc'[offer[2]] = usdc[offer[2]] - offer[3]
                        /\ order'[o].price = offer[3]
    OBVIOUS
  <2>1. PICK buyer \in Buyers, price \in Prices : Reserve(o, buyer, price)
    BY OnlyReserveReserves
  <2>2. /\ order[o] \in OrderRecords /\ order \in [Orders -> OrderRecords]
        /\ usdc \in [Wallets -> Nat] /\ buyer \in Wallets
    BY DEF CoreInv, TypeOK
  <2>3. /\ <<o, buyer, price>> \in offers
        /\ order[o].price = price
        /\ usdc' = [usdc EXCEPT ![buyer] = @ - order[o].price]
        /\ order'[o].buyer = buyer /\ order'[o].price = order[o].price
    BY <2>1, <2>2 DEF Reserve, PriceAgreed, FundVault, OrderRecords
  <2> DEFINE offer == <<o, buyer, price>>
  <2>4. /\ offer[1] = o /\ offer[2] = order'[o].buyer
        /\ usdc'[offer[2]] = usdc[offer[2]] - offer[3]
        /\ order'[o].price = offer[3]
    BY <2>2, <2>3
  <2>5. QED
    BY <2>3, <2>4
<1>2. QED
  BY <1>1, CoreInvariant, PTL DEF Spec, ChargedWhatWasSeen

\* While an order holds the bottle in custody nobody reserves the same asset
\* through another order (reserve.rs check_seller, list.rs deposit_asset).
THEOREM CustodyIsExclusive == Spec => NoSaleAroundCustody
<1>1. CoreInv /\ [Next]_vars =>
        \A o, other \in Orders :
          /\ order[o].state = "LISTED" /\ order'[o].state = "RESERVED"
          /\ other # o /\ OrderAsset(other) = OrderAsset(o)
          => ~order[other].deposited
  <2> SUFFICES ASSUME CoreInv, [Next]_vars, NEW o \in Orders,
                      NEW other \in Orders, order[o].state = "LISTED",
                      order'[o].state = "RESERVED", other # o,
                      OrderAsset(other) = OrderAsset(o),
                      order[other].deposited
               PROVE  FALSE
    OBVIOUS
  <2>1. PICK buyer \in Buyers, price \in Prices : Reserve(o, buyer, price)
    BY OnlyReserveReserves
  <2>2. owner[OrderAsset(o)] = other
    BY DEF CoreInv, CustodyIsReal
  <2>3. ~order[o].deposited
    BY <2>2 DEF CoreInv, CustodyIsReal
  \* So reserve asked whether the seller owns the asset, and an Order PDA does.
  <2>4. other = SellerOf(o)
    BY <2>1, <2>2, <2>3 DEF Reserve, CheckSeller
  <2>5. QED
    BY <2>4, OrderParts
<1>2. QED
  BY <1>1, CoreInvariant, PTL DEF Spec, NoSaleAroundCustody

-----------------------------------------------------------------------------
(* The escrow implements Sale: each instruction is the step of the abstract *)
(* sale it is meant to be, or changes nothing that Sale sees.               *)

\* Changing one order account changes the abstract sale of that order only,
\* and only in the fields that changed.
LEMMA SaleOfOneOrder ==
  ASSUME CoreInv, CoreInv', NEW o \in Orders,
         \A x \in Orders \ {o} : order'[x] = order[x]
  PROVE  /\ SaleStage' = [SaleStage EXCEPT ![o] = StageOf(order'[o].state)]
         /\ SaleBuyer' = [SaleBuyer EXCEPT ![o] = order'[o].buyer]
         /\ SaleCustody' = [SaleCustody EXCEPT ![o] = order'[o].deposited]
         /\ StageOf(order'[o].state) = StageOf(order[o].state) =>
              SaleStage' = SaleStage
         /\ order'[o].buyer = order[o].buyer => SaleBuyer' = SaleBuyer
         /\ order'[o].deposited = order[o].deposited =>
              SaleCustody' = SaleCustody
BY DEF SaleStage, SaleBuyer, SaleCustody, CoreInv, TypeOK

\* What the abstract sale reads of one order.
LEMMA SaleReads ==
  ASSUME NEW o \in Orders
  PROVE  /\ SaleStage[o] = StageOf(order[o].state)
         /\ SaleBuyer[o] = order[o].buyer
         /\ SaleCustody[o] = order[o].deposited
         /\ SaleVendor[o] = SellerOf(o)
         /\ SaleGood[o] = OrderAsset(o)
BY DEF SaleStage, SaleBuyer, SaleCustody, SaleVendor, SaleGood

\* list offers, deposit_asset takes custody, cancel withdraws, close_order
\* forgets.
LEMMA OnOfferIsSale ==
  ASSUME CoreInv, CoreInv', NEW o \in Orders,
         \A x \in Orders \ {o} : order'[x] = order[x],
         \/ \E price \in Prices : List(o, price)
         \/ DepositAsset(o) \/ Cancel(o) \/ CloseOrder(o)
  PROVE  \/ Promise!Offer(o) \/ Promise!TakeCustody(o)
         \/ Promise!Withdraw(o) \/ Promise!Forget(o)
<1>1. order \in [Orders -> OrderRecords] /\ order[o] \in OrderRecords
  BY DEF CoreInv, TypeOK
<1>2. ASSUME NEW price \in Prices, List(o, price)
      PROVE  Promise!Offer(o)
  <2>1. /\ order[o].state = "NONE" /\ order'[o].state = "LISTED"
        /\ order'[o].buyer = NoBuyer /\ order'[o].deposited = FALSE
        /\ UNCHANGED <<vault, usdc, owner>>
    BY <1>1, <1>2 DEF List, EmptyOrder
  <2>2. order[o].buyer = NoBuyer /\ order[o].deposited = FALSE
    BY <1>1, <2>1
    DEF CoreInv, PartiesKnown, CustodyIsReal, Funded, OrderRecords
  <2>3. SaleBuyer' = SaleBuyer /\ SaleCustody' = SaleCustody
    BY <2>1, <2>2, SaleOfOneOrder
  <2>4. QED
    BY <2>1, <2>3, SaleOfOneOrder, SaleReads DEF Promise!Offer, StageOf
<1>3. ASSUME DepositAsset(o)
      PROVE  Promise!TakeCustody(o)
  <2>1. /\ order[o].state = "LISTED" /\ ~order[o].deposited
        /\ order'[o].state = "LISTED" /\ order'[o].buyer = order[o].buyer
        /\ UNCHANGED <<vault, usdc>>
        /\ owner[OrderAsset(o)] = SellerOf(o)
        /\ owner' = [owner EXCEPT ![OrderAsset(o)] = o]
    BY <1>1, <1>3 DEF DepositAsset, CoreTransfer, OrderRecords
  <2>2. order'[o].deposited = TRUE
    BY <1>1, <1>3 DEF DepositAsset, OrderRecords
  <2>3. SaleCustody' = [SaleCustody EXCEPT ![o] = TRUE]
    BY <2>2, SaleOfOneOrder
  <2>4. SaleStage' = SaleStage /\ SaleBuyer' = SaleBuyer
    BY <2>1, SaleOfOneOrder
  <2>5. ~SaleCustody[o]
    BY <2>1, SaleReads
  <2>6. QED
    BY <2>1, <2>3, <2>4, <2>5, SaleReads DEF Promise!TakeCustody, StageOf
<1>4. ASSUME Cancel(o)
      PROVE  Promise!Withdraw(o)
  <2>1. /\ order[o].state = "LISTED" /\ order'[o].state = "CANCELLED"
        /\ order'[o].buyer = order[o].buyer
        /\ UNCHANGED <<vault, usdc>>
        /\ ReturnAsset(o, SellerOf(o))
    BY <1>1, <1>4 DEF Cancel, OrderRecords
  <2>2. order'[o].deposited = FALSE
    BY <1>1, <1>4 DEF Cancel, OrderRecords
  <2>3. SaleCustody' = [SaleCustody EXCEPT ![o] = FALSE]
    BY <2>2, SaleOfOneOrder
  <2>4. Promise!HandOver(o, SaleVendor[o])
    BY <2>1, <2>3, SaleReads DEF Promise!HandOver, ReturnAsset, CoreTransfer
  <2>5. QED
    BY <2>1, <2>4, SaleOfOneOrder, SaleReads
    DEF Promise!Withdraw, StageOf, Funded
<1>5. ASSUME CloseOrder(o)
      PROVE  Promise!Forget(o)
  <2>1. /\ order[o].state \in Terminal /\ order'[o].state = "NONE"
        /\ order'[o].buyer = NoBuyer
        /\ UNCHANGED <<vault, usdc, owner>>
    BY <1>1, <1>5 DEF CloseOrder, EmptyOrder
  <2>2. order[o].deposited = FALSE /\ order'[o].deposited = FALSE
    BY <1>1, <1>5
    DEF CloseOrder, EmptyOrder, CoreInv, CustodyIsReal, Terminal, Funded,
        OrderRecords
  <2>3. SaleCustody' = SaleCustody
    BY <2>2, SaleOfOneOrder
  <2>4. QED
    BY <2>1, <2>3, SaleOfOneOrder, SaleReads
    DEF Promise!Forget, StageOf, Terminal, Funded
<1>6. QED
  BY <1>2, <1>3, <1>4, <1>5

\* reserve funds the sale: an order on offer has an empty vault, so the vault
\* then holds exactly the price.
LEMMA ReserveIsSale ==
  ASSUME CoreInv, CoreInv', NEW o \in Orders,
         \A x \in Orders \ {o} : order'[x] = order[x],
         NEW buyer \in Buyers, NEW price \in Prices, Reserve(o, buyer, price)
  PROVE  \E amount \in 1..usdc[buyer] : Promise!Fund(o, buyer, amount)
<1> DEFINE amount == order[o].price
<1>1. /\ order \in [Orders -> OrderRecords] /\ order[o] \in OrderRecords
      /\ usdc[buyer] \in Nat /\ vault \in [Orders -> Nat] /\ amount \in Nat
  BY DEF CoreInv, TypeOK, OrderRecords
<1>2. /\ order[o].state = "LISTED" /\ order'[o].state = "RESERVED"
      /\ order'[o].buyer = buyer /\ buyer # SellerOf(o)
      /\ amount <= usdc[buyer]
      /\ usdc' = [usdc EXCEPT ![buyer] = @ - amount]
      /\ vault' = [vault EXCEPT ![o] = @ + amount]
      /\ UNCHANGED owner
  BY <1>1 DEF Reserve, FundVault, OrderRecords
<1>3. order'[o].deposited = order[o].deposited
  BY <1>1 DEF Reserve, OrderRecords
<1>4. amount > 0 /\ vault[o] = 0
  BY <1>2 DEF CoreInv, PartiesKnown, VaultBacksOrder, Funded
<1>5. vault' = [vault EXCEPT ![o] = amount]
  <2>1. vault[o] + amount = amount
    BY <1>1, <1>4
  <2>2. QED
    BY <1>2, <2>1
<1>6. SaleCustody' = SaleCustody
  BY <1>3, SaleOfOneOrder
<1> HIDE DEF amount
<1>7. Promise!Fund(o, buyer, amount)
  BY <1>2, <1>4, <1>5, <1>6, SaleOfOneOrder, SaleReads
  DEF Promise!Fund, StageOf, Funded
<1>8. QED
  BY <1>1, <1>2, <1>4, <1>7

\* A settlement drains the whole vault to one party and hands the asset in
\* custody to the other, in one step.
LEMMA SettlementIsSale ==
  ASSUME CoreInv, CoreInv', NEW o \in Orders,
         \A x \in Orders \ {o} : order'[x] = order[x],
         order[o].state \in Funded
  PROVE  /\ SettleToSeller(o) => Promise!PayVendor(o)
         /\ \A reason : RefundBuyer(o, reason) => Promise!PayBack(o)
<1>1. order \in [Orders -> OrderRecords] /\ order[o] \in OrderRecords
  BY DEF CoreInv, TypeOK
<1>2. SaleStage[o] = "held"
  BY SaleReads DEF StageOf, Funded
<1>3. ASSUME SettleToSeller(o)
      PROVE  Promise!PayVendor(o)
  <2>1. /\ order'[o].state = "RELEASED" /\ order'[o].buyer = order[o].buyer
        /\ DrainVault(o, SellerOf(o)) /\ ReturnAsset(o, order[o].buyer)
    BY <1>1, <1>3 DEF SettleToSeller, OrderRecords
  <2>2. order'[o].deposited = FALSE
    BY <1>1, <1>3 DEF SettleToSeller, OrderRecords
  <2>3. SaleCustody' = [SaleCustody EXCEPT ![o] = FALSE]
    BY <2>2, SaleOfOneOrder
  <2>4. Promise!HandOver(o, SaleBuyer[o])
    BY <2>1, <2>3, SaleReads DEF Promise!HandOver, ReturnAsset, CoreTransfer
  <2>5. Promise!Pay(o, SaleVendor[o])
    BY <2>1, SaleReads DEF Promise!Pay, DrainVault
  <2>6. QED
    BY <1>2, <2>1, <2>4, <2>5, SaleOfOneOrder
    DEF Promise!PayVendor, StageOf, Funded
<1>4. ASSUME NEW reason, RefundBuyer(o, reason)
      PROVE  Promise!PayBack(o)
  <2>1. /\ order'[o].state = "DISPUTE" /\ order'[o].buyer = order[o].buyer
        /\ DrainVault(o, order[o].buyer) /\ ReturnAsset(o, SellerOf(o))
    BY <1>1, <1>4 DEF RefundBuyer, OrderRecords
  <2>2. order'[o].deposited = FALSE
    BY <1>1, <1>4 DEF RefundBuyer, OrderRecords
  <2>3. SaleCustody' = [SaleCustody EXCEPT ![o] = FALSE]
    BY <2>2, SaleOfOneOrder
  <2>4. Promise!HandOver(o, SaleVendor[o])
    BY <2>1, <2>3, SaleReads DEF Promise!HandOver, ReturnAsset, CoreTransfer
  <2>5. Promise!Pay(o, SaleBuyer[o])
    BY <2>1, SaleReads DEF Promise!Pay, DrainVault
  <2>6. QED
    BY <1>2, <2>1, <2>4, <2>5, SaleOfOneOrder
    DEF Promise!PayBack, StageOf, Funded
<1>5. QED
  BY <1>3, <1>4

\* Scanning and shipping happen inside one stage of the sale.
LEMMA ProgressIsStutter ==
  ASSUME CoreInv, CoreInv', NEW o \in Orders,
         \A x \in Orders \ {o} : order'[x] = order[x],
         StaysFunded(o)
  PROVE  UNCHANGED Promise!vars
<1>1. /\ SaleStage' = SaleStage /\ SaleBuyer' = SaleBuyer
  BY SaleOfOneOrder DEF StaysFunded, StageOf, Funded
<1>2. SaleCustody' = SaleCustody
  BY SaleOfOneOrder DEF StaysFunded
<1>3. QED
  BY <1>1, <1>2 DEF Promise!vars, StaysFunded

\* Every instruction on an order is a step of the abstract sale or a stutter.
LEMMA OrderStepIsSale ==
  ASSUME CoreInv, CoreInv', NEW o \in Orders, OrderStep(o)
  PROVE  Promise!Next \/ UNCHANGED Promise!vars
<1>1. \A x \in Orders \ {o} : order'[x] = order[x]
  BY OtherOrdersUntouched
<1>2. CASE \/ \E price \in Prices : List(o, price)
           \/ DepositAsset(o) \/ Cancel(o) \/ CloseOrder(o)
  BY <1>1, <1>2, OnOfferIsSale DEF Promise!Next
<1>3. ASSUME NEW buyer \in Buyers, NEW price \in Prices,
             Reserve(o, buyer, price)
      PROVE  Promise!Next
  BY <1>1, <1>3, ReserveIsSale DEF Promise!Next
<1>4. CASE \/ \E scan \in scans : RecordPreShipScan(o, scan)
           \/ Ship(o)
           \/ \E scan \in scans : RecordReceiptScan(o, scan)
  BY <1>1, <1>4, ProgressIsStutter, ProgressStaysFunded
<1>5. CASE Release(o) \/ ReleaseAfterTimeout(o)
  BY <1>1, <1>5, SettlementIsSale
  DEF Release, ReleaseAfterTimeout, Funded, Promise!Next
<1>6. ASSUME NEW signer \in Wallets, NEW seal \in Seals \cup {NoSeal},
             Dispute(o, signer, seal)
      PROVE  Promise!Next
  <2>1. order[o].state \in Funded /\ \E reason : RefundBuyer(o, reason)
    BY <1>6 DEF Dispute, DisputeReason, BuyerDisputeReason, AdminMayRefund,
                Funded
  <2>2. QED
    BY <1>1, <2>1, SettlementIsSale DEF Promise!Next
<1>7. ASSUME NEW toSeller \in BOOLEAN, Resolve(o, toSeller)
      PROVE  Promise!Next
  <2>1. /\ order[o].state \in Funded
        /\ SettleToSeller(o) \/ RefundBuyer(o, "none")
    BY <1>7 DEF Resolve, Funded
  <2>2. QED
    BY <1>1, <2>1, SettlementIsSale DEF Promise!Next
<1>8. QED
  BY <1>2, <1>3, <1>4, <1>5, <1>6, <1>7 DEF OrderStep

\* Around the orders the sale sees only an asset given away by its owner and
\* tokens somebody sends to a vault that exists; the rest is a stutter.
LEMMA WorldIsSale ==
  ASSUME CoreInv, CoreInv',
         \/ FlaconStep
         \/ WorldStep
         \/ \E w \in Windows : SetDisputeWindow(w)
  PROVE  Promise!Next \/ UNCHANGED Promise!vars
<1>1. SaleStage' = SaleStage /\ SaleBuyer' = SaleBuyer
      /\ SaleCustody' = SaleCustody
  BY WorldMovesOn DEF SaleStage, SaleBuyer, SaleCustody
<1>2. CASE FlaconStep \/ \E w \in Windows : SetDisputeWindow(w)
  BY <1>1, <1>2
  DEF FlaconStep, FlaconRecordScan, FlaconMarkSealDead, FlaconAddPartner,
      FlaconRemovePartner, SetDisputeWindow, escrowVars, Promise!vars
<1>3. CASE \/ Tick
           \/ \E o \in Orders, buyer \in Buyers : SignReserve(o, buyer)
           \/ \E offer \in offers : DropReserve(offer)
  BY <1>1, <1>3 DEF Tick, SignReserve, DropReserve, escrowVars, Promise!vars
<1>4. ASSUME NEW asset \in Assets, NEW to \in Receivers,
             TransferAsset(asset, to)
      PROVE  Promise!Next
  <2>1. Promise!GiveAway(asset, to) /\ to \in Wallets \cup Orders
    BY <1>1, <1>4 DEF TransferAsset, escrowVars, Promise!GiveAway
  <2>2. QED
    BY <2>1 DEF Promise!Next
<1>5. ASSUME NEW wallet \in Wallets, NEW o \in Orders, NEW amount \in Gifts,
             SendToVault(wallet, o, amount)
      PROVE  Promise!Next
  <2>1. order[o].state \in Funded
    BY <1>5 DEF SendToVault, CoreInv, VaultBacksOrder
  <2>2. /\ amount \in Nat /\ amount > 0 /\ usdc[wallet] \in Nat
        /\ amount <= usdc[wallet]
    BY <1>5 DEF SendToVault, CoreInv, TypeOK
  <2>3. SaleStage[o] = "held"
    BY <2>1, SaleReads DEF StageOf, Funded
  <2>4. Promise!TopUp(o, wallet, amount)
    BY <1>1, <1>5, <2>2, <2>3 DEF SendToVault, Promise!TopUp
  <2>5. QED
    BY <2>2, <2>4 DEF Promise!Next
<1>6. QED
  BY <1>2, <1>3, <1>4, <1>5 DEF WorldStep

\* Delivery against payment: every behaviour of the escrow is one of Sale.
\* All of a buyer's money leaves in one step to one party, and an asset in
\* custody goes to the other one in that step (settle.rs, reserve.rs).
THEOREM EscrowImplementsSale == Spec => DeliveryAgainstPayment
<1>1. Init => Promise!Init
  <2> SUFFICES ASSUME Init
               PROVE  Promise!Init
    OBVIOUS
  <2>1. /\ SaleStage = [s \in Orders |-> "idle"]
        /\ SaleBuyer = [s \in Orders |-> NoBuyer]
        /\ SaleCustody = [s \in Orders |-> FALSE]
    BY DEF Init, EmptyOrder, SaleStage, SaleBuyer, SaleCustody, StageOf
  <2>2. usdc \in [Wallets -> Nat]
    BY DEF Init
  <2>3. \A a \in Assets : owner[a] \notin Orders
    BY DEF Init
  <2>4. QED
    BY <2>1, <2>2, <2>3 DEF Init, Promise!Init
<1>2. CoreInv /\ CoreInv' /\ [Next]_vars => [Promise!Next]_Promise!vars
  <2> SUFFICES ASSUME CoreInv, CoreInv', [Next]_vars
               PROVE  Promise!Next \/ UNCHANGED Promise!vars
    OBVIOUS
  <2>1. CASE UNCHANGED vars
    BY <2>1 DEF vars, Promise!vars, SaleStage, SaleBuyer, SaleCustody
  <2>2. CASE Next
    BY <2>2, OrderStepIsSale, WorldIsSale DEF Next
  <2>3. QED
    BY <2>1, <2>2
<1>3. QED
  BY <1>1, <1>2, CoreInvariant, PTL
  DEF Spec, Promise!Spec, DeliveryAgainstPayment

=============================================================================
