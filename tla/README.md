# Flacon Vault: TLA+ models and proofs

Flacon Vault gives a perfume bottle a passport on Solana. NFC seals on the box and
the neck answer a tap with an authenticated counter; a verifier server checks the
tap, the web client photographs an indicator card and measures the bottle, and the
verifier signs the scan; anybody may anchor the signature on chain, where it moves
the grade of the passport; an escrow program sells the bottle against USDC and uses
two anchored scans as evidence. This directory models those parts, checks them with
TLC and proves the central invariants with TLAPS.

Run everything from this directory: `tlc -config MCEscrow.cfg MCEscrow` for a run,
`tlapm EscrowProofs.tla` (and likewise every other `*Proofs.tla`) for the proofs.
`PROJECT.json` lists the runs, for each property a change of the code that violates it, and the
source lines behind every definition.

## 1. The system

| part | source | state | operations |
|---|---|---|---|
| escrow program | `programs/escrow` | one Order account and one USDC vault per (passport, seller), `EscrowConfig.dispute_after_s` | list, deposit_asset, cancel, close_order, reserve, record_pre_ship_scan, ship, record_receipt_scan, release, release_after_timeout, dispute, resolve, init_config, set_dispute_window |
| flacon program | `programs/flacon` | Registry (authority, server keys, partners, sites), Passport, Seal, ScanProof accounts | init_registry, add/revoke_server_key, add/remove_partner, add_site, transfer_authority, mint_passport, attach_seal, mark_seal_dead, record_scan |
| verifier: taps and signing | `apps/verify/fv/service.py`, `routes_tag.py`, `routes_api.py` | tables seals, taps, nonces, events | GET /t, POST /api/session, /api/preview, /api/verify |
| verifier: confirmation | `routes_api.py`, `service.py`, `proof.py` | tables events, passports, attesters | POST /api/events with an eventId |
| verifier: reconcile job | `reconcile.py`, `main.py` | everything the chain also knows | one cycle per interval, POST /api/reconcile |
| verifier: order book | `db.py` | escrow_orders, escrows_ok / escrows_disputed | RELEASE and DISPUTE reports, reconcile |
| verifier: the rest | `routes_api.py`, `txverify.py`, `ratelimit.py`, `media_store.py`, `arweave.py`, `irys/`, `seed.py`, `routes_admin.py`, `routes_dev.py` | events, lookup slots, staged files, upload queue, demo rows | new events, lookups, upload and retention, seeding |
| scan page | `apps/web/src/components/scan-flow.tsx`, `tap-gate.tsx`, `lib/handoff.ts`, `lib/verify-api.ts` | React state, the handoff slot and session flag in localStorage | new session, tap, handoff, preview, photographs, reading, Get signature, report of a dead seal |
| anchoring | `lib/anchor-scan.ts`, `lib/send-tx.ts`, `lib/wallet-links.ts` | the signature kept for the next press | Sign and send, Retry confirmation, on the device that made the scan or through a resume link |
| trading | `components/order-detail.tsx`, `market-list.tsx`, `lib/escrow-rules.ts`, `lib/pending-events.ts`, `app/api/actions/verify-buy` | the order as last read, unposted reports in localStorage | every escrow instruction, Retry confirmation, the Blink |
| certification console | `components/certify-console.tsx` | form, last signature | mint, attach, report, recover |
| operator scripts | `scripts` | none | bind-chip, seed-passports, seed-devnet, server-key, partner |
| vision package | `packages/vision` | none | reading of a photo, vote over several |
| proof package | `packages/proof` | none | grade rule, message, bundle, IDL |

How they interact: the verifier signs, a wallet submits (`record_scan`), the
browser reports the transaction back, and the reconcile job repairs whatever the
browser forgot. The escrow reads flacon accounts (ScanProof, Seal, Passport,
Registry) and Metaplex Core assets inside its own transactions. The two writers of
the verifier's database, requests and the reconcile job, talk to an RPC node
between reading and writing and hold no lock meanwhile. Tabs of one browser share
localStorage; every handler of a page that awaits goes on with what it captured.

What is hard:

- one Order PDA and one vault are reused for many sales (a stale flag, balance or
  row of an earlier sale meets the next one);
- signatures and URLs are bearer objects: they arrive late, twice, out of order and
  from anybody;
- the check, RPC call, check again pattern of the verifier, with a node that lags;
- deadlines: who owns the last second, and does money always come out;
- two seals of one passport act on the same grade;
- a page learns of its own transaction from an answer that may be lost, and goes on
  after a reload, in another tab or on another device;
- what is signed has to belong to what is shown: photos, reading, session, price.

`PROJECT.json` lists the hazards line by line, with the property that would catch
each one.

## 2. Modules

| module | models | extends / uses |
|---|---|---|
| `Sale` | the promise: delivery against payment | |
| `Evidence` | the promise: what a program that reads flacon accounts may rely on | |
| `Escrow` | the escrow program and what it reads | instances of `Sale`, `Evidence` |
| `EscrowProofs` | theorems about `Escrow` | `Escrow`, TLAPS |
| `Flacon` | the flacon program | instance of `Evidence` |
| `FlaconProofs` | theorems about `Flacon` and `CardReader` | both, TLAPS |
| `Taps` | the verifier's front door, from tap to signature | |
| `TapsProofs` | theorems about `Taps` | `Taps`, TLAPS |
| `ScanSync` | a signed scan between database and chain | |
| `ScanSyncProofs` | theorems about `ScanSync` | `ScanSync`, TLAPS |
| `OrderBook` | the verifier's memory of escrow sales | |
| `Handoff` | taps on their way from /t to a scan page, and the tabs that share them | |
| `ScanFlow` | the scan page up to the signature | `Handoff` |
| `ScanFlowProofs` | theorems about `ScanFlow` and `Handoff` | `ScanFlow`, TLAPS |
| `Anchor` | the scan page after it | |
| `AnchorProofs` | theorems about `Anchor` | `Anchor`, TLAPS |
| `Trade` | order page, market page, Blink and unposted reports | |
| `MarketProofs` | theorems about the market: `Trade` and `OrderBook` | both, TLAPS |
| `Provision` | console, bind-chip, seed-passports | |
| `Registrar` | seed-devnet, server-key, partner | |
| `OperatorProofs` | theorems about `Provision` and `Registrar` | both, TLAPS |
| `CardReader` | from the card to the grade | |
| `MC*` | values of constants for TLC; `MCProvision` runs `Provision` and `Registrar`, `MCVerifier` runs `Taps` and `OrderBook` | the module they name |

The accounts, instructions and errors of both programs also exist as the generated
IDL of the proof package, through which the TypeScript clients decode them; the
record definitions of `Escrow` and `Flacon` are mapped to those types where the
definition is the record itself, and to the Rust handlers everywhere else.

### Escrow

One action per instruction. `order`, `vault`, `openVaults` and `window` are the
accounts of the program; a state "NONE" is an account that does not exist. The
guards are the `require!`s and account constraints of the handler, in the shape of
the helper functions of `rules.rs` (`CheckSeller`, `Elapsed`, `BuyerDisputeReason`
...). Flacon accounts, Core owners, USDC balances and the clock are variables
changed by environment actions. Those of the flacon accounts are actions of `Evidence`,
with the clock added: a scan is dated within the skew of the moment it is recorded, which
is a guard of record_scan in `Flacon` too. `offers` are reserve transactions a buyer signed
for the price the page showed and that have not landed, which is what
`expected_price` is about. One signed reserve per buyer is in flight at a time. Left out: rent, PDA derivation, account sizes.
`reason` is the reason field of the OrderDisputed event and is not stored on chain;
`resolve` emits no such event, so no order ends with reason MISMATCH.

### Flacon

One action per instruction. `record_scan` takes every field of the message as an
input, so a message may be of any age and in any order; that it carries a
signature of the registered key is the meaning of the `id`/`pubkey` pair. Labels,
sizes and the byte layout are left out. Times start at 2 so that a revocation can
meet the clamp to 1 of `revoked_valid_to`.

### Evidence

The contract between the two programs. Its state is what the escrow reads of flacon:
which passport a seal is on, the ScanProofs, the dead seals, the void passports. Three
actions: a seal is attached, once, to a passport that is not void; a ScanProof is added
that is newer, by counter, than the others of its seal, never on a dead seal or a void
passport; a seal is marked dead and its passport void. `Flacon` implements it under the
mapping `SealPassport`, `ScanAccounts`, `DeadSeals`, `VoidPassports` (`EvidenceForReaders`),
and `Escrow` uses its actions as they stand. In `Escrow` all seals are attached from
the start: it has no step that depends on a seal that is not.

### Taps

A chip has a counter; a URL of chip x with counter c is genuine iff c was reached.
Every handler is one `BEGIN IMMEDIATE` transaction and therefore one action; its
clock was read before the lock was granted, hence the `ts` parameter that may be
`Delay` behind. Requests that change nothing (preview, refusals, rollbacks) are
`Refuse`. The taps table holds the accepted rows only: refused ones are logged and
never read by these decisions. Reconcile also lifts `seals.last_counter` to the
counter on chain; the chain cannot know a tap the verifier did not sign, and
`UsedTapIsReplay` shows that signed taps are already behind the counter, so that
step would change nothing and is left out.

### ScanSync

One passport. A confirm request is two steps (`ConfirmRead`, `ConfirmWrite`), a
reconcile cycle three (`ReconcileRead`, `ReconcileAccounts`, `ReconcileApply`),
because the code reads, calls the RPC and then writes. `node` is the state the RPC
node shows; it follows `chain` at its own pace. `found` is the set of scans whose
creating signature the signature search returned. Left out: agreement statistics,
the dropping of superseded sightings and the one-time repair of signatures an older
build had chosen; none feeds back into status, credit or grade.

### OrderBook

One Order PDA that is used for several sales. Funded states are one state here,
the table stores them and decides nothing by them. `Traced`, `Gap`, `SaleTime` and
`Lag` state what the environment is assumed to do; see the runs. Left out:
transactions without a block time and release transactions whose OrderReleased log
is missing.

### Handoff and ScanFlow

The scan page of one tab is the record `page`; a handler that awaits is a task that
keeps what it captured when its button was pressed, and each of its answers is an
action (`UploadAnswered` is the upload before Get signature). Buttons are guards; most are disabled while busy, the ones that restart
the scan are not, and busy is reset by whichever handler ends first, as in the code.
Other tabs exist as far as they touch localStorage. The verifier knows which taps /t
has consumed (`seen`) and which /api/verify has taken (`taken`): a tap that /t handed
over is adopted, once, and signed; a tap the page read itself is consumed by the same
call. `Refuse` is an answer without a signature, which may take the tap all the same
(its seal was reported dead meanwhile). `Handoff` has both ways of
taking a tap, `TakeLocked` (Web Locks) and the claim that is looked at again in a
later task. Left out: the camera, Web NFC, forms, site ids and resume parameters.

### Anchor

One signed scan on two devices. A press runs through the calls of `anchorScan`
(look at the account, sign, send, await, find the creating transaction, confirm);
between two calls the other device, the wallet switch, the chain and the verifier
move. A transaction that the page takes for lost may land. `claim` is the tier and
role asked for before the signature, with the gate `partnerWalletGate` and the choice
`roleChoices`; `RoleAllowed` is the program's rule. `PartnerChanges` (the registry
removes the partner) exists only for claims that need one. `against` is what else on
chain makes `record_scan` refuse the scan: a later tap of the seal was anchored, the
seal is dead, the passport void, the server key ended, the site of a professional scan
not registered. Each may be so when the scan is signed, because the server asks its own
tables and the page takes the site from its address, and each may come about until the
transaction executes; only the site can go away again (add_site). The site's number and
the formats of deep links are left out. One state the code cannot leave by itself shows
in the model: a page that kept a signature for which the verifier has another one
goes on posting it, and gets the answer event_confirmed each time; the history is
complete by then, so `AnchoredGetsConfirmed` does not depend on it.

### Trade

One order, moved by this browser and by everybody else. A page acts on its `view`;
`AvailableActions` is the TypeScript copy of the rules, `Outcomes` what the program
does with an instruction. `storage` is the list under fv.pendingEvent. Left out: which
scan the page proposes for a step, and the texts.

### Provision and Registrar

Each transaction of console or script is a step, its answer can be lost, the page
reloaded, the script ended and run again. Recovery by `CreatingSignature` takes the
oldest signature of the address that created the account, and finds nothing when the
address has `Window` signatures or more. The modules share no state; `MCProvision`
checks both in one run with behaviours that take steps of only one. `Giveable` assets can
leave the operator's wallet. A script may be given any asset, the one a console page
keeps included; a transaction whose program ended before it was on chain (`sent`) lands
later or never. The scripts look whether a passport has the asset before they mint with
it, the console does not, and the program does not mind. So what holds is
`ScriptsBindApart`: passports that were minted by scripts, none of them ended in the
middle of its mint, have different assets. That no two passports at all share one
(`OneAssetPerPassport`) is what the comment in `cli.ts` wants, and fails; see
`provision_shared` below. The operator runs one script at a time, beside at most
one console; check and mint of two scripts at the same time would be another way to
share an asset. Seed-devnet registers a verifier key at most once; a key added by hand
with server-key may be added a second time, which is the operator's decision.

### CardReader

The classifier is an environment: it is right about a field where it is sure and there
is no highlight, and may say anything, and be sure of it, under one. What the reader does
about that depends on the mode. `readCardFrame` measures glare and takes the confidence
from a region that has it (`FrameReadings`). `readCard`, for a card with its marker, has
no glare test: a photo of such a card with a highlight (`ShootHighlit`,
`HighlitReadings`) can have any readings the consistency rule lets through, a sure INTACT
of a black 40 °C field among them. `Misleading` counts these photos with those of
something else; `GradeTellsCard` is about scans where fewer than half are of that kind.
`heatVerdict`,
`heatFieldsConsistent`, the vote `combineReadings` with its `Quorum`, the mask and the
grade rule are translated; pixels are not. The photos of a scan are a set: a photo is
its reading and a number among the photos with an equal one, since the vote counts
photos and never looks at their order.

## 3. Runs

Times are for two workers.

| run | what it shows | bounds | time |
|---|---|---|---|
| escrow | custody, evidence, deadlines and prices of the escrow in every order of steps; it implements `Sale` (`DeliveryAgainstPayment`); a funded order settles | 2 sellers, of whom one also buys, admin; 1 seal with 2 taps; prices 0 to 2 (0 is refused), window 1 (0 is refused), clock to 4, reservations until 2, skew 0; see below | 120 s |
| flacon | grades agree with the history of scans; an ended key is silent; it implements `Evidence` (`EvidenceForReaders`) | 2 wallets, 2 seals, 2 taps each, one key slot, a reading each for the grades A, C and VOID and a refused one, clock to 3, skew 1; see below | 115 s |
| verifier | one chip, all uses of its URLs; three sales on one PDA, reports repeated, late or lost, stale reads | 3 taps, 2 nonces, 2 serials, 4 rows, delays of 1; 2 buyers, clock to 7, `Traced`, `Gap` and `SaleTime` as below | 140 s |
| scan_sync | requests and reconcile interleave; scans settle, grades converge | 2 scans on 2 seals, 2 wallets, 1 request in flight (it may be written several times), failed transactions, a cycle | 105 s |
| order_book_wrong_listing | fails: see below | 2 sales, not `Traced` | |
| scan_flow | one tap goes to one tab; photos, reading and nonce of a signature belong together | 2 taps (one opened by the phone itself), 2 sessions, 2 photo series, 1 fault, 2 waiting calls; a dead seal is reported with one photo series at most, and the other tab claims taps while there are no photographs | 75 s |
| anchor | anchored by its wallet, accepted, reported | 2 devices with a wallet each, one of them a partner, tiers 2 and 3, 2 transactions, a counter that is overtaken and a site that is not registered | 105 s |
| trade | buttons, price, unposted reports | 1 page, 2 transactions, 2 prices; the wallet of a seller who is the admin, or of a buyer | 80 s |
| trade_closed_order | fails: see below | 1 price, the seller's wallet | |
| provision | scripts bind no asset twice, reports name the creating transaction, seeding can be resumed, a key is registered once | 2 bottles, 3 chips (one dead), 2 assets, a window of 3 signatures, 1 stray transaction, 1 fault (a lost answer, a reload, an ended script, with or without its transaction landing later); 2 keys, 2 slots, 3 ids, 1 late transaction | 90 s |
| provision_shared | fails: see below | as provision, no faults and no stray transactions | |
| card_reader | what is recorded and graded is what the card shows | 4 heat fields with the third decisive, up to 3 photos, 1 of something else or with an unnoticed highlight | 70 s |

The bounds are small but reach each case once more than needed: two listings on one
PDA show reuse, two taps of one seal show order, three show a gap; a window of 1
with a clock to 4 passes both deadlines of a sale; two seals are the most a passport
has; two transactions are an original and its repetition; one fault at any point is
one more than the happy path, and more faults add only repetitions of it. Four heat
fields have one hotter and two cooler than the decisive one. Numbers that only need
to differ (prices, fill levels) have the fewest values that do.

`MCEscrow` narrows the escrow run where two dimensions would only multiply. The second
seller, who may get the bottle from the first one and list it, is there for
`NoSaleAroundCustody`: while his order exists there is one price, no order gets past its
reservation and the clock stays at the start. The higher price, and tokens sent
straight to a vault, come with bottles that have no scan yet, the tokens only from the
admin and with a bottle without a Core asset. `VaultBacksOrder` and `CustodyIsReal` are
proved without any of these limits. The skew of scan dates is 0 in this run.

`MCFlacon` has one reading that grades by fill (A): the rule that tells A, B and D apart
multiplies the states and is left to the theorem `GradeTellsScans`. `scan_sync` has one
cycle at a time; that cycles overlap (POST /api/reconcile beside the interval job) is
covered by the theorems of `ScanSyncProofs`. `MCAnchor` has one obstacle that stays and
one that goes away of the five; the program refuses each in the same way, and
`NothingSignedInVain` is proved for all.

Deadlock is not checked where users may stop (`anchor`, `scan_flow`, `trade`) or
work is done (`provision`).

What `verifier` assumes of the environment of the order book: from the second listing
on, reconcile reads a listing before its sale ends (`Traced`); the next listing is made at least a
second after the last sale ended (`Gap`); a sale takes longer (`SaleTime`) than a
reconcile cycle between read and write (`Lag`). The first listing may go unseen, so
placeholder rows occur. Without the last assumption a read taken before the
reservation could be applied after the sale was reported and would drop the buyer.
`MarketProofs` proves the two properties of this run from exactly these assumptions
(`BookIsFollowed`: `Traced`, `Gap` at least 1, `Lag` below `SaleTime`), for any numbers
of sales, reports, buyers and seconds.

### What the failing runs show

`order_book_wrong_listing` drops `Traced`. The comment of `record_escrow_outcome`
says that an outcome becomes the final state of its listing. When reconcile has not
read the listing yet and the account is unreadable (or closed) with the report, the
newest known listing of the PDA is overwritten although it may be an older one,
even a cancelled one; when reconcile reads the real listing later, the sale counts
twice.

`trade_closed_order`: the order page keeps the report of a landed transaction so
that a later visit can deliver it. It learns the passport's serial from the order
account only. After close_order the account is gone, a page opened then has no
serial, and every retry ends with "The passport of this order is unknown to the
verifier.": the stored entry is never delivered, although the network works.

`provision_shared`: a console page mints a Core asset for one serial number and keeps it;
the operator names this asset to bind-chip for another bottle, where it passes the check
(nobody has it yet) and is bound; then "Mint passport" is pressed on the page, which
compares serial number and owner and binds the asset again. Nothing is lost and nothing
happens at the same time. `cli.ts` says that two passports would then share one asset and
whoever owns it could sell either bottle.

### Disagreements and limits without a run

- `constants.rs:39` says a passport carries at most one BOX and one NECK seal;
  `attach_seal` bounds the number of seals and ignores their kinds.
- `mint_passport.rs:48-49` says an asset that already backs another issuer's passport
  must never be bound; `check_mint_asset` looks at the current owner only, so an asset
  that changed hands can be bound again. The escrow checks the owner at `list` and at
  `reserve` and does not depend on it.
- The comment of `record_escrow_outcome` relies on a re-list having a later
  `listed_at` than the settlement's block time; nothing keeps close_order and list
  from landing in the second of the settlement.
- `scan-flow.tsx:334`: a reading that is still being computed when the scan is
  restarted lands in the new scan. `ReadingOfPhotos` holds because a scan with photos
  starts its own reading; a scan without photos may be signed with the old one.
- `escrow-rules.ts:120` speaks of the actions the program would accept; "reserve" is
  offered on a void passport too, where the program refuses it. `OfferedMatchesProgram`
  names this exception.
- `UnpostedKept` is about one page: two tabs that flush at the same time write the list
  back over each other.
- A reload while the order page still polls for its transaction (`order-detail.tsx:171`)
  loses the report before it was stored; the Blink gives up for good when its
  confirmation fails. Reconcile restores the order's state in both cases.
- `pipeline.test.ts:77` says that glare on the 40 °C field of a marker card gives
  UNREADABLE; it paints a mid grey. `readCard` itself looks for no glare, so a highlight
  that is white in the photo is nearer the printed intact grey than black: a sure INTACT
  of a triggered field goes through, and the strip stays consistent. `ShootHighlit` takes
  such photos; `GradeTellsCard` holds as long as they, with photos of something else, are
  fewer than half. `HighlightNeverUnderstates` is about cards read without their marker.
- Recovery reads at most 1000 signatures of an address.

## 4. Fairness

- `Escrow`: time passes; a buyer who is owed a timeout refund takes it; release and
  release_after_timeout, which are permissionless, are cranked by someone; the admin
  decides a MISMATCH. Each is weak fairness of one instruction, by the party the
  code lets sign it. Nobody is assumed to list, reserve, scan or ship.
- `ScanSync`: `main.py` runs a cycle every interval and survives any exception, so
  `ReconcileRead` is weakly fair. A cycle may abort on an RPC error, so the later
  phases are strongly fair: the node is assumed to answer infinitely often. It is
  also assumed to catch up with the cluster. No browser is assumed to report.
- `Anchor`: a user who stays on the page presses again (strong fairness of `Press`,
  which is disabled while busy), calls of a handler return, and lookups and confirm
  requests succeed now and then. The reconcile job is not assumed to help. A
  transaction that was sent either lands or expires (`Executes`).
- `Trade`: only the failing run uses fairness: the user opens the page and retries
  again and again and every request succeeds infinitely often, so that nothing but
  the missing serial stops the report.

## 5. Proofs

The theorems hold for every value of the constants that satisfies the named
assumptions of the modules; the bounds of the models (clocks, counters, numbers of
transactions, calls, rows, faults) are arbitrary in them. Every module follows the
same argument: an invariant that is inductive, `Init` implies it, every action keeps
it (a lemma for each action or group of actions, a step for each conjunct that it can
disturb), and it implies the property. The properties themselves are seldom
inductive; what had to be added to each is the interesting part.

`EscrowProofs`. `CoreInv` gives `TypeCorrect`, `VaultsBackOrders` and `CustodyReal`. It
adds `PartiesKnown` (an order on offer or funded has a price above zero, a funded one a
buyer who is a wallet other than the seller): a refund pays `order.buyer`, so usdc keeps
its type only if that is a wallet, and the vault holds a positive price only if the
listing had one. `EvidenceInv` gives `ScansBackStates`, `SellersPaidWithCause` and
`RefundsWithCause`. It adds `StageFacts`, what an order account holds at each stage: the
window is one the clamp leaves alone, `shipped_at` is 0 before ship and no earlier than
the reservation after it, and there is no buyer scan before the receipt. The evidence
itself only gets stronger, since ScanProofs, dead seals and the clock grow
(`WorldMovesOn`), and an order that an instruction is not about keeps its own
(`OtherOrdersUntouched`, `UntouchedKeepsFacts`). `BuyersChargedWhatTheySaw`
and `CustodyIsExclusive` are action properties of the steps out of `CoreInv`; the second
needs that the flag `deposited` and Core's owner agree (`CustodyIsReal`), because it is
the owner that reserve looks at. `EscrowImplementsSale` is the refinement: for each
instruction a lemma shows which step of `Sale` it is for its own order (or a stutter),
and that it is a stutter for all the other orders.

`FlaconProofs`. The invariant adds to `GradeTellsHistory` that the scan and seal counts
are those of the accounts (`CountsMatchAccounts`, also a theorem, `CountsExact`), that the
accounts are finite (the counts are cardinalities), `CountersLead` (no ScanProof is ahead
of its seal's counter: without it record_scan's init_if_needed could meet an old
ScanProof and count it twice), and that a seal belongs to a minted passport. `EndedKeysStaySilent` follows
from the guards of the key and scan instructions under `TypeOK`.

`FlaconProofs`, evidence. `FlaconImplementsEvidence` is the refinement behind the composition
of the two programs, from the same invariant: `CountersLead` makes every ScanProof a new
account and the newest of its seal, and a passport that is minted was not void before
(`UnmintedNotVoid`), because void comes from seals and scans only. `EscrowProofs` uses of
seals, scans and void passports the actions of `Evidence` and the date of a scan, so
whatever `Flacon` does to them is covered. The attester and the date are no part of
`Evidence`: `Flacon` checks both on entry (the signer, the skew) and never reads them
again.

`FlaconProofs`, card reader. `ReaderInv` adds to `GradeTellsCard` and `RecordedIsPhysical`
what the photos so far are good for (`PhotosTell`): each is the reading of a strip that
can exist around its decisive field (`VerdictIsPhysical`, from the consistency rule), and
the ones that say something wrong of the card are at most the `Misleading` ones. The second
holds because an honest photo `Tells` the card or nothing: a decided verdict comes from
a sure classifier, and a mirror image that passes the consistency rule is of a strip
that is all white or all black (`VerdictIsTrue`, which is also
`HighlightsNeverUnderstate`). A quorum is more than half of all photos, so one of the
photos that agree on a verdict tells the card (`QuorumTells`). The levels that were voted on stay
possible because all photos behind a verdict are, and they survive the mask
(`MaskKeepsLevels`, an induction over the fields). The hypothesis of `GradesTellTheCard` is
in the property: fewer than half of the photos show something else or a marker card under
a highlight. The honesty of a classifier that is sure of a field without a highlight is in
the model. `RecordsArePhysical` needs neither, a highlit photo is as possible a strip as
any other (`HighlitReadingIs`).

`TapsProofs`. `TypeCorrect`, `TapSignedOnce`, `NonceSignsOnce`, `UsedTapsReplay` and, for
properties without a run of their own, `TapSightedOnce` and `DeadSealsSilent`. The
inductive invariant `Inv` adds four facts. `WaitingUnsigned` and `LandedOnce` carry a
tap over its time between /t and its adoption: its counter is already consumed then,
so the replay memory cannot tell a first signature from a second one, and only the
adopted flag of the single row can. `SpentNonces` says that no nonce behind a
signature is open, across the purge. `DeadAttached` is what keeps a second attach
from reviving a dead seal. `UsedTapIsReplay` itself gives the rest: a fresh counter is
one that nothing accepted, sighted or signed carries (`FreshIsNew`), and consuming it
makes the memory grow (`ConsumedIsReplay`).

`ScanSyncProofs`. The three properties are stated of a database value (`Sound(d)`),
because reconcile goes through several of them between its transaction's begin and
commit. Added are `ScansInOrder`, `ProofsCounted` (a ScanProof is of a signed scan, the
counter on chain is not behind it, and its damage shows in the account) and
`ReadsBehind`: what a node shows, or a cycle read earlier, is something the chain still
has. That monotonicity is why a stale read is harmless. The work list of a cycle is
folded over by a recursive function; induction along it is done with a set, the
steps up to which the result is sound.

`ScanFlowProofs`. The properties of the page speak of its calls: the invariant says what
a waiting handler may rely on although the page moved on. `UploadsStaged` (what the page
takes for uploaded is staged under the nonce it was uploaded for, and so is what a
verify call carries), `OneCapture` (one series is captured or read at a time, and the
photos shown meanwhile are that series or none: why a late reading cannot meet other
photos), `ReportsSpent` (a nonce spent on a report is not newer than the session, and
remembered if it is that of the session), `SlotFresh` (a tap in the slot was taken by
nobody yet), and the sessions and nonces behind each step.

`AnchorProofs`. The invariant adds what a press holds while its calls are under way (a
wallet that may anchor; the transaction it waits for), that transactions carry the
signed claim for such a wallet (`SentByItsWallet`), that the proof is the one transaction
that landed (`OneLands`), and that the claim that was signed passed the gate
(`ClaimSigned`). The last one gives `NothingSignedInVain`: of the refusals of
`record_scan` the rule for tier and role fails only when the partner list changed after
the signature; all others (late, anchored already, an obstacle in `against`) have their
reason on chain, whatever was signed.

`MarketProofs`, trading. `ButtonsMirrorTheProgram` holds for every order and every role,
reachable or not: it compares `AvailableActions` with `Outcomes` case by case.
`ReservedAsShown` needs only that a Blink's transaction is built for the shown price.
`ReportsAreKept` adds `HeldWhilePosting`: what a running handler will write back holds
everything the storage does, but for what the verifier has. Its hypothesis is `OnePage`:
with a second tab the property is false, the lost update of section 3.

`MarketProofs`, order book. `OutcomesStay` and `ReputationIsEarned` rest on `BookSound`:
sales of one PDA follow each other; everything that somebody knows of the account (rows,
the cycle's reading, the accounts read with reports) is a state its listing once had and
stands where it should among the sales (`HeardIsTrue`); a sale without a row is the first
one; a placeholder stands for a recorded sale that has no row; and a cycle writes before a
sale that began after its reading has ended. Credits are compared with settlements by
cardinalities, along an injection from rows to sales. The hypothesis is `BookIsFollowed`
(section 3). The run `order_book_wrong_listing` shows that `Traced` cannot be dropped.

`OperatorProofs`, registry. `KeysRegisteredOnce` is about `RegistrarSpec`. It adds
`OneIdPlanned`: each addition under way that can still land has picked the first free id
from the wanted one, while its key is not registered. Two additions of one key can then
only be for the same id, and the second one to land is refused.

`OperatorProofs`, provisioning. The invariant says what is left of a running program
(`ProgramOK`), that no passport minted by a script has the asset a script is about to
mint with (`AssetFree`; it gives `ScriptsBindOwnAssets`, since there is one script at a
time and what lands late is not of its doing any more), what a transaction under way can
still do (`SentOK`), that a signature carried to a report is that of the creation
(`SigFound`), and that seals are marked dead after all seals of their bottle are attached
(`DeadLast`, `VoidIsFull`). `SeedFinishes` has the hypothesis `SeedFileComplete`: the file
lists every chip that sits on its bottles, at most two for each, as
docs/seed/passports.json does (one each); a third one, or one attached by hand, would
leave no room.

Induction: the library's theorems that take an operator cannot be used by the
provers here. Recursion is over recursive functions on an interval, and induction is
stated with sets (`WellFoundedInduction`'s or the least element outside a set).

Only model-checked:
- liveness under fairness (`FundedSettles`, `ScansSettle`, `GradeConverges`,
  `AnchoredGetsConfirmed`), which is out of the prover's reach;
- the findings (`order_book_wrong_listing`, `trade_closed_order`, `provision_shared`), which are
  counterexamples.


## 6. Not modelled

- AES-CMAC, LRP, the 152-byte message, bundle and canonical JSON: assumed sound
  (`Taps`, `Flacon` say how).
- Pixels: finding the card, white balance, colours, measuring glare, the synthetic test
  images. What the code does with their results is modelled.
- Verifier: new events (one insert each under the pattern of `ConfirmRead` and
  `ConfirmWrite`), transaction lookup and rate limits, media files, the arweave queue,
  seed, admin and simulator routes.
- Web client: pages that only show data, wallet adapters, the vision worker, error
  wording, the developer's consoles.
- Scripts: seed-escrow, list-order, core-transfer, fund-dev-wallet and argument
  parsing.

## 7. Plan

1. Verifier: new events per transaction, serial and seal, the slots of the lookup,
   media staging with a crash between file and row.
2. Larger instances: `Trade` with a second page, once the storage is shared safely.
