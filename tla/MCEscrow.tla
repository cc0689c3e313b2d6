------------------------------ MODULE MCEscrow ------------------------------
(* Values of the constants of Escrow for TLC.                              *)
EXTENDS Escrow, TLC

CONSTANTS alice, bob, admin, p1, a1, s1

\* One passport, minted by alice, with at most one seal.
OneIssuer == [p \in Passports |-> alice]
OneAsset == [p \in Passports |-> a1]
SealsOfP1 == [s \in Seals |-> p1]

\* A wallet and an Order PDA: an asset can be sent to an order by hand.
WalletsAndPda == {bob, <<p1, alice>>}

Reading(fill, heat) == [fill |-> fill, heat |-> heat, hum |-> 0]

\* Bob, who may buy, lists as well once the bottle is his; while his order
\* exists there is one price, no order gets past its reservation, and the flacon
\* accounts and the clock are as at the start.  The higher price and tokens sent
\* straight to a vault are for bottles without a scan; the tokens are the
\* admin's, and the bottle then has no Core asset.
MCNext ==
  /\ Next
  /\ order'[<<p1, bob>>].state # "NONE" =>
       /\ \A o \in Orders : order'[o].price < 2 /\ order'[o].state \notin Funded \ {"RESERVED"}
       /\ now' = 1 /\ scans' = {} /\ deadSeals' = {} /\ partners' = {alice}
  /\ \A o \in Orders : order'[o].price = 2 => scans' = {}
  /\ \A o \in Orders : vault'[o] > order'[o].price =>
       owner[a1] = NoCoreAsset /\ usdc'[admin] < Funds /\ scans' = {}
MCInit == Init /\ owner[a1] # bob
MCSpec == MCInit /\ [][MCNext]_vars /\ Fairness

\* Two fill levels, one past the tolerance apart.
TwoReadings == {Reading(95, 0), Reading(89, 0)}

=============================================================================
