-------------------------------- MODULE Sale --------------------------------
(***************************************************************************)
(* What the escrow promises about every sale, with no clock, scan, seal or *)
(* admin in sight: delivery against payment.  A sale holds one buyer's     *)
(* money once, all of it leaves in one step to exactly one of the two      *)
(* parties, and an asset in custody goes to the other one in that step.    *)
(***************************************************************************)
EXTENDS Integers

CONSTANTS
  Sales,      \* identities of sales
  Wallets,
  Assets,
  Nobody,     \* buyer of a sale without one
  Vendor,     \* sale -> the wallet that sells
  Good        \* sale -> the asset sold

VARIABLES
  stage,      \* "idle", "offered", "held" or "settled"
  buyer,      \* who funded the sale
  held,       \* money the sale holds
  custody,    \* whether the sale holds the asset
  usdc,       \* money of the wallets
  owner       \* owner of the assets: a wallet, a sale, or something else

vars == <<stage, buyer, held, custody, usdc, owner>>

Init ==
  /\ stage = [s \in Sales |-> "idle"]
  /\ buyer = [s \in Sales |-> Nobody]
  /\ held = [s \in Sales |-> 0]
  /\ custody = [s \in Sales |-> FALSE]
  /\ usdc \in [Wallets -> Nat]
  /\ \A a \in Assets : owner[a] \notin Sales

\* The asset leaves custody for the wallet w; nothing moves without custody.
HandOver(s, w) ==
  /\ custody[s] => owner[Good[s]] = s
  /\ owner' = IF custody[s] THEN [owner EXCEPT ![Good[s]] = w] ELSE owner
  /\ custody' = [custody EXCEPT ![s] = FALSE]

Pay(s, w) ==
  /\ usdc' = [usdc EXCEPT ![w] = @ + held[s]]
  /\ held' = [held EXCEPT ![s] = 0]

Offer(s) ==
  /\ stage[s] = "idle"
  /\ stage' = [stage EXCEPT ![s] = "offered"]
  /\ UNCHANGED <<buyer, held, custody, usdc, owner>>

TakeCustody(s) ==
  /\ stage[s] = "offered" /\ ~custody[s]
  /\ owner[Good[s]] = Vendor[s]
  /\ owner' = [owner EXCEPT ![Good[s]] = s]
  /\ custody' = [custody EXCEPT ![s] = TRUE]
  /\ UNCHANGED <<stage, buyer, held, usdc>>

Withdraw(s) ==
  /\ stage[s] = "offered"
  /\ HandOver(s, Vendor[s])
  /\ stage' = [stage EXCEPT ![s] = "settled"]
  /\ UNCHANGED <<buyer, held, usdc>>

Fund(s, w, amount) ==
  /\ stage[s] = "offered"
  /\ w # Vendor[s]
  /\ 0 < amount /\ amount <= usdc[w]
  /\ usdc' = [usdc EXCEPT ![w] = @ - amount]
  /\ held' = [held EXCEPT ![s] = amount]
  /\ buyer' = [buyer EXCEPT ![s] = w]
  /\ stage' = [stage EXCEPT ![s] = "held"]
  /\ UNCHANGED <<custody, owner>>

TopUp(s, w, amount) ==
  /\ stage[s] = "held"
  /\ 0 < amount /\ amount <= usdc[w]
  /\ usdc' = [usdc EXCEPT ![w] = @ - amount]
  /\ held' = [held EXCEPT ![s] = @ + amount]
  /\ UNCHANGED <<stage, buyer, custody, owner>>

PayVendor(s) ==
  /\ stage[s] = "held"
  /\ Pay(s, Vendor[s])
  /\ HandOver(s, buyer[s])
  /\ stage' = [stage EXCEPT ![s] = "settled"]
  /\ UNCHANGED buyer

PayBack(s) ==
  /\ stage[s] = "held"
  /\ Pay(s, buyer[s])
  /\ HandOver(s, Vendor[s])
  /\ stage' = [stage EXCEPT ![s] = "settled"]
  /\ UNCHANGED buyer

Forget(s) ==
  /\ stage[s] = "settled"
  /\ stage' = [stage EXCEPT ![s] = "idle"]
  /\ buyer' = [buyer EXCEPT ![s] = Nobody]
  /\ UNCHANGED <<held, custody, usdc, owner>>

GiveAway(a, to) ==
  /\ owner[a] \in Wallets
  /\ owner' = [owner EXCEPT ![a] = to]
  /\ UNCHANGED <<stage, buyer, held, custody, usdc>>

Next ==
  \/ \E s \in Sales :
       \/ Offer(s) \/ TakeCustody(s) \/ Withdraw(s)
       \/ PayVendor(s) \/ PayBack(s) \/ Forget(s)
       \/ \E w \in Wallets :
            \E amount \in 1..usdc[w] : Fund(s, w, amount) \/ TopUp(s, w, amount)
  \/ \E a \in Assets, to \in Wallets \cup Sales : GiveAway(a, to)

Spec == Init /\ [][Next]_vars

=============================================================================
