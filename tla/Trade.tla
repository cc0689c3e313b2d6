-------------------------------- MODULE Trade --------------------------------
(***************************************************************************)
(* One order as the web client trades it: the market page that lists it,   *)
(* the order page that drives it, the Blink that reserves it, and the      *)
(* reports of landed transactions that wait in localStorage until the      *)
(* verifier has them (components/order-detail.tsx, market-list.tsx,         *)
(* lib/escrow-rules.ts, lib/pending-events.ts, app/api/actions/verify-buy). *)
(*                                                                         *)
(* One browser with one wallet; Pages are its open page components: tabs,  *)
(* or a page left by a link while its handler runs on.  The other parties  *)
(* and the program's clock move the order at any time, so what a page      *)
(* offers is a view of the past.  The program is external: what it accepts *)
(* is module Escrow's matter, here reduced to states, parties, price and   *)
(* one deadline.                                                           *)
(***************************************************************************)
EXTENDS Naturals, Sequences, FiniteSets

CONSTANTS
  Pages,      \* page components of this browser
  Viewers,    \* what the wallet may be from the start: subsets of {"seller", "admin"}
  Prices,     \* prices a listing may have
  MaxSigs,    \* bound: transactions this browser sends
  MaxLists    \* bound: times the bottle is listed

ASSUME TradeAssumption ==
  /\ Viewers \subseteq SUBSET {"seller", "admin"}
  /\ Prices \subseteq Nat \ {0}
  /\ MaxSigs \in Nat /\ MaxLists \in Nat

Sigs == 1..MaxSigs
States == {"none", "LISTED", "RESERVED", "PRESHIP_SCANNED", "SHIPPED",
           "RECEIPT_SCANNED", "MISMATCH", "RELEASED", "DISPUTE", "CANCELLED"}

VARIABLES
  viewer,   \* what the wallet of this browser is to the order
  order,    \* the order account: state, price while listed, buyer while
            \* open, overdue deadline; dead seal of its passport
  pages,    \* per page: view, handler under way, list on display
  storage,  \* fv.pendingEvent.<order>: signatures, oldest first
  sent,     \* landed transactions of this browser: "list", "reserve", "other"
  events,   \* signatures whose history entry the verifier has
  blink,    \* the Blink: price shown, price of its transaction
  misled    \* history: somebody paid another price than was shown

vars == <<viewer, order, pages, storage, sent, events, blink, misled>>

Kind(action) == IF action \in {"list", "reserve"} THEN action ELSE "other"

\* Actions whose transaction the pages report (run's event argument).
Reported(action) == action \notin {"preShip", "cancel", "close"}

NoOrder == [state |-> "none", price |-> 0, buyer |-> "none", late |-> FALSE, dead |-> FALSE]

\* isSeller, isBuyer, isAdmin: what this browser's wallet is to the order.
Roles(o) == viewer \cup (IF o.buyer = "me" THEN {"buyer"} ELSE {})

(* at: "idle", "send", "poll", "post", "list" (posting a listing).         *)
(* sig: the transaction of the handler.  queue, left: flushPending.        *)
(* shown: the list behind "Retry confirmation".  serial: load found the     *)
(* order and with it the passport's serial number.                         *)
Opened == [view |-> order, serial |-> order.state # "none", at |-> "idle", action |-> "none", sig |-> 0,
           queue |-> <<>>, left |-> <<>>, shown |-> storage]

NoBlink == [shown |-> 0, tx |-> 0]

Init ==
  /\ viewer \in Viewers
  /\ order = NoOrder
  /\ storage = <<>>
  /\ pages = [p \in Pages |-> [view |-> NoOrder, serial |-> FALSE, at |-> "idle",
                               action |-> "none", sig |-> 0, queue |-> <<>>,
                               left |-> <<>>, shown |-> <<>>]]
  /\ sent = <<>>
  /\ events = {}
  /\ blink = NoBlink
  /\ misled = FALSE

Terminal(state) == state \in {"RELEASED", "DISPUTE", "CANCELLED"}
PreShipping(state) == state \in {"RESERVED", "PRESHIP_SCANNED"}

-----------------------------------------------------------------------------
(* The rules of the page and of the program                                *)

\* availableActions, without the buyer's refund for a dead seal
RegularActions(o, v) ==
  (IF o.state = "LISTED" THEN {IF "seller" \in v THEN "cancel" ELSE "reserve"} ELSE {})
  \cup {a \in {"preShip"} : o.state = "RESERVED" /\ "seller" \in v}
  \cup {a \in {"ship"} : o.state = "PRESHIP_SCANNED" /\ "seller" \in v}
  \cup {a \in {"receipt"} : o.state = "SHIPPED" /\ "buyer" \in v}
  \cup {a \in {"release"} : o.state = "RECEIPT_SCANNED"}
  \cup {a \in {"refundNotShipped"} : PreShipping(o.state) /\ "buyer" \in v /\ o.late}
  \cup {a \in {"releaseAfterTimeout"} : o.state = "SHIPPED" /\ o.late}
  \cup {a \in {"adminRefund"} : (PreShipping(o.state) \/ o.state = "SHIPPED") /\ "admin" \in v}
  \cup {a \in {"resolveSeller", "resolveBuyer"} : o.state = "MISMATCH" /\ "admin" \in v}
  \cup {a \in {"close"} : Terminal(o.state) /\ "seller" \in v}

\* Mutant: a dead seal is the buyer's reason after shipping, too.
AvailableActionsDeadSeal(o, v) ==
  RegularActions(o, v) \cup
  {a \in {"disputeSealDead"} : "buyer" \in v /\ o.dead
                               /\ (PreShipping(o.state) \/ o.state = "SHIPPED")}

\* availableActions; after shipping a dead seal is the admin's matter.
AvailableActions(o, v) ==
  RegularActions(o, v) \cup
  {a \in {"disputeSealDead"} : "buyer" \in v /\ o.dead /\ PreShipping(o.state)}

\* handle_dispute: who may have the USDC sent back, given a seal or none.
DisputeAllowed(o, v, withSeal) ==
  IF "admin" \in v THEN o.state \in {"RESERVED", "PRESHIP_SCANNED", "SHIPPED"}
  ELSE /\ "buyer" \in v
       /\ PreShipping(o.state)
       /\ IF withSeal THEN o.dead ELSE o.late

\* escrowIx: the instruction behind a button.  A refund is one instruction,
\* with the dead seal or without; so is the decision about a mismatch.
Instruction(action) ==
  CASE action \in {"refundNotShipped", "adminRefund"} -> "dispute"
    [] action = "disputeSealDead" -> "disputeWithSeal"
    [] action = "resolveSeller" -> "resolveToSeller"
    [] action = "resolveBuyer" -> "resolveToBuyer"
    [] OTHER -> action

\* What an instruction makes of the order: the states it may end in, none
\* when the program refuses it.  A dead seal voids the passport.
Outcomes(o, v, ix) ==
  LET if(allowed, states) == IF allowed THEN states ELSE {}
      seller == "seller" \in v
      admin == "admin" \in v
  IN CASE ix = "list" -> if(o.state = "none" /\ ~o.dead /\ seller, {"LISTED"})
       [] ix = "reserve" -> if(o.state = "LISTED" /\ ~o.dead /\ ~seller, {"RESERVED"})
       [] ix = "cancel" -> if(o.state = "LISTED" /\ seller, {"CANCELLED"})
       [] ix = "preShip" -> if(o.state = "RESERVED" /\ seller, {"PRESHIP_SCANNED"})
       [] ix = "ship" -> if(o.state = "PRESHIP_SCANNED" /\ seller, {"SHIPPED"})
       [] ix = "receipt" -> if(o.state = "SHIPPED" /\ "buyer" \in v,
                               {"RECEIPT_SCANNED", "MISMATCH"})
       [] ix = "release" -> if(o.state = "RECEIPT_SCANNED", {"RELEASED"})
       [] ix = "releaseAfterTimeout" -> if(o.state = "SHIPPED" /\ o.late, {"RELEASED"})
       [] ix = "dispute" -> if(DisputeAllowed(o, v, FALSE), {"DISPUTE"})
       [] ix = "disputeWithSeal" -> if(DisputeAllowed(o, v, TRUE), {"DISPUTE"})
       [] ix = "resolveToSeller" -> if(o.state = "MISMATCH" /\ admin, {"RELEASED"})
       [] ix = "resolveToBuyer" -> if(o.state = "MISMATCH" /\ admin, {"DISPUTE"})
       [] ix = "close" -> if(Terminal(o.state) /\ seller, {"none"})

Actions == {"list", "reserve", "cancel", "preShip", "ship", "receipt", "release",
            "releaseAfterTimeout", "refundNotShipped", "adminRefund",
            "disputeSealDead", "resolveSeller", "resolveBuyer", "close"}

\* The order after an instruction of `who'; a new state starts a new deadline.
Moved(o, state, price, who) ==
  [o EXCEPT !.state = state, !.late = FALSE,
            !.price = IF state = "LISTED" THEN price ELSE 0,
            !.buyer = CASE state = "RESERVED" -> who
                        [] state \in {"none", "LISTED"} \/ Terminal(state) -> "none"
                        [] OTHER -> @]

Charge(action, shown) ==
  misled' = (misled \/ (action = "reserve" /\ shown # order.price))

-----------------------------------------------------------------------------
(* localStorage                                                            *)

Has(list, sig) == \E i \in 1..Len(list) : list[i] = sig

\* withPending, withoutPending
With(list, sig) == IF Has(list, sig) THEN list ELSE Append(list, sig)
Without(list, sig) ==
  LET upTo[n \in 0..Len(list)] ==
        IF n = 0 THEN <<>>
        ELSE IF list[n] # sig THEN Append(upTo[n - 1], list[n]) ELSE upTo[n - 1]
  IN upTo[Len(list)]

SetPage(p, page) == pages' = [pages EXCEPT ![p] = page]

\* postAllPending: a copy of the list is posted, entry by entry.
Flushing(page, list) == [page EXCEPT !.at = "post", !.queue = list, !.left = list,
                                     !.shown = list]

-----------------------------------------------------------------------------
(* The pages                                                               *)

\* Mounted, reloaded, or its data loaded again: a handler is lost with it.
Open(p) ==
  /\ pages[p] # Opened
  /\ SetPage(p, Opened)
  /\ UNCHANGED <<viewer, order, storage, sent, events, blink, misled>>

NextSig == Len(sent) + 1

\* Pressed: the page is busy with an action, all its buttons are disabled.
Pressed(p, action) ==
  /\ pages[p].at = "idle"
  /\ NextSig \in Sigs
  /\ SetPage(p, [pages[p] EXCEPT !.at = "send", !.action = action])
  /\ UNCHANGED <<viewer, order, storage, sent, events, blink, misled>>

\* A button of the order page: one for each available action.
Press(p, action) ==
  /\ action \in AvailableActions(pages[p].view, Roles(pages[p].view))
  /\ Pressed(p, action)

\* "List" on the market page: the chain is read first, the passport must not
\* be VOID and the wallet must own the bottle.
PressList(p) == "seller" \in viewer /\ ~order.dead /\ Pressed(p, "list")

\* sendAsV0 for the price of the view: refused, failed or declined, ...
Refused(p) ==
  /\ pages[p].at = "send"
  /\ SetPage(p, [pages[p] EXCEPT !.at = "idle", !.action = "none"])
  /\ UNCHANGED <<viewer, order, storage, sent, events, blink, misled>>

\* ... or landed: the order moves.
Lands(page, state, price) ==
  /\ page.at = "send"
  /\ NextSig \in Sigs
  /\ state \in Outcomes(order, Roles(order), Instruction(page.action))
  /\ order' = Moved(order, state, price, "me")
  /\ sent' = Append(sent, Kind(page.action))
  /\ Charge(page.action, page.view.price)
  /\ UNCHANGED <<viewer, events, blink>>

\* The order page waits for its view to change, if it learns that the
\* transaction landed.
Landed(p, state, known) ==
  LET page == pages[p] IN
  /\ page.action # "list"
  /\ page.action = "reserve" => page.view.price = order.price
  /\ Lands(page, state, 0)
  /\ SetPage(p, IF known THEN [page EXCEPT !.at = "poll", !.sig = NextSig]
                ELSE [page EXCEPT !.at = "idle", !.action = "none"])
  /\ UNCHANGED storage

\* A listing is remembered at once, then its own entry is posted.
ListLanded(p, price, known) ==
  LET page == pages[p] IN
  /\ page.action = "list"
  /\ Len(SelectSeq(sent, LAMBDA a : a = "list")) < MaxLists
  /\ Lands(page, "LISTED", price)
  /\ IF known
     THEN /\ storage' = With(storage, NextSig)
          /\ SetPage(p, [page EXCEPT !.at = "list", !.sig = NextSig])
     ELSE /\ UNCHANGED storage
          /\ SetPage(p, [page EXCEPT !.at = "idle", !.action = "none"])

\* The poll ends with the new view or gives up; then the transaction is
\* remembered and everything that waits is posted.
Polled(p, view) ==
  LET page == [pages[p] EXCEPT !.view = view, !.action = "none",
                               !.serial = @ \/ view.state # "none"] IN
  /\ pages[p].at = "poll"
  /\ IF Reported(pages[p].action)
     THEN /\ storage' = With(storage, pages[p].sig)
          /\ SetPage(p, Flushing(page, With(storage, pages[p].sig)))
     ELSE UNCHANGED storage /\ SetPage(p, [page EXCEPT !.at = "idle"])
  /\ UNCHANGED <<viewer, order, sent, events, blink, misled>>

\* retryConfirmation of the order page
Retry(p) ==
  LET page == pages[p] IN
  /\ page.at = "idle" /\ page.shown # <<>>
  /\ SetPage(p, [Flushing(page, storage) EXCEPT !.action = "retry"])
  /\ UNCHANGED <<viewer, order, storage, sent, events, blink, misled>>

\* flushPending, one entry: posted or moot ("event_confirmed"), or failed,
\* perhaps after the verifier has stored it.  Without the serial number
\* postEvent throws at once.
Posted(p, ok) ==
  LET page == pages[p]
      sig == Head(page.queue)
  IN
  /\ page.at = "post" /\ page.queue # <<>>
  /\ ok => page.serial
  /\ events' \in {events \cup {sig}} \cup {e \in {events} : ~ok}
  /\ ~page.serial => events' = events
  /\ SetPage(p, [page EXCEPT !.queue = Tail(@),
                             !.left = IF ok THEN Without(@, sig) ELSE @])
  /\ UNCHANGED <<viewer, order, storage, sent, blink, misled>>

\* Mutant: what is left is not written back, the storage is cleared.
FlushedAll(p) ==
  /\ pages[p].at = "post" /\ pages[p].queue = <<>>
  /\ storage' = <<>>
  /\ SetPage(p, [pages[p] EXCEPT !.at = "idle", !.left = <<>>, !.shown = <<>>, !.sig = 0,
                                 !.action = "none"])
  /\ UNCHANGED <<viewer, order, sent, events, blink, misled>>

\* savePending(left); a retry that left nothing loads the order again.
Flushed(p) ==
  LET page == pages[p] IN
  /\ page.at = "post" /\ page.queue = <<>>
  /\ storage' = page.left
  /\ LET after == IF page.action = "retry" /\ page.left = <<>> THEN order ELSE page.view
     IN SetPage(p, [page EXCEPT !.at = "idle", !.left = <<>>, !.shown = page.left, !.sig = 0,
                                !.action = "none", !.view = after,
                                !.serial = @ \/ after.state # "none"])
  /\ UNCHANGED <<viewer, order, sent, events, blink, misled>>

\* postList and its retry: the entry is forgotten in the storage of then.
ListPosted(p, ok) ==
  LET page == pages[p] IN
  /\ page.at = "list"
  /\ events' \in {events \cup {page.sig}} \cup {e \in {events} : ~ok}
  /\ storage' = IF ok THEN Without(storage, page.sig) ELSE storage
  /\ SetPage(p, IF ok THEN [page EXCEPT !.at = "idle", !.action = "none", !.sig = 0] ELSE page)
  /\ UNCHANGED <<viewer, order, sent, blink, misled>>

-----------------------------------------------------------------------------
(* The Blink: a buyer who is not at this browser                           *)

\* GET verify-buy: the price of a listed order, in the link.
BlinkGet ==
  /\ order.state = "LISTED"
  /\ blink' = [NoBlink EXCEPT !.shown = order.price]
  /\ UNCHANGED <<viewer, order, pages, storage, sent, events, misled>>

\* Mutant: the transaction is built for the price of now.
BlinkPostNow ==
  /\ blink.shown # 0 /\ order.state = "LISTED"
  /\ blink' = [blink EXCEPT !.tx = order.price]
  /\ UNCHANGED <<viewer, order, pages, storage, sent, events, misled>>

\* POST verify-buy: the order is looked up again, the price is the link's.
BlinkPost ==
  /\ blink.shown # 0 /\ order.state = "LISTED"
  /\ blink' = [blink EXCEPT !.tx = blink.shown]
  /\ UNCHANGED <<viewer, order, pages, storage, sent, events, misled>>

\* The wallet sends it whenever the buyer signs.
BlinkLands ==
  /\ blink.tx # 0
  /\ order.state = "LISTED" /\ ~order.dead /\ order.price = blink.tx
  /\ order' = Moved(order, "RESERVED", 0, "other")
  /\ Charge("reserve", blink.shown)
  /\ blink' = NoBlink
  /\ UNCHANGED <<viewer, pages, storage, sent, events>>

\* isReserveOf: a landed reserve of this order.
IsReserveOf(sig) == sig <= Len(sent) /\ sent[sig] = "reserve"

\* postUntil: written in the end, or given up for good.
PostUntil(sig) == events' \in {events, events \cup {sig}}

\* POST confirm, by anyone with any signature, while the order account is
\* there.  What it writes for transactions of other browsers is not followed.
BlinkConfirm(sig) ==
  /\ IsReserveOf(sig) /\ order.state # "none"
  /\ PostUntil(sig)
  /\ UNCHANGED <<viewer, order, pages, storage, sent, blink, misled>>

-----------------------------------------------------------------------------
(* Everybody else                                                          *)

\* Another wallet moves the order, the seller lists it anew at any price.
Elsewhere(v, action, state, price) ==
  /\ v \cap viewer = {} /\ ("buyer" \in v => order.buyer = "other")
  /\ IF action = "list" THEN price \in Prices ELSE price = 0
  /\ order' = Moved(order, state, price, "other")
  /\ UNCHANGED <<viewer, pages, storage, sent, events, blink, misled>>

DeadlinePasses ==
  /\ order.state \in {"RESERVED", "PRESHIP_SCANNED", "SHIPPED"} /\ ~order.late
  /\ order' = [order EXCEPT !.late = TRUE]
  /\ UNCHANGED <<viewer, pages, storage, sent, events, blink, misled>>

SealDies ==
  /\ ~order.dead
  /\ order' = [order EXCEPT !.dead = TRUE]
  /\ UNCHANGED <<viewer, pages, storage, sent, events, blink, misled>>

-----------------------------------------------------------------------------
PageStep(p) ==
  \/ \E action \in Actions : Press(p, action)
  \/ PressList(p)
  \/ Refused(p)
  \/ \E state \in States, known \in BOOLEAN : Landed(p, state, known)
  \/ \E price \in Prices, known \in BOOLEAN : ListLanded(p, price, known)
  \/ \E view \in {pages[p].view, order} : Polled(p, view)
  \/ Retry(p)
  \/ \E ok \in BOOLEAN : Posted(p, ok) \/ ListPosted(p, ok)
  \/ Flushed(p)

Next ==
  \/ \E p \in Pages : PageStep(p) \/ Open(p)
  \/ BlinkGet \/ BlinkPost \/ BlinkLands \/ \E sig \in Sigs : BlinkConfirm(sig)
  \/ \E v \in {{}} \cup {{role} : role \in {"seller", "buyer", "admin"}}, action \in Actions :
       \E state \in Outcomes(order, v, Instruction(action)), price \in Prices \cup {0} :
         Elsewhere(v, action, state, price)
  \/ DeadlinePasses \/ SealDies

Spec == Init /\ [][Next]_vars

(* Calls of a handler end; the user comes back to the order page and       *)
(* presses "Retry confirmation"; a post that is tried again and again gets *)
(* through.                                                                *)
Fairness ==
  \A p \in Pages :
    /\ WF_vars(Refused(p)) /\ WF_vars(\E view \in {pages[p].view, order} : Polled(p, view))
    /\ WF_vars(\E ok \in BOOLEAN : Posted(p, ok)) /\ WF_vars(Flushed(p))
    /\ SF_vars(Open(p) /\ pages[p].at = "idle") /\ SF_vars(Retry(p))
    /\ \A sig \in Sigs : SF_vars(Posted(p, TRUE) /\ Head(pages[p].queue) = sig)
    /\ SF_vars(ListPosted(p, TRUE))

FairSpec == Spec /\ Fairness

-----------------------------------------------------------------------------
(* Properties                                                              *)

TypeOK ==
  /\ order \in [state : States, price : Prices \cup {0}, buyer : {"none", "me", "other"}, late : BOOLEAN, dead : BOOLEAN]
  /\ \A p \in Pages : pages[p].at \in {"idle", "send", "poll", "post", "list"}
  /\ \A i \in 1..Len(storage) : storage[i] \in Sigs
  /\ events \subseteq Sigs

\* "They mirror programs/escrow/src/rules.rs: keep both in sync": on a view
\* that is up to date the page offers exactly what the program would accept
\* from this wallet, whichever parties it is at once.  Two differences: the
\* page does not look at the passport before it offers to reserve, and it
\* has an own button for each reason of a refund.
OfferedMatchesProgram ==
  \A p \in Pages : pages[p].view = order =>
    \A action \in Actions \ {"list"} :
      LET offered == action \in AvailableActions(order, Roles(order))
          accepted == Outcomes(order, Roles(order), Instruction(action)) # {}
      IN /\ offered => accepted \/ (action = "reserve" /\ order.dead)
         /\ accepted => offered \/ action \in {"refundNotShipped", "disputeSealDead",
                                               "adminRefund"}

\* A buyer is charged the price that the page or the Blink has shown, though
\* the listing may be replaced by one at another price before the
\* transaction is built and again before it lands.
ReservedAtShownPrice == ~misled

\* "A second landed action never overwrites an earlier unposted one": a
\* transaction that was remembered is in the verifier's history, in the
\* storage, or in the list that a running handler will write back.
UnpostedKept ==
  [][\A sig \in Sigs : Has(storage, sig) =>
       \/ Has(storage', sig) \/ sig \in events'
       \/ \E p \in Pages : Has(pages'[p].left, sig)]_vars

\* "Keep the landed transaction + planned event until the verifier has it,
\* so it can be retried": what the storage holds reaches the verifier.  The
\* page comes to show every entry, and one that keeps failing does not hold
\* the others back.
StoredGetsPosted == \A sig \in Sigs : Has(storage, sig) ~> sig \in events

=============================================================================
