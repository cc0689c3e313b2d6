----------------------------- MODULE MarketProofs -----------------------------
(***************************************************************************)
(* Proofs about the sale of a bottle as the web client and the verifier    *)
(* keep track of it.  Trade: the pages and the Blink, for every set of     *)
(* wallets, prices and pages, any number of transactions and listings; the *)
(* storage of reports for one open page.  OrderBook: the table and the     *)
(* counters, for any number of buyers, sales and reports, under the        *)
(* assumptions on time and on reconcile that BookIsFollowed states.        *)
(***************************************************************************)
EXTENDS Trade, OrderBook, FiniteSetTheorems, SequenceTheorems, WellFoundedInduction, TLAPS

-----------------------------------------------------------------------------
(* Lists of signatures                                                     *)

\* Every set of naturals that is not empty has a least one.
LEMMA LeastExists ==
  ASSUME NEW S, S \subseteq Nat, S # {}
  PROVE  \E x \in S : \A y \in S : x <= y
<1>1. IsWellFoundedOn(OpToRel(<, Nat), Nat)
  BY NatLessThanWellFounded, Zenon
<1>2. PICK x \in S : \A y \in S : ~(<<y, x>> \in OpToRel(<, Nat))
  BY <1>1, WFMin, Zenon
<1>3. \A y \in S : ~(y < x)
  BY <1>2 DEF OpToRel
<1>4. \A y \in S : x =< y
  BY <1>3
<1> QED
  BY <1>4

\* A set that is closed under the successor holds a whole interval.
LEMMA SetInduction ==
  ASSUME NEW m \in Nat, NEW S, 0 \in S,
         \A n \in 0..(m - 1) : n \in S => n + 1 \in S
  PROVE  0..m \subseteq S
<1> DEFINE T == (0..m) \ S
<1> SUFFICES ASSUME T # {} PROVE FALSE
  OBVIOUS
<1>1. T \subseteq Nat
  OBVIOUS
<1> HIDE DEF T
<1>2. PICK x \in T : \A y \in T : x <= y
  BY <1>1, LeastExists
<1>3. x \in 0..m /\ x \notin S
  BY <1>2 DEF T
<1>4. x - 1 \in 0..(m - 1) /\ x - 1 \in 0..m /\ (x - 1) + 1 = x
  BY <1>3
<1>5. x - 1 \notin T
  BY <1>2, <1>3
<1> QED
  BY <1>3, <1>4, <1>5 DEF T

\* The function that Without evaluates, up to entry m of the list.
IsUpTo(f, m, list, sig) ==
  f = [n \in 0..m |->
         IF n = 0 THEN <<>>
         ELSE IF list[n] # sig THEN Append(f[n - 1], list[n]) ELSE f[n - 1]]

\* There is such a function for every length.
LEMMA UpToExists ==
  ASSUME NEW list, NEW sig, NEW m \in Nat PROVE \E f : IsUpTo(f, m, list, sig)
<1> DEFINE S == {n \in 0..m : \E f : IsUpTo(f, n, list, sig)}
           Next1(f, n) == IF list[n] # sig THEN Append(f[n - 1], list[n]) ELSE f[n - 1]
<1>1. 0 \in S
  <2>1. IsUpTo([n \in 0..0 |-> <<>>], 0, list, sig)
    BY DEF IsUpTo
  <2> QED
    BY <2>1
<1>2. ASSUME NEW k \in 0..(m - 1), k \in S PROVE k + 1 \in S
  <2>1. PICK f : IsUpTo(f, k, list, sig)
    BY <1>2
  <2> DEFINE g == [n \in 0..(k + 1) |-> IF n <= k THEN f[n] ELSE Next1(f, n)]
  <2>2. \A n \in 0..k : f[n] = IF n = 0 THEN <<>> ELSE Next1(f, n)
    BY <2>1 DEF IsUpTo
  <2>3. \A n \in 0..(k + 1) : g[n] = IF n = 0 THEN <<>> ELSE Next1(g, n)
    <3>1. TAKE n \in 0..(k + 1)
    <3>2. CASE n <= k
      BY <2>2, <3>2
    <3>3. CASE n = k + 1
      BY <3>3
    <3> QED
      BY <3>2, <3>3
  <2>4. g = [n \in 0..(k + 1) |-> g[n]]
    OBVIOUS
  <2> HIDE DEF g
  <2>5. IsUpTo(g, k + 1, list, sig)
    BY <2>3, <2>4 DEF IsUpTo
  <2> QED
    BY <2>5
<1> HIDE DEF S
<1>3. 0..m \subseteq S
  BY <1>1, <1>2, SetInduction
<1> QED
  BY <1>3 DEF S

\* A list that grows keeps what it has and has what it got.
LEMMA AppendHas ==
  ASSUME NEW T, NEW list \in Seq(T), NEW e \in T
  PROVE  /\ Append(list, e) \in Seq(T)
         /\ Has(Append(list, e), e)
         /\ \A x : Has(list, x) => Has(Append(list, e), x)
<1>1. /\ Append(list, e) \in Seq(T)
      /\ Len(list) \in Nat /\ Len(Append(list, e)) = Len(list) + 1
      /\ \A i \in 1..Len(list) : Append(list, e)[i] = list[i]
      /\ Append(list, e)[Len(list) + 1] = e
  OBVIOUS
<1>2. Has(Append(list, e), e)
  BY <1>1 DEF Has
<1>3. ASSUME NEW x, Has(list, x) PROVE Has(Append(list, e), x)
  <2>1. PICK i \in 1..Len(list) : list[i] = x
    BY <1>3 DEF Has
  <2> QED
    BY <1>1, <2>1 DEF Has
<1> QED
  BY <1>1, <1>2, <1>3

\* withPending
LEMMA WithIs ==
  ASSUME NEW T, NEW list \in Seq(T), NEW sig \in T
  PROVE  /\ With(list, sig) \in Seq(T)
         /\ Has(With(list, sig), sig)
         /\ \A x : Has(list, x) => Has(With(list, sig), x)
BY AppendHas DEF With

\* withoutPending keeps every other signature.
LEMMA WithoutIs ==
  ASSUME NEW T, NEW list \in Seq(T), NEW sig
  PROVE  /\ Without(list, sig) \in Seq(T)
         /\ \A x : Has(list, x) /\ x # sig => Has(Without(list, sig), x)
<1> DEFINE m == Len(list)
           f == CHOOSE g : IsUpTo(g, m, list, sig)
<1>1. IsUpTo(f, m, list, sig) /\ m \in Nat
  <2>1. m \in Nat
    OBVIOUS
  <2> HIDE DEF m
  <2>2. \E g : IsUpTo(g, m, list, sig)
    BY <2>1, UpToExists
  <2> QED
    BY <2>1, <2>2, ZenonT(30)
<1>2. Without(list, sig) = f[m]
  BY DEF Without, IsUpTo
<1> HIDE DEF f
<1>3. \A n \in 0..m : f[n] = IF n = 0 THEN <<>>
                             ELSE IF list[n] # sig THEN Append(f[n - 1], list[n])
                             ELSE f[n - 1]
  BY <1>1 DEF IsUpTo
<1> DEFINE Keeps(n) == \A i \in 1..n : list[i] # sig => Has(f[n], list[i])
           S == {n \in 0..m : f[n] \in Seq(T) /\ Keeps(n)}
<1>4. 0 \in S
  <2>1. 0 \in 0..m /\ f[0] = <<>> /\ <<>> \in Seq(T) /\ Keeps(0)
    BY <1>1, <1>3
  <2> QED
    BY <2>1
<1>5. ASSUME NEW n \in 0..(m - 1), n \in S PROVE n + 1 \in S
  <2>1. n + 1 \in 0..m /\ n + 1 # 0 /\ (n + 1) - 1 = n /\ n + 1 \in 1..m
    BY <1>1
  <2>2. list[n + 1] \in T /\ f[n] \in Seq(T) /\ Keeps(n)
    BY <1>5, <2>1
  <2>3. f[n + 1] = IF list[n + 1] # sig THEN Append(f[n], list[n + 1]) ELSE f[n]
    BY <1>3, <2>1
  <2>4. f[n + 1] \in Seq(T)
    BY <2>2, <2>3
  <2>5. ASSUME NEW i \in 1..(n + 1), list[i] # sig PROVE Has(f[n + 1], list[i])
    <3>1. CASE i = n + 1
      BY <2>2, <2>3, <2>5, <3>1, AppendHas
    <3>2. CASE i # n + 1
      <4>1. i \in 1..n
        BY <3>2
      <4>2. Has(f[n], list[i])
        BY <2>2, <2>5, <4>1
      <4> QED
        BY <2>2, <2>3, <4>2, AppendHas
    <3> QED
      BY <3>1, <3>2
  <2> QED
    BY <2>1, <2>4, <2>5
<1> HIDE DEF S
<1>6. 0..m \subseteq S
  BY <1>1, <1>4, <1>5, SetInduction
<1>7. f[m] \in Seq(T) /\ Keeps(m)
  BY <1>1, <1>6 DEF S
<1> QED
  BY <1>2, <1>7 DEF Has

-----------------------------------------------------------------------------
(* Trading: the inductive invariant and the buttons                         *)

USE TradeAssumption

\* Orders and open pages.
Orders == [state : States, price : Prices \cup {0}, buyer : {"none", "me", "other"},
           late : BOOLEAN, dead : BOOLEAN]

PageRecords == [view : Orders, serial : BOOLEAN, at : {"idle", "send", "poll", "post", "list"},
                action : Actions \cup {"none", "retry"}, sig : Sigs \cup {0},
                queue : Seq(Sigs), left : Seq(Sigs), shown : Seq(Sigs)]

TradeTyped ==
  /\ viewer \in SUBSET {"seller", "admin"}
  /\ order \in Orders
  /\ pages \in [Pages -> PageRecords]
  /\ storage \in Seq(Sigs)
  /\ sent \in Seq({"list", "reserve", "other"})
  /\ events \subseteq Sigs
  /\ blink \in [shown : Prices \cup {0}, tx : Prices \cup {0}]

\* A page that waits for its transaction knows the signature.
SigKnown == \A p \in Pages : pages[p].at \in {"poll", "list"} => pages[p].sig # 0

\* The transaction of a Blink is built for the price of its link.
BuiltAsShown == blink.tx # 0 => blink.tx = blink.shown

TradeInv == TradeTyped /\ SigKnown /\ BuiltAsShown /\ ReservedAtShownPrice

\* What a running handler will write back holds everything the storage does,
\* but for what the verifier has.
HeldWhilePosting ==
  \A p \in Pages : pages[p].at = "post" =>
    \A sig \in Sigs : Has(storage, sig) => Has(pages[p].left, sig) \/ sig \in events

\* "They mirror programs/escrow/src/rules.rs: keep both in sync": whatever the
\* state of an order, its parties, its deadline and its seal, a page that shows
\* it as it is offers what the program would accept from this wallet.
THEOREM ButtonsMirrorTheProgram == Spec => []OfferedMatchesProgram
<1>1. ASSUME NEW action \in Actions \ {"list"}, NEW o, NEW v
      PROVE  LET offered == action \in AvailableActions(o, v)
                 accepted == Outcomes(o, v, Instruction(action)) # {}
             IN /\ offered => accepted \/ (action = "reserve" /\ o.dead)
                /\ accepted => offered \/ action \in {"refundNotShipped", "disputeSealDead",
                                                      "adminRefund"}
  <2> USE DEF AvailableActions, RegularActions, Outcomes, Instruction, DisputeAllowed,
              PreShipping, Terminal
  <2>1. CASE action = "reserve"
    BY <2>1
  <2>2. CASE action = "cancel"
    BY <2>2
  <2>3. CASE action = "preShip"
    BY <2>3
  <2>4. CASE action = "ship"
    BY <2>4
  <2>5. CASE action = "receipt"
    BY <2>5
  <2>6. CASE action = "release"
    BY <2>6
  <2>7. CASE action = "releaseAfterTimeout"
    BY <2>7
  <2>8. CASE action = "refundNotShipped"
    BY <2>8
  <2>9. CASE action = "adminRefund"
    BY <2>9
  <2>10. CASE action = "disputeSealDead"
    BY <2>10
  <2>11. CASE action = "resolveSeller"
    BY <2>11
  <2>12. CASE action = "resolveBuyer"
    BY <2>12
  <2>13. CASE action = "close"
    BY <2>13
  <2> QED
    BY <2>1, <2>2, <2>3, <2>4, <2>5, <2>6, <2>7, <2>8, <2>9, <2>10, <2>11, <2>12, <2>13
       DEF Actions
<1>2. OfferedMatchesProgram
  BY <1>1 DEF OfferedMatchesProgram
<1> QED
  BY <1>2, PTL

-----------------------------------------------------------------------------
(* The inductive invariant of a trade                                      *)

\* An instruction leaves an order in a state of the list.
LEMMA OutcomesAreStates ==
  ASSUME NEW action \in Actions, NEW o, NEW v
  PROVE  Outcomes(o, v, Instruction(action)) \subseteq States
<1> USE DEF Outcomes, Instruction, States
<1>1. CASE action \in {"list", "reserve", "cancel", "preShip", "ship", "receipt"}
  BY <1>1
<1>2. CASE action \in {"release", "releaseAfterTimeout", "refundNotShipped", "adminRefund"}
  BY <1>2
<1>3. CASE action \in {"disputeSealDead", "resolveSeller", "resolveBuyer", "close"}
  BY <1>3
<1> QED
  BY <1>1, <1>2, <1>3 DEF Actions

\* A moved order is an order.
LEMMA MovedIsOrder ==
  ASSUME NEW o \in Orders, NEW state \in States, NEW price \in Prices \cup {0},
         NEW who \in {"me", "other"}
  PROVE  Moved(o, state, price, who) \in Orders
<1> DEFINE buyer == CASE state = "RESERVED" -> who
                      [] state \in {"none", "LISTED"} \/ Terminal(state) -> "none"
                      [] OTHER -> o.buyer
<1>1. buyer \in {"none", "me", "other"}
  BY DEF Orders
<1>2. Moved(o, state, price, who) =
        [[[[o EXCEPT !.state = state] EXCEPT !.late = FALSE]
             EXCEPT !.price = IF state = "LISTED" THEN price ELSE 0] EXCEPT !.buyer = buyer]
  BY DEF Moved, Orders
<1> HIDE DEF buyer
<1> QED
  BY <1>1, <1>2 DEF Orders

\* What a page is when it is opened, and when it starts to post.
LEMMA PagesAre ==
  ASSUME TradeTyped
  PROVE  /\ Opened \in PageRecords /\ Opened.at = "idle"
         /\ \A page \in PageRecords, list \in Seq(Sigs) :
              /\ Flushing(page, list) \in PageRecords
              /\ Flushing(page, list).at = "post"
              /\ Flushing(page, list).left = list
<1>1. /\ order \in Orders /\ storage \in Seq(Sigs) /\ <<>> \in Seq(Sigs)
      /\ (order.state # "none") \in BOOLEAN
  BY DEF TradeTyped
<1>2. Opened \in PageRecords /\ Opened.at = "idle"
  BY <1>1 DEF Opened, PageRecords
<1>3. ASSUME NEW page \in PageRecords, NEW list \in Seq(Sigs)
      PROVE  /\ Flushing(page, list) \in PageRecords
             /\ Flushing(page, list).at = "post"
             /\ Flushing(page, list).left = list
  BY <1>3 DEF Flushing, PageRecords
<1> QED
  BY <1>2, <1>3

\* A step that sets one page to a record that knows its signature.
LEMMA PageIsSet ==
  ASSUME TradeTyped, SigKnown, NEW p \in Pages, NEW page \in PageRecords, SetPage(p, page),
         page.at \in {"poll", "list"} => page.sig # 0
  PROVE  /\ pages' \in [Pages -> PageRecords] /\ SigKnown'
         /\ pages'[p] = page
         /\ \A q \in Pages : q # p => pages'[q] = pages[q]
<1>1. pages \in [Pages -> PageRecords]
  BY DEF TradeTyped
<1>2. /\ pages' \in [Pages -> PageRecords]
      /\ pages'[p] = page
      /\ \A q \in Pages : q # p => pages'[q] = pages[q]
  BY <1>1 DEF SetPage
<1>3. SigKnown'
  BY <1>2 DEF SigKnown
<1> QED
  BY <1>2, <1>3

\* What a landed transaction does to the order and the list of transactions.
LEMMA LandsKeeps ==
  ASSUME TradeInv, NEW p \in Pages, NEW state \in States, NEW price \in Prices \cup {0},
         Lands(pages[p], state, price),
         pages[p].action = "reserve" => pages[p].view.price = order.price
  PROVE  /\ order' \in Orders
         /\ sent' \in Seq({"list", "reserve", "other"})
         /\ misled' = FALSE
         /\ NextSig \in Sigs /\ NextSig # 0
         /\ UNCHANGED <<viewer, events, blink>>
<1> USE DEF Lands
<1>1. order' \in Orders
  BY MovedIsOrder DEF TradeInv, TradeTyped
<1>2. Kind(pages[p].action) \in {"list", "reserve", "other"}
  BY DEF Kind
<1>3. sent' \in Seq({"list", "reserve", "other"})
  BY <1>2 DEF TradeInv, TradeTyped
<1>4. misled' = FALSE
  BY DEF Charge, TradeInv, ReservedAtShownPrice
<1>5. NextSig \in Sigs /\ NextSig # 0
  BY DEF Sigs
<1> QED
  BY <1>1, <1>3, <1>4, <1>5

\* A step of a page keeps the invariant.
LEMMA PageKeepsInv ==
  ASSUME TradeInv, NEW p \in Pages, PageStep(p) \/ Open(p)
  PROVE  TradeInv'
<1> USE DEF TradeInv
<1> DEFINE page == pages[p]
<1>1. page \in PageRecords /\ page.view \in Orders /\ order \in Orders /\ storage \in Seq(Sigs)
  BY DEF TradeTyped, PageRecords
<1>2. /\ page.sig \in Sigs \cup {0} /\ page.queue \in Seq(Sigs) /\ page.left \in Seq(Sigs)
      /\ page.at \in {"poll", "list"} => page.sig \in Sigs
  BY <1>1 DEF PageRecords, SigKnown
\* Everything but the page and what a handler writes stays.
<1>3. ASSUME NEW new \in PageRecords, SetPage(p, new),
             new.at \in {"poll", "list"} => new.sig # 0,
             storage' \in Seq(Sigs), events' \subseteq Sigs,
             UNCHANGED <<viewer, order, sent, blink, misled>>
      PROVE  TradeInv'
  <2>1. pages' \in [Pages -> PageRecords] /\ SigKnown'
    BY <1>3, PageIsSet
  <2> QED
    BY <1>3, <2>1 DEF TradeTyped, BuiltAsShown, ReservedAtShownPrice
\* ... or a transaction lands.
<1>4. ASSUME NEW new \in PageRecords, SetPage(p, new),
             new.at \in {"poll", "list"} => new.sig # 0,
             NEW state \in States, NEW price \in Prices \cup {0}, Lands(page, state, price),
             page.action = "reserve" => page.view.price = order.price,
             storage' \in Seq(Sigs)
      PROVE  TradeInv'
  <2>1. pages' \in [Pages -> PageRecords] /\ SigKnown'
    BY <1>4, PageIsSet
  <2>2. /\ order' \in Orders /\ sent' \in Seq({"list", "reserve", "other"})
        /\ misled' = FALSE /\ UNCHANGED <<viewer, events, blink>>
    BY <1>4, LandsKeeps
  <2> QED
    BY <1>4, <2>1, <2>2 DEF TradeTyped, BuiltAsShown, ReservedAtShownPrice
<1>5. events \subseteq Sigs
  BY DEF TradeTyped
<1>6. CASE Open(p)
  BY <1>1, <1>3, <1>5, <1>6, PagesAre DEF Open
<1>7. ASSUME NEW action \in Actions, Pressed(p, action) PROVE TradeInv'
  <2> DEFINE new == [page EXCEPT !.at = "send", !.action = action]
  <2>1. new \in PageRecords /\ new.at = "send"
    BY <1>1 DEF PageRecords
  <2> HIDE DEF new
  <2>2. SetPage(p, new) /\ UNCHANGED <<viewer, order, storage, sent, events, blink, misled>>
    BY <1>7 DEF Pressed, new
  <2> QED
    BY <1>1, <1>3, <1>5, <2>1, <2>2
<1>8. CASE Refused(p)
  <2> DEFINE new == [page EXCEPT !.at = "idle", !.action = "none"]
  <2>1. new \in PageRecords /\ new.at = "idle"
    BY <1>1 DEF PageRecords
  <2> HIDE DEF new
  <2>2. SetPage(p, new) /\ UNCHANGED <<viewer, order, storage, sent, events, blink, misled>>
    BY <1>8 DEF Refused, new
  <2> QED
    BY <1>1, <1>3, <1>5, <2>1, <2>2
<1>9. ASSUME NEW state \in States, NEW known \in BOOLEAN, Landed(p, state, known)
      PROVE  TradeInv'
  <2> DEFINE new == IF known THEN [page EXCEPT !.at = "poll", !.sig = NextSig]
                    ELSE [page EXCEPT !.at = "idle", !.action = "none"]
  <2>1. NextSig \in Sigs /\ NextSig # 0
    BY <1>9, LandsKeeps DEF Landed
  <2>2. new \in PageRecords /\ (new.at \in {"poll", "list"} => new.sig # 0)
    BY <1>1, <2>1 DEF PageRecords
  <2> HIDE DEF new
  <2>3. /\ SetPage(p, new) /\ UNCHANGED storage /\ Lands(page, state, 0)
        /\ page.action = "reserve" => page.view.price = order.price
    BY <1>9 DEF Landed, new
  <2> QED
    BY <1>1, <1>4, <2>2, <2>3
<1>10. ASSUME NEW price \in Prices, NEW known \in BOOLEAN, ListLanded(p, price, known)
       PROVE  TradeInv'
  <2> DEFINE new == IF known THEN [page EXCEPT !.at = "list", !.sig = NextSig]
                    ELSE [page EXCEPT !.at = "idle", !.action = "none"]
  <2>1. Lands(page, "LISTED", price) /\ page.action = "list" /\ "LISTED" \in States
    BY <1>10 DEF ListLanded, States
  <2>2. NextSig \in Sigs /\ NextSig # 0
    BY <2>1, LandsKeeps
  <2>3. new \in PageRecords /\ (new.at \in {"poll", "list"} => new.sig # 0)
    BY <1>1, <2>2 DEF PageRecords
  <2> HIDE DEF new
  <2>4. SetPage(p, new) /\ storage' \in {storage, With(storage, NextSig)}
    BY <1>10 DEF ListLanded, new
  <2>5. storage' \in Seq(Sigs)
    BY <1>1, <2>2, <2>4, WithIs
  <2> QED
    BY <1>1, <1>4, <2>1, <2>3, <2>4, <2>5
<1>11. ASSUME NEW view \in Orders, Polled(p, view) PROVE TradeInv'
  <2> DEFINE next == [page EXCEPT !.view = view, !.action = "none",
                                  !.serial = @ \/ view.state # "none"]
             new == IF Reported(page.action) THEN Flushing(next, With(storage, page.sig))
                    ELSE [next EXCEPT !.at = "idle"]
  <2>1. next \in PageRecords
    BY <1>1, <1>11 DEF PageRecords
  <2>2. page.sig \in Sigs
    BY <1>2, <1>11 DEF Polled
  <2>3. With(storage, page.sig) \in Seq(Sigs)
    BY <1>1, <2>2, WithIs
  <2>4. new \in PageRecords /\ new.at \in {"post", "idle"}
    <3>1. [next EXCEPT !.at = "idle"] \in PageRecords /\ [next EXCEPT !.at = "idle"].at = "idle"
      BY <2>1 DEF PageRecords
    <3> QED
      BY <2>1, <2>3, <3>1, PagesAre
  <2>5. /\ SetPage(p, new) /\ storage' \in {storage, With(storage, page.sig)}
        /\ UNCHANGED <<viewer, order, sent, events, blink, misled>>
    BY <1>11 DEF Polled
  <2> HIDE DEF new
  <2> QED
    BY <1>1, <1>3, <1>5, <2>3, <2>4, <2>5
<1>12. CASE Retry(p)
  <2> DEFINE new == [Flushing(page, storage) EXCEPT !.action = "retry"]
  <2>1. Flushing(page, storage) \in PageRecords /\ Flushing(page, storage).at = "post"
    BY <1>1, PagesAre
  <2>2. new \in PageRecords /\ new.at = "post"
    BY <2>1 DEF PageRecords
  <2>3. SetPage(p, new) /\ UNCHANGED <<viewer, order, storage, sent, events, blink, misled>>
    BY <1>12 DEF Retry
  <2> HIDE DEF new
  <2> QED
    BY <1>1, <1>3, <1>5, <2>2, <2>3
<1>13. ASSUME NEW ok \in BOOLEAN, Posted(p, ok) PROVE TradeInv'
  <2> DEFINE sig == Head(page.queue)
             left == IF ok THEN Without(page.left, sig) ELSE page.left
             new == [page EXCEPT !.queue = Tail(@), !.left = left]
  <2>1. page.at = "post" /\ page.queue # <<>>
    BY <1>13 DEF Posted
  <2>2. sig \in Sigs /\ Tail(page.queue) \in Seq(Sigs)
    BY <1>2, <2>1
  <2>3. left \in Seq(Sigs)
    BY <1>2, WithoutIs
  <2>4. /\ SetPage(p, new) /\ UNCHANGED <<viewer, order, storage, sent, blink, misled>>
        /\ events' \in {events, events \cup {sig}}
    BY <1>13 DEF Posted
  <2> HIDE DEF left
  <2>5. new \in PageRecords /\ new.at = "post"
    BY <1>1, <2>1, <2>2, <2>3 DEF PageRecords
  <2> HIDE DEF new
  <2> QED
    BY <1>1, <1>3, <1>5, <2>2, <2>4, <2>5
<1>14. ASSUME NEW ok \in BOOLEAN, ListPosted(p, ok) PROVE TradeInv'
  <2> DEFINE new == IF ok THEN [page EXCEPT !.at = "idle", !.action = "none", !.sig = 0]
                    ELSE page
  <2>1. page.sig \in Sigs /\ page.sig # 0
    BY <1>2, <1>14 DEF ListPosted, Sigs
  <2>2. new \in PageRecords /\ (new.at \in {"poll", "list"} => new.sig # 0)
    BY <1>1, <2>1 DEF PageRecords
  <2> HIDE DEF new
  <2>3. /\ SetPage(p, new) /\ UNCHANGED <<viewer, order, sent, blink, misled>>
        /\ storage' \in {storage, Without(storage, page.sig)}
        /\ events' \in {events, events \cup {page.sig}}
    BY <1>14 DEF ListPosted, new
  <2>4. storage' \in Seq(Sigs)
    BY <1>1, <2>3, WithoutIs
  <2> QED
    BY <1>1, <1>3, <1>5, <2>1, <2>2, <2>3, <2>4
<1>15. CASE Flushed(p)
  <2> DEFINE after == IF page.action = "retry" /\ page.left = <<>> THEN order ELSE page.view
             new == [page EXCEPT !.at = "idle", !.left = <<>>, !.shown = page.left, !.sig = 0,
                                 !.action = "none", !.view = after,
                                 !.serial = @ \/ after.state # "none"]
  <2>1. after \in Orders /\ <<>> \in Seq(Sigs)
    BY <1>1
  <2>2. /\ SetPage(p, new) /\ storage' = page.left
        /\ UNCHANGED <<viewer, order, sent, events, blink, misled>>
    BY <1>15 DEF Flushed
  <2> HIDE DEF after
  <2>3. new \in PageRecords /\ new.at = "idle"
    BY <1>1, <1>2, <2>1 DEF PageRecords
  <2> HIDE DEF new
  <2> QED
    BY <1>1, <1>2, <1>3, <1>5, <2>2, <2>3
<1>16. CASE PressList(p)
  BY <1>7, <1>16 DEF PressList, Actions
<1>17. ASSUME NEW action \in Actions, Press(p, action) PROVE TradeInv'
  BY <1>7, <1>17 DEF Press
<1> QED
  BY <1>1, <1>6, <1>8, <1>9, <1>10, <1>11, <1>12, <1>13, <1>14, <1>15, <1>16, <1>17
     DEF PageStep

\* So does a step of the Blink or of anybody else.
LEMMA TradeInvKept == TradeInv /\ [Next]_vars => TradeInv'
<1> SUFFICES ASSUME TradeInv, [Next]_vars PROVE TradeInv'
  OBVIOUS
<1> USE DEF TradeInv
<1>1. CASE UNCHANGED vars
  BY <1>1 DEF vars, TradeTyped, SigKnown, BuiltAsShown, ReservedAtShownPrice
<1>2. ASSUME NEW p \in Pages, PageStep(p) \/ Open(p) PROVE TradeInv'
  BY <1>2, PageKeepsInv
<1>3. CASE BlinkGet
  <2>1. order.price \in Prices \cup {0}
    BY DEF TradeTyped, Orders
  <2>2. blink' = [shown |-> order.price, tx |-> 0]
    BY <1>3 DEF BlinkGet, NoBlink
  <2>3. blink' \in [shown : Prices \cup {0}, tx : Prices \cup {0}] /\ blink'.tx = 0
    BY <2>1, <2>2
  <2>4. TradeTyped'
    BY <1>3, <2>3 DEF BlinkGet, TradeTyped
  <2> QED
    BY <1>3, <2>3, <2>4 DEF BlinkGet, SigKnown, BuiltAsShown, ReservedAtShownPrice
<1>4. CASE BlinkPost
  <2>1. /\ blink' \in [shown : Prices \cup {0}, tx : Prices \cup {0}]
        /\ blink'.tx = blink'.shown
    BY <1>4 DEF BlinkPost, TradeTyped
  <2> QED
    BY <1>4, <2>1 DEF BlinkPost, TradeTyped, SigKnown, BuiltAsShown, ReservedAtShownPrice
<1>5. CASE BlinkLands
  <2>1. order' \in Orders
    <3>1. "RESERVED" \in States
      BY DEF States
    <3> QED
      BY <1>5, <3>1, MovedIsOrder DEF BlinkLands, TradeTyped
  <2>2. misled' = FALSE
    BY <1>5 DEF BlinkLands, Charge, BuiltAsShown, ReservedAtShownPrice
  <2>3. blink' \in [shown : Prices \cup {0}, tx : Prices \cup {0}] /\ blink'.tx = 0
    BY <1>5 DEF BlinkLands, NoBlink
  <2>4. TradeTyped'
    BY <1>5, <2>1, <2>3 DEF BlinkLands, TradeTyped
  <2>5. SigKnown' /\ BuiltAsShown'
    BY <1>5, <2>3 DEF BlinkLands, SigKnown, BuiltAsShown
  <2> QED
    BY <2>2, <2>4, <2>5 DEF ReservedAtShownPrice
<1>6. ASSUME NEW sig \in Sigs, BlinkConfirm(sig) PROVE TradeInv'
  BY <1>6 DEF BlinkConfirm, PostUntil, TradeTyped, SigKnown, BuiltAsShown, ReservedAtShownPrice
<1>7. ASSUME NEW v, NEW action \in Actions, NEW state \in Outcomes(order, v, Instruction(action)),
             NEW price \in Prices \cup {0}, Elsewhere(v, action, state, price)
      PROVE  TradeInv'
  <2>1. state \in States
    BY <1>7, OutcomesAreStates
  <2>2. order' \in Orders
    BY <1>7, <2>1, MovedIsOrder DEF Elsewhere, TradeTyped
  <2> QED
    BY <1>7, <2>2 DEF Elsewhere, TradeTyped, SigKnown, BuiltAsShown, ReservedAtShownPrice
<1>8. CASE DeadlinePasses \/ SealDies
  <2>1. order' \in Orders
    BY <1>8 DEF DeadlinePasses, SealDies, TradeTyped, Orders
  <2> QED
    BY <1>8, <2>1
       DEF DeadlinePasses, SealDies, TradeTyped, SigKnown, BuiltAsShown, ReservedAtShownPrice
<1> QED
  BY <1>1, <1>2, <1>3, <1>4, <1>5, <1>6, <1>7, <1>8 DEF Next

\* Every reachable state of a trade satisfies the inductive invariant.
THEOREM TradeInvariant == Spec => []TradeInv
<1>1. Init => TradeInv
  <2> SUFFICES ASSUME Init PROVE TradeInv
    OBVIOUS
  <2>1. NoOrder \in Orders
    BY DEF NoOrder, Orders, States
  <2>2. <<>> \in Seq(Sigs) /\ <<>> \in Seq({"list", "reserve", "other"})
    OBVIOUS
  <2>3. \A p \in Pages : pages[p] \in PageRecords /\ pages[p].at = "idle"
    BY <2>1, <2>2 DEF Init, PageRecords
  <2>4. pages \in [Pages -> PageRecords]
    BY <2>3 DEF Init
  <2> QED
    BY <2>1, <2>2, <2>3, <2>4
       DEF Init, TradeInv, TradeTyped, SigKnown, BuiltAsShown, NoBlink, ReservedAtShownPrice
<1> QED
  BY <1>1, TradeInvKept, PTL DEF Spec

\* Orders, pages, storage and history have their types.
THEOREM TradeTypeCorrect == Spec => []TypeOK
<1>1. TradeInv => TypeOK
  BY DEF TradeInv, TradeTyped, TypeOK, Orders, PageRecords
<1> QED
  BY <1>1, TradeInvariant, PTL

\* A buyer is charged the price that the page or the Blink has shown, whatever
\* becomes of the listing before the transaction is built and before it lands.
THEOREM ReservedAsShown == Spec => []ReservedAtShownPrice
<1>1. TradeInv => ReservedAtShownPrice
  BY DEF TradeInv
<1> QED
  BY <1>1, TradeInvariant, PTL

-----------------------------------------------------------------------------
(* The storage of reports                                                  *)

\* One page is open at a time: two tabs do not keep this promise.
OnePage == \A p, q \in Pages : p = q

\* What a step of a page makes of the storage and of the list its handler
\* writes back.
LEMMA PageKeepsReports ==
  ASSUME TradeInv, OnePage, HeldWhilePosting, NEW p \in Pages, PageStep(p) \/ Open(p)
  PROVE  /\ HeldWhilePosting'
         /\ \A sig \in Sigs : Has(storage, sig) =>
              Has(storage', sig) \/ sig \in events' \/ Has(pages'[p].left, sig)
<1> DEFINE page == pages[p]
           Kept == \A sig \in Sigs : Has(storage, sig) => Has(storage', sig) \/ sig \in events'
<1>1. /\ TradeTyped /\ pages \in [Pages -> PageRecords]
      /\ page \in PageRecords /\ storage \in Seq(Sigs) /\ page.queue \in Seq(Sigs)
      /\ page.left \in Seq(Sigs) /\ page.sig \in Sigs \cup {0}
  BY DEF TradeInv, TradeTyped, PageRecords
<1>2. \A q \in Pages : q = p
  BY DEF OnePage
<1>3. ASSUME NEW sig \in Sigs, Has(storage, sig), page.at = "post"
      PROVE  Has(page.left, sig) \/ sig \in events
  BY <1>3 DEF HeldWhilePosting
\* A handler that does not post leaves nothing behind.
<1>4. ASSUME NEW new, SetPage(p, new), new.at # "post" PROVE HeldWhilePosting'
  BY <1>1, <1>2, <1>4 DEF SetPage, HeldWhilePosting
<1>5. ASSUME NEW new, SetPage(p, new), new.at # "post", UNCHANGED storage
      PROVE  HeldWhilePosting' /\ Kept
  BY <1>4, <1>5
\* One that begins to post has read the storage.
<1>6. ASSUME NEW new, SetPage(p, new), new.left = storage' PROVE HeldWhilePosting'
  BY <1>1, <1>2, <1>6 DEF SetPage, HeldWhilePosting
<1>7. CASE Open(p)
  <2>1. SetPage(p, Opened) /\ UNCHANGED storage /\ Opened.at # "post"
    BY <1>1, <1>7, PagesAre DEF Open
  <2> QED
    BY <1>5, <2>1
<1>8. ASSUME NEW action \in Actions, Pressed(p, action) PROVE HeldWhilePosting' /\ Kept
  <2> DEFINE new == [page EXCEPT !.at = "send", !.action = action]
  <2>1. SetPage(p, new) /\ UNCHANGED storage
    BY <1>8 DEF Pressed
  <2>2. new.at # "post"
    BY <1>1 DEF PageRecords
  <2> HIDE DEF new
  <2> QED
    BY <1>5, <2>1, <2>2
<1>9. CASE Refused(p)
  <2> DEFINE new == [page EXCEPT !.at = "idle", !.action = "none"]
  <2>1. SetPage(p, new) /\ UNCHANGED storage
    BY <1>9 DEF Refused
  <2>2. new.at # "post"
    BY <1>1 DEF PageRecords
  <2> HIDE DEF new
  <2> QED
    BY <1>5, <2>1, <2>2
<1>10. ASSUME NEW state \in States, NEW known \in BOOLEAN, Landed(p, state, known)
       PROVE  HeldWhilePosting' /\ Kept
  <2> DEFINE new == IF known THEN [page EXCEPT !.at = "poll", !.sig = NextSig]
                    ELSE [page EXCEPT !.at = "idle", !.action = "none"]
  <2>1. SetPage(p, new) /\ UNCHANGED storage
    BY <1>10 DEF Landed
  <2>2. new.at # "post"
    BY <1>1 DEF PageRecords
  <2> HIDE DEF new
  <2> QED
    BY <1>5, <2>1, <2>2
<1>11. ASSUME NEW price \in Prices, NEW known \in BOOLEAN, ListLanded(p, price, known)
       PROVE  HeldWhilePosting' /\ Kept
  <2> DEFINE new == IF known THEN [page EXCEPT !.at = "list", !.sig = NextSig]
                    ELSE [page EXCEPT !.at = "idle", !.action = "none"]
  <2>1. SetPage(p, new) /\ storage' \in {storage, With(storage, NextSig)}
    BY <1>11 DEF ListLanded
  <2>2. new.at # "post"
    BY <1>1 DEF PageRecords
  <2>3. NextSig \in Sigs
    BY <1>11 DEF ListLanded, Lands
  <2>4. Kept
    <3>1. \A x : Has(storage, x) => Has(With(storage, NextSig), x)
      BY <1>1, <2>3, WithIs
    <3> QED
      BY <2>1, <3>1
  <2> HIDE DEF new
  <2> QED
    BY <1>4, <2>1, <2>2, <2>4
<1>12. ASSUME NEW view \in Orders, Polled(p, view) PROVE HeldWhilePosting' /\ Kept
  <2> DEFINE next == [page EXCEPT !.view = view, !.action = "none",
                                  !.serial = @ \/ view.state # "none"]
             list == With(storage, page.sig)
  <2>1. next \in PageRecords
    BY <1>1, <1>12 DEF PageRecords
  <2>2. page.sig \in Sigs
    BY <1>1, <1>12 DEF Polled, TradeInv, SigKnown
  <2>3. list \in Seq(Sigs) /\ \A sig : Has(storage, sig) => Has(list, sig)
    BY <1>1, <2>2, WithIs
  <2>4. \/ SetPage(p, Flushing(next, list)) /\ storage' = list
        \/ SetPage(p, [next EXCEPT !.at = "idle"]) /\ UNCHANGED storage
    BY <1>12 DEF Polled
  <2> HIDE DEF next, list
  <2>5. Flushing(next, list).left = list
    BY <1>1, <2>1, <2>3, PagesAre
  <2>6. [next EXCEPT !.at = "idle"].at # "post"
    BY <2>1 DEF PageRecords
  <2> QED
    BY <1>5, <1>6, <2>3, <2>4, <2>5, <2>6
<1>13. CASE Retry(p)
  <2> DEFINE flushing == Flushing(page, storage)
             new == [flushing EXCEPT !.action = "retry"]
  <2>1. flushing \in PageRecords /\ flushing.left = storage
    BY <1>1, PagesAre
  <2>2. SetPage(p, new) /\ UNCHANGED storage
    BY <1>13 DEF Retry
  <2> HIDE DEF flushing
  <2>3. new.left = storage
    BY <2>1 DEF PageRecords
  <2> HIDE DEF new
  <2> QED
    BY <1>6, <2>2, <2>3
\* A posted entry is in the history when it leaves the list.
<1>14. ASSUME NEW ok \in BOOLEAN, Posted(p, ok) PROVE HeldWhilePosting' /\ Kept
  <2> DEFINE sig == Head(page.queue)
             left == IF ok THEN Without(page.left, sig) ELSE page.left
             new == [page EXCEPT !.queue = Tail(@), !.left = left]
  <2>1. /\ page.at = "post" /\ SetPage(p, new) /\ UNCHANGED storage
        /\ events \subseteq events' /\ (ok => sig \in events')
    BY <1>14 DEF Posted
  <2>2. \A x : Has(page.left, x) => Has(left, x) \/ x \in events'
    BY <1>1, <2>1, WithoutIs
  <2> HIDE DEF left
  <2>3. new.left = left
    BY <1>1 DEF PageRecords
  <2> HIDE DEF new
  <2>4. \A x \in Sigs : Has(storage', x) => Has(new.left, x) \/ x \in events'
    BY <1>3, <2>1, <2>2, <2>3
  <2>5. pages'[p] = new
    BY <1>1, <2>1 DEF SetPage
  <2> QED
    BY <1>2, <2>1, <2>4, <2>5 DEF HeldWhilePosting
<1>15. ASSUME NEW ok \in BOOLEAN, ListPosted(p, ok) PROVE HeldWhilePosting' /\ Kept
  <2> DEFINE new == IF ok THEN [page EXCEPT !.at = "idle", !.action = "none", !.sig = 0]
                    ELSE page
  <2>1. /\ SetPage(p, new)
        /\ storage' = IF ok THEN Without(storage, page.sig) ELSE storage
        /\ ok => page.sig \in events'
    BY <1>15 DEF ListPosted
  <2>2. new.at # "post"
    BY <1>1, <1>15 DEF ListPosted, PageRecords
  <2>3. Kept
    BY <1>1, <2>1, WithoutIs
  <2> HIDE DEF new
  <2> QED
    BY <1>4, <2>1, <2>2, <2>3
\* The list that is written back holds what the storage did.
<1>16. CASE Flushed(p)
  <2> DEFINE after == IF page.action = "retry" /\ page.left = <<>> THEN order ELSE page.view
             new == [page EXCEPT !.at = "idle", !.left = <<>>, !.shown = page.left, !.sig = 0,
                                 !.action = "none", !.view = after,
                                 !.serial = @ \/ after.state # "none"]
  <2>1. /\ page.at = "post" /\ SetPage(p, new) /\ storage' = page.left
        /\ UNCHANGED events
    BY <1>16 DEF Flushed
  <2> HIDE DEF after
  <2>2. new.at # "post"
    BY <1>1 DEF PageRecords
  <2> HIDE DEF new
  <2> QED
    BY <1>3, <1>4, <2>1, <2>2
<1>17. CASE PressList(p)
  BY <1>8, <1>17 DEF PressList, Actions
<1>18. ASSUME NEW action \in Actions, Press(p, action) PROVE HeldWhilePosting' /\ Kept
  BY <1>8, <1>18 DEF Press
<1>19. page.view \in Orders /\ order \in Orders
  BY <1>1 DEF PageRecords, TradeTyped
<1> QED
  BY <1>7, <1>9, <1>10, <1>11, <1>12, <1>13, <1>14, <1>15, <1>16, <1>17, <1>18, <1>19
     DEF PageStep

\* "A second landed action never overwrites an earlier unposted one": in the
\* storage of one open page, a remembered transaction stays remembered until
\* the verifier has it.
THEOREM ReportsAreKept == ASSUME OnePage PROVE Spec => UnpostedKept
<1> DEFINE Kept == \A sig \in Sigs : Has(storage, sig) =>
                     \/ Has(storage', sig) \/ sig \in events'
                     \/ \E p \in Pages : Has(pages'[p].left, sig)
<1>1. Init => HeldWhilePosting
  BY DEF Init, HeldWhilePosting
<1>2. TradeInv /\ HeldWhilePosting /\ [Next]_vars => HeldWhilePosting' /\ [Kept]_vars
  <2> SUFFICES ASSUME TradeInv, HeldWhilePosting, [Next]_vars
               PROVE  HeldWhilePosting' /\ [Kept]_vars
    OBVIOUS
  <2>1. CASE UNCHANGED vars
    BY <2>1 DEF vars, HeldWhilePosting, Has
  <2>2. ASSUME NEW p \in Pages, PageStep(p) \/ Open(p) PROVE HeldWhilePosting' /\ Kept
    BY <2>2, PageKeepsReports
  \* Nobody else writes to the storage or takes an event back.
  <2>3. ASSUME UNCHANGED <<pages, storage>>, events \subseteq events'
        PROVE  HeldWhilePosting' /\ Kept
    BY <2>3 DEF HeldWhilePosting, Has
  <2>4. CASE BlinkGet \/ BlinkPost \/ BlinkLands \/ DeadlinePasses \/ SealDies
    BY <2>3, <2>4 DEF BlinkGet, BlinkPost, BlinkLands, DeadlinePasses, SealDies
  <2>5. ASSUME NEW sig \in Sigs, BlinkConfirm(sig) PROVE HeldWhilePosting' /\ Kept
    BY <2>3, <2>5 DEF BlinkConfirm, PostUntil
  <2>6. ASSUME NEW v, NEW action, NEW state, NEW price, Elsewhere(v, action, state, price)
        PROVE  HeldWhilePosting' /\ Kept
    BY <2>3, <2>6 DEF Elsewhere
  <2> QED
    BY <2>1, <2>2, <2>4, <2>5, <2>6 DEF Next
<1> QED
  BY <1>1, <1>2, TradeInvariant, PTL DEF Spec, UnpostedKept

-----------------------------------------------------------------------------
(* The verifier's order book: the inductive invariant                      *)

USE OrderBookAssumption

\* The seller lists anew only after the sale has ended; a sale takes longer
\* than reconcile's way from reading to writing; a listing of a used PDA is
\* read before its sale ends.
BookIsFollowed == Gap # 0 /\ Lag < SaleTime /\ Traced

\* Whatever somebody knows of the account, now or from an earlier reading.
Heard ==
  {r \in rows : r.listed_at >= 0}
    \cup (({account, cycle.order} \cup {r.order : r \in reports}) \ {NoAccount})

Reports == [tx : Settlements, order : Accounts \cup {NoAccount}]

BookTyped ==
  /\ account \in Accounts \cup {NoAccount}
  /\ settled \subseteq Settlements /\ IsFiniteSet(settled)
  /\ recorded \subseteq settled
  /\ rows \subseteq Rows /\ IsFiniteSet(rows)
  /\ \A r, q \in rows : r.listed_at = q.listed_at => r = q
  /\ credit \in [Wallets -> [ok : Nat, disputed : Nat]]
  /\ reports \subseteq Reports /\ \A r \in reports : r.tx \in settled
  /\ cycle \in [phase : {"idle", "read"}, order : Accounts \cup {NoAccount}, ts : Nat]
  /\ clock \in Nat /\ clock > 0 /\ ended \in Nat /\ sales \in Nat

\* Sales follow each other: every listing is settled at most once and before
\* the next one.
SalesInOrder ==
  \A tx \in settled :
    /\ 0 < tx.listed_at /\ tx.listed_at <= tx.at /\ tx.at <= clock /\ tx.at <= ended
    /\ \A other \in settled : \/ other = tx
                              \/ tx.at < other.listed_at
                              \/ other.at < tx.listed_at

\* What an account that was o has become, if it is listed still or settled.
WasOnce(o) ==
  /\ o.state = "LISTED" <=> o.buyer = NoBuyer /\ o.state # "CANCELLED"
  /\ \A tx \in settled : tx.listed_at = o.listed_at =>
       o.state \in {"LISTED", "FUNDED", tx.state} /\ o.buyer \in {NoBuyer, tx.buyer}
  /\ o.state \in SaleOutcomes => \E tx \in settled : tx.listed_at = o.listed_at
  /\ account # NoAccount /\ account.listed_at = o.listed_at =>
       /\ account.state = "LISTED" => o = account
       /\ account.state = "FUNDED" =>
            o.state \in {"LISTED", "FUNDED"} /\ o.buyer \in {NoBuyer, account.buyer}

\* ... and where its listing stands among the sales.
InTime(o) ==
  /\ 0 < o.listed_at /\ o.listed_at <= clock
  /\ account # NoAccount => o.listed_at <= account.listed_at
  /\ account = NoAccount \/ account.state \in OrderTerminal => o.listed_at <= ended
  /\ \A tx \in settled : o.listed_at <= tx.listed_at \/ tx.at < o.listed_at

HeardIsTrue == \A o \in Heard : WasOnce(o) /\ InTime(o)

\* The account is that of the last sale, settled or not.
AccountIsLast ==
  account # NoAccount =>
    \A tx \in settled :
      \/ tx.at < account.listed_at
      \/ /\ tx.listed_at = account.listed_at
         /\ tx.state = account.state /\ tx.buyer = account.buyer

\* A sale that is settled without a row is the first of all listings.
FirstSale ==
  /\ sales = 0 => Heard = {} /\ settled = {}
  /\ sales = 1 => \A o, q \in Heard : o.listed_at = q.listed_at
  /\ \A tx \in settled : \/ \E r \in rows : r.listed_at = tx.listed_at
                         \/ \A o \in Heard : tx.listed_at <= o.listed_at

\* A report knows the account of its sale, or one of a later sale.
ReportsFit ==
  \A r \in reports : r.order # NoAccount /\ r.order.listed_at <= r.tx.at =>
    r.order.listed_at = r.tx.listed_at /\ r.order.buyer = r.tx.buyer

\* A placeholder stands for a recorded settlement whose listing has no row.
PlaceholdersFit ==
  \A r \in rows : r.listed_at < 0 =>
    \E tx \in recorded : /\ r.listed_at = -tx.at /\ r.state = tx.state /\ r.buyer = tx.buyer
                         /\ \A q \in rows : q.listed_at # tx.listed_at

\* Reconcile writes before a sale that began after its reading has ended.
CycleIsShort ==
  cycle.phase = "read" =>
    /\ cycle.ts <= clock /\ clock <= cycle.ts + Lag
    /\ cycle.order # NoAccount /\ cycle.order.state = "LISTED" =>
         /\ \A tx \in settled : tx.listed_at = cycle.order.listed_at =>
              tx.at >= cycle.ts + SaleTime
         /\ (/\ account # NoAccount /\ account.listed_at = cycle.order.listed_at
             /\ account.state = "FUNDED") =>
              ended >= cycle.ts + SaleTime

BookSound ==
  /\ BookTyped /\ SalesInOrder /\ HeardIsTrue /\ AccountIsLast /\ FirstSale
  /\ ReportsFit /\ PlaceholdersFit /\ CycleIsShort
  /\ OutcomeKept

BookInv == BookSound /\ NotOvercounted

\* What is heard is an account.
LEMMA HeardAreAccounts ==
  ASSUME BookTyped PROVE Heard \subseteq Accounts
<1>1. \A r \in rows : r.listed_at >= 0 => r \in Accounts
  BY DEF BookTyped, Rows, Accounts
<1>2. \A r \in reports : r.order # NoAccount => r.order \in Accounts
  BY DEF BookTyped, Reports
<1>3. (account # NoAccount => account \in Accounts) /\ (cycle.order # NoAccount => cycle.order \in Accounts)
  BY DEF BookTyped
<1> QED
  BY <1>1, <1>2, <1>3 DEF Heard

\* Settlements differ in their listing and in their time.
LEMMA OneSettlementPerSale ==
  ASSUME BookSound, NEW tx \in settled
  PROVE  /\ tx.listed_at \in Nat /\ tx.at \in Nat /\ tx.buyer \in Buyers
         /\ tx.state \in SaleOutcomes
         /\ tx.listed_at > 0 /\ tx.listed_at <= tx.at /\ tx.at <= clock
         /\ \A other \in settled :
              tx.listed_at = other.listed_at \/ tx.at = other.at => tx = other
<1>1. settled \subseteq Settlements
  BY DEF BookSound, BookTyped
<1>2. \A t \in settled : /\ t.listed_at \in Nat /\ t.at \in Nat /\ t.buyer \in Buyers
                         /\ t.state \in SaleOutcomes
                         /\ t.listed_at > 0 /\ t.listed_at <= t.at /\ t.at <= clock
  BY <1>1 DEF BookSound, Settlements, SalesInOrder
<1>3. \A other \in settled : \/ other = tx
                             \/ tx.at < other.listed_at
                             \/ other.at < tx.listed_at
  BY DEF BookSound, SalesInOrder
<1> QED
  BY <1>2, <1>3

\* A row of a settled listing, with its outcome and its buyer, is the truth.
LEMMA SettledRowIsTrue ==
  ASSUME BookSound, NEW tx \in settled, NEW row,
         row.listed_at = tx.listed_at, row.buyer = tx.buyer, row.state = tx.state
  PROVE  WasOnce(row) /\ InTime(row)
<1>1. /\ tx.listed_at \in Nat /\ tx.at \in Nat /\ tx.buyer \in Buyers
      /\ tx.state \in SaleOutcomes
      /\ tx.listed_at > 0 /\ tx.listed_at <= tx.at /\ tx.at <= clock
      /\ \A other \in settled : tx.listed_at = other.listed_at => tx = other
  BY OneSettlementPerSale
<1>2. tx.buyer # NoBuyer /\ tx.state \notin {"LISTED", "FUNDED", "CANCELLED"}
  BY <1>1 DEF SaleOutcomes, Wallets
<1>3. account # NoAccount => /\ account.listed_at \in Nat
                             /\ tx.listed_at <= account.listed_at
                             /\ tx.listed_at = account.listed_at => tx.state = account.state
  BY <1>1 DEF BookSound, AccountIsLast, BookTyped, Accounts
<1>4. WasOnce(row)
  BY <1>1, <1>2, <1>3 DEF WasOnce
<1>5. \A other \in settled : \/ other = tx
                             \/ tx.at < other.listed_at
                             \/ other.at < tx.listed_at
  BY DEF BookSound, SalesInOrder
<1>6. clock \in Nat /\ \A other \in settled : other.listed_at \in Nat /\ other.at \in Nat
  BY OneSettlementPerSale DEF BookSound, BookTyped
<1>7. tx.listed_at <= ended
  BY <1>1 DEF BookSound, SalesInOrder, BookTyped
<1>8. InTime(row)
  BY <1>1, <1>3, <1>5, <1>6, <1>7 DEF InTime
<1> QED
  BY <1>4, <1>8

\* The newest row of those that were known at a time.
LEMMA NewestIs ==
  ASSUME BookTyped, NEW at \in Nat, KnownBy(rows, at) # {}
  PROVE  /\ Newest(KnownBy(rows, at)) \in KnownBy(rows, at)
         /\ \A q \in KnownBy(rows, at) : q.listed_at <= Newest(KnownBy(rows, at)).listed_at
<1> DEFINE known == KnownBy(rows, at)
           D == {at - q.listed_at : q \in known}
<1>1. \A q \in known : q.listed_at \in Int /\ 0 <= q.listed_at /\ q.listed_at <= at
  BY DEF KnownBy, BookTyped, Rows
<1>2. D \subseteq Nat /\ D # {}
  BY <1>1
<1>3. PICK d \in D : \A e \in D : d <= e
  BY <1>2, LeastExists
<1>4. PICK r \in known : d = at - r.listed_at
  BY <1>3
<1>5. ASSUME NEW q \in known PROVE q.listed_at <= r.listed_at
  <2>1. at - q.listed_at \in D
    OBVIOUS
  <2>2. at - r.listed_at <= at - q.listed_at
    BY <1>3, <1>4, <2>1
  <2> QED
    BY <1>1, <1>4, <2>2
<1> HIDE DEF known
<1>6. \E r0 \in known : \A q \in known : q.listed_at <= r0.listed_at
  BY <1>4, <1>5
<1>7. Newest(known) \in known /\ \A q \in known : q.listed_at <= Newest(known).listed_at
  BY <1>6 DEF Newest
<1> QED
  BY <1>7 DEF known

\* record_escrow_outcome writes a settlement to the row of its listing, or to a
\* placeholder when the table has none.
LEMMA OutcomeRowIs ==
  ASSUME BookSound, NEW r \in reports, r.tx \notin recorded
  PROVE  LET tx == r.tx
             row == OutcomeRow(rows, tx, r.order)
         IN /\ row \in Rows /\ row.state = tx.state /\ row.buyer = tx.buyer
            /\ \/ row.listed_at = tx.listed_at /\ \E o \in Heard : o.listed_at = tx.listed_at
               \/ row.listed_at = -tx.at /\ \A q \in rows : q.listed_at # tx.listed_at
<1> DEFINE tx == r.tx
           row == OutcomeRow(rows, tx, r.order)
           known == KnownBy(rows, tx.at)
<1>1. tx \in settled /\ r \in Reports
  BY DEF BookSound, BookTyped
<1>2. /\ tx.listed_at \in Nat /\ tx.at \in Nat /\ tx.buyer \in Buyers
      /\ tx.state \in SaleOutcomes
      /\ tx.listed_at > 0 /\ tx.listed_at <= tx.at
  BY <1>1, OneSettlementPerSale
<1>3. tx.buyer # NoBuyer /\ tx.state \in OrderStates
  BY <1>2 DEF Wallets, OrderStates, OrderTerminal
<1> HIDE DEF tx
<1>4. CASE r.order # NoAccount /\ r.order.listed_at <= tx.at
  <2>1. r.order.listed_at = tx.listed_at /\ r.order.buyer = tx.buyer
    BY <1>4 DEF BookSound, ReportsFit, tx
  <2>2. row = [listed_at |-> tx.listed_at, buyer |-> tx.buyer, state |-> tx.state]
    BY <1>3, <1>4, <2>1 DEF OutcomeRow
  <2>3. r.order \in Heard
    BY <1>4 DEF Heard
  <2> HIDE DEF row
  <2>4. row \in Rows
    BY <1>2, <1>3, <2>2 DEF Rows
  <2> QED
    BY <2>1, <2>2, <2>3, <2>4 DEF row, tx
<1>5. CASE ~(r.order # NoAccount /\ r.order.listed_at <= tx.at) /\ known # {}
  <2> DEFINE new == Newest(known)
  <2>1. new \in known /\ \A q \in known : q.listed_at <= new.listed_at
    BY <1>2, <1>5, NewestIs DEF BookSound
  <2>2. /\ new \in rows /\ new \in Rows /\ new \in Heard
        /\ 0 <= new.listed_at /\ new.listed_at <= tx.at /\ new.listed_at \in Int
    BY <2>1 DEF KnownBy, Heard, BookSound, BookTyped, Rows
  <2>3. WasOnce(new) /\ InTime(new)
    BY <2>2 DEF BookSound, HeardIsTrue
  <2>4. new.listed_at <= tx.listed_at
    BY <1>1, <1>2, <2>2, <2>3 DEF InTime, tx
  <2>5. new.listed_at = tx.listed_at
    <3>1. CASE \E q \in rows : q.listed_at = tx.listed_at
      <4>1. PICK q \in rows : q.listed_at = tx.listed_at
        BY <3>1
      <4>2. q \in known
        BY <1>2, <4>1 DEF KnownBy
      <4> QED
        BY <1>2, <2>1, <2>2, <2>4, <4>1, <4>2
    <3>2. CASE \A o \in Heard : tx.listed_at <= o.listed_at
      BY <1>2, <2>2, <2>4, <3>2
    <3> QED
      BY <1>1, <3>1, <3>2 DEF BookSound, FirstSale, tx
  <2>6. new.buyer \in {NoBuyer, tx.buyer}
    BY <1>1, <2>3, <2>5 DEF WasOnce, tx
  <2>7. row = [new EXCEPT !.state = tx.state,
                          !.buyer = IF @ = NoBuyer THEN tx.buyer ELSE @]
    BY <1>5 DEF OutcomeRow
  <2> HIDE DEF new, row, known
  <2>8. row = [listed_at |-> tx.listed_at, buyer |-> tx.buyer, state |-> tx.state]
    BY <2>2, <2>5, <2>6, <2>7 DEF Rows
  <2>9. row \in Rows
    BY <1>2, <1>3, <2>8 DEF Rows
  <2> QED
    BY <2>2, <2>5, <2>8, <2>9 DEF row, tx
<1>6. CASE ~(r.order # NoAccount /\ r.order.listed_at <= tx.at) /\ known = {}
  <2>1. row = [listed_at |-> -tx.at, buyer |-> tx.buyer, state |-> tx.state]
    BY <1>6 DEF OutcomeRow
  <2> HIDE DEF row
  <2>2. row \in Rows
    BY <1>2, <1>3, <2>1 DEF Rows
  <2>3. \A q \in rows : q.listed_at # tx.listed_at
    BY <1>2, <1>6 DEF KnownBy
  <2> QED
    BY <2>1, <2>2, <2>3 DEF row, tx
<1> QED
  BY <1>4, <1>5, <1>6 DEF row, tx

\* upsert_escrow_order leaves the table, or writes what is true of a listing
\* somebody has heard of; a placeholder that goes is merged into its row.
LEMMA UpsertedIs ==
  ASSUME BookSound, BookIsFollowed, cycle.phase = "read", cycle.order # NoAccount
  PROVE  LET o == cycle.order
             ph == Placeholders(rows, o.listed_at)
         IN \/ Upserted(rows, o) = rows /\ ph = {}
            \/ /\ ph = {} /\ Upserted(rows, o) = Put(rows, o)
               /\ ~\E r \in rows : r.listed_at = o.listed_at /\ r.state \in OrderTerminal
            \/ \E r \in rows, tx \in recorded, row \in Rows :
                 /\ ph = {r} /\ r.listed_at = -tx.at
                 /\ Upserted(rows, o) = Put(rows \ ph, row)
                 /\ row.listed_at = tx.listed_at /\ row.listed_at = o.listed_at
                 /\ row.buyer = tx.buyer /\ row.state = tx.state
                 /\ \A q \in rows : q.listed_at # tx.listed_at
<1> DEFINE o == cycle.order
           ph == Placeholders(rows, o.listed_at)
           Final == \E r \in rows \ ph : r.listed_at = o.listed_at /\ r.state \in OrderTerminal
<1>1. o \in Accounts /\ o \in Heard /\ o.listed_at \in Nat /\ o.state \in OrderStates
  BY DEF BookSound, BookTyped, Heard, Accounts
<1>2. WasOnce(o) /\ InTime(o)
  BY <1>1 DEF BookSound, HeardIsTrue
<1>3. \A r \in rows : r \in Rows /\ r.listed_at \in Int
  BY DEF BookSound, BookTyped, Rows
<1> HIDE DEF o
<1>4. CASE ph = {}
  <2>1. [o EXCEPT !.state = o.state] = o
    BY <1>1 DEF Accounts
  <2>2. Upserted(rows, o) = IF Final THEN rows ELSE Put(rows, o)
    BY <1>4, <2>1 DEF Upserted
  <2> QED
    BY <1>4, <2>2 DEF o
<1>5. CASE ph # {}
  <2>1. PICK r \in ph : TRUE
    BY <1>5
  <2>2. r \in rows /\ r.listed_at < 0 /\ -r.listed_at >= o.listed_at
    BY <2>1 DEF Placeholders
  <2>3. PICK tx \in recorded : /\ r.listed_at = -tx.at /\ r.state = tx.state /\ r.buyer = tx.buyer
                               /\ \A q \in rows : q.listed_at # tx.listed_at
    BY <2>2 DEF BookSound, PlaceholdersFit
  <2>4. tx \in settled
    BY DEF BookSound, BookTyped
  <2>5. /\ tx.listed_at \in Nat /\ tx.at \in Nat /\ tx.buyer \in Buyers
        /\ tx.state \in SaleOutcomes /\ tx.at <= clock
        /\ \A other \in settled :
             tx.listed_at = other.listed_at \/ tx.at = other.at => tx = other
    BY <2>4, OneSettlementPerSale
  \* Every placeholder that the listing merges is of the listing.
  <2>6. ASSUME NEW t \in settled, t.at >= o.listed_at, \A q \in rows : q.listed_at # t.listed_at
        PROVE  t.listed_at = o.listed_at
    <3>1. t.listed_at \in Nat /\ t.at \in Nat
      BY OneSettlementPerSale
    <3>2. o.listed_at <= t.listed_at
      BY <1>1, <1>2, <2>6, <3>1 DEF InTime
    <3>3. t.listed_at <= o.listed_at
      BY <1>1, <2>6 DEF BookSound, FirstSale, o
    <3> QED
      BY <1>1, <3>1, <3>2, <3>3
  <2>7. tx.listed_at = o.listed_at
    BY <1>3, <2>2, <2>3, <2>4, <2>5, <2>6
  <2>8. ph = {r}
    <3> SUFFICES ASSUME NEW q \in ph PROVE q = r
      BY <2>1
    <3>1. q \in rows /\ q.listed_at < 0 /\ -q.listed_at >= o.listed_at
      BY DEF Placeholders
    <3>2. PICK t \in recorded : q.listed_at = -t.at /\ \A z \in rows : z.listed_at # t.listed_at
      BY <3>1 DEF BookSound, PlaceholdersFit
    <3>3. t \in settled /\ t.at \in Nat
      BY OneSettlementPerSale DEF BookSound, BookTyped
    <3>4. t.listed_at = o.listed_at
      BY <2>6, <3>1, <3>2, <3>3
    <3>5. t = tx
      BY <2>5, <2>7, <3>3, <3>4
    <3> QED
      BY <2>2, <2>3, <3>1, <3>2, <3>5 DEF BookSound, BookTyped
  \* The account was read when the sale was funded or settled.
  <2>9. o.state # "LISTED"
    <3> SUFFICES ASSUME o.state = "LISTED" PROVE FALSE
      OBVIOUS
    <3>1. tx.at >= cycle.ts + SaleTime /\ clock <= cycle.ts + Lag
      BY <2>4, <2>7 DEF BookSound, CycleIsShort, o
    <3>2. cycle.ts \in Nat /\ clock \in Nat /\ Lag \in Nat /\ SaleTime \in Nat /\ Lag < SaleTime
      BY DEF BookSound, BookTyped, BookIsFollowed, OrderBookAssumption
    <3> QED
      BY <2>5, <3>1, <3>2
  <2>10. o.state \in {"FUNDED", tx.state} /\ o.buyer = tx.buyer
    <3>1. o.state \in {"LISTED", "FUNDED", tx.state} /\ o.buyer \in {NoBuyer, tx.buyer}
      BY <1>2, <2>4, <2>7 DEF WasOnce
    <3>2. o.state # "CANCELLED"
      BY <2>5, <3>1 DEF SaleOutcomes
    <3> QED
      BY <1>2, <2>9, <3>1, <3>2 DEF WasOnce
  <2> DEFINE state == IF o.state \in OrderTerminal THEN o.state ELSE Oldest(ph).state
             row == [o EXCEPT !.state = state]
  <2>11. Oldest(ph) = r
    <3>1. r.listed_at <= r.listed_at
      BY <1>3, <2>2
    <3> QED
      BY <2>8, <3>1 DEF Oldest
  <2>12. state = tx.state
    BY <2>3, <2>10, <2>11 DEF OrderTerminal, SaleOutcomes
  <2>13. ~Final
    BY <2>3, <2>7
  <2>14. Upserted(rows, o) = Put(rows \ ph, row)
    BY <1>5, <2>13 DEF Upserted
  <2> HIDE DEF state
  <2>15. /\ row.listed_at = o.listed_at /\ row.buyer = o.buyer /\ row.state = tx.state
         /\ row \in Rows
    <3>1. tx.state \in OrderStates
      BY <2>5 DEF OrderStates, OrderTerminal
    <3> QED
      BY <1>1, <2>12, <3>1 DEF Accounts, Rows
  <2> HIDE DEF row, ph
  <2> QED
    BY <2>2, <2>3, <2>7, <2>8, <2>10, <2>14, <2>15 DEF o, ph
<1> QED
  BY <1>4, <1>5

\* What the counters are set from: no two rows with an outcome stand for one
\* settlement.
CountsWithin ==
  \A w \in Wallets, state \in SaleOutcomes :
    Count(rows, w, state) <=
      Cardinality({tx \in settled : tx.state = state /\ w \in {Seller, tx.buyer}})

\* A row stands for the settlement of its listing, a placeholder for one whose
\* listing has no row.
LEMMA CountsFit == BookSound => CountsWithin
<1> SUFFICES ASSUME BookSound, NEW w \in Wallets, NEW state \in SaleOutcomes
             PROVE  Count(rows, w, state) <=
                      Cardinality({tx \in settled : tx.state = state /\ w \in {Seller, tx.buyer}})
  BY DEF CountsWithin
<1> DEFINE S == {r \in rows : r.state = state /\ (w = Seller \/ r.buyer = w)}
           T == {tx \in settled : tx.state = state /\ w \in {Seller, tx.buyer}}
           Stands(r, tx) == \/ r.listed_at = tx.listed_at
                            \/ r.listed_at = -tx.at /\ \A q \in rows : q.listed_at # tx.listed_at
           f == [r \in S |-> CHOOSE tx \in T : Stands(r, tx)]
<1>1. ASSUME NEW r \in S PROVE \E tx \in T : Stands(r, tx)
  <2>1. CASE r.listed_at >= 0
    <3>1. r \in Heard
      BY <2>1 DEF Heard
    <3>2. WasOnce(r)
      BY <3>1 DEF BookSound, HeardIsTrue
    <3>3. PICK tx \in settled : tx.listed_at = r.listed_at
      BY <3>2 DEF WasOnce
    <3>4. state \notin {"LISTED", "FUNDED", "CANCELLED"}
      BY DEF SaleOutcomes
    <3>5. r.state = tx.state /\ r.buyer = tx.buyer
      BY <3>2, <3>3, <3>4 DEF WasOnce
    <3> QED
      BY <3>3, <3>5
  <2>2. CASE ~(r.listed_at >= 0)
    <3>1. r.listed_at < 0
      BY <2>2 DEF BookSound, BookTyped, Rows
    <3>2. PICK tx \in recorded : /\ r.listed_at = -tx.at /\ r.state = tx.state /\ r.buyer = tx.buyer
                                 /\ \A q \in rows : q.listed_at # tx.listed_at
      BY <3>1 DEF BookSound, PlaceholdersFit
    <3>3. tx \in settled
      BY DEF BookSound, BookTyped
    <3> QED
      BY <3>2, <3>3
  <2> QED
    BY <2>1, <2>2
<1>2. f \in [S -> T] /\ \A r \in S : Stands(r, f[r])
  BY <1>1
<1>3. ASSUME NEW r \in S, NEW q \in S, f[r] = f[q] PROVE r = q
  <2>1. PICK tx \in settled : tx = f[r] /\ Stands(r, tx) /\ Stands(q, tx)
    BY <1>2, <1>3
  <2>2. r.listed_at = q.listed_at
    BY <2>1
  <2> QED
    BY <2>2 DEF BookSound, BookTyped
<1>4. IsFiniteSet(T)
  BY FS_Subset DEF BookSound, BookTyped
<1> HIDE DEF f, S, T
<1>5. f \in Injection(S, T)
  <2>1. \A a, b \in S : f[a] = f[b] => a = b
    BY <1>3
  <2> QED
    BY <1>2, <2>1 DEF Injection, IsInjective
<1>6. Cardinality(S) <= Cardinality(T)
  BY <1>4, <1>5, FS_Injection
<1> QED
  BY <1>6 DEF Count, S, T

\* The same after a step.
LEMMA CountsFitThen == BookSound' => CountsWithin'
BY CountsFit, PTL

-----------------------------------------------------------------------------
(* The inductive invariant: the steps of the verifier                      *)

\* A step that writes to the table what is true of a listing, and does not
\* move the chain: all but placeholders, outcomes and counters.
LEMMA WriteKeeps ==
  ASSUME BookSound, UNCHANGED <<account, ended, sales, settled, clock>>,
         NEW fresh \in SUBSET Rows, IsFiniteSet(fresh), rows' \subseteq rows \cup fresh,
         \A r, q \in rows' : r.listed_at = q.listed_at => r = q,
         \A r \in rows : r.listed_at >= 0 => \E q \in rows' : q.listed_at = r.listed_at,
         \A r \in fresh : r.listed_at >= 0 =>
           WasOnce(r) /\ InTime(r) /\ \E o \in Heard : o.listed_at = r.listed_at,
         reports' \subseteq reports, cycle' \in {cycle, Idle},
         recorded' \subseteq settled,
         credit' \in [Wallets -> [ok : Nat, disputed : Nat]]
  PROVE  /\ BookTyped' /\ SalesInOrder' /\ HeardIsTrue' /\ AccountIsLast' /\ FirstSale'
         /\ ReportsFit' /\ CycleIsShort'
<1> USE DEF BookSound
<1>1. /\ Idle \in [phase : {"idle", "read"}, order : Accounts \cup {NoAccount}, ts : Nat]
      /\ Idle.order = NoAccount /\ Idle.phase = "idle"
  BY DEF Idle
<1>2. BookTyped'
  <2>1. IsFiniteSet(rows \cup fresh)
    BY FS_Union DEF BookTyped
  <2>2. IsFiniteSet(rows')
    BY <2>1, FS_Subset
  <2> QED
    BY <1>1, <2>2 DEF BookTyped
<1>3. SalesInOrder' /\ AccountIsLast'
  BY DEF SalesInOrder, AccountIsLast
\* Nothing is heard but what was heard before and the fresh row.
<1>4. \A o \in Heard' : o \in Heard \/ (o \in fresh /\ o.listed_at >= 0)
  BY <1>1 DEF Heard
<1>5. \A o \in Heard' : WasOnce(o) /\ InTime(o)
  BY <1>4 DEF HeardIsTrue
<1>6. HeardIsTrue'
  BY <1>5 DEF HeardIsTrue, WasOnce, InTime
<1>7. \A o \in Heard' : \E q \in Heard : q.listed_at = o.listed_at
  BY <1>4
<1>8. FirstSale'
  <2>1. sales' = 0 => Heard' = {} /\ settled' = {}
    BY <1>7 DEF FirstSale
  <2>2. sales' = 1 => \A o, q \in Heard' : o.listed_at = q.listed_at
    BY <1>7 DEF FirstSale
  <2>3. ASSUME NEW tx \in settled
        PROVE  \/ \E r \in rows' : r.listed_at = tx.listed_at
               \/ \A o \in Heard' : tx.listed_at <= o.listed_at
    <3>1. CASE \E r \in rows : r.listed_at = tx.listed_at
      <4>1. tx.listed_at \in Nat
        BY OneSettlementPerSale
      <4> QED
        BY <3>1, <4>1
    <3>2. CASE \A o \in Heard : tx.listed_at <= o.listed_at
      BY <1>7, <3>2
    <3> QED
      BY <3>1, <3>2 DEF FirstSale
  <2> QED
    BY <2>1, <2>2, <2>3 DEF FirstSale
<1>9. ReportsFit'
  BY DEF ReportsFit
<1>10. CycleIsShort'
  BY <1>1 DEF CycleIsShort
<1> QED
  BY <1>2, <1>3, <1>6, <1>8, <1>9, <1>10

\* Counters that are set from the table are numbers.
LEMMA SyncedIs ==
  ASSUME BookTyped, NEW table \in SUBSET Rows, IsFiniteSet(table), NEW some
  PROVE  Synced(table, some) \in [Wallets -> [ok : Nat, disputed : Nat]]
<1>1. \A w \in Wallets : \A state : Count(table, w, state) \in Nat
  <2> SUFFICES ASSUME NEW w \in Wallets, NEW state PROVE Count(table, w, state) \in Nat
    OBVIOUS
  <2>1. IsFiniteSet({r \in table : r.state = state /\ (w = Seller \/ r.buyer = w)})
    BY FS_Subset
  <2> QED
    BY <2>1, FS_CardinalityType DEF Count
<1>2. \A w \in Wallets : credit[w] \in [ok : Nat, disputed : Nat]
  BY DEF BookTyped
<1> QED
  BY <1>1, <1>2 DEF Synced

\* The write transaction of a report.
LEMMA ReportWriteKeeps ==
  ASSUME BookSound, NEW r \in reports, ReportWrite(r), r.tx \notin recorded
  PROVE  /\ BookTyped' /\ SalesInOrder' /\ HeardIsTrue' /\ AccountIsLast' /\ FirstSale'
         /\ ReportsFit' /\ CycleIsShort' /\ PlaceholdersFit' /\ OutcomeKept'
         /\ credit' = Synced(rows', {Seller, OutcomeRow(rows, r.tx, r.order).buyer})
<1> DEFINE tx == r.tx
           row == OutcomeRow(rows, tx, r.order)
<1>1. /\ row \in Rows /\ row.state = tx.state /\ row.buyer = tx.buyer
      /\ \/ row.listed_at = tx.listed_at /\ \E o \in Heard : o.listed_at = tx.listed_at
         \/ row.listed_at = -tx.at /\ \A q \in rows : q.listed_at # tx.listed_at
  BY OutcomeRowIs
<1>2. /\ reports' = reports \ {r} /\ recorded' = recorded \cup {tx}
      /\ rows' = Put(rows, row) /\ credit' = Synced(rows', {Seller, row.buyer})
      /\ UNCHANGED <<account, ended, sales, settled, cycle, clock>>
  BY DEF ReportWrite, chainVars
<1>3. tx \in settled /\ tx \notin recorded /\ recorded \subseteq settled
  BY DEF BookSound, BookTyped
<1>4. /\ tx.listed_at \in Nat /\ tx.at \in Nat
      /\ tx.listed_at > 0 /\ tx.listed_at <= tx.at
  BY <1>3, OneSettlementPerSale
<1> HIDE DEF row, tx
<1>5. rows' = {q \in rows : q.listed_at # row.listed_at} \cup {row}
  BY <1>2 DEF Put
<1>6. \A q \in rows : q \in Rows /\ q.listed_at \in Int
  BY DEF BookSound, BookTyped, Rows
\* The settlement differs from the recorded ones in its listing and its time.
<1>7. \A t \in recorded : /\ t \in settled /\ t.listed_at \in Nat /\ t.at \in Nat
                          /\ t.listed_at > 0 /\ t.at > 0
                          /\ t.listed_at # tx.listed_at /\ t.at # tx.at
  <2> SUFFICES ASSUME NEW t \in recorded
               PROVE  /\ t \in settled /\ t.listed_at \in Nat /\ t.at \in Nat
                      /\ t.listed_at > 0 /\ t.at > 0
                      /\ t.listed_at # tx.listed_at /\ t.at # tx.at
    OBVIOUS
  <2>1. t \in settled /\ t # tx
    BY <1>3
  <2> QED
    BY <1>3, <2>1, OneSettlementPerSale
<1>8. /\ BookTyped' /\ SalesInOrder' /\ HeardIsTrue' /\ AccountIsLast' /\ FirstSale'
      /\ ReportsFit' /\ CycleIsShort'
  <2>1. {row} \in SUBSET Rows /\ IsFiniteSet({row}) /\ rows' \subseteq rows \cup {row}
    BY <1>1, <1>5, FS_Singleton
  <2>2. \A q, s \in rows' : q.listed_at = s.listed_at => q = s
    BY <1>5 DEF BookSound, BookTyped
  <2>3. \A q \in rows : \E s \in rows' : s.listed_at = q.listed_at
    BY <1>5
  <2>4. row.listed_at >= 0 => WasOnce(row) /\ InTime(row) /\ \E o \in Heard : o.listed_at = row.listed_at
    BY <1>1, <1>3, <1>4, SettledRowIsTrue
  <2>5. credit' \in [Wallets -> [ok : Nat, disputed : Nat]]
    <3>1. IsFiniteSet(rows \cup {row})
      BY <2>1, FS_AddElement DEF BookSound, BookTyped
    <3>2. IsFiniteSet(rows') /\ rows' \in SUBSET Rows
      BY <1>1, <1>6, <2>1, <3>1, FS_Subset
    <3> QED
      BY <1>2, <3>2, SyncedIs DEF BookSound
  <2>6. recorded' \subseteq settled /\ reports' \subseteq reports /\ cycle' \in {cycle, Idle}
    BY <1>2, <1>3
  <2>7. UNCHANGED <<account, ended, sales, settled, clock>>
    BY <1>2
  <2>8. \A q \in {row} : q.listed_at >= 0 =>
          WasOnce(q) /\ InTime(q) /\ \E o \in Heard : o.listed_at = q.listed_at
    BY <2>4
  <2> QED
    BY <2>1, <2>2, <2>3, <2>5, <2>6, <2>7, <2>8, WriteKeeps
<1>9. PlaceholdersFit'
  <2> SUFFICES ASSUME NEW q \in rows', q.listed_at < 0
               PROVE  \E t \in recorded' : /\ q.listed_at = -t.at /\ q.state = t.state /\ q.buyer = t.buyer
                                           /\ \A s \in rows' : s.listed_at # t.listed_at
    BY DEF PlaceholdersFit
  <2>1. CASE q = row
    BY <1>1, <1>2, <1>4, <1>5, <2>1
  <2>2. CASE q \in rows
    <3>1. PICK t \in recorded : /\ q.listed_at = -t.at /\ q.state = t.state /\ q.buyer = t.buyer
                                /\ \A s \in rows : s.listed_at # t.listed_at
      BY <2>2 DEF BookSound, PlaceholdersFit
    <3>2. row.listed_at # t.listed_at
      BY <1>1, <1>4, <1>7
    <3> QED
      BY <1>2, <1>5, <3>1, <3>2
  <2> QED
    BY <1>5, <2>1, <2>2
<1>10. OutcomeKept'
  <2> SUFFICES ASSUME NEW t \in recorded'
               PROVE  \E q \in rows' : /\ q.listed_at \in {t.listed_at, -t.at}
                                       /\ q.state = t.state /\ q.buyer = t.buyer
    BY DEF OutcomeKept
  <2>1. CASE t = tx
    BY <1>1, <1>5, <2>1
  <2>2. CASE t \in recorded
    <3>1. PICK q \in rows : /\ q.listed_at \in {t.listed_at, -t.at}
                            /\ q.state = t.state /\ q.buyer = t.buyer
      BY <2>2 DEF BookSound, OutcomeKept
    <3>2. q.listed_at # row.listed_at
      BY <1>1, <1>4, <1>7, <2>2, <3>1
    <3> QED
      BY <1>5, <3>1, <3>2
  <2> QED
    BY <1>2, <2>1, <2>2
<1> QED
  BY <1>2, <1>8, <1>9, <1>10 DEF row, tx

\* The write transaction of reconcile.
LEMMA ReconcileApplyKeeps ==
  ASSUME BookSound, BookIsFollowed, ReconcileApply
  PROVE  /\ BookTyped' /\ SalesInOrder' /\ HeardIsTrue' /\ AccountIsLast' /\ FirstSale'
         /\ ReportsFit' /\ CycleIsShort' /\ PlaceholdersFit' /\ OutcomeKept'
         /\ credit' = Synced(rows', Wallets)
<1> DEFINE o == cycle.order
           Keeps == /\ BookTyped' /\ SalesInOrder' /\ HeardIsTrue' /\ AccountIsLast' /\ FirstSale'
                    /\ ReportsFit' /\ CycleIsShort'
<1>1. /\ cycle.phase = "read" /\ cycle' = Idle /\ credit' = Synced(rows', Wallets)
      /\ rows' = IF o = NoAccount THEN rows ELSE Upserted(rows, o)
      /\ UNCHANGED <<account, ended, sales, settled, clock, recorded, reports>>
  BY DEF ReconcileApply, chainVars
<1>2. \A q \in rows : q \in Rows /\ q.listed_at \in Int
  BY DEF BookSound, BookTyped, Rows
<1>3. \A t \in recorded : /\ t \in settled /\ t.listed_at \in Nat /\ t.at \in Nat
                          /\ t.listed_at > 0 /\ t.at > 0 /\ t.state \in SaleOutcomes
                          /\ t.listed_at <= t.at
                          /\ \A other \in recorded :
                               t.listed_at = other.listed_at \/ t.at = other.at => t = other
  <2> SUFFICES ASSUME NEW t \in settled
               PROVE  /\ t.listed_at \in Nat /\ t.at \in Nat
                      /\ t.listed_at > 0 /\ t.at > 0 /\ t.state \in SaleOutcomes
                      /\ t.listed_at <= t.at
                      /\ \A other \in settled :
                           t.listed_at = other.listed_at \/ t.at = other.at => t = other
    BY DEF BookSound, BookTyped
  <2> QED
    BY OneSettlementPerSale
<1>4. ASSUME NEW fresh \in SUBSET Rows, IsFiniteSet(fresh), rows' \subseteq rows \cup fresh,
             \A q, s \in rows' : q.listed_at = s.listed_at => q = s,
             \A q \in rows : q.listed_at >= 0 => \E s \in rows' : s.listed_at = q.listed_at,
             \A q \in fresh : q.listed_at >= 0 =>
               WasOnce(q) /\ InTime(q) /\ \E h \in Heard : h.listed_at = q.listed_at
      PROVE  Keeps
  <2>1. IsFiniteSet(rows \cup fresh)
    BY <1>4, FS_Union DEF BookSound, BookTyped
  <2>2. IsFiniteSet(rows') /\ rows' \in SUBSET Rows
    BY <1>2, <1>4, <2>1, FS_Subset
  <2>3. credit' \in [Wallets -> [ok : Nat, disputed : Nat]]
    BY <1>1, <2>2, SyncedIs DEF BookSound
  <2>4. recorded' \subseteq settled
    BY <1>1, <1>3
  <2> QED
    BY <1>1, <1>4, <2>3, <2>4, WriteKeeps
<1>5. CASE rows' = rows
  <2>1. Keeps
    <3>1. {} \in SUBSET Rows /\ IsFiniteSet({})
      BY FS_EmptySet
    <3> HIDE DEF Keeps
    <3> QED
      BY <1>4, <1>5, <3>1 DEF BookSound, BookTyped
  <2>2. PlaceholdersFit' /\ OutcomeKept'
    BY <1>1, <1>5 DEF BookSound, PlaceholdersFit, OutcomeKept
  <2> QED
    BY <1>1, <2>1, <2>2
<1>6. CASE o # NoAccount /\ rows' # rows
  <2>1. o \in Heard /\ o \in Rows /\ o.listed_at \in Nat
    BY <1>6 DEF Heard, BookSound, BookTyped, Accounts, Rows
  <2>2. WasOnce(o) /\ InTime(o)
    BY <2>1 DEF BookSound, HeardIsTrue
  <2> DEFINE ph == Placeholders(rows, o.listed_at)
  <2>3. CASE /\ ph = {} /\ Upserted(rows, o) = Put(rows, o)
             /\ ~\E q \in rows : q.listed_at = o.listed_at /\ q.state \in OrderTerminal
    <3> HIDE DEF o
    <3>1. rows' = {q \in rows : q.listed_at # o.listed_at} \cup {o}
      BY <1>1, <1>6, <2>3 DEF Put
    <3>2. Keeps
      <4>1. {o} \in SUBSET Rows /\ IsFiniteSet({o}) /\ rows' \subseteq rows \cup {o}
        BY <2>1, <3>1, FS_Singleton
      <4>2. \A q, s \in rows' : q.listed_at = s.listed_at => q = s
        BY <3>1 DEF BookSound, BookTyped
      <4>3. \A q \in rows : \E s \in rows' : s.listed_at = q.listed_at
        BY <3>1
      <4> HIDE DEF Keeps
      <4> QED
        BY <1>4, <2>1, <2>2, <4>1, <4>2, <4>3
    <3>3. PlaceholdersFit'
      <4> SUFFICES ASSUME NEW q \in rows', q.listed_at < 0
                   PROVE  \E t \in recorded' : /\ q.listed_at = -t.at /\ q.state = t.state /\ q.buyer = t.buyer
                                               /\ \A s \in rows' : s.listed_at # t.listed_at
        BY DEF PlaceholdersFit
      <4>1. q \in rows
        BY <2>1, <3>1
      <4>2. PICK t \in recorded : /\ q.listed_at = -t.at /\ q.state = t.state /\ q.buyer = t.buyer
                                  /\ \A s \in rows : s.listed_at # t.listed_at
        BY <4>1 DEF BookSound, PlaceholdersFit
      <4>3. o.listed_at # t.listed_at
        <5> SUFFICES ASSUME o.listed_at = t.listed_at PROVE FALSE
          OBVIOUS
        <5>1. q.listed_at < 0 /\ -q.listed_at >= o.listed_at
          BY <1>3, <4>2
        <5> QED
          BY <2>3, <4>1, <5>1 DEF Placeholders
      <4> QED
        BY <1>1, <3>1, <4>2, <4>3
    <3>4. OutcomeKept'
      <4> SUFFICES ASSUME NEW t \in recorded
                   PROVE  \E q \in rows' : /\ q.listed_at \in {t.listed_at, -t.at}
                                           /\ q.state = t.state /\ q.buyer = t.buyer
        BY <1>1 DEF OutcomeKept
      <4>1. PICK q \in rows : /\ q.listed_at \in {t.listed_at, -t.at}
                              /\ q.state = t.state /\ q.buyer = t.buyer
        BY DEF BookSound, OutcomeKept
      <4>2. q.state \in OrderTerminal
        BY <1>3, <4>1 DEF OrderTerminal
      <4>3. q.listed_at # o.listed_at
        BY <2>3, <4>2
      <4> QED
        BY <3>1, <4>1, <4>3
    <3> QED
      BY <1>1, <3>2, <3>3, <3>4
  <2>4. ASSUME NEW r \in rows, NEW tx \in recorded, NEW row \in Rows,
               ph = {r}, r.listed_at = -tx.at, Upserted(rows, o) = Put(rows \ ph, row),
               row.listed_at = tx.listed_at, row.listed_at = o.listed_at,
               row.buyer = tx.buyer, row.state = tx.state,
               \A q \in rows : q.listed_at # tx.listed_at
        PROVE  Keeps /\ PlaceholdersFit' /\ OutcomeKept'
    <3>1. rows' = (rows \ {r}) \cup {row}
      <4>1. rows' = {q \in rows \ {r} : q.listed_at # row.listed_at} \cup {row}
        BY <1>1, <1>6, <2>4 DEF Put
      <4> QED
        BY <2>4, <4>1
    <3> HIDE DEF o
    <3>2. Keeps
      <4>1. {row} \in SUBSET Rows /\ IsFiniteSet({row}) /\ rows' \subseteq rows \cup {row}
        BY <3>1, FS_Singleton
      <4>2. \A q, s \in rows' : q.listed_at = s.listed_at => q = s
        BY <2>4, <3>1 DEF BookSound, BookTyped
      <4>3. \A q \in rows : q.listed_at >= 0 => \E s \in rows' : s.listed_at = q.listed_at
        BY <1>3, <2>4, <3>1
      <4>4. WasOnce(row) /\ InTime(row) /\ \E h \in Heard : h.listed_at = row.listed_at
        BY <1>3, <2>1, <2>4, SettledRowIsTrue
      <4> HIDE DEF Keeps
      <4> QED
        BY <1>4, <4>1, <4>2, <4>3, <4>4
    <3>3. PlaceholdersFit'
      <4> SUFFICES ASSUME NEW q \in rows', q.listed_at < 0
                   PROVE  \E t \in recorded' : /\ q.listed_at = -t.at /\ q.state = t.state /\ q.buyer = t.buyer
                                               /\ \A s \in rows' : s.listed_at # t.listed_at
        BY DEF PlaceholdersFit
      <4>1. q \in rows /\ q # r
        <5>1. row.listed_at > 0 /\ row.listed_at \in Nat
          BY <1>3, <2>4
        <5>2. q # row
          BY <5>1
        <5> QED
          BY <3>1, <5>2
      <4>2. PICK t \in recorded : /\ q.listed_at = -t.at /\ q.state = t.state /\ q.buyer = t.buyer
                                  /\ \A s \in rows : s.listed_at # t.listed_at
        BY <4>1 DEF BookSound, PlaceholdersFit
      <4>3. q.listed_at # r.listed_at
        BY <4>1 DEF BookSound, BookTyped
      <4>4. row.listed_at # t.listed_at
        BY <1>3, <2>4, <4>2, <4>3
      <4> QED
        BY <1>1, <3>1, <4>2, <4>4
    <3>4. OutcomeKept'
      <4> SUFFICES ASSUME NEW t \in recorded
                   PROVE  \E q \in rows' : /\ q.listed_at \in {t.listed_at, -t.at}
                                           /\ q.state = t.state /\ q.buyer = t.buyer
        BY <1>1 DEF OutcomeKept
      <4>1. CASE t = tx
        BY <2>4, <3>1, <4>1
      <4>2. CASE t # tx
        <5>1. PICK q \in rows : /\ q.listed_at \in {t.listed_at, -t.at}
                                /\ q.state = t.state /\ q.buyer = t.buyer
          BY DEF BookSound, OutcomeKept
        <5>2. q # r
          BY <1>3, <2>4, <4>2, <5>1
        <5> QED
          BY <3>1, <5>1, <5>2
      <4> QED
        BY <4>1, <4>2
    <3> QED
      BY <3>2, <3>3, <3>4
  <2>5. Upserted(rows, o) # rows
    BY <1>1, <1>6
  <2> HIDE DEF Keeps
  <2>6. CASE \E r \in rows, tx \in recorded, row \in Rows :
               /\ ph = {r} /\ r.listed_at = -tx.at
               /\ Upserted(rows, o) = Put(rows \ ph, row)
               /\ row.listed_at = tx.listed_at /\ row.listed_at = o.listed_at
               /\ row.buyer = tx.buyer /\ row.state = tx.state
               /\ \A q \in rows : q.listed_at # tx.listed_at
    <3>1. Keeps /\ PlaceholdersFit' /\ OutcomeKept'
      <4> HIDE DEF o, ph
      <4> QED
        BY <2>4, <2>6
    <3> QED
      BY <1>1, <3>1 DEF Keeps
  <2>7. \/ Upserted(rows, o) = rows /\ ph = {}
        \/ /\ ph = {} /\ Upserted(rows, o) = Put(rows, o)
           /\ ~\E r \in rows : r.listed_at = o.listed_at /\ r.state \in OrderTerminal
        \/ \E r \in rows, tx \in recorded, row \in Rows :
             /\ ph = {r} /\ r.listed_at = -tx.at
             /\ Upserted(rows, o) = Put(rows \ ph, row)
             /\ row.listed_at = tx.listed_at /\ row.listed_at = o.listed_at
             /\ row.buyer = tx.buyer /\ row.state = tx.state
             /\ \A q \in rows : q.listed_at # tx.listed_at
    BY <1>1, <1>6, UpsertedIs
  <2> QED
    BY <2>3, <2>5, <2>6, <2>7
<1> QED
  BY <1>1, <1>5, <1>6

\* The steps of the verifier that leave the table alone.
LEMMA ReadsKeep ==
  ASSUME BookSound,
         \/ \E tx \in settled, readable \in BOOLEAN : ReportRead(tx, readable)
         \/ \E r \in reports : ReportLost(r)
         \/ \E r \in reports : ReportWrite(r) /\ r.tx \in recorded
         \/ ReconcileRead \/ ClockTicks
  PROVE  BookSound'
<1> USE DEF BookSound
<1> DEFINE Same == UNCHANGED <<account, ended, sales, settled, rows, credit, recorded>>
           Told(r) == r \in Reports /\ r.tx \in settled /\ r.order \in {account, NoAccount}
           Begun == [phase |-> "read", order |-> account, ts |-> clock]
<1>1. ASSUME NEW tx \in settled, NEW readable \in BOOLEAN, ReportRead(tx, readable)
      PROVE  /\ Same /\ UNCHANGED <<cycle, clock>>
             /\ \A r \in reports' : r \in reports \/ Told(r)
  <2> DEFINE new == [tx |-> tx, order |-> IF readable THEN account ELSE NoAccount]
  <2>1. Told(new)
    BY DEF BookTyped, Reports
  <2>2. reports' = reports \cup {new} /\ Same /\ UNCHANGED <<cycle, clock>>
    BY <1>1 DEF ReportRead, chainVars
  <2> HIDE DEF new
  <2> QED
    BY <2>1, <2>2
<1>2. ASSUME NEW r \in reports, ReportLost(r) \/ (ReportWrite(r) /\ r.tx \in recorded)
      PROVE  Same /\ UNCHANGED <<cycle, clock>> /\ reports' \subseteq reports
  BY <1>2 DEF ReportLost, ReportWrite, chainVars
<1>3. ReconcileRead => Same /\ UNCHANGED <<reports, clock>> /\ cycle' = Begun
  BY DEF ReconcileRead, chainVars
<1>4. ClockTicks => /\ Same /\ UNCHANGED <<reports, cycle>> /\ clock' = clock + 1
                    /\ cycle.phase = "read" => clock < cycle.ts + Lag
  BY DEF ClockTicks, chainVars
<1>5. /\ Same
      /\ \A r \in reports' : r \in reports \/ Told(r)
      /\ \/ UNCHANGED <<cycle, clock>>
         \/ cycle' = Begun /\ UNCHANGED clock
         \/ /\ UNCHANGED cycle /\ clock' = clock + 1
            /\ cycle.phase = "read" => clock < cycle.ts + Lag
  <2> HIDE DEF Same, Told, Begun
  <2> QED
    BY <1>1, <1>2, <1>3, <1>4
<1> HIDE DEF Told
<1>51. clock' \in Nat /\ clock <= clock' /\ clock' > 0 /\ clock \in Nat
  BY <1>5 DEF BookTyped
<1>6. BookTyped'
  <2>1. \A r \in reports' : r \in Reports /\ r.tx \in settled
    BY <1>5 DEF BookTyped, Told
  <2> QED
    BY <1>5, <1>51, <2>1 DEF BookTyped
<1>7. SalesInOrder'
  <2>1. \A tx \in settled : tx.at \in Nat
    BY OneSettlementPerSale
  <2> QED
    BY <1>5, <1>51, <2>1 DEF SalesInOrder
<1>8. AccountIsLast'
  BY <1>5 DEF AccountIsLast
\* Only the account is read.
<1>9. \A o \in Heard' : o \in Heard
  BY <1>5 DEF Heard, Told
<1>10. HeardIsTrue'
  <2>1. \A o \in Heard : o.listed_at \in Nat
    BY HeardAreAccounts DEF Accounts
  <2> QED
    BY <1>5, <1>51, <1>9, <2>1 DEF HeardIsTrue, WasOnce, InTime
<1>11. FirstSale'
  BY <1>5, <1>9 DEF FirstSale
<1>12. ReportsFit'
  <2> SUFFICES ASSUME NEW r \in reports', r.order # NoAccount, r.order.listed_at <= r.tx.at
               PROVE  r.order.listed_at = r.tx.listed_at /\ r.order.buyer = r.tx.buyer
    BY DEF ReportsFit
  <2>1. CASE r \in reports
    BY <2>1 DEF ReportsFit
  <2>2. CASE r \in Reports /\ r.tx \in settled /\ r.order = account
    <3>1. account.listed_at \in Nat /\ r.tx.at \in Nat
      BY <2>2, OneSettlementPerSale DEF BookTyped, Accounts
    <3> QED
      BY <2>2, <3>1 DEF AccountIsLast
  <2> QED
    BY <1>5, <2>1, <2>2 DEF Told
<1>13. PlaceholdersFit' /\ OutcomeKept'
  BY <1>5 DEF PlaceholdersFit, OutcomeKept
<1>14. CycleIsShort'
  <2>1. CASE cycle' = cycle
    <3>1. cycle.phase = "read" => cycle.ts <= clock' /\ clock' <= cycle.ts + Lag
      <4>1. cycle.ts \in Nat /\ Lag \in Nat
        BY DEF BookTyped, OrderBookAssumption
      <4>2. CASE clock' = clock
        BY <4>2 DEF CycleIsShort
      <4>3. CASE clock' = clock + 1 /\ (cycle.phase = "read" => clock < cycle.ts + Lag)
        BY <1>51, <4>1, <4>3 DEF CycleIsShort
      <4> QED
        BY <1>5, <2>1, <4>2, <4>3
    <3> QED
      BY <1>5, <2>1, <3>1 DEF CycleIsShort
  <2>2. CASE cycle' = Begun /\ clock' = clock
    <3>1. clock <= clock + Lag
      BY <1>51 DEF OrderBookAssumption
    <3>2. account # NoAccount /\ account.state = "LISTED" =>
            \A tx \in settled : tx.listed_at # account.listed_at
      BY OneSettlementPerSale DEF AccountIsLast, SaleOutcomes, BookTyped, Accounts
    <3> QED
      BY <1>5, <1>51, <2>2, <3>1, <3>2 DEF CycleIsShort
  <2> QED
    BY <1>5, <2>1, <2>2
<1> QED
  BY <1>6, <1>7, <1>8, <1>10, <1>11, <1>12, <1>13, <1>14

-----------------------------------------------------------------------------
(* The inductive invariant: the steps of the chain                         *)

\* A step of the chain that settles nothing.
LEMMA UnsettledKeeps ==
  ASSUME BookSound, BookIsFollowed,
         List \/ Cancel \/ CloseOrder \/ \E b \in Buyers : Reserve(b)
  PROVE  BookSound'
<1> USE DEF BookSound
<1>1. UNCHANGED <<settled, rows, recorded, credit, reports, cycle, clock>>
  BY DEF List, Cancel, CloseOrder, Reserve
<1>2. /\ clock \in Nat /\ clock > 0 /\ ended \in Nat /\ sales \in Nat /\ SaleTime \in Nat
      /\ Gap \in Nat /\ Gap # 0
      /\ account # NoAccount => /\ account \in Accounts /\ account.listed_at \in Nat
                                /\ account.state \in OrderStates
  BY DEF BookTyped, BookIsFollowed, OrderBookAssumption, Accounts
<1>3. \A tx \in settled : /\ tx.listed_at \in Nat /\ tx.at \in Nat /\ tx.buyer \in Buyers
                          /\ tx.state \in SaleOutcomes
                          /\ tx.listed_at > 0 /\ tx.listed_at <= tx.at /\ tx.at <= clock
                          /\ tx.at <= ended
  BY OneSettlementPerSale DEF SalesInOrder
\* What becomes of the account: a new one, the next state, or none.
<1> DEFINE Becomes(state) == /\ account' \in Accounts /\ account' # NoAccount
                             /\ account'.state = state
           Listed == account # NoAccount /\ account.state = "LISTED" /\ sales' = sales
           New == /\ account = NoAccount /\ clock > ended /\ sales' = sales + 1 /\ ended' = ended
                  /\ Becomes("LISTED") /\ account'.listed_at = clock /\ account'.buyer = NoBuyer
           Withdrawn == /\ Listed /\ ended' = clock
                        /\ Becomes("CANCELLED") /\ account'.listed_at = account.listed_at
           Reserved == /\ Listed /\ ended' = clock + SaleTime
                       /\ Becomes("FUNDED") /\ account'.listed_at = account.listed_at
                       /\ account'.buyer \in Buyers
           Gone == account # NoAccount /\ account.state \in OrderTerminal /\ account' = NoAccount /\ sales' = sales /\ ended' = ended
<1>4. New \/ Withdrawn \/ Reserved \/ Gone
  <2>1. {"LISTED", "FUNDED", "CANCELLED"} \subseteq OrderStates
    BY DEF OrderStates, OrderTerminal
  <2>2. List => New
    BY <1>2, <2>1 DEF List, Accounts, OrderBookAssumption
  <2>3. Cancel => Withdrawn
    BY <1>2, <2>1 DEF Cancel, Accounts, OrderBookAssumption
  <2>4. ASSUME NEW b \in Buyers, Reserve(b) PROVE Reserved
    <3>1. /\ Listed /\ ended' = clock + SaleTime
          /\ account' = [account EXCEPT !.state = "FUNDED", !.buyer = b]
      BY <2>4 DEF Reserve
    <3> QED
      BY <1>2, <2>1, <3>1 DEF Accounts, OrderBookAssumption
  <2>5. CloseOrder => Gone
    BY DEF CloseOrder
  <2> QED
    BY <2>2, <2>3, <2>4, <2>5
<1>5. /\ account' \in Accounts \cup {NoAccount} /\ ended' \in Nat /\ sales' \in Nat
      /\ \A tx \in settled : tx.at <= ended'
  BY <1>2, <1>3, <1>4
<1>6. BookTyped'
  BY <1>1, <1>5 DEF BookTyped
<1>7. SalesInOrder'
  BY <1>1, <1>5 DEF SalesInOrder
\* A listed account has not been settled.
<1>8. account # NoAccount /\ account.state = "LISTED" =>
        \A tx \in settled : tx.at < account.listed_at
  BY <1>3 DEF AccountIsLast, SaleOutcomes
<1>9. account' # NoAccount =>
        /\ account'.listed_at \in Nat /\ 0 < account'.listed_at /\ account'.listed_at <= clock
        /\ \A tx \in settled : tx.at < account'.listed_at
        /\ account'.state \in {"LISTED", "FUNDED", "CANCELLED"}
        /\ account'.state = "LISTED" <=> account'.buyer = NoBuyer /\ account'.state # "CANCELLED"
  <2>1. account # NoAccount => account \in Heard
    BY DEF Heard
  <2>2. account # NoAccount => /\ 0 < account.listed_at /\ account.listed_at <= clock
                               /\ account.state = "LISTED" => account.buyer = NoBuyer
    BY <2>1 DEF HeardIsTrue, InTime, WasOnce
  <2>3. NoBuyer \notin Buyers
    BY DEF OrderBookAssumption, Wallets
  <2> QED
    BY <1>2, <1>3, <1>4, <1>8, <2>2, <2>3
<1>10. AccountIsLast'
  BY <1>1, <1>9 DEF AccountIsLast
<1>11. \A o \in Heard' : o \in Heard \/ (o = account' /\ account' # NoAccount)
  BY <1>1 DEF Heard
<1>12. \A o \in Heard : /\ o \in Accounts /\ o.listed_at \in Nat /\ WasOnce(o) /\ InTime(o)
  BY HeardAreAccounts DEF HeardIsTrue, Accounts
<1>13. HeardIsTrue'
  <2> SUFFICES ASSUME NEW o \in Heard' PROVE WasOnce(o)' /\ InTime(o)'
    BY DEF HeardIsTrue
  <2>1. CASE o \in Heard
    <3>1. WasOnce(o)'
      <4>1. account' # NoAccount /\ account'.listed_at = o.listed_at =>
              /\ account'.state = "LISTED" => o = account'
              /\ account'.state = "FUNDED" =>
                   o.state \in {"LISTED", "FUNDED"} /\ o.buyer \in {NoBuyer, account'.buyer}
        BY <1>2, <1>4, <1>12, <2>1 DEF WasOnce, InTime
      <4> QED
        BY <1>1, <1>12, <2>1, <4>1 DEF WasOnce
    <3>2. InTime(o)'
      <4>1. account' # NoAccount => o.listed_at <= account'.listed_at
        BY <1>2, <1>4, <1>12, <2>1 DEF InTime
      <4>2. account' = NoAccount \/ account'.state \in OrderTerminal => o.listed_at <= ended'
        BY <1>2, <1>4, <1>12, <2>1 DEF InTime, OrderTerminal, SaleOutcomes
      <4> QED
        BY <1>1, <1>12, <2>1, <4>1, <4>2 DEF InTime
    <3> QED
      BY <3>1, <3>2
  <2>2. CASE o = account' /\ account' # NoAccount
    <3>1. WasOnce(o)'
      BY <1>1, <1>3, <1>9, <2>2 DEF WasOnce, SaleOutcomes
    <3>2. InTime(o)'
      <4>1. account'.state \in OrderTerminal => ended' = clock
        BY <1>4, <2>2 DEF OrderTerminal, SaleOutcomes
      <4>2. o.listed_at <= o.listed_at
        BY <1>9, <2>2
      <4>3. \A tx \in settled : tx.listed_at <= tx.at /\ tx.at < o.listed_at
        BY <1>3, <1>9, <2>2
      <4> QED
        BY <1>1, <1>9, <2>2, <4>1, <4>2, <4>3 DEF InTime
    <3> QED
      BY <3>1, <3>2
  <2> QED
    BY <1>11, <2>1, <2>2

<1>14. FirstSale'
  <2>1. account # NoAccount => account \in Heard /\ sales # 0
    BY DEF Heard, FirstSale
  <2>2. sales' # 0
    BY <1>2, <1>4, <2>1
  <2>3. sales' = 1 => \A o, q \in Heard' : o.listed_at = q.listed_at
    <3>1. CASE account = NoAccount
      <4>1. sales' = 1 => Heard = {}
        BY <1>2, <1>4, <3>1 DEF FirstSale
      <4> QED
        BY <1>11, <4>1
    <3>2. CASE account # NoAccount
      <4>1. sales' = sales /\ (account' # NoAccount => account'.listed_at = account.listed_at)
        BY <1>4, <3>2
      <4>2. sales' = 1 => \A o \in Heard' : o.listed_at = account.listed_at
        BY <1>11, <2>1, <3>2, <4>1 DEF FirstSale
      <4> QED
        BY <4>2
    <3> QED
      BY <3>1, <3>2
  <2>4. ASSUME NEW tx \in settled
        PROVE  \/ \E r \in rows : r.listed_at = tx.listed_at
               \/ \A o \in Heard' : tx.listed_at <= o.listed_at
    <3>1. account' # NoAccount => tx.listed_at <= account'.listed_at
      BY <1>3, <1>9
    <3> QED
      BY <1>11, <3>1 DEF FirstSale
  <2> QED
    BY <1>1, <2>2, <2>3, <2>4 DEF FirstSale
<1>15. ReportsFit' /\ PlaceholdersFit' /\ OutcomeKept'
  BY <1>1 DEF ReportsFit, PlaceholdersFit, OutcomeKept
<1>16. CycleIsShort'
  <2>1. account' # NoAccount /\ account'.state = "FUNDED" => ended' = clock + SaleTime
    BY <1>2, <1>4
  <2>2. cycle.phase = "read" => cycle.ts \in Nat /\ clock + SaleTime >= cycle.ts + SaleTime
    BY <1>2 DEF CycleIsShort, BookTyped
  <2> QED
    BY <1>1, <2>1, <2>2 DEF CycleIsShort
<1> QED
  BY <1>6, <1>7, <1>10, <1>13, <1>14, <1>15, <1>16

\* The end of a sale: on a PDA that was used before, its listing has a row.
LEMMA SettleKeeps ==
  ASSUME BookSound, BookIsFollowed, NEW outcome \in SaleOutcomes, Settle(outcome)
  PROVE  BookSound'
<1> DEFINE tx == [listed_at |-> account.listed_at, at |-> clock,
                  buyer |-> account.buyer, state |-> outcome]
<1> USE DEF BookSound
<1>1. /\ account # NoAccount /\ account.state = "FUNDED" /\ clock >= ended /\ ended' = clock
      /\ account' = [account EXCEPT !.state = outcome]
      /\ settled' = settled \cup {tx}
      /\ sales > 1 => \E r \in rows : r.listed_at = account.listed_at
      /\ UNCHANGED <<sales, rows, recorded, credit, reports, cycle, clock>>
  BY DEF Settle, BookIsFollowed
<1>2. /\ account \in Accounts /\ account \in Heard
      /\ clock \in Nat /\ clock > 0 /\ ended \in Nat /\ sales \in Nat
  BY <1>1 DEF BookTyped, Heard
<1>3. WasOnce(account) /\ InTime(account)
  BY <1>2 DEF HeardIsTrue
<1>4. /\ account.listed_at \in Nat /\ account.buyer \in Buyers /\ account.buyer # NoBuyer
      /\ account.listed_at > 0 /\ account.listed_at <= clock
  BY <1>1, <1>2, <1>3 DEF WasOnce, InTime, Accounts
<1>5. /\ tx.listed_at = account.listed_at /\ tx.at = clock /\ tx.buyer = account.buyer
      /\ tx.state = outcome /\ tx \in Settlements
      /\ outcome \notin {"LISTED", "FUNDED", "CANCELLED"} /\ outcome \in OrderStates
  BY <1>2, <1>4 DEF Settlements, SaleOutcomes, OrderStates, OrderTerminal
<1> HIDE DEF tx
<1>6. /\ account' \in Accounts /\ account' # NoAccount /\ account'.listed_at = account.listed_at
      /\ account'.buyer = account.buyer /\ account'.state = outcome
  BY <1>1, <1>2, <1>5 DEF Accounts, OrderBookAssumption
\* The sales before are over.
<1>7. \A t \in settled : /\ t.listed_at \in Nat /\ t.at \in Nat /\ t.state \in SaleOutcomes
                         /\ t.listed_at > 0 /\ t.listed_at <= t.at /\ t.at <= clock
                         /\ t.at <= ended
                         /\ t.at < account.listed_at
  BY <1>1, OneSettlementPerSale DEF SalesInOrder, AccountIsLast, SaleOutcomes
<1>8. BookTyped'
  <2>1. IsFiniteSet(settled')
    BY <1>1, FS_AddElement DEF BookTyped
  <2>2. settled' \subseteq Settlements
    BY <1>1, <1>5 DEF BookTyped
  <2> QED
    BY <1>1, <1>2, <1>6, <2>1, <2>2 DEF BookTyped
<1>9. SalesInOrder'
  <2>1. \A t \in settled' : /\ 0 < t.listed_at /\ t.listed_at <= t.at /\ t.at <= clock
                            /\ t.at <= clock
    BY <1>1, <1>2, <1>4, <1>5, <1>7
  <2>2. \A t, s \in settled' : s = t \/ t.at < s.listed_at \/ s.at < t.listed_at
    BY <1>1, <1>5, <1>7 DEF SalesInOrder
  <2> QED
    BY <1>1, <2>1, <2>2 DEF SalesInOrder
<1>10. AccountIsLast'
  BY <1>1, <1>5, <1>6, <1>7 DEF AccountIsLast
<1>11. \A o \in Heard' : o \in Heard \/ o = account'
  BY <1>1 DEF Heard
<1>12. \A o \in Heard : /\ o \in Accounts /\ o.listed_at \in Nat /\ WasOnce(o) /\ InTime(o)
                        /\ o.listed_at <= account.listed_at
  BY <1>1, HeardAreAccounts DEF HeardIsTrue, InTime, Accounts
<1>13. HeardIsTrue'
  <2> SUFFICES ASSUME NEW o \in Heard' PROVE WasOnce(o)' /\ InTime(o)'
    BY DEF HeardIsTrue
  <2>1. CASE o \in Heard
    <3>1. o.listed_at = account.listed_at =>
            o.state \in {"LISTED", "FUNDED"} /\ o.buyer \in {NoBuyer, account.buyer}
      BY <1>1, <1>12, <2>1 DEF WasOnce
    <3>2. WasOnce(o)'
      BY <1>1, <1>5, <1>6, <1>12, <2>1, <3>1 DEF WasOnce
    <3>3. InTime(o)'
      BY <1>1, <1>5, <1>6, <1>12, <2>1 DEF InTime
    <3> QED
      BY <3>2, <3>3
  <2>2. CASE o = account'
    <3>1. WasOnce(o)'
      <4>1. \A t \in settled' : t.listed_at = o.listed_at => t = tx
        BY <1>1, <1>4, <1>6, <1>7, <2>2
      <4>2. tx \in settled'
        BY <1>1
      <4> QED
        BY <1>4, <1>5, <1>6, <2>2, <4>1, <4>2 DEF WasOnce
    <3>2. InTime(o)'
      BY <1>1, <1>4, <1>5, <1>6, <1>7, <2>2 DEF InTime
    <3> QED
      BY <3>1, <3>2
  <2> QED
    BY <1>11, <2>1, <2>2
<1>14. FirstSale'
  <2>1. sales # 0
    BY <1>2 DEF FirstSale
  <2>2. \A o \in Heard' : \E q \in Heard : q.listed_at = o.listed_at
    BY <1>2, <1>6, <1>11
  <2>3. sales = 1 => \A o, q \in Heard' : o.listed_at = q.listed_at
    BY <2>2 DEF FirstSale
  <2>4. ASSUME NEW t \in settled'
        PROVE  \/ \E r \in rows : r.listed_at = t.listed_at
               \/ \A o \in Heard' : t.listed_at <= o.listed_at
    <3>1. CASE t \in settled
      BY <2>2, <3>1 DEF FirstSale
    <3>2. CASE t = tx /\ sales > 1
      BY <1>1, <1>5, <3>2
    <3>3. CASE t = tx /\ sales = 1
      BY <1>2, <1>4, <1>5, <2>2, <3>3 DEF FirstSale
    <3> QED
      BY <1>1, <1>2, <2>1, <3>1, <3>2, <3>3
  <2> QED
    BY <1>1, <2>1, <2>3, <2>4 DEF FirstSale
<1>15. ReportsFit' /\ PlaceholdersFit' /\ OutcomeKept'
  BY <1>1 DEF ReportsFit, PlaceholdersFit, OutcomeKept
<1>16. CycleIsShort'
  <2> SUFFICES ASSUME cycle.phase = "read"
               PROVE  CycleIsShort'
    BY <1>1 DEF CycleIsShort
  <2>1. cycle.order # NoAccount /\ cycle.order.state = "LISTED" /\ account.listed_at = cycle.order.listed_at
        => clock >= cycle.ts + SaleTime
    BY <1>1, <1>2 DEF CycleIsShort, BookTyped, OrderBookAssumption
  <2> QED
    BY <1>1, <1>5, <1>6, <2>1 DEF CycleIsShort
<1> QED
  BY <1>8, <1>9, <1>10, <1>13, <1>14, <1>15, <1>16

\* Every step keeps all that is true of the table.
LEMMA BookSoundKept ==
  ASSUME BookIsFollowed, BookSound, [BookNext]_bookVars
  PROVE  BookSound'
<1>1. CASE UNCHANGED bookVars
  BY <1>1 DEF bookVars, BookSound, BookTyped, SalesInOrder, HeardIsTrue, WasOnce, InTime, Heard,
              AccountIsLast, FirstSale, ReportsFit, PlaceholdersFit, CycleIsShort, OutcomeKept
<1>2. CASE List \/ Cancel \/ CloseOrder \/ \E b \in Buyers : Reserve(b)
  BY <1>2, UnsettledKeeps
<1>3. ASSUME NEW outcome \in SaleOutcomes, Settle(outcome) PROVE BookSound'
  BY <1>3, SettleKeeps
<1>4. ASSUME NEW r \in reports, ReportWrite(r), r.tx \notin recorded PROVE BookSound'
  BY <1>4, ReportWriteKeeps DEF BookSound
<1>5. CASE ReconcileApply
  BY <1>5, ReconcileApplyKeeps DEF BookSound
<1> QED
  BY <1>1, <1>2, <1>3, <1>4, <1>5, ReadsKeep DEF BookNext

\* ... and the counters within what was settled: they are set from the table.
LEMMA CountersKept ==
  ASSUME BookIsFollowed, BookSound, BookSound', NotOvercounted, [BookNext]_bookVars
  PROVE  NotOvercounted'
<1> DEFINE Had(w, state) == {tx \in settled : tx.state = state /\ w \in {Seller, tx.buyer}}
<1>1. CASE UNCHANGED credit /\ settled \subseteq settled'
  <2> SUFFICES ASSUME NEW w \in Wallets
               PROVE  /\ credit[w].ok <= Cardinality(Had(w, "RELEASED")')
                      /\ credit[w].disputed <= Cardinality(Had(w, "DISPUTE")')
    BY <1>1 DEF NotOvercounted
  <2>1. ASSUME NEW state
        PROVE  /\ Cardinality(Had(w, state)) \in Nat /\ Cardinality(Had(w, state)') \in Nat
               /\ Cardinality(Had(w, state)) <= Cardinality(Had(w, state)')
    <3>1. IsFiniteSet(Had(w, state)')
      BY FS_Subset DEF BookSound, BookTyped
    <3>2. Had(w, state) \in SUBSET (Had(w, state)')
      BY <1>1
    <3> QED
      BY <3>1, <3>2, FS_Subset, FS_CardinalityType
  <2>2. /\ credit[w].ok <= Cardinality(Had(w, "RELEASED")) /\ credit[w].ok \in Nat
        /\ credit[w].disputed <= Cardinality(Had(w, "DISPUTE")) /\ credit[w].disputed \in Nat
    BY DEF NotOvercounted, BookSound, BookTyped
  <2> HIDE DEF Had
  <2> QED
    BY <2>1, <2>2
<1>2. ASSUME NEW some, credit' = Synced(rows', some), UNCHANGED settled
      PROVE  NotOvercounted'
  <2> SUFFICES ASSUME NEW w \in Wallets
               PROVE  /\ credit'[w].ok <= Cardinality(Had(w, "RELEASED")')
                      /\ credit'[w].disputed <= Cardinality(Had(w, "DISPUTE")')
    BY DEF NotOvercounted
  <2>1. \A state \in SaleOutcomes : Count(rows', w, state) <= Cardinality(Had(w, state)')
    BY CountsFitThen DEF CountsWithin
  <2>2. CASE w \in some
    BY <1>2, <2>1, <2>2 DEF Synced, SaleOutcomes
  <2>3. CASE w \notin some
    BY <1>2, <2>3 DEF Synced, NotOvercounted
  <2> QED
    BY <2>2, <2>3
<1>3. CASE UNCHANGED bookVars
  BY <1>1, <1>3 DEF bookVars
<1>4. CASE List \/ Cancel \/ CloseOrder \/ \E b \in Buyers : Reserve(b)
  BY <1>1, <1>4 DEF List, Cancel, CloseOrder, Reserve
<1>5. ASSUME NEW outcome \in SaleOutcomes, Settle(outcome) PROVE NotOvercounted'
  BY <1>1, <1>5 DEF Settle
<1>6. ASSUME NEW r \in reports, ReportWrite(r) PROVE NotOvercounted'
  BY <1>1, <1>2, <1>6, ReportWriteKeeps DEF ReportWrite, chainVars
<1>7. CASE ReconcileApply
  BY <1>2, <1>7 DEF ReconcileApply, chainVars
<1>8. CASE \/ \E tx \in settled, readable \in BOOLEAN : ReportRead(tx, readable)
           \/ \E r \in reports : ReportLost(r)
           \/ ReconcileRead \/ ClockTicks
  BY <1>1, <1>8 DEF ReportRead, ReportLost, ReconcileRead, ClockTicks, chainVars
<1> QED
  BY <1>3, <1>4, <1>5, <1>6, <1>7, <1>8 DEF BookNext

\* Every reachable state of the order book satisfies the inductive invariant.
THEOREM BookInvariant == ASSUME BookIsFollowed PROVE BookSpec => []BookInv
<1>1. BookInit => BookInv
  <2> SUFFICES ASSUME BookInit PROVE BookInv
    OBVIOUS
  <2>1. Heard = {}
    BY DEF BookInit, Heard, Idle
  <2>2. BookTyped
    BY FS_EmptySet DEF BookInit, BookTyped, Idle
  <2>3. NotOvercounted
    <3> SUFFICES ASSUME NEW w \in Wallets
                 PROVE  /\ credit[w].ok <= Cardinality({tx \in settled : tx.state = "RELEASED" /\ w \in {Seller, tx.buyer}})
                        /\ credit[w].disputed <= Cardinality({tx \in settled : tx.state = "DISPUTE" /\ w \in {Seller, tx.buyer}})
      BY DEF NotOvercounted
    <3>1. credit[w].ok = 0 /\ credit[w].disputed = 0
      BY DEF BookInit
    <3>2. \A state : {tx \in settled : tx.state = state /\ w \in {Seller, tx.buyer}} = {}
      BY DEF BookInit
    <3>3. /\ Cardinality({tx \in settled : tx.state = "RELEASED" /\ w \in {Seller, tx.buyer}}) = 0
          /\ Cardinality({tx \in settled : tx.state = "DISPUTE" /\ w \in {Seller, tx.buyer}}) = 0
      BY <3>2, FS_EmptySet
    <3> QED
      BY <3>1, <3>3
  <2> QED
    BY <2>1, <2>2, <2>3
       DEF BookInit, BookInv, BookSound, SalesInOrder, HeardIsTrue, AccountIsLast, FirstSale,
           ReportsFit, PlaceholdersFit, CycleIsShort, OutcomeKept, Idle
<1>2. BookInv /\ [BookNext]_bookVars => BookInv'
  BY BookSoundKept, CountersKept DEF BookInv
<1> QED
  BY <1>1, <1>2, PTL DEF BookSpec

\* The tables hold rows of their type, one per key.
THEOREM BookTypeCorrect == ASSUME BookIsFollowed PROVE BookSpec => []BookTypeOK
<1>1. BookInv => BookTypeOK
  BY DEF BookInv, BookSound, BookTyped, BookTypeOK
<1> QED
  BY <1>1, BookInvariant, PTL

\* A reported outcome stays with its own listing or its placeholder, with its
\* buyer, whatever is read late, reported twice or listed again.
THEOREM OutcomesStay == ASSUME BookIsFollowed PROVE BookSpec => []OutcomeKept
<1>1. BookInv => OutcomeKept
  BY DEF BookInv, BookSound
<1> QED
  BY <1>1, BookInvariant, PTL

\* A wallet's reputation counts no sale twice and none it had no part in.
THEOREM ReputationIsEarned == ASSUME BookIsFollowed PROVE BookSpec => []NotOvercounted
<1>1. BookInv => NotOvercounted
  BY DEF BookInv
<1> QED
  BY <1>1, BookInvariant, PTL

=============================================================================
