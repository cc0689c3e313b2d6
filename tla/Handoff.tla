------------------------------ MODULE Handoff -------------------------------
(***************************************************************************)
(* How a tap that opened /t reaches the scan page: localStorage, shared by  *)
(* the tabs of one browser (lib/handoff.ts, components/tap-gate.tsx).       *)
(*                                                                         *)
(* /t stores the tap in a slot when a scan session is flagged; the scan    *)
(* pages of all tabs poll the slot.  With Web Locks taking is one step;    *)
(* without them (or when the lock request throws) a tab writes its claim   *)
(* and looks again in a later task, and the tasks of other tabs run in     *)
(* between.  A task is atomic: its writes are visible to the next one.     *)
(*                                                                         *)
(***************************************************************************)
EXTENDS Naturals

CONSTANTS
  Here, There,   \* the tab whose scan page is modelled, another scan tab
  MaxTaps,       \* bound: taps that happen; a handoff has the number of its tap
  MaxSessions    \* bound: sessions the verifier issues; numbered as nonces

Tabs == {Here, There}
Taps == 1..MaxTaps
Nonces == 1..MaxSessions
None == 0             \* no tap, no nonce
Foreign == MaxSessions + 1  \* the nonce of a session another tab started

ASSUME HandoffAssumption ==
  /\ Here # There
  /\ MaxTaps \in Nat /\ MaxSessions \in Nat

VARIABLES
  slot,    \* K_HANDOFF: the tap handed over, or None
  claim,   \* K_CLAIM: the tap claimed last and the tab that claimed it
  claims,  \* per tab, the tap its takeClaimed is waiting for
  old,     \* whether the handoff in the slot is older than three minutes
  flag,    \* K_SESSION: the nonce of the session flagged for /t
  owner,   \* K_OWNER of tab Here (its sessionStorage)
  takes    \* history: how often each handoff was returned by take()

handoffVars == <<slot, claim, claims, old, flag, owner, takes>>

NoClaim == [id |-> None, by |-> Here]

HandoffInit ==
  /\ slot = None
  /\ claim = NoClaim
  /\ claims = [t \in Tabs |-> None]
  /\ old = FALSE
  /\ flag = None
  /\ owner = None
  /\ takes = [t \in Taps |-> 0]

\* tapGateAction: the tap is handed over only while a session is flagged.
\* A flag whose deadline has passed does not count (scanSession.active).
FlagActive(late) == flag # None /\ flag \notin late

\* tapHandoff.set
Put(tap) == slot' = tap /\ old' = FALSE

\* Mutant: the tap stays in the slot.
TakeLockedKeeps(tab) ==
  /\ slot # None
  /\ takes' = [takes EXCEPT ![slot] = @ + 1]
  /\ UNCHANGED <<slot, claim, claims, old, flag, owner>>

\* takeLocked: one read and one delete under the Web Lock; what is too old
\* is deleted and not returned (fresh).
TakeLocked(tab) ==
  /\ slot # None
  /\ slot' = None
  /\ old' = FALSE
  /\ takes' = IF old THEN takes ELSE [takes EXCEPT ![slot] = @ + 1]
  /\ UNCHANGED <<claim, claims, flag, owner>>

\* takeClaimed up to its await.
Claim(tab) ==
  /\ slot # None
  /\ claims[tab] = None
  /\ claim' = [id |-> slot, by |-> tab]
  /\ claims' = [claims EXCEPT ![tab] = slot]
  /\ UNCHANGED <<slot, old, flag, owner, takes>>

\* The claim survived, and no newer tap has replaced the one claimed.
ClaimHolds(tab) == claim = [id |-> claims[tab], by |-> tab] /\ slot = claims[tab]

\* The tap a tab gets when its claim is checked, if it gets one.
Claimed(tab) ==
  IF ClaimHolds(tab) /\ ~old THEN claims[tab] ELSE None

\* takeClaimed after its await.
Settle(tab) ==
  /\ claims[tab] # None
  /\ claims' = [claims EXCEPT ![tab] = None]
  /\ slot' = IF ClaimHolds(tab) THEN None ELSE slot
  /\ claim' = IF ClaimHolds(tab) THEN NoClaim ELSE claim
  /\ old' = (old /\ ~ClaimHolds(tab))
  /\ takes' = IF Claimed(tab) = None THEN takes
              ELSE [takes EXCEPT ![Claimed(tab)] = @ + 1]
  /\ UNCHANGED <<flag, owner>>

\* Three minutes pass since the tap was handed over.
Ages ==
  /\ slot # None /\ ~old
  /\ old' = TRUE
  /\ UNCHANGED <<slot, claim, claims, flag, owner, takes>>

\* The scan page of the other tab: it takes taps like this one, ...
OtherTakes == TakeLocked(There) \/ Claim(There) \/ Settle(There)

\* ... and flags its own session or clears the flag, whosever it is.
OtherFlags ==
  /\ flag' \in {None, Foreign} \ {flag}
  /\ UNCHANGED <<slot, claim, claims, old, owner, takes>>

-----------------------------------------------------------------------------
HandoffTypeOK ==
  /\ slot \in Taps \cup {None}
  /\ claim \in [id : Taps \cup {None}, by : Tabs]
  /\ claims \in [Tabs -> Taps \cup {None}]
  /\ old \in BOOLEAN
  /\ flag \in Nonces \cup {None, Foreign}
  /\ owner \in Nonces \cup {None}
  /\ takes \in [Taps -> Nat]

\* "Takes the pending handoff, at most once across tabs": whichever tabs
\* look for it, and with or without Web Locks, a handed-over tap is
\* returned to one tab once.  A second /scan page would send the same tap
\* and be told that it is a replay.
TakenOnce == \A t \in Taps : takes[t] <= 1

=============================================================================
