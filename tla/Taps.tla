-------------------------------- MODULE Taps --------------------------------
(***************************************************************************)
(* The verifier's front door: what a chip tap, once, may be used for.      *)
(*                                                                         *)
(* A tap makes the chip raise its counter and put a URL (uid, counter,     *)
(* CMAC) on the phone.  The URL can be sent any number of times, to /t or  *)
(* to /api/verify, by anybody who has seen it.  /t consumes the counter    *)
(* and hands out a one-time adoption token; /api/verify needs an unused    *)
(* session nonce and either a fresh URL or an adoption token, and signs    *)
(* the scan.  Every handler is one BEGIN IMMEDIATE transaction; its clock  *)
(* is read before the transaction starts (ts), so it may be late.          *)
(*                                                                         *)
(* A CMAC is genuine exactly for the counters the chip has reached, and a  *)
(* wrong token finds no tap: requests with either change nothing here.     *)
(* Rows of refused taps have no reader among these decisions and are left  *)
(* out.                                                                    *)
(***************************************************************************)
EXTENDS Integers, FiniteSets

CONSTANTS
  Chips,         \* NFC chips, by uid
  Serials,       \* passports of the database
  AnySerial,     \* /api/verify without a serial
  Nonces,        \* random session nonces
  NonceTtl,      \* FV_NONCE_TTL_S
  NonceGrace,    \* purge_nonces keeps an unused expired nonce this long
  AdoptWindow,   \* ADOPT_WINDOW_S
  Delay,         \* bound: seconds a handler waits for the write lock
  MaxCounter,    \* bound: taps of one chip
  MaxRows,       \* bound: rows written
  MaxTime        \* bound: the clock stops here

ASSUME TapsAssumption ==
  /\ AnySerial \notin Serials
  /\ NonceTtl \in Nat /\ NonceGrace \in Nat /\ AdoptWindow \in Nat
  /\ Delay \in Nat /\ MaxCounter \in Nat /\ MaxRows \in Nat /\ MaxTime \in Nat

VARIABLES
  chip,     \* the counter inside every chip
  seal,     \* seals table: [exists, serial, last_counter, dead]
  taps,     \* accepted rows of the taps table
  nonce,    \* nonces table: [state, expires_at]
  signed,   \* scans the server signed
  sighted,  \* Tier-0 sightings /t recorded
  nextId,   \* next row id
  now

vars == <<chip, seal, taps, nonce, signed, sighted, nextId, now>>

SealRows == [exists : BOOLEAN, serial : Serials \cup {AnySerial},
             last_counter : Nat, dead : BOOLEAN]

TapRows == [id : Nat, uid : Chips, ctr : Nat, source : {"t", "verify"},
            verdict : {"VALID", "UNREGISTERED"}, ts : Int, adopted : BOOLEAN]

\* "unknown": never issued; "gone": purged.
NonceRows == [state : {"unknown", "open", "used", "gone"}, expires_at : Int]

SignedRows == [id : Nat, uid : Chips, ctr : Nat, nonce : Nonces]

SightedRows == [id : Nat, uid : Chips, ctr : Nat]

Init ==
  /\ chip = [x \in Chips |-> 0]
  /\ seal = [x \in Chips |-> [exists |-> FALSE, serial |-> AnySerial,
                              last_counter |-> 0, dead |-> FALSE]]
  /\ taps = {}
  /\ nonce = [n \in Nonces |-> [state |-> "unknown", expires_at |-> 0]]
  /\ signed = {}
  /\ sighted = {}
  /\ nextId = 1
  /\ now = 0

-----------------------------------------------------------------------------
(* service.check_tap                                                       *)

\* ctr <= last: the seal's counter or, for a chip without a seal, the highest
\* counter among its accepted taps.
Replayed(x, c) ==
  IF seal[x].exists THEN c <= seal[x].last_counter
  ELSE c <= 0 \/ \E t \in taps : t.uid = x /\ c <= t.ctr

\* A genuine URL of chip x with counter c that was not used before.
Fresh(x, c) == c \in 1..chip[x] /\ ~Replayed(x, c)

\* The seals table after the tap is consumed.
Advanced(x, c) ==
  IF seal[x].exists THEN [seal EXCEPT ![x].last_counter = c] ELSE seal

TapRow(x, c, source, ts) ==
  [id |-> nextId, uid |-> x, ctr |-> c, source |-> source,
   verdict |-> IF seal[x].exists THEN "VALID" ELSE "UNREGISTERED",
   ts |-> ts, adopted |-> FALSE]

\* A genuine tap of a dead seal answers NO_RESPONSE.
Answers(x) == ~seal[x].dead

NonceOpen(n, ts) == nonce[n].state = "open" /\ nonce[n].expires_at >= ts

SerialAgrees(x, serial) == serial \in {AnySerial, seal[x].serial}

-----------------------------------------------------------------------------
(* Handlers                                                                *)

\* POST /api/session: a new nonce, and old ones purged.
Session(n, ts) ==
  /\ nonce[n].state = "unknown"
  /\ nonce' = [m \in Nonces |->
       IF m = n THEN [state |-> "open", expires_at |-> ts + NonceTtl]
       ELSE IF \/ nonce[m].state = "used" /\ nonce[m].expires_at < ts
               \/ nonce[m].state = "open" /\ nonce[m].expires_at < ts - NonceGrace
            THEN [nonce[m] EXCEPT !.state = "gone"]
            ELSE nonce[m]]
  /\ UNCHANGED <<chip, seal, taps, signed, sighted, nextId, now>>

\* GET /t: the counter is consumed whatever the seal's state; a valid tap
\* leaves an adoptable row and a sighting.
TagLanding(x, c, ts) ==
  /\ Fresh(x, c)
  /\ nextId <= MaxRows
  /\ seal' = Advanced(x, c)
  /\ IF Answers(x)
     THEN /\ taps' = taps \cup {TapRow(x, c, "t", ts)}
          /\ nextId' = nextId + 1
     ELSE UNCHANGED <<taps, nextId>>
  /\ sighted' = IF seal[x].exists /\ Answers(x)
                THEN sighted \cup {[id |-> nextId, uid |-> x, ctr |-> c]}
                ELSE sighted
  /\ UNCHANGED <<chip, nonce, signed, now>>

\* Mutant: the nonce stays open.
SignKeepsNonce(n, x, c) ==
  /\ signed' = IF seal[x].exists /\ Answers(x)
               THEN signed \cup {[id |-> nextId, uid |-> x, ctr |-> c,
                                  nonce |-> n]}
               ELSE signed
  /\ UNCHANGED nonce

\* The end of /api/verify for an accepted tap: a chip with a living seal gets
\* a signature and the nonce is consumed; the answer to any other keeps the
\* nonce.
Sign(n, x, c) ==
  IF seal[x].exists /\ Answers(x)
  THEN /\ signed' = signed \cup {[id |-> nextId, uid |-> x, ctr |-> c,
                                  nonce |-> n]}
       /\ nonce' = [nonce EXCEPT ![n].state = "used"]
  ELSE UNCHANGED <<signed, nonce>>

\* POST /api/verify with a tap URL.  A serial that is not the seal's rolls the
\* transaction back.
VerifyUrl(n, x, c, serial, ts) ==
  /\ NonceOpen(n, ts)
  /\ Fresh(x, c)
  /\ nextId <= MaxRows
  /\ seal[x].exists /\ Answers(x) => SerialAgrees(x, serial)
  /\ seal' = Advanced(x, c)
  /\ IF Answers(x)
     THEN /\ taps' = taps \cup {TapRow(x, c, "verify", ts)}
          /\ nextId' = nextId + 1
     ELSE UNCHANGED <<taps, nextId>>
  /\ Sign(n, x, c)
  /\ UNCHANGED <<chip, sighted, now>>

\* Mutant: a token works twice.
AdoptableAgain(t, ts) ==
  /\ t.source = "t"
  /\ t.verdict = "VALID"
  /\ ts - t.ts <= AdoptWindow

\* service.adopt_tap
Adoptable(t, ts) ==
  /\ t.source = "t"
  /\ t.verdict = "VALID"
  /\ ~t.adopted
  /\ ts - t.ts <= AdoptWindow

\* POST /api/verify with the token of a tap that landed on /t.
VerifyAdopt(n, t, serial, ts) ==
  LET x == t.uid
      adopted == (taps \ {t}) \cup {[t EXCEPT !.adopted = TRUE]}
  IN
  /\ NonceOpen(n, ts)
  /\ Adoptable(t, ts)
  /\ nextId <= MaxRows
  /\ Answers(x) => SerialAgrees(x, serial)
  /\ IF Answers(x)
     THEN /\ taps' = adopted \cup {TapRow(x, t.ctr, "verify", ts)}
          /\ nextId' = nextId + 1
     ELSE taps' = adopted /\ UNCHANGED nextId
  /\ Sign(n, x, t.ctr)
  /\ UNCHANGED <<chip, seal, sighted, now>>

\* Mutant: the counter of a new seal starts at 0.
SealAttachAtZero(x, serial) ==
  /\ ~seal[x].exists
  /\ seal' = [seal EXCEPT ![x] = [exists |-> TRUE, serial |-> serial,
                                  last_counter |-> 0, dead |-> FALSE]]
  /\ UNCHANGED <<chip, taps, nonce, signed, sighted, nextId, now>>

\* POST /api/events SEAL_ATTACH, confirmed: upsert_seal starts the counter at
\* the highest tap accepted while the chip had no seal.
SealAttach(x, serial) ==
  /\ ~seal[x].exists
  /\ \E m \in 0..MaxCounter :
       /\ m = 0 \/ \E t \in taps : t.uid = x /\ t.ctr = m
       /\ \A t \in taps : t.uid = x => t.ctr <= m
       /\ seal' = [seal EXCEPT ![x] = [exists |-> TRUE, serial |-> serial,
                                       last_counter |-> m, dead |-> FALSE]]
  /\ UNCHANGED <<chip, taps, nonce, signed, sighted, nextId, now>>

\* A verified mark_seal_dead, or reconcile reading a dead seal.
SealDead(x) ==
  /\ seal[x].exists /\ ~seal[x].dead
  /\ seal' = [seal EXCEPT ![x].dead = TRUE]
  /\ UNCHANGED <<chip, taps, nonce, signed, sighted, nextId, now>>

\* POST /api/preview, and every request that is refused (a CMAC the chip did
\* not make, a replayed URL, a nonce that is not open, a token that matches no
\* tap, a serial that is not the seal's), leaves the tables as they were.
Refuse == UNCHANGED vars

-----------------------------------------------------------------------------
\* Somebody taps the chip.
TouchChip(x) ==
  /\ chip[x] < MaxCounter
  /\ chip' = [chip EXCEPT ![x] = @ + 1]
  /\ UNCHANGED <<seal, taps, nonce, signed, sighted, nextId, now>>

Tick ==
  /\ now < MaxTime
  /\ now' = now + 1
  /\ UNCHANGED <<chip, seal, taps, nonce, signed, sighted, nextId>>

Clocks == (now - Delay)..now

Request ==
  \/ \E n \in Nonces, ts \in Clocks : Session(n, ts)
  \/ \E x \in Chips, c \in 1..MaxCounter, ts \in Clocks : TagLanding(x, c, ts)
  \/ \E n \in Nonces, x \in Chips, c \in 1..MaxCounter,
        serial \in Serials \cup {AnySerial}, ts \in Clocks :
       VerifyUrl(n, x, c, serial, ts)
  \/ \E n \in Nonces, t \in taps, serial \in Serials \cup {AnySerial},
        ts \in Clocks :
       VerifyAdopt(n, t, serial, ts)
  \/ Refuse

Next ==
  \/ Request
  \/ \E x \in Chips, serial \in Serials : SealAttach(x, serial)
  \/ \E x \in Chips : SealDead(x) \/ TouchChip(x)
  \/ Tick

Spec == Init /\ [][Next]_vars

-----------------------------------------------------------------------------
(* Properties                                                              *)

\* Every table holds rows of its type, with counters the chip has reached.
TypeOK ==
  /\ chip \in [Chips -> 0..MaxCounter]
  /\ seal \in [Chips -> SealRows]
  /\ \A x \in Chips : seal[x].last_counter <= chip[x]
  /\ taps \subseteq TapRows
  /\ \A t \in taps : t.ctr \in 1..chip[t.uid]
  /\ nonce \in [Nonces -> NonceRows]
  /\ signed \subseteq SignedRows
  /\ sighted \subseteq SightedRows
  /\ nextId \in Nat
  /\ now \in Nat

\* One physical tap gives at most one signed scan, whether its URL is sent to
\* /t, to /api/verify or to both, by one phone or several, before or after the
\* seal is attached.
OneSignaturePerTap ==
  \A a, b \in signed : a.uid = b.uid /\ a.ctr = b.ctr => a = b

\* A session nonce backs at most one signed scan.
OneSignaturePerNonce ==
  \A a, b \in signed : a.nonce = b.nonce => a = b

\* One physical tap is sighted at most once, however often its link is opened.
OneSightingPerTap ==
  \A a, b \in sighted : a.uid = b.uid /\ a.ctr = b.ctr => a = b

\* Nothing the server ever accepted can be sent again: every accepted, sighted
\* or signed counter stays behind the replay memory, also across the attach
\* that replaces the tap rows by the seal's counter.  So the counter a seal
\* account has on chain is never ahead of the database.
UsedTapIsReplay ==
  /\ \A t \in taps : Replayed(t.uid, t.ctr)
  /\ \A s \in signed \cup sighted : seal[s.uid].exists /\ Replayed(s.uid, s.ctr)

\* A seal that died after its tap landed on /t gets no signature any more, not
\* by adoption either, and its taps are no longer sightings.
DeadSealSilent ==
  [][\A x \in Chips :
       seal[x].dead =>
         /\ seal'[x].dead
         /\ \A s \in (signed' \ signed) \cup (sighted' \ sighted) : s.uid # x]_vars

=============================================================================
