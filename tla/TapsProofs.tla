----------------------------- MODULE TapsProofs -----------------------------
(***************************************************************************)
(* Proofs about the verifier's front door for every set of chips, serials  *)
(* and nonces, every life time and every delay of the clock.               *)
(***************************************************************************)
EXTENDS Taps, TLAPS

USE TapsAssumption

\* A counter is landed on /t at most once.
LandedOnce ==
  \A a, b \in taps :
    a.source = "t" /\ b.source = "t" /\ a.uid = b.uid /\ a.ctr = b.ctr => a = b

\* A tap whose token still waits for adoption has no signature yet.
WaitingUnsigned ==
  \A t \in taps, s \in signed :
    t.source = "t" /\ ~t.adopted => ~(s.uid = t.uid /\ s.ctr = t.ctr)

\* A nonce behind a signature is never open again.
SpentNonces == \A s \in signed : nonce[s.nonce].state \in {"used", "gone"}

\* Only an attached seal is dead.
DeadAttached == \A x \in Chips : seal[x].dead => seal[x].exists

\* The inductive invariant: the four properties of the runs and the facts that
\* carry a tap from /t to its adoption.
Inv ==
  /\ UsedTapIsReplay
  /\ LandedOnce
  /\ WaitingUnsigned
  /\ SpentNonces
  /\ DeadAttached
  /\ OneSignaturePerTap
  /\ OneSightingPerTap
  /\ OneSignaturePerNonce

-----------------------------------------------------------------------------
(* Types                                                                   *)

\* The row a handler writes for an accepted tap.
LEMMA TapRowType ==
  ASSUME TypeOK, NEW x \in Chips, NEW c \in Nat, NEW ts \in Int,
         NEW source \in {"t", "verify"}
  PROVE  TapRow(x, c, source, ts) \in TapRows
<1>1. nextId \in Nat
  BY DEF TypeOK
<1>2. (IF seal[x].exists THEN "VALID" ELSE "UNREGISTERED")
        \in {"VALID", "UNREGISTERED"}
  OBVIOUS
<1>3. QED
  BY <1>1, <1>2 DEF TapRow, TapRows

\* Consuming a counter keeps the seals table typed and behind the chips.
LEMMA AdvancedType ==
  ASSUME TypeOK, NEW x \in Chips, NEW c \in Nat, c <= chip[x]
  PROVE  /\ Advanced(x, c) \in [Chips -> SealRows]
         /\ \A y \in Chips : Advanced(x, c)[y].last_counter <= chip[y]
<1>1. seal \in [Chips -> SealRows] /\ seal[x] \in SealRows
  BY DEF TypeOK
<1>2. \A y \in Chips : seal[y].last_counter <= chip[y]
  BY DEF TypeOK
<1>3. [seal[x] EXCEPT !.last_counter = c] \in SealRows
  BY <1>1 DEF SealRows
<1>4. [seal EXCEPT ![x].last_counter = c] \in [Chips -> SealRows]
  BY <1>1, <1>3
<1>5. \A y \in Chips :
        [seal EXCEPT ![x].last_counter = c][y].last_counter <= chip[y]
  <2>1. TAKE y \in Chips
  <2>2. CASE y = x
    BY <1>1, <2>2 DEF SealRows
  <2>3. CASE y # x
    BY <1>1, <1>2, <2>3
  <2>4. QED
    BY <2>2, <2>3
<1>6. CASE seal[x].exists
  BY <1>4, <1>5, <1>6 DEF Advanced
<1>7. CASE ~seal[x].exists
  BY <1>1, <1>2, <1>7 DEF Advanced
<1>8. QED
  BY <1>6, <1>7

\* A fresh counter is one the chip has reached.
LEMMA FreshReached ==
  ASSUME TypeOK, NEW x \in Chips, NEW c, Fresh(x, c)
  PROVE  c \in Nat /\ 1 <= c /\ c <= chip[x] /\ ~Replayed(x, c)
<1>1. chip[x] \in Nat
  BY DEF TypeOK
<1>2. QED
  BY <1>1 DEF Fresh

\* Marking a nonce used keeps the nonces table typed.
LEMMA NonceUsedType ==
  ASSUME TypeOK, NEW n \in Nonces
  PROVE  [nonce EXCEPT ![n].state = "used"] \in [Nonces -> NonceRows]
<1>1. nonce \in [Nonces -> NonceRows] /\ nonce[n] \in NonceRows
  BY DEF TypeOK
<1>2. [nonce[n] EXCEPT !.state = "used"] \in NonceRows
  BY <1>1 DEF NonceRows
<1>3. QED
  BY <1>1, <1>2

\* The end of /api/verify keeps signatures and nonces typed.
LEMMA SignType ==
  ASSUME TypeOK, NEW n \in Nonces, NEW x \in Chips, NEW c \in Nat, Sign(n, x, c)
  PROVE  signed' \subseteq SignedRows /\ nonce' \in [Nonces -> NonceRows]
<1>1. signed \subseteq SignedRows /\ nonce \in [Nonces -> NonceRows]
      /\ nextId \in Nat
  BY DEF TypeOK
<1>2. [id |-> nextId, uid |-> x, ctr |-> c, nonce |-> n] \in SignedRows
  BY <1>1 DEF SignedRows
<1>3. CASE seal[x].exists /\ Answers(x)
  BY <1>1, <1>2, <1>3, NonceUsedType DEF Sign
<1>4. CASE ~(seal[x].exists /\ Answers(x))
  BY <1>1, <1>4 DEF Sign
<1>5. QED
  BY <1>3, <1>4

\* POST /api/session keeps every type.
LEMMA SessionType ==
  ASSUME TypeOK, NEW n \in Nonces, NEW ts \in Int, Session(n, ts)
  PROVE  TypeOK'
<1>1. nonce \in [Nonces -> NonceRows]
  BY DEF TypeOK
<1>2. ASSUME NEW m \in Nonces
      PROVE  [nonce[m] EXCEPT !.state = "gone"] \in NonceRows
  BY <1>1 DEF NonceRows
<1>3. [state |-> "open", expires_at |-> ts + NonceTtl] \in NonceRows
  BY DEF NonceRows
<1>4. nonce' \in [Nonces -> NonceRows]
  BY <1>1, <1>2, <1>3 DEF Session
<1>5. QED
  BY <1>4 DEF Session, TypeOK

\* GET /t keeps every type.
LEMMA TagLandingType ==
  ASSUME TypeOK, NEW x \in Chips, NEW c, NEW ts \in Int, TagLanding(x, c, ts)
  PROVE  TypeOK'
<1>1. c \in Nat /\ 1 <= c /\ c <= chip[x]
  BY FreshReached DEF TagLanding
<1>2. /\ seal' \in [Chips -> SealRows]
      /\ \A y \in Chips : seal'[y].last_counter <= chip[y]
  BY <1>1, AdvancedType DEF TagLanding
<1>3. TapRow(x, c, "t", ts) \in TapRows
  BY <1>1, TapRowType
<1>4. /\ taps' = taps \/ taps' = taps \cup {TapRow(x, c, "t", ts)}
      /\ nextId' = nextId \/ nextId' = nextId + 1
  BY DEF TagLanding
<1>5. TapRow(x, c, "t", ts).uid = x /\ TapRow(x, c, "t", ts).ctr = c
  BY DEF TapRow
<1>6. taps' \subseteq TapRows /\ \A t \in taps' : t.ctr \in 1..chip[t.uid]
  <2>1. c \in 1..chip[x]
    BY <1>1 DEF TypeOK
  <2>2. QED
    BY <1>3, <1>4, <1>5, <2>1 DEF TypeOK
<1>7. sighted' \subseteq SightedRows
  BY <1>1 DEF TagLanding, TypeOK, SightedRows
<1>8. QED
  BY <1>2, <1>4, <1>6, <1>7 DEF TagLanding, TypeOK

\* POST /api/verify with a URL keeps every type.
LEMMA VerifyUrlType ==
  ASSUME TypeOK, NEW n \in Nonces, NEW x \in Chips, NEW c, NEW serial,
         NEW ts \in Int, VerifyUrl(n, x, c, serial, ts)
  PROVE  TypeOK'
<1>1. c \in Nat /\ 1 <= c /\ c <= chip[x]
  BY FreshReached DEF VerifyUrl
<1>2. /\ seal' \in [Chips -> SealRows]
      /\ \A y \in Chips : seal'[y].last_counter <= chip[y]
  BY <1>1, AdvancedType DEF VerifyUrl
<1>3. TapRow(x, c, "verify", ts) \in TapRows
  BY <1>1, TapRowType
<1>4. /\ taps' = taps \/ taps' = taps \cup {TapRow(x, c, "verify", ts)}
      /\ nextId' = nextId \/ nextId' = nextId + 1
  BY DEF VerifyUrl
<1>5. TapRow(x, c, "verify", ts).uid = x /\ TapRow(x, c, "verify", ts).ctr = c
  BY DEF TapRow
<1>6. taps' \subseteq TapRows /\ \A t \in taps' : t.ctr \in 1..chip[t.uid]
  <2>1. c \in 1..chip[x]
    BY <1>1 DEF TypeOK
  <2>2. QED
    BY <1>3, <1>4, <1>5, <2>1 DEF TypeOK
<1>7. signed' \subseteq SignedRows /\ nonce' \in [Nonces -> NonceRows]
  BY <1>1, SignType DEF VerifyUrl
<1>8. QED
  BY <1>2, <1>4, <1>6, <1>7 DEF VerifyUrl, TypeOK

\* What the adoption of a tap does to the rows of the taps table.
LEMMA AdoptedRows ==
  ASSUME TypeOK, NEW n \in Nonces, NEW t \in taps, NEW serial, NEW ts \in Int,
         VerifyAdopt(n, t, serial, ts)
  PROVE  \A r \in taps' :
           \/ r \in taps /\ r # t
           \/ r = [t EXCEPT !.adopted = TRUE]
           \/ r = TapRow(t.uid, t.ctr, "verify", ts)
BY DEF VerifyAdopt

\* POST /api/verify with an adoption token keeps every type.
LEMMA VerifyAdoptType ==
  ASSUME TypeOK, NEW n \in Nonces, NEW t \in taps, NEW serial, NEW ts \in Int,
         VerifyAdopt(n, t, serial, ts)
  PROVE  TypeOK'
<1>1. t \in TapRows /\ t.ctr \in 1..chip[t.uid]
  BY DEF TypeOK
<1>2. t.uid \in Chips /\ t.ctr \in Nat
  BY <1>1 DEF TapRows
<1>3. TapRow(t.uid, t.ctr, "verify", ts) \in TapRows
  BY <1>2, TapRowType
<1>4. [t EXCEPT !.adopted = TRUE] \in TapRows
  BY <1>1 DEF TapRows
<1>5. /\ [t EXCEPT !.adopted = TRUE].uid = t.uid
      /\ [t EXCEPT !.adopted = TRUE].ctr = t.ctr
  BY <1>1 DEF TapRows
<1>6. /\ TapRow(t.uid, t.ctr, "verify", ts).uid = t.uid
      /\ TapRow(t.uid, t.ctr, "verify", ts).ctr = t.ctr
  BY DEF TapRow
<1>7. taps' \subseteq TapRows /\ \A r \in taps' : r.ctr \in 1..chip[r.uid]
  <2>1. \A r \in taps' :
          \/ r \in taps /\ r # t
          \/ r = [t EXCEPT !.adopted = TRUE]
          \/ r = TapRow(t.uid, t.ctr, "verify", ts)
    BY AdoptedRows
  <2>2. SUFFICES ASSUME NEW r \in taps'
                 PROVE  r \in TapRows /\ r.ctr \in 1..chip[r.uid]
    OBVIOUS
  <2>3. CASE r \in taps
    BY <2>3 DEF TypeOK
  <2>4. CASE r = [t EXCEPT !.adopted = TRUE]
    BY <2>4, <1>1, <1>4, <1>5
  <2>5. CASE r = TapRow(t.uid, t.ctr, "verify", ts)
    BY <2>5, <1>1, <1>3, <1>6
  <2>6. QED
    BY <2>1, <2>3, <2>4, <2>5
<1>8. signed' \subseteq SignedRows /\ nonce' \in [Nonces -> NonceRows]
  BY <1>2, SignType DEF VerifyAdopt
<1>9. nextId' \in Nat
  BY DEF VerifyAdopt, TypeOK
<1>10. QED
  BY <1>7, <1>8, <1>9 DEF VerifyAdopt, TypeOK

\* A confirmed SEAL_ATTACH keeps every type.
LEMMA SealAttachType ==
  ASSUME TypeOK, NEW x \in Chips, NEW serial \in Serials, SealAttach(x, serial)
  PROVE  TypeOK'
<1>1. PICK m \in 0..MaxCounter :
        /\ m = 0 \/ \E t \in taps : t.uid = x /\ t.ctr = m
        /\ seal' = [seal EXCEPT ![x] = [exists |-> TRUE, serial |-> serial,
                                        last_counter |-> m, dead |-> FALSE]]
  BY DEF SealAttach
<1>2. m <= chip[x]
  BY <1>1 DEF TypeOK
<1>3. [exists |-> TRUE, serial |-> serial, last_counter |-> m, dead |-> FALSE]
        \in SealRows
  BY DEF SealRows
<1>4. seal' \in [Chips -> SealRows]
  BY <1>1, <1>3 DEF TypeOK
<1>5. \A y \in Chips : seal'[y].last_counter <= chip[y]
  BY <1>1, <1>2 DEF TypeOK
<1>6. QED
  BY <1>4, <1>5 DEF SealAttach, TypeOK

\* A dead seal keeps its row and its counter.
LEMMA SealDeadType ==
  ASSUME TypeOK, NEW x \in Chips, SealDead(x)
  PROVE  TypeOK'
<1>1. seal \in [Chips -> SealRows] /\ seal[x] \in SealRows
  BY DEF TypeOK
<1>2. /\ [seal[x] EXCEPT !.dead = TRUE] \in SealRows
      /\ [seal[x] EXCEPT !.dead = TRUE].last_counter = seal[x].last_counter
  BY <1>1 DEF SealRows
<1>3. seal' \in [Chips -> SealRows]
  BY <1>1, <1>2 DEF SealDead
<1>4. \A y \in Chips : seal'[y].last_counter <= chip[y]
  BY <1>1, <1>2 DEF SealDead, TypeOK
<1>5. QED
  BY <1>3, <1>4 DEF SealDead, TypeOK

\* A tap of a chip leaves every used counter behind the chip's.
LEMMA TouchChipType ==
  ASSUME TypeOK, NEW x \in Chips, TouchChip(x)
  PROVE  TypeOK'
<1>1. chip' \in [Chips -> 0..MaxCounter] /\ \A y \in Chips : chip[y] <= chip'[y]
  BY DEF TouchChip, TypeOK
<1>2. \A y \in Chips : seal[y].last_counter <= chip'[y]
  <2>1. TAKE y \in Chips
  <2>2. seal[y].last_counter \in Nat /\ chip[y] \in Nat /\ chip'[y] \in Nat
    BY <1>1 DEF TypeOK, SealRows
  <2>3. QED
    BY <1>1, <2>2 DEF TypeOK
<1>3. \A t \in taps : t.ctr \in 1..chip'[t.uid]
  <2>1. TAKE t \in taps
  <2>2. t.uid \in Chips /\ t.ctr \in 1..chip[t.uid]
    BY DEF TypeOK, TapRows
  <2>3. QED
    BY <1>1, <2>2 DEF TypeOK
<1>4. QED
  BY <1>1, <1>2, <1>3 DEF TouchChip, TypeOK

\* The handlers' clock is an integer.
LEMMA ClocksType == ASSUME TypeOK PROVE Clocks \subseteq Int
BY DEF Clocks, TypeOK

\* Every step keeps every type.
LEMMA TypeStep == TypeOK /\ [Next]_vars => TypeOK'
<1>1. SUFFICES ASSUME TypeOK, [Next]_vars PROVE TypeOK'
  OBVIOUS
<1>2. CASE Request
  <2>1. ASSUME NEW n \in Nonces, NEW ts \in Clocks, Session(n, ts) PROVE TypeOK'
    BY <1>1, <2>1, ClocksType, SessionType
  <2>2. ASSUME NEW x \in Chips, NEW c \in 1..MaxCounter, NEW ts \in Clocks,
               TagLanding(x, c, ts)
        PROVE TypeOK'
    BY <1>1, <2>2, ClocksType, TagLandingType
  <2>3. ASSUME NEW n \in Nonces, NEW x \in Chips, NEW c \in 1..MaxCounter,
               NEW serial \in Serials \cup {AnySerial}, NEW ts \in Clocks,
               VerifyUrl(n, x, c, serial, ts)
        PROVE TypeOK'
    BY <1>1, <2>3, ClocksType, VerifyUrlType
  <2>4. ASSUME NEW n \in Nonces, NEW t \in taps,
               NEW serial \in Serials \cup {AnySerial}, NEW ts \in Clocks,
               VerifyAdopt(n, t, serial, ts)
        PROVE TypeOK'
    BY <1>1, <2>4, ClocksType, VerifyAdoptType
  <2>5. CASE Refuse
    BY <1>1, <2>5 DEF Refuse, vars, TypeOK
  <2>6. QED
    BY <1>2, <2>1, <2>2, <2>3, <2>4, <2>5 DEF Request
<1>3. ASSUME NEW x \in Chips, NEW serial \in Serials, SealAttach(x, serial)
      PROVE TypeOK'
  BY <1>1, <1>3, SealAttachType
<1>4. ASSUME NEW x \in Chips, SealDead(x) \/ TouchChip(x) PROVE TypeOK'
  BY <1>1, <1>4, SealDeadType, TouchChipType
<1>5. CASE Tick
  BY <1>1, <1>5 DEF Tick, TypeOK
<1>6. CASE UNCHANGED vars
  BY <1>1, <1>6 DEF vars, TypeOK
<1>7. QED
  BY <1>1, <1>2, <1>3, <1>4, <1>5, <1>6 DEF Next

\* The tables of an empty database have their types.
LEMMA TypeInit == Init => TypeOK
BY DEF Init, TypeOK, SealRows, NonceRows

-----------------------------------------------------------------------------
(* The inductive invariant                                                 *)

\* Nothing accepted, signed or sighted carries a fresh counter.
LEMMA FreshIsNew ==
  ASSUME UsedTapIsReplay, NEW x \in Chips, NEW c, Fresh(x, c)
  PROVE  /\ \A t \in taps : ~(t.uid = x /\ t.ctr = c)
         /\ \A s \in signed : ~(s.uid = x /\ s.ctr = c)
         /\ \A s \in sighted : ~(s.uid = x /\ s.ctr = c)
BY DEF UsedTapIsReplay, Fresh

\* The replay memory only grows when a counter is consumed, and then holds it.
LEMMA ConsumedIsReplay ==
  ASSUME TypeOK, NEW x \in Chips, NEW c, Fresh(x, c),
         seal' = Advanced(x, c), taps \subseteq taps',
         seal[x].exists \/ \E t \in taps' : t.uid = x /\ t.ctr = c
  PROVE  /\ \A y \in Chips : seal'[y].exists = seal[y].exists
         /\ \A y \in Chips : seal'[y].dead = seal[y].dead
         /\ \A y \in Chips, d \in Nat : Replayed(y, d) => Replayed(y, d)'
         /\ Replayed(x, c)'
<1>1. c \in Nat /\ ~Replayed(x, c)
  BY FreshReached
<1>2. seal \in [Chips -> SealRows] /\ seal[x] \in SealRows
  BY DEF TypeOK
<1>3. \A y \in Chips : /\ seal'[y].exists = seal[y].exists
                       /\ seal'[y].dead = seal[y].dead
  <2>1. TAKE y \in Chips
  <2>2. CASE seal[x].exists /\ y = x
    BY <1>2, <2>2 DEF Advanced, SealRows
  <2>3. CASE ~(seal[x].exists /\ y = x)
    BY <1>2, <2>3 DEF Advanced
  <2>4. QED
    BY <2>2, <2>3
<1>4. CASE seal[x].exists
  <2>1. seal'[x].last_counter = c /\ seal[x].last_counter \in Nat
    BY <1>2, <1>4 DEF Advanced, SealRows
  <2>2. seal[x].last_counter < c
    BY <1>1, <1>4, <2>1 DEF Replayed
  <2>3. \A y \in Chips : y # x => seal'[y] = seal[y]
    BY <1>2, <1>4 DEF Advanced
  <2>4. Replayed(x, c)'
    BY <1>1, <1>3, <1>4, <2>1 DEF Replayed
  <2>5. ASSUME NEW y \in Chips, NEW d \in Nat, Replayed(y, d)
        PROVE  Replayed(y, d)'
    <3>1. CASE y = x
      BY <1>1, <1>3, <1>4, <2>1, <2>2, <2>5, <3>1 DEF Replayed
    <3>2. CASE y # x
      BY <2>3, <2>5, <3>2 DEF Replayed
    <3>3. QED
      BY <3>1, <3>2
  <2>6. QED
    BY <1>3, <2>4, <2>5
<1>5. CASE ~seal[x].exists
  <2>1. seal' = seal
    BY <1>5 DEF Advanced
  <2>2. Replayed(x, c)'
    BY <1>1, <1>5, <2>1 DEF Replayed
  <2>3. ASSUME NEW y \in Chips, NEW d \in Nat, Replayed(y, d)
        PROVE  Replayed(y, d)'
    BY <2>1, <2>3 DEF Replayed
  <2>4. QED
    BY <1>3, <2>2, <2>3
<1>6. QED
  BY <1>4, <1>5

\* The facts about types that the invariant's steps use.
LEMMA RowFields ==
  ASSUME TypeOK
  PROVE  /\ \A t \in taps : t.uid \in Chips /\ t.ctr \in Nat
         /\ \A s \in signed : s.uid \in Chips /\ s.ctr \in Nat /\ s.nonce \in Nonces
         /\ \A s \in sighted : s.uid \in Chips /\ s.ctr \in Nat
BY DEF TypeOK, TapRows, SignedRows, SightedRows

\* A step that writes only nonces keeps the invariant if spent nonces stay
\* spent.
LEMMA SessionInv ==
  ASSUME TypeOK, Inv, NEW n \in Nonces, NEW ts \in Int, Session(n, ts)
  PROVE  Inv'
<1>1. UNCHANGED <<seal, taps, signed, sighted>>
  BY DEF Session
<1>2. SpentNonces'
  <2>1. SUFFICES ASSUME NEW s \in signed
                 PROVE  nonce'[s.nonce].state \in {"used", "gone"}
    BY <1>1 DEF SpentNonces
  <2>2. s.nonce \in Nonces /\ nonce[s.nonce].state \in {"used", "gone"}
    BY RowFields DEF Inv, SpentNonces
  <2>3. s.nonce # n
    BY <2>2 DEF Session
  <2>4. nonce[s.nonce] \in NonceRows
    BY <2>2 DEF TypeOK
  <2>5. /\ nonce'[s.nonce] = nonce[s.nonce]
           \/ nonce'[s.nonce] = [nonce[s.nonce] EXCEPT !.state = "gone"]
    BY <2>2, <2>3 DEF Session
  <2>6. QED
    BY <2>2, <2>4, <2>5 DEF NonceRows
<1>3. QED
  BY <1>1, <1>2 DEF Inv, UsedTapIsReplay, LandedOnce, WaitingUnsigned,
     DeadAttached, OneSignaturePerTap, OneSightingPerTap, OneSignaturePerNonce,
     Replayed

\* GET /t keeps the invariant: the counter it lands was never seen before.
LEMMA TagLandingInv ==
  ASSUME TypeOK, Inv, NEW x \in Chips, NEW c, NEW ts \in Int,
         TagLanding(x, c, ts)
  PROVE  Inv'
<1> DEFINE row == TapRow(x, c, "t", ts)
           sight == [id |-> nextId, uid |-> x, ctr |-> c]
<1>1. /\ Fresh(x, c) /\ seal' = Advanced(x, c)
      /\ UNCHANGED <<nonce, signed>>
  BY DEF TagLanding
<1>2. \/ taps' = taps /\ ~Answers(x)
      \/ taps' = taps \cup {row}
  BY DEF TagLanding
<1>3. \/ sighted' = sighted
      \/ sighted' = sighted \cup {sight} /\ seal[x].exists
  BY DEF TagLanding
<1>4. row.uid = x /\ row.ctr = c /\ row.source = "t"
  BY DEF TapRow
<1>5. c \in Nat
  BY <1>1, FreshReached
<1>6. /\ \A t \in taps : ~(t.uid = x /\ t.ctr = c)
      /\ \A s \in signed : ~(s.uid = x /\ s.ctr = c)
      /\ \A s \in sighted : ~(s.uid = x /\ s.ctr = c)
  BY <1>1, FreshIsNew DEF Inv
<1>7. seal[x].exists \/ \E t \in taps' : t.uid = x /\ t.ctr = c
  BY <1>2, <1>4 DEF Inv, DeadAttached, Answers
<1>8. /\ \A y \in Chips : seal'[y].exists = seal[y].exists
      /\ \A y \in Chips : seal'[y].dead = seal[y].dead
      /\ \A y \in Chips, d \in Nat : Replayed(y, d) => Replayed(y, d)'
      /\ Replayed(x, c)'
  <2>1. taps \subseteq taps'
    BY <1>2
  <2>2. QED
    BY <1>1, <1>7, <2>1, ConsumedIsReplay
<1> HIDE DEF row
<1>9. UsedTapIsReplay'
  <2>1. ASSUME NEW t \in taps' PROVE Replayed(t.uid, t.ctr)'
    <3>1. CASE t \in taps
      BY <1>8, <3>1, RowFields DEF Inv, UsedTapIsReplay
    <3>2. CASE t = row
      BY <1>4, <1>8, <3>2
    <3>3. QED
      BY <1>2, <3>1, <3>2
  <2>2. ASSUME NEW s \in signed' \cup sighted'
        PROVE  seal'[s.uid].exists /\ Replayed(s.uid, s.ctr)'
    <3>1. CASE s \in signed \cup sighted
      BY <1>8, <3>1, RowFields DEF Inv, UsedTapIsReplay
    <3>2. CASE s = sight /\ seal[x].exists
      BY <1>8, <3>2
    <3>3. QED
      BY <1>1, <1>3, <3>1, <3>2
  <2>3. QED
    BY <2>1, <2>2 DEF UsedTapIsReplay
<1>10. LandedOnce'
  BY <1>2, <1>4, <1>6 DEF Inv, LandedOnce
<1>11. WaitingUnsigned'
  BY <1>1, <1>2, <1>4, <1>6 DEF Inv, WaitingUnsigned
<1>12. SpentNonces' /\ DeadAttached'
  BY <1>1, <1>8 DEF Inv, SpentNonces, DeadAttached
<1>13. OneSightingPerTap'
  BY <1>3, <1>6 DEF Inv, OneSightingPerTap
<1>14. OneSignaturePerTap' /\ OneSignaturePerNonce'
  BY <1>1 DEF Inv, OneSignaturePerTap, OneSignaturePerNonce
<1>15. QED
  BY <1>9, <1>10, <1>11, <1>12, <1>13, <1>14 DEF Inv

\* A nonce that is open has signed nothing; signing with it spends it.
LEMMA SignSpends ==
  ASSUME TypeOK, SpentNonces, OneSignaturePerNonce, NEW n \in Nonces,
         NEW x \in Chips, NEW c, nonce[n].state = "open", Sign(n, x, c)
  PROVE  SpentNonces' /\ OneSignaturePerNonce'
<1> DEFINE sig == [id |-> nextId, uid |-> x, ctr |-> c, nonce |-> n]
<1>1. CASE ~(seal[x].exists /\ Answers(x))
  BY <1>1 DEF Sign, SpentNonces, OneSignaturePerNonce
<1>2. CASE seal[x].exists /\ Answers(x)
  <2>1. /\ signed' = signed \cup {sig}
        /\ nonce' = [nonce EXCEPT ![n].state = "used"]
    BY <1>2 DEF Sign
  <2>2. \A s \in signed : s.nonce \in Nonces /\ s.nonce # n
    BY RowFields DEF SpentNonces
  <2>3. nonce \in [Nonces -> NonceRows] /\ nonce[n] \in NonceRows
    BY DEF TypeOK
  <2>4. nonce'[n].state = "used"
    BY <2>1, <2>3 DEF NonceRows
  <2>5. \A m \in Nonces : m # n => nonce'[m] = nonce[m]
    BY <2>1, <2>3
  <2>6. SpentNonces'
    BY <2>1, <2>2, <2>4, <2>5 DEF SpentNonces
  <2>7. OneSignaturePerNonce'
    BY <2>1, <2>2 DEF OneSignaturePerNonce
  <2>8. QED
    BY <2>6, <2>7
<1>3. QED
  BY <1>1, <1>2

\* /api/verify with a URL keeps the invariant: a fresh counter has no
\* signature, and it is consumed in the same transaction.
LEMMA VerifyUrlInv ==
  ASSUME TypeOK, Inv, NEW n \in Nonces, NEW x \in Chips, NEW c, NEW serial,
         NEW ts \in Int, VerifyUrl(n, x, c, serial, ts)
  PROVE  Inv'
<1> DEFINE row == TapRow(x, c, "verify", ts)
           sig == [id |-> nextId, uid |-> x, ctr |-> c, nonce |-> n]
<1>1. /\ Fresh(x, c) /\ seal' = Advanced(x, c) /\ Sign(n, x, c)
      /\ nonce[n].state = "open"
      /\ UNCHANGED sighted
  BY DEF VerifyUrl, NonceOpen
<1>2. \/ taps' = taps /\ ~Answers(x)
      \/ taps' = taps \cup {row}
  BY DEF VerifyUrl
<1>3. \/ signed' = signed
      \/ signed' = signed \cup {sig} /\ seal[x].exists
  BY <1>1 DEF Sign
<1>4. row.uid = x /\ row.ctr = c /\ row.source = "verify"
  BY DEF TapRow
<1>5. sig.uid = x /\ sig.ctr = c
  OBVIOUS
<1>6. /\ \A t \in taps : ~(t.uid = x /\ t.ctr = c)
      /\ \A s \in signed : ~(s.uid = x /\ s.ctr = c)
  BY <1>1, FreshIsNew DEF Inv
<1>7. seal[x].exists \/ \E t \in taps' : t.uid = x /\ t.ctr = c
  BY <1>2, <1>4 DEF Inv, DeadAttached, Answers
<1>8. /\ \A y \in Chips : seal'[y].exists = seal[y].exists
      /\ \A y \in Chips : seal'[y].dead = seal[y].dead
      /\ \A y \in Chips, d \in Nat : Replayed(y, d) => Replayed(y, d)'
      /\ Replayed(x, c)'
  <2>1. taps \subseteq taps'
    BY <1>2
  <2>2. QED
    BY <1>1, <1>7, <2>1, ConsumedIsReplay
<1>9. SpentNonces' /\ OneSignaturePerNonce'
  BY <1>1, SignSpends DEF Inv
<1> HIDE DEF row, sig
<1>10. UsedTapIsReplay'
  <2>1. ASSUME NEW t \in taps' PROVE Replayed(t.uid, t.ctr)'
    <3>1. CASE t \in taps
      BY <1>8, <3>1, RowFields DEF Inv, UsedTapIsReplay
    <3>2. CASE t = row
      BY <1>4, <1>8, <3>2
    <3>3. QED
      BY <1>2, <3>1, <3>2
  <2>2. ASSUME NEW s \in signed' \cup sighted'
        PROVE  seal'[s.uid].exists /\ Replayed(s.uid, s.ctr)'
    <3>1. CASE s \in signed \cup sighted
      BY <1>8, <3>1, RowFields DEF Inv, UsedTapIsReplay
    <3>2. CASE s = sig /\ seal[x].exists
      BY <1>5, <1>8, <3>2
    <3>3. QED
      BY <1>1, <1>3, <3>1, <3>2
  <2>3. QED
    BY <2>1, <2>2 DEF UsedTapIsReplay
<1>11. LandedOnce'
  BY <1>2, <1>4 DEF Inv, LandedOnce
<1>12. WaitingUnsigned'
  BY <1>2, <1>3, <1>4, <1>5, <1>6 DEF Inv, WaitingUnsigned
<1>13. DeadAttached'
  BY <1>8 DEF Inv, DeadAttached
<1>14. OneSignaturePerTap'
  BY <1>3, <1>5, <1>6 DEF Inv, OneSignaturePerTap
<1>15. OneSightingPerTap'
  BY <1>1 DEF Inv, OneSightingPerTap
<1>16. QED
  BY <1>9, <1>10, <1>11, <1>12, <1>13, <1>14, <1>15 DEF Inv

\* /api/verify with a token keeps the invariant: the token's tap waits, so it
\* is unsigned, and it stops waiting when it is signed.
LEMMA VerifyAdoptInv ==
  ASSUME TypeOK, Inv, NEW n \in Nonces, NEW t \in taps, NEW serial,
         NEW ts \in Int, VerifyAdopt(n, t, serial, ts)
  PROVE  Inv'
<1> DEFINE x == t.uid
           row == TapRow(x, t.ctr, "verify", ts)
           old == [t EXCEPT !.adopted = TRUE]
           sig == [id |-> nextId, uid |-> x, ctr |-> t.ctr, nonce |-> n]
<1>1. /\ Sign(n, x, t.ctr) /\ nonce[n].state = "open"
      /\ t.source = "t" /\ ~t.adopted
      /\ UNCHANGED <<seal, sighted>>
  BY DEF VerifyAdopt, NonceOpen, Adoptable
<1>2. t \in TapRows /\ x \in Chips /\ t.ctr \in Nat
  BY DEF TypeOK, TapRows
<1>3. /\ \A r \in taps' : (r \in taps /\ r # t) \/ r = old \/ r = row
      /\ \A r \in taps : r = t \/ r \in taps'
      /\ old \in taps'
  BY DEF VerifyAdopt
<1>4. \/ signed' = signed
      \/ signed' = signed \cup {sig} /\ seal[x].exists
  BY <1>1 DEF Sign
<1>5. /\ row.uid = x /\ row.ctr = t.ctr /\ row.source = "verify"
      /\ sig.uid = x /\ sig.ctr = t.ctr
  BY DEF TapRow
<1>6. old.uid = x /\ old.ctr = t.ctr /\ old.source = "t" /\ old.adopted
  BY <1>1, <1>2 DEF TapRows
<1>7. SpentNonces' /\ OneSignaturePerNonce'
  BY <1>1, <1>2, SignSpends DEF Inv
<1>8. \A y \in Chips, d \in Nat : Replayed(y, d) => Replayed(y, d)'
  <2>1. ASSUME NEW y \in Chips, NEW d \in Nat, NEW r \in taps,
               r.uid = y, d <= r.ctr
        PROVE  \E q \in taps' : q.uid = y /\ d <= q.ctr
    BY <1>3, <1>6, <2>1
  <2>2. QED
    BY <1>1, <2>1 DEF Replayed
<1>9. Replayed(x, t.ctr)'
  BY <1>2, <1>8 DEF Inv, UsedTapIsReplay
<1>10. \A s \in signed : ~(s.uid = x /\ s.ctr = t.ctr)
  BY <1>1 DEF Inv, WaitingUnsigned
<1>11. \A r \in taps : r.source = "t" /\ r.uid = x /\ r.ctr = t.ctr => r = t
  BY <1>1 DEF Inv, LandedOnce
<1> HIDE DEF x, row, old, sig
<1>12. UsedTapIsReplay'
  <2>1. ASSUME NEW r \in taps' PROVE Replayed(r.uid, r.ctr)'
    <3>1. CASE r \in taps
      BY <1>8, <3>1, RowFields DEF Inv, UsedTapIsReplay
    <3>2. CASE r = old \/ r = row
      BY <1>5, <1>6, <1>9, <3>2
    <3>3. QED
      BY <1>3, <3>1, <3>2
  <2>2. ASSUME NEW s \in signed' \cup sighted'
        PROVE  seal'[s.uid].exists /\ Replayed(s.uid, s.ctr)'
    <3>1. CASE s \in signed \cup sighted
      BY <1>1, <1>8, <3>1, RowFields DEF Inv, UsedTapIsReplay
    <3>2. CASE s = sig /\ seal[x].exists
      BY <1>1, <1>5, <1>9, <3>2
    <3>3. QED
      BY <1>1, <1>4, <3>1, <3>2
  <2>3. QED
    BY <2>1, <2>2 DEF UsedTapIsReplay
<1>13. LandedOnce'
  BY <1>3, <1>5, <1>6, <1>11 DEF Inv, LandedOnce
<1>14. WaitingUnsigned'
  BY <1>3, <1>4, <1>5, <1>6, <1>11 DEF Inv, WaitingUnsigned
<1>15. DeadAttached' /\ OneSightingPerTap'
  BY <1>1 DEF Inv, DeadAttached, OneSightingPerTap
<1>16. OneSignaturePerTap'
  BY <1>4, <1>5, <1>10 DEF Inv, OneSignaturePerTap
<1>17. QED
  BY <1>7, <1>12, <1>13, <1>14, <1>15, <1>16 DEF Inv

\* A confirmed SEAL_ATTACH keeps the invariant: the seal's counter starts at
\* the highest row of the chip, so no row becomes fresh again.
LEMMA SealAttachInv ==
  ASSUME TypeOK, Inv, NEW x \in Chips, NEW serial \in Serials,
         SealAttach(x, serial)
  PROVE  Inv'
<1>1. PICK m \in 0..MaxCounter :
        /\ \A t \in taps : t.uid = x => t.ctr <= m
        /\ seal' = [seal EXCEPT ![x] = [exists |-> TRUE, serial |-> serial,
                                        last_counter |-> m, dead |-> FALSE]]
  BY DEF SealAttach
<1>2. ~seal[x].exists /\ UNCHANGED <<taps, nonce, signed, sighted>>
  BY DEF SealAttach
<1>3. /\ seal'[x].exists /\ ~seal'[x].dead /\ seal'[x].last_counter = m
      /\ \A y \in Chips : y # x => seal'[y] = seal[y]
  BY <1>1 DEF TypeOK
<1>4. ASSUME NEW t \in taps PROVE Replayed(t.uid, t.ctr)'
  <2>1. CASE t.uid = x
    BY <1>1, <1>3, <2>1 DEF Replayed
  <2>2. CASE t.uid # x
    BY <1>2, <1>3, <2>2, RowFields DEF Inv, UsedTapIsReplay, Replayed
  <2>3. QED
    BY <2>1, <2>2
<1>5. ASSUME NEW s \in signed \cup sighted
      PROVE  seal'[s.uid].exists /\ Replayed(s.uid, s.ctr)'
  <2>1. s.uid # x /\ s.uid \in Chips
    BY <1>2, RowFields DEF Inv, UsedTapIsReplay
  <2>2. QED
    BY <1>2, <1>3, <2>1 DEF Inv, UsedTapIsReplay, Replayed
<1>6. UsedTapIsReplay'
  BY <1>2, <1>4, <1>5 DEF UsedTapIsReplay
<1>7. DeadAttached'
  BY <1>3 DEF Inv, DeadAttached
<1>8. QED
  BY <1>2, <1>6, <1>7 DEF Inv, LandedOnce, WaitingUnsigned, SpentNonces,
     OneSignaturePerTap, OneSightingPerTap, OneSignaturePerNonce

\* A dying seal keeps the invariant: its counter and its rows stay.
LEMMA SealDeadInv ==
  ASSUME TypeOK, Inv, NEW x \in Chips, SealDead(x)
  PROVE  Inv'
<1>1. /\ seal[x].exists /\ seal' = [seal EXCEPT ![x].dead = TRUE]
      /\ UNCHANGED <<taps, nonce, signed, sighted>>
  BY DEF SealDead
<1>2. seal \in [Chips -> SealRows] /\ seal[x] \in SealRows
  BY DEF TypeOK
<1>3. \A y \in Chips : /\ seal'[y].exists = seal[y].exists
                       /\ seal'[y].last_counter = seal[y].last_counter
                       /\ y # x => seal'[y] = seal[y]
  BY <1>1, <1>2 DEF SealRows
<1>4. UsedTapIsReplay'
  <2>1. \A y \in Chips, d \in Nat : Replayed(y, d) => Replayed(y, d)'
    BY <1>1, <1>3 DEF Replayed
  <2>2. QED
    BY <1>1, <1>3, <2>1, RowFields DEF Inv, UsedTapIsReplay
<1>5. DeadAttached'
  BY <1>1, <1>3 DEF Inv, DeadAttached
<1>6. QED
  BY <1>1, <1>4, <1>5 DEF Inv, LandedOnce, WaitingUnsigned, SpentNonces,
     OneSignaturePerTap, OneSightingPerTap, OneSignaturePerNonce

\* A step that changes neither tables nor signatures keeps the invariant.
LEMMA QuietInv ==
  ASSUME Inv, UNCHANGED <<seal, taps, nonce, signed, sighted>>
  PROVE  Inv'
BY DEF Inv, UsedTapIsReplay, LandedOnce, WaitingUnsigned, SpentNonces,
   DeadAttached, OneSignaturePerTap, OneSightingPerTap, OneSignaturePerNonce,
   Replayed

\* Every step keeps the invariant.
LEMMA InvStep == TypeOK /\ Inv /\ [Next]_vars => Inv'
<1>1. SUFFICES ASSUME TypeOK, Inv, [Next]_vars PROVE Inv'
  OBVIOUS
<1>2. CASE Request
  <2>1. ASSUME NEW n \in Nonces, NEW ts \in Clocks, Session(n, ts) PROVE Inv'
    BY <1>1, <2>1, ClocksType, SessionInv
  <2>2. ASSUME NEW x \in Chips, NEW c \in 1..MaxCounter, NEW ts \in Clocks,
               TagLanding(x, c, ts)
        PROVE Inv'
    BY <1>1, <2>2, ClocksType, TagLandingInv
  <2>3. ASSUME NEW n \in Nonces, NEW x \in Chips, NEW c \in 1..MaxCounter,
               NEW serial \in Serials \cup {AnySerial}, NEW ts \in Clocks,
               VerifyUrl(n, x, c, serial, ts)
        PROVE Inv'
    BY <1>1, <2>3, ClocksType, VerifyUrlInv
  <2>4. ASSUME NEW n \in Nonces, NEW t \in taps,
               NEW serial \in Serials \cup {AnySerial}, NEW ts \in Clocks,
               VerifyAdopt(n, t, serial, ts)
        PROVE Inv'
    BY <1>1, <2>4, ClocksType, VerifyAdoptInv
  <2>5. CASE Refuse
    BY <1>1, <2>5, QuietInv DEF Refuse, vars
  <2>6. QED
    BY <1>2, <2>1, <2>2, <2>3, <2>4, <2>5 DEF Request
<1>3. ASSUME NEW x \in Chips, NEW serial \in Serials, SealAttach(x, serial)
      PROVE Inv'
  BY <1>1, <1>3, SealAttachInv
<1>4. ASSUME NEW x \in Chips, SealDead(x) PROVE Inv'
  BY <1>1, <1>4, SealDeadInv
<1>5. ASSUME NEW x \in Chips, TouchChip(x) PROVE Inv'
  BY <1>1, <1>5, QuietInv DEF TouchChip
<1>6. CASE Tick
  BY <1>1, <1>6, QuietInv DEF Tick
<1>7. CASE UNCHANGED vars
  BY <1>1, <1>7, QuietInv DEF vars
<1>8. QED
  BY <1>1, <1>2, <1>3, <1>4, <1>5, <1>6, <1>7 DEF Next

-----------------------------------------------------------------------------
(* Theorems                                                                *)

\* Type correctness: every table keeps its rows' types, and no accepted
\* counter is ahead of its chip.
THEOREM TypeCorrect == Spec => []TypeOK
BY TypeInit, TypeStep, PTL DEF Spec

\* The empty database satisfies the invariant.
LEMMA InvInit == Init => Inv
BY DEF Init, Inv, UsedTapIsReplay, LandedOnce, WaitingUnsigned, SpentNonces,
   DeadAttached, OneSignaturePerTap, OneSightingPerTap, OneSignaturePerNonce

\* The inductive invariant holds in every reachable state.
THEOREM Invariant == Spec => []Inv
BY InvInit, InvStep, TypeCorrect, PTL DEF Spec

\* A tap, whatever way it reaches /api/verify, is signed at most once.
THEOREM TapSignedOnce == Spec => []OneSignaturePerTap
<1>1. Inv => OneSignaturePerTap
  BY DEF Inv
<1>2. QED
  BY <1>1, Invariant, PTL

\* A session nonce backs at most one signature.
THEOREM NonceSignsOnce == Spec => []OneSignaturePerNonce
<1>1. Inv => OneSignaturePerNonce
  BY DEF Inv
<1>2. QED
  BY <1>1, Invariant, PTL

\* A tap is sighted at most once.
THEOREM TapSightedOnce == Spec => []OneSightingPerTap
<1>1. Inv => OneSightingPerTap
  BY DEF Inv
<1>2. QED
  BY <1>1, Invariant, PTL

\* Every accepted, sighted or signed counter stays behind the replay memory.
THEOREM UsedTapsReplay == Spec => []UsedTapIsReplay
<1>1. Inv => UsedTapIsReplay
  BY DEF Inv
<1>2. QED
  BY <1>1, Invariant, PTL

\* Only a chip whose seal answers gets a signature or a sighting.
LEMMA NewRowsAnswer ==
  ASSUME [Next]_vars, NEW s \in (signed' \ signed) \cup (sighted' \ sighted)
  PROVE  Answers(s.uid)
<1>1. ASSUME NEW x \in Chips, NEW c, NEW ts, TagLanding(x, c, ts)
      PROVE  Answers(s.uid)
  BY <1>1 DEF TagLanding
<1>2. ASSUME NEW n \in Nonces, NEW x, NEW c, Sign(n, x, c), UNCHANGED sighted
      PROVE  Answers(s.uid)
  BY <1>2 DEF Sign
<1>3. ASSUME NEW n \in Nonces, NEW x \in Chips, NEW c, NEW serial, NEW ts,
             VerifyUrl(n, x, c, serial, ts)
      PROVE  Answers(s.uid)
  BY <1>2, <1>3 DEF VerifyUrl
<1>4. ASSUME NEW n \in Nonces, NEW t \in taps, NEW serial, NEW ts,
             VerifyAdopt(n, t, serial, ts)
      PROVE  Answers(s.uid)
  <2>1. Sign(n, t.uid, t.ctr) /\ UNCHANGED sighted
    BY <1>4 DEF VerifyAdopt
  <2>2. QED
    BY <1>2, <2>1
<1>5. CASE UNCHANGED <<signed, sighted>>
  BY <1>5
<1>6. CASE Request
  <2>1. ASSUME NEW n \in Nonces, NEW ts \in Clocks, Session(n, ts)
        PROVE  Answers(s.uid)
    BY <1>5, <2>1 DEF Session
  <2>2. CASE Refuse
    BY <1>5, <2>2 DEF Refuse, vars
  <2>3. QED
    BY <1>1, <1>3, <1>4, <1>6, <2>1, <2>2 DEF Request
<1>7. QED
  BY <1>5, <1>6 DEF Next, SealAttach, SealDead, TouchChip, Tick, vars

\* No step revives a seal.
LEMMA DeadStaysDead ==
  ASSUME TypeOK, DeadAttached, [Next]_vars, NEW x \in Chips, seal[x].dead
  PROVE  seal'[x].dead
<1>1. seal \in [Chips -> SealRows] /\ \A y \in Chips : seal[y] \in SealRows
  BY DEF TypeOK
<1>2. ASSUME NEW y \in Chips, NEW c, seal' = Advanced(y, c)
      PROVE  seal'[x].dead
  <2>1. CASE seal[y].exists /\ y = x
    BY <1>1, <1>2, <2>1 DEF Advanced, SealRows
  <2>2. CASE ~(seal[y].exists /\ y = x)
    BY <1>1, <1>2, <2>2 DEF Advanced
  <2>3. QED
    BY <2>1, <2>2
<1>3. ASSUME NEW y \in Chips, NEW serial \in Serials, SealAttach(y, serial)
      PROVE  seal'[x].dead
  <2>1. y # x
    BY <1>3 DEF SealAttach, DeadAttached
  <2>2. QED
    BY <1>1, <1>3, <2>1 DEF SealAttach
<1>4. ASSUME NEW y \in Chips, SealDead(y) PROVE seal'[x].dead
  <2>1. y # x /\ seal' = [seal EXCEPT ![y].dead = TRUE]
    BY <1>4 DEF SealDead
  <2>2. QED
    BY <1>1, <2>1
<1>5. CASE UNCHANGED seal
  BY <1>5
<1>6. CASE Request
  <2>1. ASSUME NEW n \in Nonces, NEW ts \in Clocks, Session(n, ts)
        PROVE  UNCHANGED seal
    BY <2>1 DEF Session
  <2>2. ASSUME NEW y \in Chips, NEW c, NEW ts, TagLanding(y, c, ts)
        PROVE  seal' = Advanced(y, c)
    BY <2>2 DEF TagLanding
  <2>3. ASSUME NEW n, NEW y \in Chips, NEW c, NEW serial, NEW ts,
               VerifyUrl(n, y, c, serial, ts)
        PROVE  seal' = Advanced(y, c)
    BY <2>3 DEF VerifyUrl
  <2>4. ASSUME NEW n, NEW t \in taps, NEW serial, NEW ts,
               VerifyAdopt(n, t, serial, ts)
        PROVE  UNCHANGED seal
    BY <2>4 DEF VerifyAdopt
  <2>5. Refuse => UNCHANGED seal
    BY DEF Refuse, vars
  <2>6. QED
    BY <1>2, <1>5, <1>6, <2>1, <2>2, <2>3, <2>4, <2>5 DEF Request
<1>7. QED
  BY <1>3, <1>4, <1>5, <1>6 DEF Next, TouchChip, Tick, vars

\* A seal that died is never signed for or sighted again, whatever was landed
\* before it died.
THEOREM DeadSealsSilent == Spec => DeadSealSilent
<1>1. TypeOK /\ Inv /\ [Next]_vars
        => \A x \in Chips :
             seal[x].dead =>
               /\ seal'[x].dead
               /\ \A s \in (signed' \ signed) \cup (sighted' \ sighted) :
                    s.uid # x
  <2>1. SUFFICES ASSUME TypeOK, Inv, [Next]_vars, NEW x \in Chips, seal[x].dead
                 PROVE  /\ seal'[x].dead
                        /\ \A s \in (signed' \ signed) \cup (sighted' \ sighted) :
                             s.uid # x
    OBVIOUS
  <2>2. seal'[x].dead
    BY <2>1, DeadStaysDead DEF Inv
  <2>3. ASSUME NEW s \in (signed' \ signed) \cup (sighted' \ sighted)
        PROVE  s.uid # x
    BY <2>1, NewRowsAnswer DEF Answers
  <2>4. QED
    BY <2>2, <2>3
<1>2. QED
  BY <1>1, TypeCorrect, Invariant, PTL DEF Spec, DeadSealSilent

=============================================================================
