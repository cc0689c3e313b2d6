------------------------------ MODULE CardReader -----------------------------
(***************************************************************************)
(* From the indicator card in front of the camera to the grade: readCard   *)
(* and readCardFrame for one photo (packages/vision/src/pipeline.ts), the  *)
(* vote over the photos (combine.ts), and what is made of the combined     *)
(* reading (packages/proof/src/grade.ts).                                  *)
(*                                                                         *)
(* Image processing is abstracted to its outcomes: what was found in the   *)
(* photo, and for each sampled region a level, whether the classifier is   *)
(* sure of it, and glare.  The card is the physical one: the fields of its *)
(* heat strip trigger in the order of their temperatures and never turn    *)
(* back.  A classifier that is sure of a region without glare is right; a  *)
(* region with glare may be read as anything.  Only readCardFrame tests    *)
(* for glare: readCard, which reads a card by its marker, believes a sure  *)
(* classifier under a highlight too.  A photo may also be mirrored, or     *)
(* show something else altogether.                                         *)
(***************************************************************************)
EXTENDS Naturals, FiniteSets

CONSTANTS
  NFields,   \* fields of the heat strip, coolest first
  Decisive,  \* the 40 C field
  UvStates,  \* bound: states of the UV field that are tried
  Fills,     \* fill levels that are tried
  MaxFrames, \* bound: photos of one scan
  MaxBad     \* bound: photos among them that show something else, or a highlight
             \* that nothing tests for

ASSUME CardAssumption ==
  /\ NFields \in Nat /\ Decisive \in 1..NFields
  /\ UvStates \subseteq {0, 1} /\ Fills \subseteq 0..100 
  /\ MaxFrames \in Nat \ {0} /\ MaxBad \in Nat

VARIABLES
  card,   \* the real card: fields triggered, humidity, UV
  shots,  \* photos so far: the reading of each, numbered among equal ones
  bad,    \* how many of them show something else
  highlit, \* and how many show a marker card under a highlight
  signed  \* the combined reading that is signed, or None

readerVars == <<card, shots, bad, highlit, signed>>

Fields == 1..NFields
INTACT == 0
TRIGGERED == 1
UNREADABLE == 2
MISSING == 3
isDecided(v) == v \in {INTACT, TRIGGERED}

NoLevels == [i \in Fields |-> 0]
None == [frames |-> 0]

\* The cards there can be, and what is true of field i of one.
Cards == [heat : 0..NFields, humidity : {INTACT, TRIGGERED}, uv : UvStates]
Truth(c, i) == IF i <= c.heat THEN TRIGGERED ELSE INTACT

ReaderInit ==
  /\ card \in Cards
  /\ shots = {} /\ bad = 0 /\ highlit = 0 /\ signed = None

-----------------------------------------------------------------------------
(* One photo                                                               *)

\* classify, and the glare test that sample adds for a card without marker: a
\* level, sure or not; a region with glare has confidence 0.
FieldReadings == {f \in [level : {0, 1}, sure : BOOLEAN, glare : BOOLEAN] : f.glare => ~f.sure}

\* How a region of the given true level may be read.
ReadingsOf(true) == {f \in FieldReadings : f.sure => f.level = true}
WithoutGlare(fs) == {f \in fs : ~f.glare}

\* Mutant: a pair counts only when the reader is sure of both fields.
heatFieldsConsistentBothSure(f) ==
  ~\E cool, hot \in Fields :
     /\ cool < hot /\ ~f[cool].glare /\ ~f[hot].glare
     /\ f[cool].level = 0 /\ f[hot].level = 1 /\ (f[cool].sure /\ f[hot].sure)

\* Not so: some hotter field is black while a cooler one is white, and the reader is
\* sure of one of the two.
heatFieldsConsistent(f) ==
  ~\E cool, hot \in Fields :
     /\ cool < hot /\ ~f[cool].glare /\ ~f[hot].glare
     /\ f[cool].level = 0 /\ f[hot].level = 1 /\ (f[cool].sure \/ f[hot].sure)

Unknown == 2

\* Mutant: a field with glare has the level it looks like.
heatVerdictGlareWhite(f, wbOk) ==
  LET consistent == heatFieldsConsistent(f)
      heat == IF ~wbOk \/ ~consistent \/ ~f[Decisive].sure THEN UNREADABLE
              ELSE f[Decisive].level
  IN [heat |-> heat, consistent |-> consistent,
      levels |-> IF isDecided(heat) THEN [i \in Fields |-> f[i].level] ELSE NoLevels]

\* The decisive field decides; a field hidden by glare is filled in where the
\* verdict fixes it, and makes the strip unreadable where it does not.
heatVerdict(f, wbOk) ==
  LET consistent == heatFieldsConsistent(f)
      measured == IF ~wbOk \/ ~consistent \/ f[Decisive].glare \/ ~f[Decisive].sure
                  THEN UNREADABLE ELSE f[Decisive].level
      level(i) == IF ~f[i].glare THEN f[i].level
                  ELSE IF i > Decisive /\ measured = INTACT THEN 0
                  ELSE IF i < Decisive /\ measured = TRIGGERED THEN 1
                  ELSE Unknown
      hidden == isDecided(measured) /\ \E i \in Fields : level(i) = Unknown
      heat == IF hidden THEN UNREADABLE ELSE measured
  IN [heat |-> heat, consistent |-> consistent,
      levels |-> IF isDecided(heat) THEN [i \in Fields |-> level(i)] ELSE NoLevels]

\* A one-field indicator.
fieldVerdict(f, usable) == IF ~usable \/ ~f.sure THEN UNREADABLE ELSE f.level

\* A reading: the card was found, it takes part in the vote, the verdicts.
Reading(found, counts, heat, levels, hum, uv) ==
  [found |-> found, counts |-> counts, heat |-> heat, levels |-> levels,
   humidity |-> hum, uv |-> uv]
notFoundReading == Reading(FALSE, FALSE, MISSING, NoLevels, MISSING, MISSING)

\* readCard: with marker 7 in view each group of indicators has its own
\* white balance; a marker card has no UV field.  Its fields go from classify
\* to the verdict, none is ever marked as glare.
readCard(f, hum, wbHeat, wbHum) ==
  LET v == heatVerdict(f, wbHeat)
  IN Reading(TRUE, TRUE, v.heat, v.levels, fieldVerdict(hum, wbHum), MISSING)

\* detectCardQuad and the two orders of its corners: the first one in which
\* the heat label shows up where the layout puts it registers the card.
cardOrientations == <<0, 180>>
onLabel(label) == \E i \in DOMAIN cardOrientations : cardOrientations[i] \in label

\* readCardFrame: no window, no card; without the heat label nothing is read
\* and the photo does not vote; one white balance, and inconsistent heat
\* fields make all of it unusable.
readCardFrame(window, label, f, hum, uv, wbOk) ==
  LET v == heatVerdict(f, wbOk)
      usable == wbOk /\ v.consistent
  IN IF ~window THEN notFoundReading
     ELSE IF ~onLabel(label)
     THEN Reading(TRUE, FALSE, UNREADABLE, NoLevels, UNREADABLE, UNREADABLE)
     ELSE Reading(TRUE, TRUE, v.heat, v.levels,
                  fieldVerdict(hum, usable), fieldVerdict(uv, usable))

-----------------------------------------------------------------------------
(* The photos of a scan                                                    *)

Taken == Cardinality(shots)

\* The worker reads one photo.
Shoot(r, other, lit) ==
  /\ signed = None /\ Taken < MaxFrames
  /\ LET equal == {s \in shots : s.reading = r}
     IN shots' = shots \cup {[reading |-> r, nr |-> Cardinality(equal) + 1]}
  /\ bad' = bad + other /\ highlit' = highlit + lit
  /\ UNCHANGED <<card, signed>>

HonestFields(c) ==
  {f \in [Fields -> FieldReadings] : \A i \in Fields : f[i] \in ReadingsOf(Truth(c, i))}

\* The strip seen in a mirror, sharp and without glare.
Mirrored(c) ==
  [i \in Fields |-> [level |-> Truth(c, NFields + 1 - i), sure |-> TRUE, glare |-> FALSE]]

\* Every card with what a photo of it can be read as, with its marker and
\* without a highlight or in its holder; what a marker card of any state can
\* be read as under a highlight, which may be white enough for a sure INTACT
\* or spoil the printed patches a field is compared with; and what a sharp
\* photo of something else can be read as.
MarkerReadings == UNION {
  {<<c, readCard(f, hum, wbHeat, wbHum)>> :
     f \in {g \in HonestFields(c) : \A i \in Fields : ~g[i].glare},
     hum \in WithoutGlare(ReadingsOf(c.humidity)), wbHeat \in BOOLEAN, wbHum \in BOOLEAN}
  : c \in Cards}
HighlitReadings ==
  {readCard(f, hum, wbHeat, wbHum) :
     f \in [Fields -> WithoutGlare(FieldReadings)], hum \in WithoutGlare(FieldReadings),
     wbHeat \in BOOLEAN, wbHum \in BOOLEAN}
FrameReadings == UNION {
  {<<c, readCardFrame(window, label, f, hum, uv, wbOk)>> :
     f \in HonestFields(c) \cup {Mirrored(c)}, hum \in ReadingsOf(c.humidity),
     uv \in ReadingsOf(c.uv), window \in BOOLEAN, wbOk \in BOOLEAN, label \in {{}, {180}}}
  : c \in Cards}
OtherReadings ==
  {readCardFrame(TRUE, {0}, f, hum, uv, TRUE) :
     f \in [Fields -> WithoutGlare(FieldReadings)],
     hum \in WithoutGlare(FieldReadings), uv \in WithoutGlare(FieldReadings)}

ShootMarker == \E p \in MarkerReadings : p[1] = card /\ Shoot(p[2], 0, 0)
ShootHighlit == bad + highlit < MaxBad /\ \E r \in HighlitReadings : Shoot(r, 0, 1)
ShootFrame == \E p \in FrameReadings : p[1] = card /\ Shoot(p[2], 0, 0)
ShootOther == bad + highlit < MaxBad /\ \E r \in OtherReadings : Shoot(r, 1, 0)

-----------------------------------------------------------------------------
(* The vote and the grade                                                  *)

\* frameCounts: the photos that vote, and those of them that say v.
Voters == {s \in shots : s.reading.counts}
heatVotes == [v \in 0..3 |-> {s \in Voters : s.reading.heat = v}]
humidityVotes == [v \in 0..3 |-> {s \in Voters : s.reading.humidity = v}]
uvVotes == [v \in 0..3 |-> {s \in Voters : s.reading.uv = v}]

\* majority: all MISSING stays MISSING; else what a quorum agrees on.
majority(votes, quorum) ==
  IF \A v \in 0..2 : votes[v] = {} THEN MISSING
  ELSE IF \E v \in 0..3 : Cardinality(votes[v]) >= quorum
  THEN CHOOSE v \in 0..3 : Cardinality(votes[v]) >= quorum
  ELSE UNREADABLE

\* Mutant: the quorum is a majority of the photos that vote.
QuorumOfVoters(frames) == Cardinality(Voters) \div 2 + 1

\* A majority of all photos, the ones that do not vote included.
Quorum(frames) == frames \div 2 + 1

\* The levels of a decided verdict: for each field a strict majority of the
\* voters that agree with it, for the decisive field the verdict.
combinedLevels(heat) ==
  LET black(i) == {s \in heatVotes[heat] : s.reading.levels[i] = 1}
  IN [i \in Fields |-> IF i = Decisive THEN heat
                       ELSE IF Cardinality(black(i)) * 2 > Cardinality(heatVotes[heat])
                       THEN 1 ELSE 0]

\* combineReadings: without a voter nothing is found.
combineReadings(frames) ==
  LET heat == majority(heatVotes, Quorum(frames))
  IN IF Voters = {} THEN notFoundReading
     ELSE Reading(TRUE, TRUE, heat, IF isDecided(heat) THEN combinedLevels(heat) ELSE NoLevels,
                  majority(humidityVotes, Quorum(frames)), majority(uvVotes, Quorum(frames)))

\* heatLevelsToMask and maskToHeatLevels: bit i - 1 is field i.  top[n] has the
\* bits of the hottest n fields; shifted[k] is mask >> k, halved k times.
heatLevelsToMask(levels) ==
  LET top[n \in 0..NFields] ==
        IF n = 0 THEN 0 ELSE levels[NFields + 1 - n] + 2 * top[n - 1]
  IN top[NFields]
maskToHeatLevels(mask) ==
  LET shifted[k \in 0..NFields] ==
        IF k = 0 THEN mask ELSE shifted[k - 1] \div 2
  IN [i \in Fields |-> shifted[i - 1] % 2]

\* computeGrade, for a valid tap of a closed seal: UNREADABLE never lowers
\* the grade, it asks for a review.
computeGrade(heat, hum, fill) ==
  [review |-> heat = UNREADABLE \/ hum = UNREADABLE,
   grade |-> IF heat = TRIGGERED \/ hum = TRIGGERED THEN "C"
             ELSE IF fill >= 90 THEN "A" ELSE IF fill >= 60 THEN "B" ELSE "D"]

\* verifyBody: a scan without a reading says MISSING of everything, levels go
\* along with a decided heat only.
verifyBody(r) ==
  [heat |-> IF r.found THEN r.heat ELSE MISSING,
   humidity |-> IF r.found THEN r.humidity ELSE MISSING,
   levels |-> IF r.found /\ isDecided(r.heat) THEN r.levels ELSE NoLevels]

\* buildScanMessage: what the server signs of it, one byte each; the levels
\* are in the bundle.
buildScanMessage(body, fill) == <<body.humidity, body.heat, fill>>
parseScanMessage(msg) == [humidity |-> msg[1], heat |-> msg[2], fill |-> msg[3]]

\* VisionClient: the worker answers for every photo, or one call fails (its
\* 13 MB library did not load, the worker died) and there is no reading.
Read == {combineReadings(Taken), notFoundReading}

\* "Get signature", and what is recorded of the signed scan.
Sign(fill, reading) ==
  LET body == verifyBody(reading)
      m == parseScanMessage(buildScanMessage(body, fill))
  IN
  /\ signed = None /\ Taken > 0
  /\ fill \in 0..100
  /\ signed' = [frames |-> Taken, heat |-> m.heat, humidity |-> m.humidity,
                mask |-> heatLevelsToMask(body.levels),
                graded |-> computeGrade(m.heat, m.humidity, m.fill)]
  /\ UNCHANGED <<card, shots, bad, highlit>>

\* scanUsableForOrder: both indicators are decided.
scanUsableForOrder(scan) == isDecided(scan.heat) /\ isDecided(scan.humidity)

\* The photos are taken again.
Retake ==
  /\ Taken > 0
  /\ shots' = {} /\ bad' = 0 /\ highlit' = 0 /\ signed' = None
  /\ UNCHANGED card

ReaderNext ==
  \/ ShootMarker \/ ShootHighlit \/ ShootFrame \/ ShootOther \/ Retake
  \/ \E fill \in Fills, reading \in Read : Sign(fill, reading)

ReaderSpec == ReaderInit /\ [][ReaderNext]_readerVars

-----------------------------------------------------------------------------
(* Properties                                                              *)

\* "A highlight never understates the levels on chain" of a card read without
\* its marker, and a mirrored photo says nothing wrong: a decided verdict is
\* the truth about the 40 C field,
\* and every field that glare hides is recorded as it is.
HighlightNeverUnderstates ==
  shots = {} => \A f \in HonestFields(card) \cup {Mirrored(card)} :
    LET v == heatVerdict(f, TRUE)
    IN isDecided(v.heat) => /\ v.heat = Truth(card, Decisive)
                            /\ \A i \in Fields : f[i].glare => v.levels[i] = Truth(card, i)

\* The photos that prove nothing about the card, though they may vote.
Misleading == bad + highlit

\* "One good frame among four misses never decides alone", nor does a photo of
\* something else, nor one whose highlight nothing tested for: while most photos
\* show the card, and not by its marker under a highlight, grade C is given only to
\* a bottle that was too warm or too humid, and a better grade without a
\* review only to one that was not, provided its indicators were read.  A scan
\* that an order takes tells the state of the bottle.
GradeTellsCard ==
  signed # None /\ Misleading * 2 < signed.frames =>
    LET damaged == Truth(card, Decisive) = TRIGGERED \/ card.humidity = TRIGGERED
        read == signed.heat # MISSING /\ signed.humidity # MISSING
    IN /\ signed.graded.grade = "C" => damaged
       /\ signed.graded.grade # "C" /\ ~signed.graded.review /\ read => ~damaged
       /\ scanUsableForOrder(signed) => /\ signed.heat = Truth(card, Decisive)
                                        /\ signed.humidity = card.humidity

\* The strip "is irreversible and its fields trigger in temperature order":
\* whatever the photos show, what is recorded is a strip that can exist
\* around its 40 C field, no cooler field intact if that one is triggered, no
\* hotter one triggered if it is intact.
RecordedIsPhysical ==
  signed # None /\ isDecided(signed.heat) =>
    LET levels == maskToHeatLevels(signed.mask)
    IN \A i \in Fields : /\ i < Decisive /\ signed.heat = TRIGGERED => levels[i] = 1
                         /\ i > Decisive /\ signed.heat = INTACT => levels[i] = 0

=============================================================================
