------------------------------ MODULE ScanFlow ------------------------------
(***************************************************************************)
(* The scan page up to the server's signature (components/scan-flow.tsx):  *)
(* session, tap, preview, photographs, reading, "Get signature", and the   *)
(* report of a dead seal.  The anchor step is module Anchor.               *)
(*                                                                         *)
(* Every handler that awaits is split where it does: what it has captured  *)
(* from the render it was pressed in stays in a task, and its answer       *)
(* writes to whatever the page shows by then.  Buttons are the guards of   *)
(* the actions; most are disabled while busy, the ones that restart the    *)
(* scan are not.  Requests may fail or be answered late; a request may be  *)
(* served and its answer lost.                                             *)
(***************************************************************************)
EXTENDS Handoff, FiniteSets

CONSTANTS
  Background,  \* taps that the phone itself reads and opens with /t
  MaxShots,    \* bound: photo series taken
  MaxFaults,   \* bound: reloads, failed calls, old taps and flags of the other tab
  MaxTasks     \* bound: calls of the page that wait at the same time

ASSUME ScanFlowAssumption ==
  /\ Background \subseteq Taps
  /\ MaxShots \in Nat /\ MaxFaults \in Nat /\ MaxTasks \in Nat \ {0}

VARIABLES
  page,    \* React state and refs of the page in tab Here
  tasks,   \* awaiting handlers
  late,    \* nonces whose deadline has passed on this device
  server,  \* the verifier: nonces, taps that /t consumed (seen) and that it
           \* verified or adopted (taken), staged uploads, what it signed
  shots,   \* photo series taken so far
  faults   \* disturbances so far

vars == <<page, tasks, late, server, shots, faults, handoffVars>>

Steps == {"session", "tap", "preview", "camera", "read", "verify", "tx",
          "done", "dead"}
Verdicts == {"none", "VALID", "NO_RESPONSE", "other"}

\* One series of frames: the session code burned in, and which series it is.
Photos == [code : Nonces, n : 1..MaxShots]
NoPhotos == [code |-> None, n |-> None]

(* page.frames and page.reading: the photos shown, and the photos the      *)
(* reading was made from.  page.uploaded: cache of uploadMediaOnce.        *)
(* page.alive: the effect that polls for handed-over taps has not been     *)
(* cleaned up since the poll under way began.  page.reports is history:    *)
(* how often a nonce was spent on a report since the page was loaded.      *)
FreshPage ==
  [step |-> "session", session |-> None, tag |-> None, verdict |-> "none",
   frames |-> NoPhotos, reading |-> NoPhotos,
   uploaded |-> [nonce |-> None, photos |-> NoPhotos], spent |-> None,
   capturing |-> FALSE, busy |-> FALSE, alive |-> FALSE,
   reports |-> [n \in Nonces |-> 0]]

Task(kind, nonce, tap, photos, reading) ==
  [kind |-> kind, nonce |-> nonce, tap |-> tap, photos |-> photos,
   reading |-> reading]
Call(kind) == Task(kind, None, None, NoPhotos, NoPhotos)

Init ==
  /\ HandoffInit
  /\ page = FreshPage
  /\ tasks = {}
  /\ late = {}
  /\ server = [issued |-> 0, tapped |-> 0, used |-> {}, seen |-> {},
               taken |-> {}, staged |-> [n \in Nonces |-> {}], scans |-> {}]
  /\ shots = 0
  /\ faults = 0

Disturbance == faults < MaxFaults /\ faults' = faults + 1

-----------------------------------------------------------------------------
(* Rules of the page                                                       *)

\* timedStep: the countdown covers the steps before the signature.
Timed(step) == step \notin {"tx", "done", "dead"}

\* A session is shown as expired on its device deadline, in a timed step.
Expired(p, lateNonces) == p.session \in lateNonces /\ Timed(p.step)

\* The step whose controls are shown: the others are hidden once expired.
Shows(step) == page.step = step /\ ~Expired(page, late)

Waits(p, lateNonces) == p.step = "tap" /\ ~Expired(p, lateNonces)

(* The page takes the state p, the flag the value f and the deadlines of   *)
(* lateNonces pass; then its effects run: leaving the timed steps or       *)
(* running out of time clears the flag, leaving the tap step ends polling. *)
Render(p, f, lateNonces) ==
  LET deps(q, l) == <<Timed(q.step), Expired(q, l)>>
      left == /\ deps(p, lateNonces) # deps(page, late)
              /\ ~Timed(p.step) \/ Expired(p, lateNonces)
  IN
  /\ page' = [p EXCEPT !.alive = @ /\ Waits(p, lateNonces)]
  /\ flag' = IF left THEN None ELSE f
  /\ late' = lateNonces

Rerender(p) == Render(p, flag, late)

Begin(task) == Cardinality(tasks) < MaxTasks /\ tasks' = tasks \cup {task}
Replace(task, next) == tasks' = (tasks \ {task}) \cup {next}
End(task) == tasks' = tasks \ {task}

\* adoptSession: the new nonce; an upload made for another one is forgotten.
Adopted(p, nonce) ==
  [p EXCEPT !.session = nonce,
            !.uploaded = [nonce |-> None, photos |-> NoPhotos]]

\* POST /api/session
Issue == server.issued < MaxSessions /\ server' = [server EXCEPT !.issued = @ + 1]
Issued == server.issued + 1

\* onTag up to its await, for a tap the page got in one way or another.
OnTag(p, tap) == [p EXCEPT !.tag = tap, !.busy = TRUE]
PreviewOf(tap) == Task("preview", None, tap, NoPhotos, NoPhotos)

storageKept == UNCHANGED <<slot, claim, claims, old, owner, takes>>

-----------------------------------------------------------------------------
(* 1. Session                                                              *)

\* Where "Start session", "Restart", "New scan" or "Cancel" is offered.
RestartShown ==
  \/ Expired(page, late)
  \/ page.step \in {"session", "verify", "done", "dead"}
  \/ page.step = "preview" /\ page.verdict # "VALID"

\* startSession up to its await.  No call that is under way is cancelled.
StartSession ==
  /\ RestartShown
  /\ Begin(Call("session"))
  /\ Rerender([page EXCEPT !.tag = None, !.verdict = "none",
                           !.frames = NoPhotos, !.reading = NoPhotos])
  /\ storageKept
  /\ UNCHANGED <<server, shots>>

SessionAnswered ==
  /\ Call("session") \in tasks
  /\ Issue
  /\ End(Call("session"))
  /\ owner' = Issued
  /\ Render([Adopted(page, Issued) EXCEPT !.step = "tap"], Issued, late)
  /\ UNCHANGED <<slot, claim, claims, old, takes, shots>>

\* The device's clock passes the deadline of a session.
DeadlinePasses(nonce) ==
  /\ nonce \in 1..server.issued \ late
  /\ Render(page, flag, late \cup {nonce})
  /\ storageKept
  /\ UNCHANGED <<tasks, server, shots>>

\* The page as a reload finds it: the session this tab started and that is
\* still flagged and running is taken up again at the tap step.
Reloaded ==
  IF FlagActive(late) /\ owner = flag
  THEN [FreshPage EXCEPT !.session = flag, !.step = "tap"]
  ELSE FreshPage

\* The tab is reloaded: handlers and refs are gone, storage stays.
Reload ==
  /\ page # FreshPage
  /\ Disturbance
  /\ page' = Reloaded
  /\ tasks' = {}
  /\ claims' = [claims EXCEPT ![Here] = None]
  /\ UNCHANGED <<late, server, shots, slot, claim, old, flag, owner, takes>>

-----------------------------------------------------------------------------
(* 2. Tap                                                                  *)

Tapped == server.tapped + 1

\* The phone opens /t in another tab.  With a session flagged the tap goes
\* into the slot, otherwise the verifier consumes it there.
TapElsewhere ==
  /\ Tapped \in Background
  /\ server' = [server EXCEPT !.tapped = Tapped,
                              !.seen = IF FlagActive(late) THEN @
                                       ELSE @ \cup {Tapped}]
  /\ IF FlagActive(late) THEN Put(Tapped) ELSE UNCHANGED <<slot, old>>
  /\ UNCHANGED <<page, tasks, late, shots, claim, claims, flag, owner, takes>>

\* The phone opens /t in this very tab (iPhone), whose page is lost.  The
\* tap is handed over and the page comes back, or it is consumed and its
\* adoption link opens the page anew.
TapHere ==
  /\ Tapped \in Background
  /\ server' = [server EXCEPT !.tapped = Tapped,
                              !.seen = IF FlagActive(late) THEN @
                                       ELSE @ \cup {Tapped}]
  /\ claims' = [claims EXCEPT ![Here] = None]
  /\ page' = Reloaded
  /\ \/ /\ FlagActive(late) /\ owner = flag
        /\ Put(Tapped)
        /\ tasks' = {}
     \/ /\ ~FlagActive(late)
        /\ tasks' = {Task("adopt", None, Tapped, NoPhotos, NoPhotos)}
        /\ UNCHANGED <<slot, old>>
  /\ UNCHANGED <<late, shots, claim, flag, owner, takes>>

\* ?adopt=: session and tap arrive together.  expiring: the adoption window
\* of the tap ends first, perhaps before the page is shown (TAP_TOO_OLD).
AdoptAnswered(task, verdict, expiring) ==
  LET tooOld == expiring
      lateNonces == IF expiring THEN late \cup {Issued} ELSE late
      p == [Adopted(page, Issued) EXCEPT
              !.tag = IF tooOld THEN @ ELSE task.tap,
              !.verdict = IF tooOld THEN "other" ELSE verdict,
              !.step = IF ~tooOld /\ verdict = "NO_RESPONSE" THEN "dead"
                       ELSE "preview"]
  IN
  /\ task.kind = "adopt"
  /\ Issue
  /\ End(task)
  /\ owner' = Issued
  /\ Render(p, Issued, lateNonces)
  /\ UNCHANGED <<slot, claim, claims, old, takes, shots>>

\* The poll of the tap step: pick() with Web Locks.
PickLocked ==
  /\ Shows("tap")
  /\ TakeLocked(Here)
  /\ IF old THEN UNCHANGED <<page, tasks>>
     ELSE Begin(PreviewOf(slot)) /\ page' = OnTag(page, slot)
  /\ UNCHANGED <<late, server, shots>>

\* pick() without: a claim, and the check of it in a later task.
PickClaim ==
  /\ Shows("tap")
  /\ Claim(Here)
  /\ page' = [page EXCEPT !.alive = TRUE]
  /\ UNCHANGED <<tasks, late, server, shots>>

\* A tap that arrives after the tap step was left is dropped.
PickSettles ==
  /\ Settle(Here)
  /\ IF Claimed(Here) # None /\ page.alive
     THEN Begin(PreviewOf(Claimed(Here))) /\ page' = OnTag(page, Claimed(Here))
     ELSE UNCHANGED <<page, tasks>>
  /\ UNCHANGED <<late, server, shots>>

\* WebNFC or the simulator: a tap read by the page itself.
ReadTap ==
  /\ Shows("tap")
  /\ Tapped \in Taps \ Background
  /\ server' = [server EXCEPT !.tapped = Tapped]
  /\ Begin(PreviewOf(Tapped))
  /\ page' = OnTag(page, Tapped)
  /\ UNCHANGED <<late, shots, handoffVars>>

\* "Seal does not respond", or a virtual tag that does not.
NoSeal ==
  /\ Shows("tap")
  /\ Rerender([page EXCEPT !.tag = None, !.verdict = "none", !.step = "dead"])
  /\ storageKept
  /\ UNCHANGED <<tasks, server, shots>>

PreviewAnswered(task, verdict) ==
  /\ task.kind = "preview"
  /\ End(task)
  /\ Rerender([page EXCEPT
        !.verdict = verdict, !.busy = FALSE,
        !.step = IF verdict = "NO_RESPONSE" THEN "dead" ELSE "preview"])
  /\ storageKept
  /\ UNCHANGED <<server, shots>>

-----------------------------------------------------------------------------
(* 3.-5. Preview, camera, reading                                          *)

\* "Continue to camera", "Photograph again"
ToCamera ==
  /\ \/ Shows("preview") /\ page.verdict = "VALID"
     \/ Shows("read") /\ page.frames # NoPhotos /\ ~page.busy
  /\ Rerender([page EXCEPT !.step = "camera"])
  /\ storageKept
  /\ UNCHANGED <<tasks, server, shots>>

\* skipCamera, "Without photo (tier 1)"; not disabled while busy.
SkipCamera ==
  /\ \/ Shows("camera")
     \/ Shows("preview") /\ page.verdict = "VALID"
  /\ Rerender([page EXCEPT !.frames = NoPhotos, !.reading = NoPhotos,
                           !.step = "read"])
  /\ storageKept
  /\ UNCHANGED <<tasks, server, shots>>

\* Mutant: only busy, which other handlers reset, keeps a second run away.
CaptureUnguarded ==
  /\ Shows("camera") /\ ~page.busy
  /\ shots < MaxShots
  /\ Begin(Task("grab", page.session, None, NoPhotos, NoPhotos))
  /\ page' = [page EXCEPT !.capturing = TRUE, !.busy = TRUE]
  /\ UNCHANGED <<late, server, shots, handoffVars>>

\* runCapture: the frames will carry the code of the session shown now.
Capture ==
  /\ Shows("camera") /\ ~page.busy /\ ~page.capturing
  /\ shots < MaxShots
  /\ Begin(Task("grab", page.session, None, NoPhotos, NoPhotos))
  /\ page' = [page EXCEPT !.capturing = TRUE, !.busy = TRUE]
  /\ UNCHANGED <<late, server, shots, handoffVars>>

\* processFrames when the frames are encoded: shown, and being read.
FramesReady(task) ==
  LET photos == [code |-> task.nonce, n |-> shots + 1] IN
  /\ task.kind = "grab"
  /\ shots < MaxShots
  /\ shots' = shots + 1
  /\ Replace(task, Task("reading", None, None, photos, NoPhotos))
  /\ Rerender([page EXCEPT !.frames = photos, !.reading = NoPhotos,
                           !.step = "read", !.busy = TRUE])
  /\ storageKept
  /\ UNCHANGED server

\* setReading; a card that was not found counts as no reading.
ReadingReady(task, found) ==
  /\ task.kind = "reading"
  /\ End(task)
  /\ page' = [page EXCEPT !.reading = IF found THEN task.photos ELSE NoPhotos,
                          !.capturing = FALSE, !.busy = FALSE]
  /\ UNCHANGED <<late, server, shots, handoffVars>>

-----------------------------------------------------------------------------
(* 6.-7. Upload and signature                                              *)

\* uploadMediaOnce: not again for the same nonce and the same frames.
Uploaded(nonce, photos) == page.uploaded = [nonce |-> nonce, photos |-> photos]

\* What the signature will cover once the upload is there: the hash that
\* the cached upload answers for.
MediaFor(photos) ==
  IF photos # NoPhotos /\ Uploaded(page.session, photos)
  THEN page.uploaded.photos ELSE photos

\* requestSignature up to its first await; without tap or session nothing.
RequestSignature ==
  LET media == MediaFor(page.frames)
      kind == IF page.frames = NoPhotos \/ Uploaded(page.session, page.frames)
              THEN "verify" ELSE "upload"
  IN
  /\ Shows("read") /\ ~page.busy
  /\ page.tag # None /\ page.session # None
  /\ Begin(Task(kind, page.session, page.tag, media, page.reading))
  /\ page' = [page EXCEPT !.busy = TRUE]
  /\ UNCHANGED <<late, server, shots, handoffVars>>

\* Mutant: an upload that the server drops is taken for a success.
UploadAnsweredAnyhow(task) ==
  /\ task.kind = "upload"
  /\ Replace(task, [task EXCEPT !.kind = "verify"])
  /\ page' = [page EXCEPT !.uploaded = [nonce |-> task.nonce, photos |-> task.photos]]
  /\ UNCHANGED <<late, server, shots, handoffVars>>

\* POST /api/media stages the photos for an unused nonce.
UploadAnswered(task) ==
  /\ task.kind = "upload"
  /\ task.nonce \notin server.used
  /\ server' = [server EXCEPT !.staged[task.nonce] = @ \cup {task.photos}]
  /\ Replace(task, [task EXCEPT !.kind = "verify"])
  /\ page' = [page EXCEPT !.uploaded = [nonce |-> task.nonce, photos |-> task.photos]]
  /\ UNCHANGED <<late, shots, handoffVars>>

\* POST /api/verify: the nonce must be unused, and the tap one it has not
\* taken yet: a tap read by the page is consumed here, one that /t consumed
\* (seen) is adopted, once.  What was staged under the nonce is kept or
\* deleted (held).
Sign(task) ==
  /\ task.nonce \notin server.used
  /\ task.tap \notin server.taken
  /\ server' = [server EXCEPT
       !.used = @ \cup {task.nonce}, !.taken = @ \cup {task.tap},
       !.scans = @ \cup {[nonce |-> task.nonce, tap |-> task.tap,
                          photos |-> task.photos, reading |-> task.reading,
                          held |-> task.photos \in server.staged[task.nonce]]}]

\* No signature: nonce used or too old (NONCE_INVALID); a tap taken already,
\* older than one that was, or with its adoption window over (REPLAY).  The
\* tap of a seal that was reported dead meanwhile is taken all the same.
Refuse(task) ==
  \/ /\ \/ task.nonce \in server.used \cup late
        \/ \E t \in server.taken \cup server.seen : task.tap <= t
     /\ UNCHANGED server
  \/ /\ task.nonce \notin server.used
     /\ task.tap \notin server.taken
     /\ server' = [server EXCEPT !.taken = @ \cup {task.tap}]

\* The answer of /api/verify, or a lost one to a call that was served.
VerifyAnswered(task) ==
  /\ task.kind = "verify"
  /\ End(task)
  /\ \/ /\ Sign(task)
        /\ Rerender([page EXCEPT !.step = "tx", !.busy = FALSE])
     \/ /\ Refuse(task)
        /\ Rerender([page EXCEPT !.step = "verify", !.busy = FALSE])
     \/ /\ Sign(task) \/ Refuse(task)
        /\ Rerender([page EXCEPT !.busy = FALSE])
  /\ storageKept
  /\ UNCHANGED shots

\* The anchor step ends (module Anchor).
Anchored ==
  /\ page.step = "tx" /\ ~page.busy
  /\ Rerender([page EXCEPT !.step = "done"])
  /\ storageKept
  /\ UNCHANGED <<tasks, server, shots>>

-----------------------------------------------------------------------------
(* Dead seal                                                               *)

\* Mutant: a failed attempt is repeated with the same nonce.
NeedsNonceOnlyIfLate == page.session = None \/ page.session \in late

\* A nonce that this page has used up, or that will be too old on arrival.
NeedsNonce == page.session \in {None, page.spent} \cup late

\* reportDead up to its await; a failed attempt may have used the nonce.
ReportDead ==
  /\ page.step = "dead" /\ page.verdict # "NO_RESPONSE" /\ ~page.busy
  /\ IF NeedsNonce
     THEN /\ Begin(Call("deadSession"))
          /\ page' = [page EXCEPT !.busy = TRUE]
     ELSE /\ Begin(Task("dead", page.session, None, NoPhotos, NoPhotos))
          /\ page' = [page EXCEPT !.busy = TRUE, !.spent = page.session]
  /\ UNCHANGED <<late, server, shots, handoffVars>>

\* The fresh session of a report is not published to /t.
DeadSessionAnswered ==
  /\ Call("deadSession") \in tasks
  /\ Issue
  /\ Replace(Call("deadSession"), Task("dead", Issued, None, NoPhotos, NoPhotos))
  /\ Rerender([Adopted(page, Issued) EXCEPT !.spent = Issued])
  /\ storageKept
  /\ UNCHANGED shots

\* POST /api/events, SEAL_DEAD: uses the nonce; the answer may be lost.
DeadAnswered(task) ==
  LET p == [page EXCEPT !.busy = FALSE, !.reports[task.nonce] = @ + 1] IN
  /\ task.kind = "dead"
  /\ End(task)
  /\ server' = [server EXCEPT !.used = @ \cup {task.nonce}]
  /\ \/ task.nonce \notin server.used /\ Rerender([p EXCEPT !.step = "done"])
     \/ Rerender(p)
  /\ storageKept
  /\ UNCHANGED shots

-----------------------------------------------------------------------------
\* A call fails without having been served: its handler ends in catch and
\* finally (startSession and adopt have no finally).
Fails(task) ==
  /\ Disturbance
  /\ End(task)
  /\ page' = [page EXCEPT
       !.busy = IF task.kind \in {"session", "adopt"} THEN @ ELSE FALSE,
       !.capturing = IF task.kind \in {"grab", "reading"} THEN FALSE ELSE @]
  /\ UNCHANGED <<late, server, shots, handoffVars>>

Answers(task) ==
  \/ \E verdict \in Verdicts \ {"none"} :
       \/ PreviewAnswered(task, verdict)
       \/ \E expiring \in BOOLEAN : AdoptAnswered(task, verdict, expiring)
  \/ FramesReady(task)
  \/ \E found \in BOOLEAN : ReadingReady(task, found)
  \/ UploadAnswered(task)
  \/ VerifyAnswered(task)
  \/ DeadAnswered(task)

Others ==
  /\ \/ OtherTakes /\ UNCHANGED faults
     \/ (OtherFlags \/ Ages) /\ Disturbance
  /\ UNCHANGED <<page, tasks, late, server, shots>>

Undisturbed ==
  \/ StartSession \/ SessionAnswered
  \/ \E nonce \in Nonces : DeadlinePasses(nonce)
  \/ TapElsewhere \/ TapHere \/ PickLocked \/ PickClaim \/ PickSettles
  \/ ReadTap \/ NoSeal
  \/ ToCamera \/ SkipCamera \/ Capture
  \/ RequestSignature \/ Anchored
  \/ ReportDead \/ DeadSessionAnswered
  \/ \E task \in tasks : Answers(task)

Next ==
  \/ Undisturbed /\ UNCHANGED faults
  \/ Reload \/ Others
  \/ \E task \in tasks : Fails(task)

Spec == Init /\ [][Next]_vars

-----------------------------------------------------------------------------
(* Properties                                                              *)

Shown == Photos \cup {NoPhotos}

PageRecords ==
  [step : Steps, session : Nonces \cup {None}, tag : Taps \cup {None},
   verdict : Verdicts, frames : Shown, reading : Shown,
   uploaded : [nonce : Nonces \cup {None}, photos : Shown],
   spent : Nonces \cup {None}, capturing : BOOLEAN, busy : BOOLEAN,
   alive : BOOLEAN, reports : [Nonces -> Nat]]

Kinds == {"session", "adopt", "preview", "grab", "reading", "upload", "verify",
          "deadSession", "dead"}

TaskRecords ==
  [kind : Kinds, nonce : Nonces \cup {None}, tap : Taps \cup {None},
   photos : Shown, reading : Shown]

ScanRecords == [nonce : Nonces, tap : Taps, photos : Shown, reading : Shown,
                held : BOOLEAN]

ServerRecords ==
  [issued : 0..MaxSessions, tapped : 0..MaxTaps, used : SUBSET Nonces,
   seen : SUBSET Taps, taken : SUBSET Taps, staged : [Nonces -> SUBSET Photos],
   scans : SUBSET ScanRecords]

\* The page, its calls and the verifier hold values of their types.
TypeOK ==
  /\ HandoffTypeOK
  /\ page \in PageRecords
  /\ tasks \in SUBSET TaskRecords
  /\ late \subseteq Nonces
  /\ server \in ServerRecords
  /\ shots \in 0..MaxShots
  /\ faults \in Nat

\* "The signed scan must never reference photos the server dropped": the
\* photos whose hash is signed are staged under the nonce of that very
\* scan, whatever was retried or uploaded for an earlier session before.
\* The verifier does not check it.
SignedPhotosHeld ==
  \A s \in server.scans : s.photos # NoPhotos => s.held

\* When a scan carries photos and a reading, the reading was made from
\* those photos, though reading takes seconds, the page may be restarted
\* meanwhile, and busy is reset by whichever handler ends first.
ReadingOfPhotos ==
  \A s \in server.scans :
    s.photos # NoPhotos /\ s.reading # NoPhotos => s.reading = s.photos

\* Between two loads of the page no nonce reaches the server in two reports
\* of a dead seal: an attempt whose answer was lost has used its nonce up,
\* and repeating it with the same one could only be refused.
DeadReportFresh == \A n \in Nonces : page.reports[n] <= 1

=============================================================================
