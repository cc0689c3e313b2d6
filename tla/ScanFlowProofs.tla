--------------------------- MODULE ScanFlowProofs ----------------------------
(***************************************************************************)
(* Proofs about the scan page and the handoff of taps (module ScanFlow),   *)
(* for every number of sessions, taps, photo series and calls under way.   *)
(*                                                                         *)
(* The invariant says, next to what is promised, what the handlers that    *)
(* are waiting may rely on: which nonces, taps and photos their tasks      *)
(* hold, and how these relate to what the page shows by now.               *)
(***************************************************************************)
EXTENDS ScanFlow, TLAPS

USE HandoffAssumption, ScanFlowAssumption

-----------------------------------------------------------------------------
(* The inductive invariant                                                 *)

\* No step but the first is reached, and no call but the two that open a
\* session is made, without one; a tap is awaited in the tap step only.
SessionKnown ==
  /\ page.session = None =>
       page.step = "session" /\ \A k \in tasks : k.kind \in {"session", "adopt"}
  /\ page.alive => page.step = "tap"

\* Nonces and taps are numbered as they are issued and made.
Numbered ==
  /\ page.session <= server.issued /\ owner <= server.issued
  /\ \A k \in tasks : k.kind \in {"upload", "verify"} =>
       /\ k.nonce # None /\ k.tap # None
       /\ k.kind = "upload" => k.photos # NoPhotos

\* A tap in the slot has happened and was not taken yet.
SlotFresh ==
  /\ slot # None => slot <= server.tapped /\ takes[slot] = 0
  /\ \A t \in Taps : t > server.tapped => takes[t] = 0
  /\ TakenOnce

\* What the page takes for uploaded is staged under the nonce it was uploaded
\* for.
UploadsStaged ==
  /\ page.uploaded.photos # NoPhotos =>
       /\ page.uploaded.nonce # None
       /\ page.uploaded.photos \in server.staged[page.uploaded.nonce]
  /\ \A k \in tasks :
       k.kind = "verify" /\ k.photos # NoPhotos =>
         k.photos \in server.staged[k.nonce]
  /\ SignedPhotosHeld

\* One series is captured or read at a time; the photos shown meanwhile are
\* that series or none.
OneCapture ==
  /\ \A a, b \in tasks :
       {a.kind, b.kind} \subseteq {"grab", "reading"} => a = b
  /\ \A k \in tasks : k.kind \in {"grab", "reading"} =>
       /\ page.capturing
       /\ k.kind = "grab" => k.nonce # None
       /\ k.kind = "reading" =>
            k.photos # NoPhotos /\ page.frames \in {NoPhotos, k.photos}

Matching(photos, reading) ==
  photos # NoPhotos /\ reading # NoPhotos => reading = photos

ReadingsMatch ==
  /\ OneCapture
  /\ Matching(page.frames, page.reading)
  /\ \A k \in tasks :
       k.kind \in {"upload", "verify"} => Matching(k.photos, k.reading)
  /\ ReadingOfPhotos

\* A nonce spent on a report is not newer than the session shown, and if it is
\* that session's, the page remembers that it is spent.
ReportsSpent ==
  /\ \A n \in Nonces : page.reports[n] > 0 =>
       n <= page.session /\ (n = page.session => page.spent = n)
  /\ \A k \in tasks : k.kind = "dead" =>
       /\ k.nonce # None /\ page.reports[k.nonce] = 0
       /\ k.nonce <= page.session
       /\ k.nonce = page.session => page.spent = k.nonce
  /\ \A a, b \in tasks :
       a.kind = "dead" /\ b.kind = "dead" /\ a.nonce = b.nonce => a = b
  /\ DeadReportFresh

IInv == /\ TypeOK /\ SessionKnown /\ Numbered /\ SlotFresh /\ UploadsStaged
        /\ ReadingsMatch /\ ReportsSpent

-----------------------------------------------------------------------------
(* Records: the page, the calls and the server                             *)

\* A call under way holds what it was begun with.
LEMMA TaskFields ==
  ASSUME NEW kind \in Kinds, NEW nonce \in Nonces \cup {None},
         NEW tap \in Taps \cup {None},
         NEW photos \in Shown, NEW reading \in Shown
  PROVE  LET k == Task(kind, nonce, tap, photos, reading) IN
         /\ k \in TaskRecords
         /\ k.kind = kind /\ k.nonce = nonce /\ k.tap = tap
         /\ k.photos = photos /\ k.reading = reading
BY DEF Task, TaskRecords

\* NoPhotos is shown, and is not a photo series.
LEMMA NoPhotosShown ==
  /\ NoPhotos \in Shown /\ NoPhotos \notin Photos
  /\ \A photos \in Shown : photos # NoPhotos => photos \in Photos
BY DEF NoPhotos, Shown, Photos, Nonces, None

\* Calls without arguments.
LEMMA CallFields ==
  ASSUME NEW kind \in Kinds
  PROVE  /\ Call(kind) \in TaskRecords
         /\ Call(kind).kind = kind /\ Call(kind).nonce = None
         /\ Call(kind).photos = NoPhotos
BY TaskFields, NoPhotosShown DEF Call

\* The effects that run after a render change nothing but alive.
LEMMA RenderDoes ==
  ASSUME NEW p \in PageRecords, NEW f \in Nonces \cup {None, Foreign}, NEW l,
         Render(p, f, l)
  PROVE  /\ page' \in PageRecords
         /\ page'.step = p.step /\ page'.session = p.session
         /\ page'.frames = p.frames /\ page'.reading = p.reading
         /\ page'.uploaded = p.uploaded /\ page'.spent = p.spent
         /\ page'.capturing = p.capturing /\ page'.reports = p.reports
         /\ flag' \in Nonces \cup {None, Foreign}
         /\ late' = l
         /\ page'.alive => page'.step = "tap"
<1>1. PICK v \in BOOLEAN : page' = [p EXCEPT !.alive = v]
  BY DEF Render, PageRecords, Waits, Expired
<1>2. page' \in PageRecords
  BY <1>1 DEF PageRecords
<1>3. /\ page'.step = p.step /\ page'.session = p.session
      /\ page'.frames = p.frames /\ page'.reading = p.reading
      /\ page'.uploaded = p.uploaded /\ page'.spent = p.spent
      /\ page'.capturing = p.capturing /\ page'.reports = p.reports
  BY <1>1 DEF PageRecords
<1>4. flag' \in Nonces \cup {None, Foreign} /\ late' = l
  BY DEF Render
<1>5. page'.alive => p.step = "tap"
  BY DEF Render, PageRecords, Waits
<1> QED
  BY <1>2, <1>3, <1>4, <1>5

\* A new nonce is the next one, and none of those issued before.
LEMMA IssueDoes ==
  ASSUME server \in ServerRecords, Issue
  PROVE  /\ server' \in ServerRecords
         /\ Issued \in Nonces /\ server'.issued = Issued
         /\ Issued = server.issued + 1 /\ Issued # None
         /\ server'.tapped = server.tapped /\ server'.staged = server.staged
         /\ server'.scans = server.scans /\ server'.used = server.used
<1>1. /\ server.issued \in 0..MaxSessions /\ server.issued < MaxSessions
      /\ server' = [server EXCEPT !.issued = server.issued + 1]
  BY DEF Issue, ServerRecords
<1>2. /\ Issued = server.issued + 1 /\ Issued \in Nonces /\ Issued # None
      /\ server.issued + 1 \in 0..MaxSessions
  BY <1>1, ScanFlowAssumption, HandoffAssumption DEF Issued, Nonces, None
<1> QED
  BY <1>1, <1>2 DEF ServerRecords

\* Adopting a session changes the session and forgets the upload.
LEMMA AdoptedDoes ==
  ASSUME NEW p \in PageRecords, NEW n \in Nonces
  PROVE  /\ Adopted(p, n) \in PageRecords
         /\ Adopted(p, n).session = n /\ Adopted(p, n).step = p.step
         /\ Adopted(p, n).frames = p.frames /\ Adopted(p, n).reading = p.reading
         /\ Adopted(p, n).uploaded.nonce = None
         /\ Adopted(p, n).uploaded.photos = NoPhotos
         /\ Adopted(p, n).spent = p.spent /\ Adopted(p, n).reports = p.reports
         /\ Adopted(p, n).capturing = p.capturing
BY DEF Adopted, PageRecords, Shown

\* A page that was just loaded.
LEMMA FreshPageIs ==
  /\ FreshPage \in PageRecords
  /\ FreshPage.step = "session" /\ FreshPage.session = None
  /\ FreshPage.frames = NoPhotos /\ FreshPage.reading = NoPhotos
  /\ FreshPage.uploaded.photos = NoPhotos /\ FreshPage.uploaded.nonce = None
  /\ FreshPage.capturing = FALSE /\ FreshPage.alive = FALSE
  /\ \A n \in Nonces : FreshPage.reports[n] = 0
BY NoPhotosShown DEF FreshPage, PageRecords, Steps, Verdicts

-----------------------------------------------------------------------------
(* The handoff                                                             *)

\* Taking the tap in the slot counts it once, and leaves the slot empty.
LEMMA TakenFromSlot ==
  ASSUME takes \in [Taps -> Nat], SlotFresh, slot \in Taps \cup {None},
         server.tapped \in Nat, server'.tapped = server.tapped, slot' = None,
         \/ takes' = takes
         \/ slot \in Taps /\ takes' = [takes EXCEPT ![slot] = @ + 1]
  PROVE  takes' \in [Taps -> Nat] /\ SlotFresh'
<1>1. CASE takes' = takes
  BY <1>1 DEF SlotFresh, TakenOnce
<1>2. CASE slot \in Taps /\ takes' = [takes EXCEPT ![slot] = @ + 1]
  <2>1. takes[slot] = 0 /\ slot <= server.tapped
    BY <1>2 DEF SlotFresh, Taps, None
  <2>2. takes' \in [Taps -> Nat] /\ takes'[slot] = 1
    BY <1>2, <2>1
  <2>3. \A t \in Taps : t # slot => takes'[t] = takes[t]
    BY <1>2
  <2>4. \A t \in Taps : t > server'.tapped => takes'[t] = 0
    BY <2>1, <2>3 DEF SlotFresh, Taps
  <2>5. TakenOnce'
    BY <2>2, <2>3 DEF SlotFresh, TakenOnce
  <2> QED
    BY <2>2, <2>4, <2>5 DEF SlotFresh
<1> QED
  BY <1>1, <1>2

\* Whichever tab looks for the tap in the slot, with or without Web Locks:
\* what is in the slot afterwards was taken by nobody.
LEMMA TakingKeeps ==
  ASSUME HandoffTypeOK, SlotFresh,
         server.tapped \in Nat, server'.tapped = server.tapped,
         NEW tab \in Tabs, TakeLocked(tab) \/ Claim(tab) \/ Settle(tab)
  PROVE  /\ HandoffTypeOK' /\ SlotFresh'
         /\ flag' = flag /\ owner' = owner
<1>1. CASE TakeLocked(tab)
  <2>1. /\ slot \in Taps /\ slot' = None /\ old' \in BOOLEAN
        /\ \/ takes' = takes
           \/ takes' = [takes EXCEPT ![slot] = @ + 1]
        /\ UNCHANGED <<claim, claims, flag, owner>>
    BY <1>1 DEF TakeLocked, HandoffTypeOK
  <2>2. takes' \in [Taps -> Nat] /\ SlotFresh'
    BY <2>1, TakenFromSlot DEF HandoffTypeOK
  <2> QED
    BY <2>1, <2>2 DEF HandoffTypeOK
<1>2. CASE Claim(tab)
  <2>1. HandoffTypeOK'
    BY <1>2 DEF Claim, HandoffTypeOK
  <2> QED
    BY <1>2, <2>1 DEF Claim, SlotFresh, TakenOnce
<1>3. CASE Settle(tab)
  <2>1. \/ UNCHANGED <<slot, takes>>
        \/ /\ slot' = None
           /\ \/ takes' = takes
              \/ slot \in Taps /\ takes' = [takes EXCEPT ![slot] = @ + 1]
    <3>1. CASE ClaimHolds(tab) /\ ~old
      <4>1. Claimed(tab) = slot /\ slot \in Taps /\ slot' = None
        BY <1>3, <3>1 DEF Settle, ClaimHolds, Claimed, HandoffTypeOK
      <4> QED
        BY <1>3, <4>1 DEF Settle, Taps, None
    <3>2. CASE ~(ClaimHolds(tab) /\ ~old)
      BY <1>3, <3>2 DEF Settle, Claimed
    <3> QED
      BY <3>1, <3>2
  <2>2. old' \in BOOLEAN
    BY <1>3 DEF Settle
  <2>3. claims' \in [Tabs -> Taps \cup {None}]
    BY <1>3 DEF Settle, HandoffTypeOK
  <2>4. claim' \in [id : Taps \cup {None}, by : Tabs]
    BY <1>3 DEF Settle, HandoffTypeOK, NoClaim, Tabs
  <2>5. flag' = flag /\ owner' = owner
    BY <1>3 DEF Settle
  <2>6. /\ slot' \in Taps \cup {None} /\ takes' \in [Taps -> Nat]
        /\ SlotFresh'
    <3>1. CASE UNCHANGED <<slot, takes>>
      BY <3>1 DEF HandoffTypeOK, SlotFresh, TakenOnce
    <3>2. CASE slot' = None
      BY <2>1, <3>2, TakenFromSlot DEF HandoffTypeOK
    <3> QED
      BY <2>1, <3>1, <3>2
  <2>7. HandoffTypeOK'
    BY <2>2, <2>3, <2>4, <2>5, <2>6 DEF HandoffTypeOK
  <2> QED
    BY <2>5, <2>6, <2>7
<1> QED
  BY <1>1, <1>2, <1>3

-----------------------------------------------------------------------------
(* Steps of three common shapes                                            *)

\* Calls that carry neither photos nor a nonce.
Plain == {"session", "adopt", "preview", "deadSession"}

\* A step that stays in the session, and shows the same photos or none.
LEMMA SameSession ==
  ASSUME IInv, TypeOK', SlotFresh',
         page'.session = page.session, page'.spent = page.spent,
         page'.uploaded = page.uploaded, page'.reports = page.reports,
         page'.capturing = page.capturing,
         page.session = None => page'.step = "session",
         page'.alive => page'.step = "tap",
         \/ page'.frames = page.frames /\ page'.reading = page.reading
         \/ page'.frames = NoPhotos /\ page'.reading = NoPhotos,
         server'.issued = server.issued, server'.staged = server.staged,
         server'.scans = server.scans, owner' = owner,
         \A k \in tasks' \ tasks :
           /\ k.kind \in Plain
           /\ page.session = None => k.kind \in {"session", "adopt"}
  PROVE  IInv'
<1>1. SessionKnown'
  BY DEF IInv, SessionKnown
<1>2. Numbered'
  BY DEF IInv, Numbered, Plain
<1>3. UploadsStaged'
  BY DEF IInv, UploadsStaged, SignedPhotosHeld, Plain
<1>4. ReadingsMatch'
  BY DEF IInv, ReadingsMatch, OneCapture, Matching, ReadingOfPhotos, Plain
<1>5. ReportsSpent'
  BY DEF IInv, ReportsSpent, DeadReportFresh, Plain
<1> QED
  BY <1>1, <1>2, <1>3, <1>4, <1>5 DEF IInv

\* A step that takes up the session issued with it.
LEMMA NextSession ==
  ASSUME IInv, TypeOK', SlotFresh', Issue,
         page'.session = Issued, page'.uploaded.photos = NoPhotos,
         page'.alive => page'.step = "tap",
         page'.reports = page.reports, page'.capturing = page.capturing,
         page'.frames = page.frames /\ page'.reading = page.reading,
         owner' \in {owner, Issued},
         \A k \in tasks' \ tasks :
           k.kind = "dead" /\ k = Task("dead", Issued, None, NoPhotos, NoPhotos),
         tasks' # tasks /\ tasks' \ tasks # {} => page'.spent = Issued
  PROVE  IInv'
<1>1. /\ server' \in ServerRecords /\ server'.issued = Issued
      /\ Issued \in Nonces /\ Issued # None /\ Issued = server.issued + 1
      /\ server'.staged = server.staged /\ server'.scans = server.scans
  BY IssueDoes DEF IInv, TypeOK
<1>2. /\ server.issued \in Nat /\ page.session \in Nat /\ owner \in Nat
      /\ page.session < Issued /\ owner < Issued
  <2>1. server.issued \in Nat
    BY DEF IInv, TypeOK, ServerRecords
  <2>2. page.session \in Nonces \cup {None} /\ owner \in Nonces \cup {None}
    BY DEF IInv, TypeOK, HandoffTypeOK, PageRecords
  <2>3. page.session <= server.issued /\ owner <= server.issued
    BY DEF IInv, Numbered
  <2> QED
    BY <1>1, <2>1, <2>2, <2>3 DEF Nonces, None
<1>3. \A k \in tasks' \ tasks :
        /\ k.kind = "dead" /\ k.nonce = Issued
        /\ k = Task("dead", Issued, None, NoPhotos, NoPhotos)
        /\ page'.spent = Issued
  BY <1>1, TaskFields, NoPhotosShown DEF Kinds
<1>4. SessionKnown'
  BY <1>1 DEF SessionKnown
<1>5. Numbered'
  BY <1>1, <1>2, <1>3 DEF IInv, Numbered, Nonces
<1>6. UploadsStaged'
  BY <1>1, <1>3 DEF IInv, UploadsStaged, SignedPhotosHeld
<1>7. ReadingsMatch'
  BY <1>1, <1>3 DEF IInv, ReadingsMatch, OneCapture, Matching, ReadingOfPhotos
<1>8. \A n \in Nonces : page.reports[n] > 0 => n < Issued
  BY <1>1, <1>2 DEF IInv, ReportsSpent, Nonces
<1>9. \A k \in tasks : k.kind = "dead" => k.nonce < Issued
  <2>1. \A k \in tasks : k.nonce \in Nat
    BY DEF IInv, TypeOK, TaskRecords, Nonces, None
  <2> QED
    BY <1>1, <1>2, <2>1 DEF IInv, ReportsSpent, Nonces
<1>10. page.reports[Issued] = 0
  BY <1>1, <1>8 DEF IInv, TypeOK, PageRecords, Nonces
<1>11. ReportsSpent'
  BY <1>1, <1>2, <1>3, <1>8, <1>9, <1>10
  DEF IInv, TypeOK, TaskRecords, ReportsSpent, DeadReportFresh, Nonces, None
<1> QED
  BY <1>4, <1>5, <1>6, <1>7, <1>11 DEF IInv

\* A load of the page, which ends the handlers of the page before.
LEMMA PageLoads ==
  ASSUME IInv, TypeOK', SlotFresh', page' = Reloaded,
         server'.issued = server.issued, server'.staged = server.staged,
         server'.scans = server.scans, owner' = owner,
         \A k \in tasks' : k.kind = "adopt",
         FlagActive(late) /\ owner = flag => tasks' = {}
  PROVE  IInv'
<1>1. /\ page'.frames = NoPhotos /\ page'.reading = NoPhotos
      /\ page'.uploaded.photos = NoPhotos
      /\ \A n \in Nonces : page'.reports[n] = 0
      /\ \/ page'.session = None /\ page'.step = "session"
         \/ page'.session = owner /\ owner # None
      /\ page'.alive = FALSE
  BY FreshPageIs DEF Reloaded, FlagActive, PageRecords
<1>2. SessionKnown'
  BY <1>1 DEF SessionKnown
<1>3. Numbered'
  BY <1>1 DEF IInv, TypeOK, ServerRecords, Numbered, None
<1>4. UploadsStaged'
  BY <1>1 DEF IInv, UploadsStaged, SignedPhotosHeld
<1>5. ReadingsMatch'
  BY <1>1 DEF IInv, ReadingsMatch, OneCapture, Matching, ReadingOfPhotos
<1>6. ReportsSpent'
  BY <1>1 DEF ReportsSpent, DeadReportFresh
<1> QED
  BY <1>2, <1>3, <1>4, <1>5, <1>6 DEF IInv

-----------------------------------------------------------------------------
(* Session                                                                 *)

\* Handlers that leave the storage alone, but for the flag.
LEMMA StorageKeeps ==
  ASSUME IInv, storageKept, flag' \in Nonces \cup {None, Foreign},
         server'.tapped = server.tapped
  PROVE  HandoffTypeOK' /\ SlotFresh' /\ owner' = owner
BY DEF IInv, TypeOK, HandoffTypeOK, storageKept, SlotFresh, TakenOnce

\* A render in the same session, by a handler that ends or begins a call.
LEMMA RerenderKeeps ==
  ASSUME IInv, faults' \in Nat, storageKept, UNCHANGED <<server, shots>>,
         NEW p \in PageRecords, NEW l, Render(p, flag, l), l \subseteq Nonces,
         p.session = page.session, p.spent = page.spent,
         p.uploaded = page.uploaded, p.reports = page.reports,
         p.capturing = page.capturing,
         page.session = None => p.step = "session",
         \/ p.frames = page.frames /\ p.reading = page.reading
         \/ p.frames = NoPhotos /\ p.reading = NoPhotos,
         tasks' \in SUBSET TaskRecords,
         \A k \in tasks' \ tasks :
           /\ k.kind \in Plain
           /\ page.session = None => k.kind \in {"session", "adopt"}
  PROVE  IInv'
<1>1. flag \in Nonces \cup {None, Foreign}
  BY DEF IInv, TypeOK, HandoffTypeOK
<1>2. /\ page' \in PageRecords
      /\ page'.step = p.step /\ page'.session = p.session
      /\ page'.frames = p.frames /\ page'.reading = p.reading
      /\ page'.uploaded = p.uploaded /\ page'.spent = p.spent
      /\ page'.capturing = p.capturing /\ page'.reports = p.reports
      /\ flag' \in Nonces \cup {None, Foreign} /\ late' = l
      /\ page'.alive => page'.step = "tap"
  BY <1>1, RenderDoes
<1>3. HandoffTypeOK' /\ SlotFresh' /\ owner' = owner
  BY <1>2, StorageKeeps
<1>4. TypeOK'
  BY <1>2, <1>3 DEF IInv, TypeOK
<1> QED
  BY <1>2, <1>3, <1>4, SameSession

\* Starting over: the calls of the scan before are still under way.
LEMMA StartSessionKeeps ==
  ASSUME IInv, StartSession, faults' \in Nat
  PROVE  IInv'
<1> DEFINE p == [page EXCEPT !.tag = None, !.verdict = "none",
                             !.frames = NoPhotos, !.reading = NoPhotos]
<1>1. /\ p \in PageRecords /\ p.step = page.step /\ p.session = page.session
      /\ p.frames = NoPhotos /\ p.reading = NoPhotos
      /\ p.uploaded = page.uploaded /\ p.spent = page.spent
      /\ p.capturing = page.capturing /\ p.reports = page.reports
  BY NoPhotosShown DEF IInv, TypeOK, PageRecords, Verdicts
<1>2. Render(p, flag, late) /\ late \subseteq Nonces
  BY DEF StartSession, Rerender, IInv, TypeOK
<1> HIDE DEF p
<1>3. tasks' = tasks \cup {Call("session")} /\ Call("session").kind = "session"
      /\ tasks' \in SUBSET TaskRecords
  BY CallFields DEF StartSession, Begin, Kinds, IInv, TypeOK
<1>4. storageKept /\ UNCHANGED <<server, shots>>
  BY DEF StartSession
<1>5. page.session = None => p.step = "session"
  BY <1>1 DEF IInv, SessionKnown
<1> QED
  BY <1>1, <1>2, <1>3, <1>4, <1>5, RerenderKeeps DEF Plain

\* A session issued to this page: uploads and reports are older.
LEMMA SessionAnsweredKeeps ==
  ASSUME IInv, SessionAnswered, faults' \in Nat
  PROVE  IInv'
<1> DEFINE p == [Adopted(page, Issued) EXCEPT !.step = "tap"]
<1>1. /\ Issue /\ server' \in ServerRecords /\ Issued \in Nonces
      /\ server'.tapped = server.tapped
  BY IssueDoes DEF SessionAnswered, IInv, TypeOK
<1>2. /\ p \in PageRecords /\ p.session = Issued
      /\ p.frames = page.frames /\ p.reading = page.reading
      /\ p.uploaded.photos = NoPhotos
      /\ p.capturing = page.capturing /\ p.reports = page.reports
  BY <1>1, AdoptedDoes DEF IInv, TypeOK, PageRecords, Steps
<1>3. Render(p, Issued, late)
  BY DEF SessionAnswered
<1> HIDE DEF p
<1>4. /\ page' \in PageRecords /\ page'.session = Issued
      /\ page'.frames = page.frames /\ page'.reading = page.reading
      /\ page'.uploaded.photos = NoPhotos /\ (page'.alive => page'.step = "tap")
      /\ page'.capturing = page.capturing /\ page'.reports = page.reports
      /\ flag' \in Nonces \cup {None, Foreign} /\ late' = late
  BY <1>1, <1>2, <1>3, RenderDoes
<1>5. owner' = Issued /\ tasks' = tasks \ {Call("session")}
      /\ UNCHANGED <<slot, claim, claims, old, takes, shots>>
  BY DEF SessionAnswered, End
<1>6. TypeOK'
  BY <1>1, <1>4, <1>5 DEF IInv, TypeOK, HandoffTypeOK
<1>7. SlotFresh'
  BY <1>1, <1>5 DEF IInv, SlotFresh, TakenOnce
<1> QED
  BY <1>1, <1>4, <1>5, <1>6, <1>7, NextSession

\* The countdown of a session runs out.
LEMMA DeadlinePassesKeeps ==
  ASSUME IInv, NEW nonce \in Nonces, DeadlinePasses(nonce), faults' \in Nat
  PROVE  IInv'
<1>1. late \cup {nonce} \subseteq Nonces /\ page \in PageRecords
      /\ tasks \in SUBSET TaskRecords
  BY DEF IInv, TypeOK
<1>2. /\ Render(page, flag, late \cup {nonce}) /\ tasks' = tasks
      /\ storageKept /\ UNCHANGED <<server, shots>>
  BY DEF DeadlinePasses
<1>3. page.session = None => page.step = "session"
  BY DEF IInv, SessionKnown
<1> QED
  BY <1>1, <1>2, <1>3, RerenderKeeps

\* A load of the page is of its type.
LEMMA ReloadedIs ==
  ASSUME HandoffTypeOK
  PROVE  Reloaded \in PageRecords
BY FreshPageIs DEF Reloaded, PageRecords, Steps, HandoffTypeOK, FlagActive

\* A reload ends every handler; the flag and the owner bring the session back.
LEMMA ReloadKeeps ==
  ASSUME IInv, Reload
  PROVE  IInv'
<1>1. /\ page' = Reloaded /\ tasks' = {} /\ faults' = faults + 1
      /\ claims' = [claims EXCEPT ![Here] = None]
      /\ UNCHANGED <<late, server, shots, slot, claim, old, flag, owner, takes>>
  BY DEF Reload, Disturbance
<1>2. Reloaded \in PageRecords /\ claims' \in [Tabs -> Taps \cup {None}]
  BY <1>1, ReloadedIs DEF IInv, TypeOK, HandoffTypeOK
<1>3. HandoffTypeOK'
  BY <1>1, <1>2 DEF IInv, TypeOK, HandoffTypeOK
<1>4. TypeOK'
  BY <1>1, <1>2, <1>3 DEF IInv, TypeOK
<1>5. SlotFresh'
  BY <1>1 DEF IInv, SlotFresh, TakenOnce
<1> QED
  BY <1>1, <1>4, <1>5, PageLoads

-----------------------------------------------------------------------------
(* Tap                                                                     *)

\* A tap that happens is newer than every tap before, and taken by nobody.
LEMMA TapHappens ==
  ASSUME IInv, Tapped \in Taps, server'.tapped = Tapped, takes' = takes,
         slot' \in {slot, Tapped}
  PROVE  SlotFresh' /\ slot' \in Taps \cup {None}
<1>1. server.tapped \in Nat /\ Tapped = server.tapped + 1
  BY DEF IInv, TypeOK, ServerRecords, Tapped
<1>2. takes[Tapped] = 0
  BY <1>1 DEF IInv, SlotFresh
<1>3. slot \in Taps \cup {None}
  BY DEF IInv, TypeOK, HandoffTypeOK
<1>4. slot # None => slot <= Tapped /\ takes[slot] = 0
  BY <1>1, <1>3 DEF IInv, SlotFresh, Taps, None
<1>5. \A t \in Taps : t > Tapped => takes[t] = 0
  BY <1>1 DEF IInv, SlotFresh, Taps
<1>6. TakenOnce'
  BY DEF IInv, SlotFresh, TakenOnce
<1> QED
  BY <1>2, <1>3, <1>4, <1>5, <1>6 DEF SlotFresh, Taps

\* The verifier sees a tap, now or when it is sent in.
LEMMA ServerSeesTap ==
  ASSUME IInv, Tapped \in Taps, NEW s \in SUBSET Taps,
         server' = [server EXCEPT !.tapped = Tapped, !.seen = s]
  PROVE  /\ server' \in ServerRecords /\ server'.tapped = Tapped
         /\ server'.issued = server.issued /\ server'.staged = server.staged
         /\ server'.scans = server.scans
<1>1. Tapped \in 0..MaxTaps
  BY DEF Taps
<1>2. server \in ServerRecords
  BY DEF IInv, TypeOK
<1> QED
  BY <1>1, <1>2 DEF ServerRecords

\* A tap in another tab, into the slot or to the verifier.
LEMMA TapElsewhereKeeps ==
  ASSUME IInv, TapElsewhere, faults' \in Nat
  PROVE  IInv'
<1>1. /\ Tapped \in Taps
      /\ UNCHANGED <<page, tasks, late, shots, claim, claims, flag, owner, takes>>
  BY DEF TapElsewhere
<1>2. /\ server' \in ServerRecords /\ server'.tapped = Tapped
      /\ server'.issued = server.issued /\ server'.staged = server.staged
      /\ server'.scans = server.scans
  <2> DEFINE s == IF FlagActive(late) THEN server.seen
                  ELSE server.seen \cup {Tapped}
  <2>1. s \in SUBSET Taps
    BY <1>1 DEF IInv, TypeOK, ServerRecords
  <2>2. server' = [server EXCEPT !.tapped = Tapped, !.seen = s]
    BY DEF TapElsewhere
  <2> HIDE DEF s
  <2> QED
    BY <1>1, <2>1, <2>2, ServerSeesTap
<1>3. slot' \in {slot, Tapped} /\ old' \in BOOLEAN
  BY DEF TapElsewhere, Put, IInv, TypeOK, HandoffTypeOK
<1>4. SlotFresh' /\ slot' \in Taps \cup {None}
  BY <1>1, <1>2, <1>3, TapHappens
<1>5. HandoffTypeOK'
  BY <1>1, <1>3, <1>4 DEF IInv, TypeOK, HandoffTypeOK
<1>6. TypeOK'
  BY <1>1, <1>2, <1>5 DEF IInv, TypeOK
<1>7. /\ page.session = None => page'.step = "session"
      /\ page'.alive => page'.step = "tap"
  BY <1>1 DEF IInv, SessionKnown
<1> QED
  BY <1>1, <1>2, <1>4, <1>6, <1>7, SameSession

\* A tap in this tab, whose page is lost.
LEMMA TapHereKeeps ==
  ASSUME IInv, TapHere, faults' \in Nat
  PROVE  IInv'
<1> DEFINE k0 == Task("adopt", None, Tapped, NoPhotos, NoPhotos)
<1>1. /\ Tapped \in Taps
      /\ page' = Reloaded /\ claims' = [claims EXCEPT ![Here] = None]
      /\ UNCHANGED <<late, shots, claim, flag, owner, takes>>
  BY DEF TapHere
<1>2. /\ server' \in ServerRecords /\ server'.tapped = Tapped
      /\ server'.issued = server.issued /\ server'.staged = server.staged
      /\ server'.scans = server.scans
  <2> DEFINE s == IF FlagActive(late) THEN server.seen
                  ELSE server.seen \cup {Tapped}
  <2>1. s \in SUBSET Taps
    BY <1>1 DEF IInv, TypeOK, ServerRecords
  <2>2. server' = [server EXCEPT !.tapped = Tapped, !.seen = s]
    BY DEF TapHere
  <2> HIDE DEF s
  <2> QED
    BY <1>1, <2>1, <2>2, ServerSeesTap
<1>3. slot' \in {slot, Tapped} /\ old' \in BOOLEAN
  BY DEF TapHere, Put, IInv, TypeOK, HandoffTypeOK
<1>4. SlotFresh' /\ slot' \in Taps \cup {None}
  BY <1>1, <1>2, <1>3, TapHappens
<1>5. Reloaded \in PageRecords /\ claims' \in [Tabs -> Taps \cup {None}]
  BY <1>1, ReloadedIs DEF IInv, TypeOK, HandoffTypeOK
<1>6. HandoffTypeOK'
  BY <1>1, <1>3, <1>4, <1>5 DEF IInv, TypeOK, HandoffTypeOK
<1>7. k0 \in TaskRecords /\ k0.kind = "adopt"
  BY <1>1, TaskFields, NoPhotosShown DEF Kinds
<1>8. \/ FlagActive(late) /\ owner = flag /\ tasks' = {}
      \/ ~FlagActive(late) /\ tasks' = {k0}
  BY DEF TapHere
<1> HIDE DEF k0
<1>9. TypeOK'
  BY <1>1, <1>2, <1>5, <1>6, <1>7, <1>8 DEF IInv, TypeOK
<1> QED
  BY <1>1, <1>2, <1>4, <1>7, <1>8, <1>9, PageLoads

\* The adoption link: session and tap arrive together.
LEMMA AdoptAnsweredKeeps ==
  ASSUME IInv, faults' \in Nat, NEW task \in tasks, NEW verdict \in Verdicts,
         NEW expiring \in BOOLEAN, AdoptAnswered(task, verdict, expiring)
  PROVE  IInv'
<1> DEFINE l == IF expiring THEN late \cup {Issued} ELSE late
           p == [Adopted(page, Issued) EXCEPT
                   !.tag = IF expiring THEN @ ELSE task.tap,
                   !.verdict = IF expiring THEN "other" ELSE verdict,
                   !.step = IF ~expiring /\ verdict = "NO_RESPONSE" THEN "dead"
                            ELSE "preview"]
<1>1. /\ Issue /\ server' \in ServerRecords /\ Issued \in Nonces
      /\ server'.tapped = server.tapped
  BY IssueDoes DEF AdoptAnswered, IInv, TypeOK
<1>2. task.tap \in Taps \cup {None} /\ l \subseteq Nonces
  BY <1>1 DEF IInv, TypeOK, TaskRecords
<1>3. /\ p \in PageRecords /\ p.session = Issued
      /\ p.frames = page.frames /\ p.reading = page.reading
      /\ p.uploaded.photos = NoPhotos
      /\ p.capturing = page.capturing /\ p.reports = page.reports
  <2> DEFINE q == Adopted(page, Issued)
             tap == IF expiring THEN q.tag ELSE task.tap
             shown == IF expiring THEN "other" ELSE verdict
             step == IF ~expiring /\ verdict = "NO_RESPONSE" THEN "dead"
                     ELSE "preview"
  <2>1. /\ q \in PageRecords /\ q.session = Issued
        /\ q.frames = page.frames /\ q.reading = page.reading
        /\ q.uploaded.photos = NoPhotos
        /\ q.capturing = page.capturing /\ q.reports = page.reports
    BY <1>1, AdoptedDoes DEF IInv, TypeOK
  <2>2. /\ tap \in Taps \cup {None} /\ shown \in Verdicts /\ step \in Steps
    BY <1>2, <2>1 DEF PageRecords, Verdicts, Steps
  <2>3. p = [q EXCEPT !.tag = tap, !.verdict = shown, !.step = step]
    OBVIOUS
  <2> HIDE DEF p, q, tap, shown, step
  <2> QED
    BY <2>1, <2>2, <2>3 DEF PageRecords
<1>4. Render(p, Issued, l)
  BY DEF AdoptAnswered
<1> HIDE DEF p, l
<1>5. /\ page' \in PageRecords /\ page'.session = Issued
      /\ page'.frames = page.frames /\ page'.reading = page.reading
      /\ page'.uploaded.photos = NoPhotos /\ (page'.alive => page'.step = "tap")
      /\ page'.capturing = page.capturing /\ page'.reports = page.reports
      /\ flag' \in Nonces \cup {None, Foreign} /\ late' = l
  BY <1>1, <1>3, <1>4, RenderDoes
<1>6. owner' = Issued /\ tasks' = tasks \ {task}
      /\ UNCHANGED <<slot, claim, claims, old, takes, shots>>
  BY DEF AdoptAnswered, End
<1>7. TypeOK'
  BY <1>1, <1>2, <1>5, <1>6 DEF IInv, TypeOK, HandoffTypeOK
<1>8. SlotFresh'
  BY <1>1, <1>6 DEF IInv, SlotFresh, TakenOnce
<1> QED
  BY <1>1, <1>5, <1>6, <1>7, <1>8, NextSession

\* onTag: the tap becomes the page's, and its preview is asked for.
LEMMA OnTagDoes ==
  ASSUME IInv, NEW tap \in Taps, Begin(PreviewOf(tap)), page' = OnTag(page, tap)
  PROVE  /\ page' \in PageRecords
         /\ page'.session = page.session /\ page'.step = page.step
         /\ page'.frames = page.frames /\ page'.reading = page.reading
         /\ page'.uploaded = page.uploaded /\ page'.spent = page.spent
         /\ page'.capturing = page.capturing /\ page'.reports = page.reports
         /\ page'.alive = page.alive
         /\ tasks' = tasks \cup {PreviewOf(tap)}
         /\ PreviewOf(tap).kind = "preview" /\ tasks' \in SUBSET TaskRecords
<1>1. PreviewOf(tap).kind = "preview" /\ PreviewOf(tap) \in TaskRecords
  BY TaskFields, NoPhotosShown DEF PreviewOf, Kinds
<1>2. tasks' = tasks \cup {PreviewOf(tap)} /\ tasks' \in SUBSET TaskRecords
  BY <1>1 DEF Begin, IInv, TypeOK
<1>3. page \in PageRecords
  BY DEF IInv, TypeOK
<1>4. /\ page' \in PageRecords
      /\ page'.session = page.session /\ page'.step = page.step
      /\ page'.frames = page.frames /\ page'.reading = page.reading
      /\ page'.uploaded = page.uploaded /\ page'.spent = page.spent
      /\ page'.capturing = page.capturing /\ page'.reports = page.reports
      /\ page'.alive = page.alive
  BY <1>3 DEF OnTag, PageRecords
<1> QED
  BY <1>1, <1>2, <1>4

\* A tap that this page took or read: only in a session.
LEMMA TapReadKeeps ==
  ASSUME IInv, faults' \in Nat, HandoffTypeOK', SlotFresh', owner' = owner,
         page.session # None, late' = late, shots' = shots,
         server' \in ServerRecords, server'.issued = server.issued,
         server'.staged = server.staged, server'.scans = server.scans,
         NEW tap \in Taps, Begin(PreviewOf(tap)), page' = OnTag(page, tap)
  PROVE  IInv'
<1>1. /\ page' \in PageRecords /\ tasks' \in SUBSET TaskRecords
      /\ \A k \in tasks' \ tasks : k.kind = "preview"
      /\ page'.session = page.session
      /\ page'.frames = page.frames /\ page'.reading = page.reading
      /\ page'.uploaded = page.uploaded /\ page'.spent = page.spent
      /\ page'.capturing = page.capturing /\ page'.reports = page.reports
  BY OnTagDoes
<1>2. page'.alive => page'.step = "tap"
  BY OnTagDoes DEF IInv, SessionKnown
<1>3. TypeOK'
  BY <1>1 DEF IInv, TypeOK
<1> QED
  BY <1>1, <1>2, <1>3, SameSession DEF Plain

\* The page and its calls stay as they are while others take and flag.
LEMMA StorageMoves ==
  ASSUME IInv, faults' \in Nat, HandoffTypeOK', SlotFresh', owner' = owner,
         UNCHANGED <<page, tasks, late, server, shots>>
  PROVE  IInv'
<1>1. TypeOK'
  BY DEF IInv, TypeOK
<1>2. /\ page.session = None => page'.step = "session"
      /\ page'.alive => page'.step = "tap"
  BY DEF IInv, SessionKnown
<1> QED
  BY <1>1, <1>2, SameSession

\* The tap step is reached with a session only.
LEMMA TapNeedsSession ==
  ASSUME IInv, page.step # "session"
  PROVE  page.session # None
BY DEF IInv, SessionKnown

\* pick() with Web Locks.
LEMMA PickLockedKeeps ==
  ASSUME IInv, PickLocked, faults' \in Nat
  PROVE  IInv'
<1>1. /\ TakeLocked(Here) /\ Here \in Tabs /\ HandoffTypeOK /\ SlotFresh
      /\ server.tapped \in Nat /\ server' = server /\ server \in ServerRecords
      /\ late' = late /\ shots' = shots /\ page.step # "session"
  BY DEF PickLocked, Shows, Tabs, IInv, TypeOK, ServerRecords
<1>2. HandoffTypeOK' /\ SlotFresh' /\ owner' = owner
  BY <1>1, TakingKeeps
<1>3. CASE old
  BY <1>1, <1>2, <1>3, StorageMoves DEF PickLocked
<1>4. CASE ~old
  <2>1. slot \in Taps /\ Begin(PreviewOf(slot)) /\ page' = OnTag(page, slot)
    BY <1>1, <1>4 DEF PickLocked, TakeLocked, HandoffTypeOK
  <2> QED
    BY <1>1, <1>2, <2>1, TapNeedsSession, TapReadKeeps
<1> QED
  BY <1>3, <1>4

\* pick() without: the claim changes nothing else.
LEMMA PickClaimKeeps ==
  ASSUME IInv, PickClaim, faults' \in Nat
  PROVE  IInv'
<1>1. /\ Claim(Here) /\ Here \in Tabs /\ HandoffTypeOK /\ SlotFresh
      /\ server.tapped \in Nat /\ page \in PageRecords /\ page.step = "tap"
      /\ page' = [page EXCEPT !.alive = TRUE]
      /\ UNCHANGED <<tasks, late, server, shots>>
  BY DEF PickClaim, Shows, Tabs, IInv, TypeOK, ServerRecords
<1>2. HandoffTypeOK' /\ SlotFresh' /\ owner' = owner
  BY <1>1, TakingKeeps
<1>3. /\ page' \in PageRecords
      /\ page'.session = page.session /\ page'.step = "tap"
      /\ page'.frames = page.frames /\ page'.reading = page.reading
      /\ page'.uploaded = page.uploaded /\ page'.spent = page.spent
      /\ page'.capturing = page.capturing /\ page'.reports = page.reports
  BY <1>1 DEF PageRecords
<1>4. TypeOK'
  BY <1>1, <1>2, <1>3 DEF IInv, TypeOK
<1> QED
  BY <1>1, <1>2, <1>3, <1>4, TapNeedsSession, SameSession

\* The claim is checked; the tap counts for the page if it still waits.
LEMMA PickSettlesKeeps ==
  ASSUME IInv, PickSettles, faults' \in Nat
  PROVE  IInv'
<1>1. /\ Settle(Here) /\ Here \in Tabs /\ HandoffTypeOK /\ SlotFresh
      /\ server.tapped \in Nat /\ server' = server /\ server \in ServerRecords
      /\ late' = late /\ shots' = shots
  BY DEF PickSettles, Tabs, IInv, TypeOK, ServerRecords
<1>2. HandoffTypeOK' /\ SlotFresh' /\ owner' = owner
  BY <1>1, TakingKeeps
<1>3. CASE Claimed(Here) # None /\ page.alive
  <2>1. /\ Claimed(Here) \in Taps
        /\ Begin(PreviewOf(Claimed(Here))) /\ page' = OnTag(page, Claimed(Here))
    BY <1>1, <1>3 DEF PickSettles, Claimed, HandoffTypeOK
  <2>2. page.step # "session"
    BY <1>3 DEF IInv, SessionKnown
  <2> QED
    BY <1>1, <1>2, <2>1, <2>2, TapNeedsSession, TapReadKeeps
<1>4. CASE ~(Claimed(Here) # None /\ page.alive)
  BY <1>1, <1>2, <1>4, StorageMoves DEF PickSettles
<1> QED
  BY <1>3, <1>4

\* A tap read by the page itself.
LEMMA ReadTapKeeps ==
  ASSUME IInv, ReadTap, faults' \in Nat
  PROVE  IInv'
<1>1. /\ Tapped \in Taps /\ page.step # "session"
      /\ Begin(PreviewOf(Tapped)) /\ page' = OnTag(page, Tapped)
      /\ UNCHANGED <<late, shots, slot, claim, claims, old, flag, owner, takes>>
  BY DEF ReadTap, Shows, handoffVars
<1>2. server' = [server EXCEPT !.tapped = Tapped, !.seen = server.seen]
  BY DEF ReadTap, IInv, TypeOK, ServerRecords
<1>3. /\ server' \in ServerRecords /\ server'.tapped = Tapped
      /\ server'.issued = server.issued /\ server'.staged = server.staged
      /\ server'.scans = server.scans
  <2>1. server.seen \in SUBSET Taps
    BY DEF IInv, TypeOK, ServerRecords
  <2> QED
    BY <1>1, <1>2, <2>1, ServerSeesTap
<1>4. SlotFresh'
  BY <1>1, <1>3, TapHappens
<1>5. HandoffTypeOK'
  BY <1>1 DEF IInv, TypeOK, HandoffTypeOK
<1> QED
  BY <1>1, <1>3, <1>4, <1>5, TapNeedsSession, TapReadKeeps

\* Other tabs take taps and move the flag; the handoff grows old.
LEMMA OthersKeep ==
  ASSUME IInv, Others
  PROVE  IInv'
<1>1. UNCHANGED <<page, tasks, late, server, shots>> /\ faults' \in Nat
  BY DEF Others, Disturbance, IInv, TypeOK
<1>2. CASE OtherTakes
  <2>1. /\ There \in Tabs /\ HandoffTypeOK /\ SlotFresh /\ server.tapped \in Nat
        /\ server'.tapped = server.tapped
    BY <1>1 DEF Tabs, IInv, TypeOK, ServerRecords
  <2>2. HandoffTypeOK' /\ SlotFresh' /\ owner' = owner
    BY <1>2, <2>1, TakingKeeps DEF OtherTakes
  <2> QED
    BY <1>1, <2>2, StorageMoves
<1>3. CASE OtherFlags \/ Ages
  <2>1. /\ UNCHANGED <<slot, claim, claims, owner, takes>>
        /\ old' \in BOOLEAN /\ flag' \in Nonces \cup {None, Foreign}
    BY <1>3 DEF OtherFlags, Ages, IInv, TypeOK, HandoffTypeOK
  <2>2. HandoffTypeOK'
    BY <2>1 DEF IInv, TypeOK, HandoffTypeOK
  <2>3. SlotFresh'
    BY <1>1, <2>1 DEF IInv, SlotFresh, TakenOnce
  <2> QED
    BY <1>1, <2>1, <2>2, <2>3, StorageMoves
<1> QED
  BY <1>2, <1>3 DEF Others

\* "Seal does not respond".
LEMMA NoSealKeeps ==
  ASSUME IInv, faults' \in Nat, NoSeal
  PROVE  IInv'
<1> DEFINE p == [page EXCEPT !.tag = None, !.verdict = "none", !.step = "dead"]
<1>1. /\ page \in PageRecords /\ tasks \in SUBSET TaskRecords
      /\ late \subseteq Nonces
  BY DEF IInv, TypeOK
<1>2. /\ p \in PageRecords /\ p.session = page.session /\ p.spent = page.spent
      /\ p.uploaded = page.uploaded /\ p.reports = page.reports
      /\ p.capturing = page.capturing
      /\ p.frames = page.frames /\ p.reading = page.reading
  BY <1>1, NoPhotosShown DEF PageRecords, Steps, Verdicts
<1>3. /\ Render(p, flag, late) /\ storageKept /\ tasks' \subseteq tasks
      /\ UNCHANGED <<server, shots>>
  BY DEF NoSeal, Rerender
<1>4. page.session # None
  BY TapNeedsSession DEF NoSeal, Shows
<1> HIDE DEF p
<1> QED
  BY <1>1, <1>2, <1>3, <1>4, RerenderKeeps

\* The preview decides the step, whatever the page showed meanwhile.
LEMMA PreviewAnsweredKeeps ==
  ASSUME IInv, faults' \in Nat, NEW task \in tasks,
         NEW verdict \in Verdicts, PreviewAnswered(task, verdict)
  PROVE  IInv'
<1> DEFINE p == [page EXCEPT
                   !.verdict = verdict, !.busy = FALSE,
                   !.step = IF verdict = "NO_RESPONSE" THEN "dead" ELSE "preview"]
<1>1. /\ page \in PageRecords /\ tasks \in SUBSET TaskRecords
      /\ late \subseteq Nonces
  BY DEF IInv, TypeOK
<1>2. /\ p \in PageRecords /\ p.session = page.session /\ p.spent = page.spent
      /\ p.uploaded = page.uploaded /\ p.reports = page.reports
      /\ p.capturing = page.capturing
      /\ p.frames = page.frames /\ p.reading = page.reading
  BY <1>1, NoPhotosShown, ZenonT(30) DEF PageRecords, Steps, Verdicts
<1>3. /\ Render(p, flag, late) /\ storageKept /\ tasks' \subseteq tasks
      /\ UNCHANGED <<server, shots>>
  BY DEF PreviewAnswered, Rerender, End
<1>4. page.session # None
  BY TapNeedsSession DEF PreviewAnswered, IInv, SessionKnown
<1> HIDE DEF p
<1> QED
  BY <1>1, <1>2, <1>3, <1>4, RerenderKeeps

-----------------------------------------------------------------------------
(* Preview, camera, reading                                                *)

\* "Continue to camera", "Photograph again".
LEMMA ToCameraKeeps ==
  ASSUME IInv, faults' \in Nat, ToCamera
  PROVE  IInv'
<1> DEFINE p == [page EXCEPT !.step = "camera"]
<1>1. /\ page \in PageRecords /\ tasks \in SUBSET TaskRecords
      /\ late \subseteq Nonces
  BY DEF IInv, TypeOK
<1>2. /\ p \in PageRecords /\ p.session = page.session /\ p.spent = page.spent
      /\ p.uploaded = page.uploaded /\ p.reports = page.reports
      /\ p.capturing = page.capturing
      /\ p.frames = page.frames /\ p.reading = page.reading
  BY <1>1, NoPhotosShown DEF PageRecords, Steps, Verdicts
<1>3. /\ Render(p, flag, late) /\ storageKept /\ tasks' \subseteq tasks
      /\ UNCHANGED <<server, shots>>
  BY DEF ToCamera, Rerender
<1>4. page.session # None
  BY TapNeedsSession DEF ToCamera, Shows
<1> HIDE DEF p
<1> QED
  BY <1>1, <1>2, <1>3, <1>4, RerenderKeeps

\* Going on without photos forgets photos and reading together.
LEMMA SkipCameraKeeps ==
  ASSUME IInv, faults' \in Nat, SkipCamera
  PROVE  IInv'
<1> DEFINE p == [page EXCEPT !.frames = NoPhotos, !.reading = NoPhotos,
                             !.step = "read"]
<1>1. /\ page \in PageRecords /\ tasks \in SUBSET TaskRecords
      /\ late \subseteq Nonces
  BY DEF IInv, TypeOK
<1>2. /\ p \in PageRecords /\ p.session = page.session /\ p.spent = page.spent
      /\ p.uploaded = page.uploaded /\ p.reports = page.reports
      /\ p.capturing = page.capturing
      /\ p.frames = NoPhotos /\ p.reading = NoPhotos
  BY <1>1, NoPhotosShown DEF PageRecords, Steps, Verdicts
<1>3. /\ Render(p, flag, late) /\ storageKept /\ tasks' \subseteq tasks
      /\ UNCHANGED <<server, shots>>
  BY DEF SkipCamera, Rerender
<1>4. page.session # None
  BY TapNeedsSession DEF SkipCamera, Shows
<1> HIDE DEF p
<1> QED
  BY <1>1, <1>2, <1>3, <1>4, RerenderKeeps

\* The anchor step ends.
LEMMA AnchoredKeeps ==
  ASSUME IInv, faults' \in Nat, Anchored
  PROVE  IInv'
<1> DEFINE p == [page EXCEPT !.step = "done"]
<1>1. /\ page \in PageRecords /\ tasks \in SUBSET TaskRecords
      /\ late \subseteq Nonces
  BY DEF IInv, TypeOK
<1>2. /\ p \in PageRecords /\ p.session = page.session /\ p.spent = page.spent
      /\ p.uploaded = page.uploaded /\ p.reports = page.reports
      /\ p.capturing = page.capturing
      /\ p.frames = page.frames /\ p.reading = page.reading
  BY <1>1, NoPhotosShown DEF PageRecords, Steps, Verdicts
<1>3. /\ Render(p, flag, late) /\ storageKept /\ tasks' \subseteq tasks
      /\ UNCHANGED <<server, shots>>
  BY DEF Anchored, Rerender
<1>4. page.session # None
  BY TapNeedsSession DEF Anchored
<1> HIDE DEF p
<1> QED
  BY <1>1, <1>2, <1>3, <1>4, RerenderKeeps

\* Handlers that leave the storage alone altogether.
LEMMA StorageStays ==
  ASSUME IInv, UNCHANGED handoffVars, server'.tapped = server.tapped
  PROVE  HandoffTypeOK' /\ SlotFresh' /\ owner' = owner
BY DEF IInv, TypeOK, HandoffTypeOK, handoffVars, SlotFresh, TakenOnce

\* A capture begins: no other is under way, as capturing says.
LEMMA CaptureKeeps ==
  ASSUME IInv, faults' \in Nat, Capture
  PROVE  IInv'
<1> DEFINE k0 == Task("grab", page.session, None, NoPhotos, NoPhotos)
<1>1. page \in PageRecords /\ tasks \in SUBSET TaskRecords
  BY DEF IInv, TypeOK
<1>2. page.session # None /\ page.session \in Nonces /\ page.capturing = FALSE
  BY <1>1, TapNeedsSession DEF Capture, Shows, PageRecords
<1>3. k0 \in TaskRecords /\ k0.kind = "grab" /\ k0.nonce = page.session
  BY <1>2, TaskFields, NoPhotosShown DEF Kinds
<1>4. /\ tasks' = tasks \cup {k0}
      /\ page' = [page EXCEPT !.capturing = TRUE, !.busy = TRUE]
      /\ UNCHANGED <<late, server, shots>> /\ UNCHANGED handoffVars
  BY DEF Capture, Begin
<1> HIDE DEF k0
<1>5. /\ page' \in PageRecords /\ page'.capturing = TRUE
      /\ page'.session = page.session /\ page'.step = page.step
      /\ page'.frames = page.frames /\ page'.reading = page.reading
      /\ page'.uploaded = page.uploaded /\ page'.spent = page.spent
      /\ page'.reports = page.reports /\ page'.alive = page.alive
  BY <1>1, <1>4 DEF PageRecords
<1>6. HandoffTypeOK' /\ SlotFresh' /\ owner' = owner
  BY <1>4, StorageStays
<1>7. TypeOK'
  BY <1>1, <1>3, <1>4, <1>5, <1>6 DEF IInv, TypeOK
<1>8. SessionKnown'
  BY <1>2, <1>5 DEF IInv, SessionKnown
<1>9. Numbered'
  BY <1>3, <1>4, <1>5, <1>6 DEF IInv, Numbered
<1>10. UploadsStaged'
  BY <1>3, <1>4, <1>5 DEF IInv, UploadsStaged, SignedPhotosHeld
<1>11. ReadingsMatch'
  <2>1. \A k \in tasks : k.kind \notin {"grab", "reading"}
    BY <1>2 DEF IInv, ReadingsMatch, OneCapture
  <2>2. OneCapture'
    BY <1>2, <1>3, <1>4, <1>5, <2>1 DEF OneCapture
  <2> QED
    BY <1>3, <1>4, <1>5, <2>2 DEF IInv, ReadingsMatch, Matching, ReadingOfPhotos
<1>12. ReportsSpent'
  BY <1>3, <1>4, <1>5 DEF IInv, ReportsSpent, DeadReportFresh
<1> QED
  BY <1>6, <1>7, <1>8, <1>9, <1>10, <1>11, <1>12 DEF IInv

\* The photos are shown, and read: they are the only ones being read.
LEMMA FramesReadyKeeps ==
  ASSUME IInv, faults' \in Nat, NEW task \in tasks, FramesReady(task)
  PROVE  IInv'
<1> DEFINE photos == [code |-> task.nonce, n |-> shots + 1]
           k0 == Task("reading", None, None, photos, NoPhotos)
           p == [page EXCEPT !.frames = photos, !.reading = NoPhotos,
                             !.step = "read", !.busy = TRUE]
<1>1. page \in PageRecords /\ tasks \in SUBSET TaskRecords
  BY DEF IInv, TypeOK
<1>2. task.kind = "grab" /\ task.nonce \in Nonces /\ page.capturing
  BY <1>1 DEF FramesReady, TaskRecords, IInv, ReadingsMatch, OneCapture
<1>3. photos \in Photos /\ shots + 1 \in 0..MaxShots
  BY <1>2 DEF FramesReady, Photos, IInv, TypeOK
<1>4. photos \in Shown /\ photos # NoPhotos
  BY <1>3, NoPhotosShown DEF Shown
<1> HIDE DEF photos
<1>5. /\ k0 \in TaskRecords /\ k0.kind = "reading"
      /\ k0.photos = photos
  <2>1. "reading" \in Kinds /\ None \in Nonces \cup {None}
        /\ None \in Taps \cup {None}
    BY DEF Kinds
  <2> QED
    BY <1>4, <2>1, TaskFields, NoPhotosShown
<1>6. /\ p \in PageRecords /\ p.session = page.session
      /\ p.frames = photos /\ p.reading = NoPhotos
      /\ p.uploaded = page.uploaded /\ p.spent = page.spent
      /\ p.capturing = page.capturing /\ p.reports = page.reports
  BY <1>1, <1>4, NoPhotosShown DEF PageRecords, Steps
<1>7. /\ tasks' = (tasks \ {task}) \cup {k0} /\ shots' = shots + 1
      /\ Render(p, flag, late) /\ storageKept /\ server' = server
  BY DEF FramesReady, Replace, Rerender, photos
<1> HIDE DEF k0, p
<1>8. /\ page' \in PageRecords /\ page'.session = page.session
      /\ page'.frames = photos /\ page'.reading = NoPhotos
      /\ page'.uploaded = page.uploaded /\ page'.spent = page.spent
      /\ page'.capturing = page.capturing /\ page'.reports = page.reports
      /\ flag' \in Nonces \cup {None, Foreign} /\ late' = late
      /\ page'.alive => page'.step = "tap"
  BY <1>6, <1>7, RenderDoes DEF IInv, TypeOK, HandoffTypeOK
<1>9. HandoffTypeOK' /\ SlotFresh' /\ owner' = owner
  BY <1>7, <1>8, StorageKeeps
<1>10. TypeOK'
  BY <1>1, <1>3, <1>5, <1>7, <1>8, <1>9 DEF IInv, TypeOK
<1>11. SessionKnown'
  BY <1>2, <1>8 DEF IInv, SessionKnown
<1>12. Numbered'
  BY <1>5, <1>7, <1>8, <1>9 DEF IInv, Numbered
<1>13. UploadsStaged'
  BY <1>5, <1>7, <1>8 DEF IInv, UploadsStaged, SignedPhotosHeld
<1>14. ReadingsMatch'
  <2>1. \A k \in tasks \ {task} : k.kind \notin {"grab", "reading"}
    BY <1>2 DEF IInv, ReadingsMatch, OneCapture
  <2>2. OneCapture'
    BY <1>2, <1>4, <1>5, <1>7, <1>8, <2>1 DEF OneCapture
  <2> QED
    BY <1>5, <1>7, <1>8, <2>2 DEF IInv, ReadingsMatch, Matching, ReadingOfPhotos
<1>15. ReportsSpent'
  BY <1>5, <1>7, <1>8 DEF IInv, ReportsSpent, DeadReportFresh
<1> QED
  BY <1>9, <1>10, <1>11, <1>12, <1>13, <1>14, <1>15 DEF IInv

\* The reading is set; it was made from the photos shown, if any are.
LEMMA ReadingReadyKeeps ==
  ASSUME IInv, faults' \in Nat, NEW task \in tasks, NEW found \in BOOLEAN,
         ReadingReady(task, found)
  PROVE  IInv'
<1>1. /\ page \in PageRecords
      /\ tasks \in SUBSET TaskRecords /\ task \in TaskRecords
  BY DEF IInv, TypeOK
<1>2. /\ task.kind = "reading" /\ task.photos # NoPhotos /\ task.photos \in Shown
      /\ page.frames \in {NoPhotos, task.photos}
  BY <1>1 DEF ReadingReady, TaskRecords, IInv, ReadingsMatch, OneCapture
<1>3. PICK reading \in {NoPhotos, task.photos} :
        page' = [page EXCEPT !.reading = reading,
                             !.capturing = FALSE, !.busy = FALSE]
  BY DEF ReadingReady
<1>4. reading \in Shown
  BY <1>2, NoPhotosShown
<1>5. /\ page' \in PageRecords /\ page'.reading = reading
      /\ page'.session = page.session /\ page'.step = page.step
      /\ page'.frames = page.frames
      /\ page'.uploaded = page.uploaded /\ page'.spent = page.spent
      /\ page'.reports = page.reports /\ page'.alive = page.alive
  BY <1>1, <1>3, <1>4 DEF PageRecords
<1>6. tasks' = tasks \ {task} /\ UNCHANGED <<late, server, shots>>
  BY DEF ReadingReady, End
<1>7. HandoffTypeOK' /\ SlotFresh' /\ owner' = owner
  BY StorageStays DEF ReadingReady
<1>8. TypeOK'
  BY <1>1, <1>5, <1>6, <1>7 DEF IInv, TypeOK
<1>9. SessionKnown'
  BY <1>5, <1>6 DEF IInv, SessionKnown
<1>10. Numbered'
  BY <1>5, <1>6, <1>7 DEF IInv, Numbered
<1>11. UploadsStaged'
  BY <1>5, <1>6 DEF IInv, UploadsStaged, SignedPhotosHeld
<1>12. ReadingsMatch'
  <2>1. \A k \in tasks' : k.kind \notin {"grab", "reading"}
    BY <1>2, <1>6 DEF IInv, ReadingsMatch, OneCapture
  <2>2. OneCapture'
    BY <2>1 DEF OneCapture
  <2>3. Matching(page'.frames, page'.reading)
    BY <1>2, <1>5 DEF Matching
  <2> QED
    BY <1>6, <2>2, <2>3 DEF IInv, ReadingsMatch, Matching, ReadingOfPhotos
<1>13. ReportsSpent'
  BY <1>5, <1>6 DEF IInv, ReportsSpent, DeadReportFresh
<1> QED
  BY <1>7, <1>8, <1>9, <1>10, <1>11, <1>12, <1>13 DEF IInv

-----------------------------------------------------------------------------
(* Upload and signature                                                    *)

\* The signature covers the photos shown: the cached upload answers for
\* nothing else.
LEMMA MediaIsShown ==
  \A photos : MediaFor(photos) = photos
BY DEF MediaFor, Uploaded

\* The task of "Get signature" holds what is shown when it is pressed, and
\* skips the upload only of photos that are staged under the nonce.
LEMMA RequestSignatureKeeps ==
  ASSUME IInv, faults' \in Nat, RequestSignature
  PROVE  IInv'
<1> DEFINE kind == IF \/ page.frames = NoPhotos
                      \/ Uploaded(page.session, page.frames)
                   THEN "verify" ELSE "upload"
           k0 == Task(kind, page.session, page.tag, page.frames, page.reading)
<1>1. page \in PageRecords /\ tasks \in SUBSET TaskRecords
  BY DEF IInv, TypeOK
<1>2. /\ page.session # None /\ page.session \in Nonces
      /\ page.tag # None /\ page.tag \in Taps
      /\ page.frames \in Shown /\ page.reading \in Shown
  BY <1>1 DEF RequestSignature, PageRecords
<1>3. kind \in {"upload", "verify"} /\ kind \in Kinds
  BY DEF Kinds
<1>4. kind = "upload" => page.frames # NoPhotos
  OBVIOUS
<1>5. kind = "verify" /\ page.frames # NoPhotos =>
        page.frames \in server.staged[page.session]
  BY DEF Uploaded, IInv, UploadsStaged
<1>6. /\ tasks' = tasks \cup {k0}
      /\ page' = [page EXCEPT !.busy = TRUE]
      /\ UNCHANGED <<late, server, shots>> /\ UNCHANGED handoffVars
  BY MediaIsShown DEF RequestSignature, Begin
<1> HIDE DEF kind
<1>7. /\ k0 \in TaskRecords /\ k0.kind = kind
      /\ k0.nonce = page.session /\ k0.tap = page.tag
      /\ k0.photos = page.frames /\ k0.reading = page.reading
  BY <1>2, <1>3, TaskFields
<1> HIDE DEF k0
<1>8. /\ page' \in PageRecords /\ page'.capturing = page.capturing
      /\ page'.session = page.session /\ page'.step = page.step
      /\ page'.frames = page.frames /\ page'.reading = page.reading
      /\ page'.uploaded = page.uploaded /\ page'.spent = page.spent
      /\ page'.reports = page.reports /\ page'.alive = page.alive
  BY <1>1, <1>6 DEF PageRecords
<1>9. HandoffTypeOK' /\ SlotFresh' /\ owner' = owner
  BY <1>6, StorageStays
<1>10. TypeOK'
  BY <1>1, <1>6, <1>7, <1>8, <1>9 DEF IInv, TypeOK
<1>11. SessionKnown'
  BY <1>2, <1>8 DEF IInv, SessionKnown
<1>12. Numbered'
  BY <1>2, <1>3, <1>4, <1>6, <1>7, <1>8, <1>9 DEF IInv, Numbered
<1>13. UploadsStaged'
  BY <1>5, <1>6, <1>7, <1>8 DEF IInv, UploadsStaged, SignedPhotosHeld
<1>14. ReadingsMatch'
  <2>1. OneCapture'
    BY <1>3, <1>6, <1>7, <1>8 DEF IInv, ReadingsMatch, OneCapture
  <2>2. Matching(k0.photos, k0.reading)
    BY <1>7 DEF IInv, ReadingsMatch
  <2> QED
    BY <1>6, <1>8, <2>1, <2>2 DEF IInv, ReadingsMatch, ReadingOfPhotos
<1>15. ReportsSpent'
  BY <1>3, <1>6, <1>7, <1>8 DEF IInv, ReportsSpent, DeadReportFresh
<1> QED
  BY <1>9, <1>10, <1>11, <1>12, <1>13, <1>14, <1>15 DEF IInv

\* The photos are staged under the nonce that the signature will be for.
LEMMA UploadAnsweredKeeps ==
  ASSUME IInv, faults' \in Nat, NEW task \in tasks, UploadAnswered(task)
  PROVE  IInv'
<1> DEFINE k0 == [task EXCEPT !.kind = "verify"]
           staged == [server.staged EXCEPT ![task.nonce] = @ \cup {task.photos}]
<1>1. /\ page \in PageRecords
      /\ tasks \in SUBSET TaskRecords /\ task \in TaskRecords
      /\ server \in ServerRecords
  BY DEF IInv, TypeOK
<1>2. /\ task.kind = "upload" /\ task.nonce \in Nonces /\ task.tap # None
      /\ task.nonce # None
      /\ task.photos \in Photos /\ task.photos # NoPhotos
  BY <1>1, NoPhotosShown DEF UploadAnswered, IInv, Numbered, TaskRecords
<1>3. /\ k0 \in TaskRecords /\ k0.kind = "verify" /\ k0.nonce = task.nonce
      /\ k0.tap = task.tap /\ k0.photos = task.photos
      /\ k0.reading = task.reading
  BY <1>1 DEF TaskRecords, Kinds
<1>4. /\ staged \in [Nonces -> SUBSET Photos]
      /\ task.photos \in staged[task.nonce]
      /\ \A n \in Nonces : server.staged[n] \subseteq staged[n]
  BY <1>1, <1>2 DEF ServerRecords
<1>5. /\ server' = [server EXCEPT !.staged = staged]
      /\ tasks' = (tasks \ {task}) \cup {k0}
      /\ page' = [page EXCEPT !.uploaded =
                    [nonce |-> task.nonce, photos |-> task.photos]]
      /\ UNCHANGED <<late, shots>> /\ UNCHANGED handoffVars
  BY <1>1 DEF UploadAnswered, Replace, ServerRecords
<1> HIDE DEF k0, staged
<1>6. /\ server' \in ServerRecords /\ server'.staged = staged
      /\ server'.issued = server.issued /\ server'.tapped = server.tapped
      /\ server'.scans = server.scans
  BY <1>1, <1>4, <1>5 DEF ServerRecords
<1>7. /\ page' \in PageRecords /\ page'.capturing = page.capturing
      /\ page'.session = page.session /\ page'.step = page.step
      /\ page'.frames = page.frames /\ page'.reading = page.reading
      /\ page'.uploaded.nonce = task.nonce
      /\ page'.uploaded.photos = task.photos /\ page'.spent = page.spent
      /\ page'.reports = page.reports /\ page'.alive = page.alive
  BY <1>1, <1>2, <1>5 DEF PageRecords, Shown
<1>8. HandoffTypeOK' /\ SlotFresh' /\ owner' = owner
  BY <1>5, <1>6, StorageStays
<1>9. TypeOK'
  BY <1>1, <1>3, <1>5, <1>6, <1>7, <1>8 DEF IInv, TypeOK
<1>10. SessionKnown'
  BY <1>2, <1>7 DEF IInv, SessionKnown
<1>11. Numbered'
  BY <1>2, <1>3, <1>5, <1>6, <1>7, <1>8 DEF IInv, Numbered
<1>12. UploadsStaged'
  <2>1. \A k \in tasks \ {task} : k.kind = "verify" /\ k.photos # NoPhotos =>
          k.nonce \in Nonces /\ k.photos \in staged[k.nonce]
    BY <1>1, <1>4 DEF IInv, Numbered, UploadsStaged, TaskRecords
  <2> QED
    BY <1>2, <1>3, <1>4, <1>5, <1>6, <1>7, <2>1
    DEF IInv, UploadsStaged, SignedPhotosHeld
<1>13. ReadingsMatch'
  <2>1. OneCapture'
    BY <1>3, <1>5, <1>7 DEF IInv, ReadingsMatch, OneCapture
  <2>2. Matching(k0.photos, k0.reading)
    BY <1>2, <1>3 DEF IInv, ReadingsMatch
  <2> QED
    BY <1>5, <1>6, <1>7, <2>1, <2>2 DEF IInv, ReadingsMatch, ReadingOfPhotos
<1>14. ReportsSpent'
  BY <1>3, <1>5, <1>7 DEF IInv, ReportsSpent, DeadReportFresh
<1> QED
  BY <1>8, <1>9, <1>10, <1>11, <1>12, <1>13, <1>14 DEF IInv

\* What the verifier signs is what the call carried; what was staged under
\* its nonce is kept.
LEMMA SignDoes ==
  ASSUME server \in ServerRecords, NEW task \in TaskRecords,
         task.nonce \in Nonces, task.tap \in Taps, Sign(task)
  PROVE  /\ server' \in ServerRecords
         /\ server'.issued = server.issued /\ server'.tapped = server.tapped
         /\ server'.staged = server.staged
         /\ \A s \in server'.scans \ server.scans :
              /\ s.photos = task.photos /\ s.reading = task.reading
              /\ s.held = (task.photos \in server.staged[task.nonce])
<1> DEFINE held == task.photos \in server.staged[task.nonce]
           scan == [nonce |-> task.nonce, tap |-> task.tap,
                    photos |-> task.photos, reading |-> task.reading,
                    held |-> held]
<1>1. held \in BOOLEAN
  OBVIOUS
<1>2. task.photos \in Shown /\ task.reading \in Shown
  BY DEF TaskRecords
<1>3. server' = [server EXCEPT !.used = @ \cup {task.nonce},
                               !.taken = @ \cup {task.tap},
                               !.scans = @ \cup {scan}]
  BY DEF Sign
<1>4. scan.photos = task.photos /\ scan.reading = task.reading /\ scan.held = held
  BY Zenon
<1> HIDE DEF held
<1>5. scan \in ScanRecords
  BY <1>1, <1>2 DEF ScanRecords
<1> HIDE DEF scan
<1>6. /\ server' \in ServerRecords
      /\ server'.issued = server.issued /\ server'.tapped = server.tapped
      /\ server'.staged = server.staged
      /\ server'.scans = server.scans \cup {scan}
  BY <1>3, <1>5 DEF ServerRecords
<1>7. \A s \in server'.scans \ server.scans : s = scan
  BY <1>6
<1> QED
  BY <1>4, <1>6, <1>7 DEF held

\* Served with an answer, refused, or served and the answer lost.
LEMMA VerifyAnsweredKeeps ==
  ASSUME IInv, faults' \in Nat, NEW task \in tasks, VerifyAnswered(task)
  PROVE  IInv'
<1>1. /\ page \in PageRecords
      /\ tasks \in SUBSET TaskRecords /\ task \in TaskRecords
      /\ server \in ServerRecords /\ flag \in Nonces \cup {None, Foreign}
  BY DEF IInv, TypeOK, HandoffTypeOK
<1>2. /\ task.kind = "verify" /\ task.nonce \in Nonces /\ task.tap \in Taps
      /\ task.photos # NoPhotos => task.photos \in server.staged[task.nonce]
      /\ Matching(task.photos, task.reading) /\ page.session # None
  BY <1>1 DEF VerifyAnswered, IInv, Numbered, UploadsStaged, ReadingsMatch,
              SessionKnown, TaskRecords
<1>3. /\ server' \in ServerRecords
      /\ server'.issued = server.issued /\ server'.tapped = server.tapped
      /\ server'.staged = server.staged
      /\ \A s \in server'.scans \ server.scans :
           /\ s.photos = task.photos /\ s.reading = task.reading
           /\ s.held = (task.photos \in server.staged[task.nonce])
  <2>1. CASE Sign(task)
    BY <1>1, <1>2, <2>1, SignDoes
  <2>2. CASE Refuse(task)
    BY <1>1, <1>2, <2>2 DEF Refuse, ServerRecords
  <2> QED
    BY <2>1, <2>2 DEF VerifyAnswered
<1>4. PICK step \in Steps :
        Render([page EXCEPT !.step = step, !.busy = FALSE], flag, late)
  <2>1. [page EXCEPT !.busy = FALSE]
          = [page EXCEPT !.step = page.step, !.busy = FALSE]
    BY <1>1 DEF PageRecords
  <2>2. page.step \in Steps
    BY <1>1 DEF PageRecords
  <2> QED
    BY <2>1, <2>2 DEF VerifyAnswered, Rerender, Steps
<1> DEFINE p == [page EXCEPT !.step = step, !.busy = FALSE]
<1>5. /\ p \in PageRecords /\ p.capturing = page.capturing
      /\ p.session = page.session
      /\ p.frames = page.frames /\ p.reading = page.reading
      /\ p.uploaded = page.uploaded /\ p.spent = page.spent
      /\ p.reports = page.reports
  BY <1>1 DEF PageRecords
<1>6. Render(p, flag, late)
  BY <1>4
<1> HIDE DEF p
<1>7. /\ page' \in PageRecords /\ page'.capturing = page.capturing
      /\ page'.session = page.session
      /\ page'.frames = page.frames /\ page'.reading = page.reading
      /\ page'.uploaded = page.uploaded /\ page'.spent = page.spent
      /\ page'.reports = page.reports
      /\ flag' \in Nonces \cup {None, Foreign} /\ late' = late
      /\ page'.alive => page'.step = "tap"
  BY <1>1, <1>5, <1>6, RenderDoes
<1>8. tasks' = tasks \ {task} /\ storageKept /\ shots' = shots
  BY DEF VerifyAnswered, End
<1>9. HandoffTypeOK' /\ SlotFresh' /\ owner' = owner
  BY <1>3, <1>7, <1>8, StorageKeeps
<1>10. TypeOK'
  BY <1>1, <1>3, <1>7, <1>8, <1>9 DEF IInv, TypeOK
<1>11. SessionKnown'
  BY <1>2, <1>7 DEF IInv, SessionKnown
<1>12. Numbered'
  BY <1>3, <1>7, <1>8, <1>9 DEF IInv, Numbered
<1>13. UploadsStaged'
  <2>1. SignedPhotosHeld'
    BY <1>2, <1>3 DEF IInv, UploadsStaged, SignedPhotosHeld
  <2> QED
    BY <1>3, <1>7, <1>8, <2>1 DEF IInv, UploadsStaged
<1>14. ReadingsMatch'
  <2>1. ReadingOfPhotos'
    BY <1>2, <1>3 DEF IInv, ReadingsMatch, Matching, ReadingOfPhotos
  <2>2. OneCapture'
    BY <1>7, <1>8 DEF IInv, ReadingsMatch, OneCapture
  <2> QED
    BY <1>7, <1>8, <2>1, <2>2 DEF IInv, ReadingsMatch
<1>15. ReportsSpent'
  BY <1>7, <1>8 DEF IInv, ReportsSpent, DeadReportFresh
<1> QED
  BY <1>9, <1>10, <1>11, <1>12, <1>13, <1>14, <1>15 DEF IInv

-----------------------------------------------------------------------------
(* Dead seal                                                               *)

\* The call that reports a dead seal holds the nonce it is made with.
LEMMA DeadTask ==
  ASSUME NEW n \in Nonces
  PROVE  LET k == Task("dead", n, None, NoPhotos, NoPhotos) IN
         k \in TaskRecords /\ k.kind = "dead" /\ k.nonce = n
BY TaskFields, NoPhotosShown DEF Kinds

\* A report begins with a nonce that no report was made with.
LEMMA ReportDeadKeeps ==
  ASSUME IInv, faults' \in Nat, ReportDead
  PROVE  IInv'
<1>1. page \in PageRecords /\ tasks \in SUBSET TaskRecords /\ tasks' # {}
      /\ page.session # None
  BY TapNeedsSession DEF ReportDead, Begin, IInv, TypeOK
<1>2. UNCHANGED <<late, server, shots>> /\ UNCHANGED handoffVars
  BY DEF ReportDead
<1>3. HandoffTypeOK' /\ SlotFresh' /\ owner' = owner
  BY <1>2, StorageStays
<1>4. CASE NeedsNonce
  <2>1. /\ tasks' = tasks \cup {Call("deadSession")}
        /\ Call("deadSession") \in TaskRecords
        /\ Call("deadSession").kind = "deadSession"
        /\ page' = [page EXCEPT !.busy = TRUE]
    BY <1>4, CallFields DEF ReportDead, Begin, Kinds
  <2>2. /\ page' \in PageRecords /\ page'.capturing = page.capturing
        /\ page'.session = page.session /\ page'.step = page.step
        /\ page'.frames = page.frames /\ page'.reading = page.reading
        /\ page'.uploaded = page.uploaded /\ page'.spent = page.spent
        /\ page'.reports = page.reports /\ page'.alive = page.alive
    BY <1>1, <2>1 DEF PageRecords
  <2>3. TypeOK'
    BY <1>1, <1>2, <1>3, <2>1, <2>2 DEF IInv, TypeOK
  <2>4. page'.alive => page'.step = "tap"
    BY <2>2 DEF IInv, SessionKnown
  <2> QED
    BY <1>1, <1>2, <1>3, <2>1, <2>2, <2>3, <2>4, SameSession DEF Plain
<1>5. CASE ~NeedsNonce
  <2> DEFINE k0 == Task("dead", page.session, None, NoPhotos, NoPhotos)
  <2>1. page.session \in Nonces /\ page.spent # page.session
    BY <1>1, <1>5 DEF NeedsNonce, PageRecords
  <2>2. k0 \in TaskRecords /\ k0.kind = "dead" /\ k0.nonce = page.session
    BY <2>1, DeadTask
  <2>3. /\ tasks' = tasks \cup {k0}
        /\ page' = [page EXCEPT !.busy = TRUE, !.spent = page.session]
    BY <1>5 DEF ReportDead, Begin
  <2> HIDE DEF k0
  <2>4. /\ page' \in PageRecords /\ page'.capturing = page.capturing
        /\ page'.session = page.session /\ page'.step = page.step
        /\ page'.frames = page.frames /\ page'.reading = page.reading
        /\ page'.uploaded = page.uploaded /\ page'.spent = page.session
        /\ page'.reports = page.reports /\ page'.alive = page.alive
    BY <1>1, <2>1, <2>3 DEF PageRecords
  <2>5. TypeOK'
    BY <1>1, <1>2, <1>3, <2>2, <2>3, <2>4 DEF IInv, TypeOK
  <2>6. SessionKnown'
    BY <1>1, <2>4 DEF IInv, SessionKnown
  <2>7. Numbered'
    BY <1>2, <1>3, <2>2, <2>3, <2>4 DEF IInv, Numbered
  <2>8. UploadsStaged'
    BY <1>2, <2>2, <2>3, <2>4 DEF IInv, UploadsStaged, SignedPhotosHeld
  <2>9. ReadingsMatch'
    <3>1. OneCapture'
      BY <2>2, <2>3, <2>4 DEF IInv, ReadingsMatch, OneCapture
    <3> QED
      BY <1>2, <2>2, <2>3, <2>4, <3>1 DEF IInv, ReadingsMatch, ReadingOfPhotos
  <2>10. ReportsSpent'
    <3>1. page.reports[page.session] = 0
      BY <1>1, <2>1 DEF IInv, ReportsSpent, PageRecords
    <3>2. \A k \in tasks : k.kind = "dead" => k.nonce # page.session
      BY <2>1 DEF IInv, ReportsSpent
    <3>3. page.session <= page.session
      BY <2>1 DEF Nonces
    <3> QED
      BY <1>1, <2>2, <2>3, <2>4, <3>1, <3>2, <3>3
      DEF IInv, ReportsSpent, DeadReportFresh
  <2> QED
    BY <1>3, <2>5, <2>6, <2>7, <2>8, <2>9, <2>10 DEF IInv
<1> QED
  BY <1>4, <1>5

\* The session fetched for a report is spent on it.
LEMMA DeadSessionAnsweredKeeps ==
  ASSUME IInv, faults' \in Nat, DeadSessionAnswered
  PROVE  IInv'
<1> DEFINE p == [Adopted(page, Issued) EXCEPT !.spent = Issued]
           k0 == Task("dead", Issued, None, NoPhotos, NoPhotos)
<1>1. /\ Issue /\ server' \in ServerRecords /\ Issued \in Nonces
      /\ server'.tapped = server.tapped
  BY IssueDoes DEF DeadSessionAnswered, IInv, TypeOK
<1>2. /\ p \in PageRecords /\ p.session = Issued
      /\ p.frames = page.frames /\ p.reading = page.reading
      /\ p.uploaded.photos = NoPhotos /\ p.spent = Issued
      /\ p.capturing = page.capturing /\ p.reports = page.reports
  BY <1>1, AdoptedDoes DEF IInv, TypeOK, PageRecords
<1>3. /\ Render(p, flag, late) /\ storageKept /\ shots' = shots
      /\ tasks' = (tasks \ {Call("deadSession")}) \cup {k0}
  BY DEF DeadSessionAnswered, Rerender, Replace
<1>4. k0 \in TaskRecords /\ k0.kind = "dead"
  BY <1>1, TaskFields, NoPhotosShown DEF Kinds
<1> HIDE DEF p
<1>5. /\ page' \in PageRecords /\ page'.session = Issued
      /\ page'.frames = page.frames /\ page'.reading = page.reading
      /\ page'.uploaded.photos = NoPhotos /\ page'.spent = Issued
      /\ page'.capturing = page.capturing /\ page'.reports = page.reports
      /\ flag' \in Nonces \cup {None, Foreign} /\ late' = late
      /\ page'.alive => page'.step = "tap"
  BY <1>2, <1>3, RenderDoes DEF IInv, TypeOK, HandoffTypeOK
<1>6. HandoffTypeOK' /\ SlotFresh' /\ owner' = owner
  BY <1>1, <1>3, <1>5, StorageKeeps
<1>7. \A k \in tasks' \ tasks : k.kind = "dead" /\ k = k0
  BY <1>3, <1>4
<1>8. TypeOK'
  BY <1>1, <1>3, <1>4, <1>5, <1>6 DEF IInv, TypeOK
<1> QED
  BY <1>1, <1>5, <1>6, <1>7, <1>8, NextSession

\* A report that reached the server, whatever came of its answer: no other
\* call carries its nonce, and the page will not use it again.
LEMMA DeadAnsweredKeeps ==
  ASSUME IInv, faults' \in Nat, NEW task \in tasks, DeadAnswered(task)
  PROVE  IInv'
<1> DEFINE n == task.nonce
           reports == [page.reports EXCEPT ![n] = @ + 1]
<1>1. /\ page \in PageRecords /\ tasks \in SUBSET TaskRecords
      /\ task \in TaskRecords /\ server \in ServerRecords
      /\ flag \in Nonces \cup {None, Foreign}
  BY DEF IInv, TypeOK, HandoffTypeOK
<1>2. /\ task.kind = "dead" /\ n \in Nonces /\ page.session # None
      /\ page.reports[n] = 0 /\ n <= page.session
      /\ n = page.session => page.spent = n
  BY <1>1 DEF DeadAnswered, IInv, ReportsSpent, SessionKnown, TaskRecords
<1>3. /\ reports \in [Nonces -> Nat] /\ reports[n] = 1
      /\ \A m \in Nonces : m # n => reports[m] = page.reports[m]
  BY <1>1, <1>2 DEF PageRecords
<1> HIDE DEF n, reports
<1>4. PICK step \in Steps :
        Render([page EXCEPT !.step = step, !.busy = FALSE, !.reports = reports],
               flag, late)
  <2>1. /\ [page EXCEPT !.busy = FALSE, !.reports[task.nonce] = @ + 1]
             = [page EXCEPT !.step = page.step, !.busy = FALSE,
                            !.reports = reports]
        /\ [[page EXCEPT !.busy = FALSE, !.reports[task.nonce] = @ + 1]
             EXCEPT !.step = "done"]
             = [page EXCEPT !.step = "done", !.busy = FALSE,
                            !.reports = reports]
    BY <1>1 DEF PageRecords, reports, n
  <2>2. page.step \in Steps /\ "done" \in Steps
    BY <1>1 DEF PageRecords, Steps
  <2> QED
    BY <2>1, <2>2 DEF DeadAnswered, Rerender
<1> DEFINE p == [page EXCEPT !.step = step, !.busy = FALSE, !.reports = reports]
<1>5. /\ p \in PageRecords /\ p.capturing = page.capturing
      /\ p.session = page.session
      /\ p.frames = page.frames /\ p.reading = page.reading
      /\ p.uploaded = page.uploaded /\ p.spent = page.spent
      /\ p.reports = reports
  BY <1>1, <1>3 DEF PageRecords
<1>6. Render(p, flag, late)
  BY <1>4
<1> HIDE DEF p
<1>7. /\ page' \in PageRecords /\ page'.capturing = page.capturing
      /\ page'.session = page.session
      /\ page'.frames = page.frames /\ page'.reading = page.reading
      /\ page'.uploaded = page.uploaded /\ page'.spent = page.spent
      /\ page'.reports = reports
      /\ flag' \in Nonces \cup {None, Foreign} /\ late' = late
      /\ page'.alive => page'.step = "tap"
  BY <1>1, <1>5, <1>6, RenderDoes
<1>8. /\ tasks' = tasks \ {task} /\ storageKept /\ shots' = shots
      /\ server' = [server EXCEPT !.used = @ \cup {n}]
  BY DEF DeadAnswered, End, n
<1>9. /\ server' \in ServerRecords
      /\ server'.issued = server.issued /\ server'.tapped = server.tapped
      /\ server'.staged = server.staged /\ server'.scans = server.scans
  BY <1>1, <1>2, <1>8 DEF ServerRecords
<1>10. HandoffTypeOK' /\ SlotFresh' /\ owner' = owner
  BY <1>7, <1>8, <1>9, StorageKeeps
<1>11. TypeOK'
  BY <1>1, <1>7, <1>8, <1>9, <1>10 DEF IInv, TypeOK
<1>12. SessionKnown'
  BY <1>2, <1>7 DEF IInv, SessionKnown
<1>13. Numbered'
  BY <1>7, <1>8, <1>9, <1>10 DEF IInv, Numbered
<1>14. UploadsStaged'
  BY <1>7, <1>8, <1>9 DEF IInv, UploadsStaged, SignedPhotosHeld
<1>15. ReadingsMatch'
  <2>1. OneCapture'
    BY <1>7, <1>8 DEF IInv, ReadingsMatch, OneCapture
  <2> QED
    BY <1>7, <1>8, <1>9, <2>1 DEF IInv, ReadingsMatch, ReadingOfPhotos
<1>16. ReportsSpent'
  <2>1. DeadReportFresh'
    BY <1>3, <1>7 DEF IInv, ReportsSpent, DeadReportFresh
  <2>2. \A m \in Nonces : page'.reports[m] > 0 =>
          m <= page'.session /\ (m = page'.session => page'.spent = m)
    BY <1>2, <1>3, <1>7 DEF IInv, ReportsSpent
  <2>3. \A k \in tasks' : k.kind = "dead" => k \in tasks /\ k.nonce # n
    BY <1>2, <1>8 DEF IInv, ReportsSpent, n
  <2>4. \A k \in tasks' : k.kind = "dead" => page'.reports[k.nonce] = 0
    BY <1>1, <1>3, <1>7, <2>3 DEF IInv, ReportsSpent, TaskRecords
  <2> QED
    BY <1>7, <2>1, <2>2, <2>3, <2>4 DEF IInv, ReportsSpent
<1> QED
  BY <1>10, <1>11, <1>12, <1>13, <1>14, <1>15, <1>16 DEF IInv

-----------------------------------------------------------------------------
(* A call that fails                                                       *)

\* Its handler is over: the buttons are back, and a failed capture or
\* reading lets the next one begin.
LEMMA FailsKeeps ==
  ASSUME IInv, NEW task \in tasks, Fails(task)
  PROVE  IInv'
<1>1. /\ page \in PageRecords /\ tasks \in SUBSET TaskRecords
      /\ faults' \in Nat
  BY DEF Fails, Disturbance, IInv, TypeOK
<1>2. PICK busy \in BOOLEAN, capturing \in BOOLEAN :
        /\ page' = [page EXCEPT !.busy = busy, !.capturing = capturing]
        /\ task.kind \notin {"grab", "reading"} => capturing = page.capturing
  <2> DEFINE busy0 == IF task.kind \in {"session", "adopt"} THEN page.busy
                      ELSE FALSE
             capturing0 == IF task.kind \in {"grab", "reading"} THEN FALSE
                           ELSE page.capturing
  <2>1. busy0 \in BOOLEAN /\ capturing0 \in BOOLEAN
    BY <1>1 DEF PageRecords
  <2>2. page' = [page EXCEPT !.busy = busy0, !.capturing = capturing0]
    BY DEF Fails
  <2>3. task.kind \notin {"grab", "reading"} => capturing0 = page.capturing
    OBVIOUS
  <2> HIDE DEF busy0, capturing0
  <2> QED
    BY <2>1, <2>2, <2>3
<1>3. /\ page' \in PageRecords /\ page'.capturing = capturing
      /\ page'.session = page.session /\ page'.step = page.step
      /\ page'.frames = page.frames /\ page'.reading = page.reading
      /\ page'.uploaded = page.uploaded /\ page'.spent = page.spent
      /\ page'.reports = page.reports /\ page'.alive = page.alive
  BY <1>1, <1>2 DEF PageRecords
<1>4. /\ tasks' = tasks \ {task}
      /\ UNCHANGED <<late, server, shots>> /\ UNCHANGED handoffVars
  BY DEF Fails, End
<1>5. HandoffTypeOK' /\ SlotFresh' /\ owner' = owner
  BY <1>4, StorageStays
<1>6. TypeOK'
  BY <1>1, <1>3, <1>4, <1>5 DEF IInv, TypeOK
<1>7. SessionKnown'
  BY <1>3, <1>4 DEF IInv, SessionKnown
<1>8. Numbered'
  BY <1>3, <1>4, <1>5 DEF IInv, Numbered
<1>9. UploadsStaged'
  BY <1>3, <1>4 DEF IInv, UploadsStaged, SignedPhotosHeld
<1>10. ReadingsMatch'
  <2>1. CASE task.kind \in {"grab", "reading"}
    <3>1. \A k \in tasks' : k.kind \notin {"grab", "reading"}
      BY <1>4, <2>1 DEF IInv, ReadingsMatch, OneCapture
    <3>2. OneCapture'
      BY <3>1 DEF OneCapture
    <3> QED
      BY <1>3, <1>4, <3>2 DEF IInv, ReadingsMatch, ReadingOfPhotos
  <2>2. CASE task.kind \notin {"grab", "reading"}
    <3>1. OneCapture'
      BY <1>2, <1>3, <1>4, <2>2 DEF IInv, ReadingsMatch, OneCapture
    <3> QED
      BY <1>3, <1>4, <3>1 DEF IInv, ReadingsMatch, ReadingOfPhotos
  <2> QED
    BY <2>1, <2>2
<1>11. ReportsSpent'
  BY <1>3, <1>4 DEF IInv, ReportsSpent, DeadReportFresh
<1> QED
  BY <1>5, <1>6, <1>7, <1>8, <1>9, <1>10, <1>11 DEF IInv

-----------------------------------------------------------------------------
(* Theorems                                                                *)

\* The page as it is loaded first, an empty storage, an idle verifier.
LEMMA InitInv == Init => IInv
<1> SUFFICES ASSUME Init PROVE IInv
  OBVIOUS
<1>1. /\ server \in ServerRecords /\ server.issued = 0 /\ server.tapped = 0
      /\ server.scans = {}
  BY DEF Init, ServerRecords
<1>2. /\ page \in PageRecords /\ page.step = "session" /\ page.session = None
      /\ page.frames = NoPhotos /\ page.reading = NoPhotos
      /\ page.uploaded.photos = NoPhotos /\ page.alive = FALSE
      /\ \A n \in Nonces : page.reports[n] = 0
      /\ tasks = {} /\ late = {} /\ shots = 0 /\ faults = 0
  BY FreshPageIs DEF Init
<1>3. HandoffTypeOK
  BY DEF Init, HandoffInit, HandoffTypeOK, NoClaim, Tabs
<1>4. TypeOK
  BY <1>1, <1>2, <1>3 DEF TypeOK
<1>5. SessionKnown /\ UploadsStaged
  BY <1>1, <1>2 DEF SessionKnown, UploadsStaged, SignedPhotosHeld
<1>6. Numbered
  BY <1>1, <1>2 DEF Init, HandoffInit, Numbered, None
<1>7. SlotFresh
  BY DEF Init, HandoffInit, SlotFresh, TakenOnce
<1>8. ReadingsMatch
  BY <1>1, <1>2 DEF ReadingsMatch, OneCapture, Matching, ReadingOfPhotos
<1>9. ReportsSpent
  BY <1>2 DEF ReportsSpent, DeadReportFresh
<1> QED
  BY <1>4, <1>5, <1>6, <1>7, <1>8, <1>9 DEF IInv

\* An answer, to whichever call it comes.
LEMMA AnswersKeep ==
  ASSUME IInv, faults' \in Nat, NEW task \in tasks, Answers(task)
  PROVE  IInv'
<1>1. ASSUME NEW verdict \in Verdicts, PreviewAnswered(task, verdict)
      PROVE  IInv'
  BY <1>1, PreviewAnsweredKeeps
<1>2. ASSUME NEW verdict \in Verdicts, NEW expiring \in BOOLEAN,
             AdoptAnswered(task, verdict, expiring)
      PROVE  IInv'
  BY <1>2, AdoptAnsweredKeeps
<1>3. ASSUME NEW found \in BOOLEAN, ReadingReady(task, found)
      PROVE  IInv'
  BY <1>3, ReadingReadyKeeps
<1> QED
  BY <1>1, <1>2, <1>3, FramesReadyKeeps, UploadAnsweredKeeps,
     VerifyAnsweredKeeps, DeadAnsweredKeeps DEF Answers

\* Every handler, callback, request and tab keeps the invariant.
LEMMA NextInv == IInv /\ [Next]_vars => IInv'
<1> SUFFICES ASSUME IInv, [Next]_vars PROVE IInv'
  OBVIOUS
<1>1. CASE Undisturbed /\ UNCHANGED faults
  <2>1. faults' \in Nat
    BY <1>1 DEF IInv, TypeOK
  <2>2. CASE \/ StartSession \/ SessionAnswered
             \/ \E nonce \in Nonces : DeadlinePasses(nonce)
    BY <2>1, <2>2, StartSessionKeeps, SessionAnsweredKeeps, DeadlinePassesKeeps
  <2>3. CASE TapElsewhere \/ TapHere \/ PickLocked \/ PickClaim \/ PickSettles
    BY <2>1, <2>3, TapElsewhereKeeps, TapHereKeeps, PickLockedKeeps,
       PickClaimKeeps, PickSettlesKeeps
  <2>4. CASE ReadTap \/ NoSeal \/ ToCamera \/ SkipCamera \/ Capture
    BY <2>1, <2>4, ReadTapKeeps, NoSealKeeps, ToCameraKeeps, SkipCameraKeeps,
       CaptureKeeps
  <2>5. CASE RequestSignature \/ Anchored \/ ReportDead \/ DeadSessionAnswered
    BY <2>1, <2>5, RequestSignatureKeeps, AnchoredKeeps, ReportDeadKeeps,
       DeadSessionAnsweredKeeps
  <2>6. CASE \E task \in tasks : Answers(task)
    BY <2>1, <2>6, AnswersKeep
  <2> QED
    BY <1>1, <2>2, <2>3, <2>4, <2>5, <2>6 DEF Undisturbed
<1>2. CASE Reload \/ Others
  BY <1>2, ReloadKeeps, OthersKeep
<1>3. CASE \E task \in tasks : Fails(task)
  BY <1>3, FailsKeeps
<1>4. CASE UNCHANGED vars
  <2>1. UNCHANGED <<page, tasks, late, server, shots, faults>>
        /\ UNCHANGED handoffVars
    BY <1>4 DEF vars
  <2>2. HandoffTypeOK' /\ SlotFresh' /\ owner' = owner
    BY <2>1, StorageStays
  <2>3. faults' \in Nat
    BY <2>1 DEF IInv, TypeOK
  <2> QED
    BY <2>1, <2>2, <2>3, StorageMoves
<1> QED
  BY <1>1, <1>2, <1>3, <1>4 DEF Next

\* IInv holds in every behaviour of the page and the tabs around it.
THEOREM Invariant == Spec => []IInv
BY InitInv, NextInv, PTL DEF Spec

\* The page, its calls, the storage and the verifier keep their types.
THEOREM TypeCorrect == Spec => []TypeOK
<1>1. IInv => TypeOK
  BY DEF IInv
<1> QED
  BY <1>1, Invariant, PTL

\* lib/handoff.ts: "at most once across tabs".  However many tabs look for
\* the tap, with Web Locks, without them or both, in whatever order their
\* tasks run: one tab gets it once.
THEOREM HandedOverOnce == Spec => []TakenOnce
<1>1. IInv => TakenOnce
  BY DEF IInv, SlotFresh
<1> QED
  BY <1>1, Invariant, PTL

\* scan-flow.tsx: a signed scan never references photos that the verifier
\* dropped, whatever was retried, answered late or uploaded for another
\* session.
THEOREM PhotosAreHeld == Spec => []SignedPhotosHeld
<1>1. IInv => SignedPhotosHeld
  BY DEF IInv, UploadsStaged
<1> QED
  BY <1>1, Invariant, PTL

\* A reading that is signed with photos was made from these photos: the
\* capturing ref admits one capture at a time, whoever resets busy.
THEOREM ReadingsAreOfPhotos == Spec => []ReadingOfPhotos
<1>1. IInv => ReadingOfPhotos
  BY DEF IInv, ReadingsMatch
<1> QED
  BY <1>1, Invariant, PTL

\* A report of a dead seal is never repeated with a nonce that may have been
\* used up by an attempt before.
THEOREM DeadReportsAreFresh == Spec => []DeadReportFresh
<1>1. IInv => DeadReportFresh
  BY DEF IInv, ReportsSpent
<1> QED
  BY <1>1, Invariant, PTL

=============================================================================
