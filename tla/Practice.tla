------------------------------- MODULE Practice -------------------------------
(***************************************************************************)
(* The screens a household passes through, under the router of             *)
(* app/page.tsx: home and dashboard, the family's page, the meeting log    *)
(* and the compliance review, with the links between them, the command     *)
(* palette, the back button, reloads of the page and the pages of a new    *)
(* sign-in.  What a screen does by itself is MeetingScreen's and           *)
(* ComplianceScreen's.                                                     *)
(*                                                                         *)
(* A screen lives while it is shown: the answers to a screen that was left *)
(* change nothing.  Navigating to the screen already shown keeps it, and   *)
(* runs its effects with the new household.                                *)
(***************************************************************************)
EXTENDS MeetingScreen, ComplianceScreen

VARIABLES
  nav,       \* screen, wfCtx, navStack
  meeting,   \* the meeting log's state, or None
  draft,     \* sessionStorage "min-meeting-draft"
  review     \* the compliance screen's state, or None

vars == <<nav, meeting, draft, review>>

TypeOK ==
  /\ nav \in NavState
  /\ meeting \in MeetingState \union {None}
  /\ draft \in Draft
  /\ review \in ComplianceState \union {None}

Init == nav = Home /\ meeting = None /\ draft = None /\ review = None

(***************************************************************************)
(* The router.                                                             *)
(***************************************************************************)
\* The page n, with the states m and c of screens that stay (None: a screen is
\* mounted anew) and the draft d.
Shows(n, m, c, d) ==
  LET c1 == IF c # None THEN c ELSE ComplianceInit
  IN  /\ nav' = n
      /\ meeting' = IF n.screen # "meeting" THEN None
                    ELSE IF m # None THEN Followed(m, n.ctx) ELSE Opened(n.ctx, d)
      /\ draft' = IF n.screen = "meeting" THEN DraftOf(meeting', d) ELSE d
      /\ n.screen = "compliance" /\ Due(c1, n.ctx) => Len(c1.scans) < MaxScans
      /\ review' = IF n.screen = "compliance" THEN Watched(c1, n.ctx) ELSE None

Meets(m) == Shows(nav, m, review, draft)
Reviews(c) == Shows(nav, meeting, c, draft)

\* What the page shown links to: the palette's screens and households, the panels
\* of the home screen and the dashboard, the buttons of the other screens.
Linked(s, h) ==
  \/ h = None /\ s \in {"dashboard", "meeting", "compliance"}
  \/ h # None /\ s = "family"
  \/ h # None /\ s = "compliance" /\ nav.screen \in {"home", "dashboard"}
  \/ h # None /\ s = "compliance" /\ review # None /\ review.batch
  \/ nav.screen = "family" /\ s \in {"meeting", "compliance"} /\ h = nav.ctx
  \/ meeting # None /\ meeting.step = "complete" /\ s = "compliance" /\ h = meeting.hh
  \/ review # None /\ review.step = "complete" /\ s = "meeting" /\ h = review.hh

Navigate ==
  \E s \in Screens, h \in Households \union {None} :
    /\ Linked(s, h)
    /\ nav.screen # "home" => Len(nav.stack) < MaxDepth
    /\ Shows(NavTo(nav, s, h), meeting, review, draft)

GoHome == nav.screen # "home" /\ Shows(Home, None, None, draft)

\* goBack of the family's page; onExit of the other two screens, which reset first.
Leave ==
  \/ nav.screen = "family" /\ Shows(NavBack(nav), None, None, draft)
  \/ /\ meeting # None /\ ~BackToSearch(meeting, nav.ctx)
     /\ Shows(NavBack(nav), Reset(meeting), None, None)
  \/ /\ review # None /\ (~BackStays(review, nav.ctx) \/ review.step = "complete")
     /\ Shows(NavBack(nav), None, Cleared(review), draft)

\* The page is loaded anew, and the setup pages are passed.
Reload == \E role \in {"advisor", "principal"} : Shows(NavReady(Home, role), None, None, draft)

\* The session timed out and somebody signs in again: the page's memory stays, and
\* with it the screen and its household.
Resume == \E role \in {"advisor", "principal"} : Shows(NavReady(nav, role), None, None, draft)

(***************************************************************************)
(* The meeting log.                                                        *)
(***************************************************************************)
Type == meeting # None /\ CanType(meeting) /\ \E m \in Typed(meeting) : Meets(m)
Pick ==
  /\ meeting # None /\ meeting.step = "search"
  /\ \E h \in Households : Meets(Selected(meeting, h))
Upload == meeting # None /\ CanUpload(meeting) /\ Meets(Uploaded(meeting))
Extract == meeting # None /\ meeting.image # None /\ Meets(Extracted(meeting))
Save == meeting # None /\ CanSave(meeting) /\ Meets(Saving(meeting))
SaveAnswered ==
  meeting # None /\ meeting.step = "saving" /\ ~meeting.saved /\ Meets(Answered(meeting))
SaveShown == meeting # None /\ meeting.saved /\ Meets(Finished(meeting))
HandOff == meeting # None /\ CanHandOff(meeting) /\ Meets(HandingOff(meeting))
HandOffAnswered == meeting # None /\ meeting.handoff = "sending" /\ Meets(HandedOff(meeting))
\* "Log Another", or the notes of a draft are discarded.
LogAnother ==
  /\ meeting # None
  /\ \/ meeting.step = "complete"
     \/ meeting.step = "compose" /\ nav.ctx = None /\ draft # None
  /\ Shows(nav, Reset(meeting), None, None)
SearchAgain ==
  meeting # None /\ BackToSearch(meeting, nav.ctx) /\ Meets(Searching(meeting))

(***************************************************************************)
(* The compliance review.                                                  *)
(***************************************************************************)
Select ==
  review # None /\ CanSelect(review) /\ \E h \in Households : Reviews(Scanned(review, h))
ScanStep(stage, To(_, _)) ==
  /\ review # None
  /\ \E i \in DOMAIN review.scans : First(review, stage, i) /\ Reviews(To(review, i))
ScanReads ==
  /\ review # None
  /\ \E i \in DOMAIN review.scans :
       /\ review.scans[i].stage = "reading"
       /\ Reviews(Read(review, i)) \/ Reviews(ReadFailed(review, i))
ScanChecks == ScanStep("checking", Checked)
ScanShows == ScanStep("ending", Shown)
Record == review # None /\ CanRecord(review) /\ Reviews(Recording(review))
RecordAnswered ==
  review # None /\ review.awaiting > 0 /\ Reviews(ReviewAnswered(review))
Back == review # None /\ BackStays(review, nav.ctx) /\ Reviews(WentBack(review))
CheckAnother == review # None /\ review.step = "complete" /\ Reviews(Cleared(review))
Batch == review # None /\ CanBatch(review) /\ Reviews(InBatch(review))

Meeting ==
  \/ Type \/ Pick \/ Upload \/ Extract \/ Save \/ SaveAnswered \/ SaveShown
  \/ HandOff \/ HandOffAnswered \/ LogAnother \/ SearchAgain
Review ==
  \/ Select \/ ScanReads \/ ScanChecks \/ ScanShows \/ Record \/ RecordAnswered
  \/ Back \/ CheckAnother \/ Batch
Next == Navigate \/ GoHome \/ Leave \/ Reload \/ Resume \/ Meeting \/ Review

Spec == Init /\ [][Next]_vars

-------------------------------------------------------------------------------
(* Properties. *)

\* The back button keeps its promise over every link, reload and sign-in: the page
\* shown, with its household, and the pages behind it are a trail that grows by the
\* page visited and shrinks by one page at a time (NAVIGATE pushes the outgoing
\* screen's context, app-state.ts:147).
Promise == INSTANCE Trail WITH
  Pages <- [screen : Screens \ {"home"}, ctx : Households \union {None}],
  Dashboards <- [screen : {"dashboard"}, ctx : Households \union {None}],
  trail <- IF nav.screen = "home" THEN nav.stack
           ELSE Append(nav.stack, [screen |-> nav.screen, ctx |-> nav.ctx])
BackPromise == Promise!Spec

\* The checks shown, and recorded as a compliance review, under a household's name
\* were computed from that household's data, whatever scans failed, were left or
\* were repeated before; except where a scan was started before another one, or a
\* recording, had ended.
ReviewIsOfOne ==
  (review # None /\ review.step \in {"results", "recording", "complete"} /\ ~review.crossed)
    => review.checks = review.hh \/ review.hh = None

\* Notes about one family are not recorded on another, over drafts, reloads, links
\* and "Log Another"; except where the writer went back and picked another household
\* with the text, or a picture of it, still there.
NotesAreOwn ==
  (meeting # None /\ meeting.step \in {"compose", "saving"} /\ ~meeting.kept)
    => meeting.notes \subseteq {meeting.hh}

\* A text of which the page has said "Meeting Logged" is never offered again, as a
\* draft or otherwise, to be recorded a second time.
LoggedOnce ==
  (meeting # None /\ meeting.step \in {"compose", "saving"}) => ~meeting.logged

-------------------------------------------------------------------------------
(* The inductive invariant: what the screens know of each other, and of the    *)
(* screens that were shown before.                                             *)

\* There is nothing behind the home screen, and it is behind nothing.
NavInv(n) ==
  /\ n \in NavState
  /\ n.screen = "home" => n.stack = <<>>
  /\ \A i \in DOMAIN n.stack : n.stack[i].screen # "home"

\* A text not kept for another household is about the one selected, and so is what
\* its picture will make of it; on the first page there is neither.
MeetingInv(m) ==
  /\ m \in MeetingState
  /\ m.step \in {"compose", "saving"} => m.hh # None
  /\ m.step # "complete" => ~m.logged
  /\ ~m.kept =>
       /\ m.notes \subseteq {m.hh}
       /\ m.image # None => m.image.about = m.hh /\ m.image.base \subseteq {m.hh}
       /\ m.step = "search" => m.notes = {} /\ m.image = None

\* A draft is of a text not recorded yet.
DraftInv(d) == d # None =>
  d \in Draft /\ ~d.logged /\ (~d.kept => d.notes \subseteq {d.hh})

\* One scan runs, of the household selected unless the screen was reset since: what
\* it has read and checked is that household's.
OneScan(c) ==
  LET s == c.scans[1]
  IN  /\ Len(c.scans) = 1 /\ c.awaiting = 0
      /\ \/ c.step = "scanning" /\ c.hh = s.hh
         \/ c.step = "search" /\ c.hh = None
      /\ s.stage \in {"checking", "ending"} => c.data = s.hh
      /\ s.stage = "ending" => c.checks = s.hh \/ c.hh = None

\* No scan runs; a recording that does is of what is shown, unless the screen was
\* reset since.
NoScan(c) ==
  /\ c.scans = <<>>
  /\ \/ c.hh = None
     \/ c.awaiting = 0
     \/ c.awaiting = 1 /\ c.step = "recording"
  /\ c.step \in {"results", "recording", "complete"} => c.checks = c.hh \/ c.hh = None

ReviewInv(c) == c \in ComplianceState /\ (c.crossed \/ OneScan(c) \/ NoScan(c))

IInv ==
  /\ NavInv(nav) /\ DraftInv(draft)
  /\ meeting # None => nav.screen = "meeting" /\ MeetingInv(meeting)
  /\ review # None => nav.screen = "compliance" /\ ReviewInv(review)
=============================================================================
