----------------------------- MODULE MeetingScreen -----------------------------
(***************************************************************************)
(* The meeting log of app/meeting/MeetingScreen.tsx: a household is        *)
(* chosen, notes are written, typed or read off a picture, and saved; then *)
(* a handoff to operations is offered.  A draft in the session storage     *)
(* survives a reload.                                                      *)
(*                                                                         *)
(* A text is the set of the households it was written about: what somebody *)
(* types while h is selected is about h, and so is what is read off a      *)
(* picture uploaded then (the extraction names the family).  The screen's  *)
(* state is a record, or None while another screen is shown.               *)
(***************************************************************************)
EXTENDS Naturals, FiniteSets, Navigation

MeetingState ==
  [step : {"search", "compose", "saving", "complete"},
   hh : Households \union {None}, notes : SUBSET Households,
   image : [about : Households, base : SUBSET Households] \union {None},
   saved : BOOLEAN,                          \* the timer to the last page runs
   handoff : {"no", "sending", "sent"},
   kept : BOOLEAN,     \* history: the text, or a picture of it, was kept for another household
   logged : BOOLEAN]   \* history: the page said "Meeting Logged" of this text

Draft == [hh : Households, notes : SUBSET Households, kept : BOOLEAN, logged : BOOLEAN]
         \union {None}

MeetingInit ==
  [step |-> "search", hh |-> None, notes |-> {}, image |-> None, saved |-> FALSE, handoff |-> "no",
   kept |-> FALSE, logged |-> FALSE]

\* SET_HOUSEHOLD, by a search, from the recent meetings or from the page's context.
\* What has been written stays.
Selected(m, h) == [m EXCEPT !.hh = h, !.step = "compose"]

\* The effect that follows the page's household whenever the search page is shown.
Followed(m, ctx) == IF ctx # None /\ m.step = "search" THEN Selected(m, ctx) ELSE m

\* RESET: the picture being read and the handoff are kept outside the reducer.
Reset(m) ==
  [MeetingInit EXCEPT !.image = m.image, !.saved = m.saved, !.handoff = m.handoff,
                      !.kept = m.image # None]

\* A new screen: the draft, unless the page is about a household.
Restored(draft) ==
  [MeetingInit EXCEPT !.step = "compose", !.hh = draft.hh, !.notes = draft.notes,
                      !.kept = draft.kept, !.logged = draft.logged]
MutOpened(ctx, draft) ==
  IF draft # None THEN [Restored(draft) EXCEPT !.hh = IF ctx # None THEN ctx ELSE @]
  ELSE Followed(MeetingInit, ctx)
Opened(ctx, draft) ==
  IF ctx = None /\ draft # None THEN Restored(draft) ELSE Followed(MeetingInit, ctx)

\* The effect that keeps the draft: gone on the first and the last page, written
\* while composing, left alone while saving.
DraftNow(m) == [hh |-> m.hh, notes |-> m.notes, kept |-> m.kept, logged |-> m.logged]
MutDraftOf(m, draft) ==
  IF m.step = "search" THEN None ELSE IF m.step = "saving" THEN draft ELSE DraftNow(m)
DraftOf(m, draft) ==
  IF m.step \in {"search", "complete"} THEN None
  ELSE IF m.step = "compose" THEN DraftNow(m) ELSE draft

CanType(m) == m.step = "compose"
Typed(m) == {[m EXCEPT !.notes = @ \union {m.hh}], [m EXCEPT !.notes = {}]}

\* handleImageUpload waits two seconds with the text of the moment in hand, and
\* puts that text and the extraction in place of whatever has been written since.
CanUpload(m) == m.step = "compose" /\ m.image = None
Uploaded(m) == [m EXCEPT !.image = [about |-> m.hh, base |-> m.notes]]
Extracted(m) ==
  [m EXCEPT !.image = None,
            !.notes = m.image.base \union {m.image.about}]

CanSave(m) == m.step = "compose" /\ m.hh # None /\ m.notes # {}
Saving(m) == [m EXCEPT !.step = "saving"]

\* Any answer: callSF does not throw, so a refusal ends on the last page too.
Answered(m) == [m EXCEPT !.saved = TRUE]
Finished(m) == [m EXCEPT !.step = "complete", !.saved = FALSE, !.logged = TRUE]

CanHandOff(m) == m.step = "complete" /\ m.hh # None /\ m.handoff = "no"
HandingOff(m) == [m EXCEPT !.handoff = "sending"]
HandedOff(m) == [m EXCEPT !.handoff = "sent"]

\* goBack: from the notes to the search, unless the page is about a household;
\* otherwise the screen is reset and left.
BackToSearch(m, ctx) == m.step = "compose" /\ ctx = None
Searching(m) == [m EXCEPT !.step = "search", !.kept = @ \/ m.notes # {} \/ m.image # None]
=============================================================================
