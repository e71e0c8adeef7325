--------------------------- MODULE ComplianceScreen ---------------------------
(***************************************************************************)
(* The compliance review of app/compliance/ComplianceScreen.tsx: a         *)
(* household is chosen and scanned, the checks are shown, and the review   *)
(* is recorded.                                                            *)
(*                                                                         *)
(* A scan is a call and four waits; nothing cancels it, so that a scan     *)
(* that was left still reports, into the fields that the next one uses.    *)
(* Checks are known by the household whose data they were computed from;   *)
(* the rules themselves are ComplianceEngine's.  The screen's state is a   *)
(* record, or None while another screen is shown.                          *)
(***************************************************************************)
EXTENDS Naturals, FiniteSets, Navigation

CONSTANTS
  MaxScans,       \* scans running at once
  MaxRecordings   \* recordings of a review running at once

ASSUME ScansAssumption == MaxScans \in Nat /\ MaxRecordings \in Nat

Scan == [hh : Households, stage : {"reading", "checking", "ending"}]

ComplianceState ==
  [step : {"search", "scanning", "results", "recording", "complete"},
   hh : Households \union {None},            \* selectedHousehold
   data : Households \union {None},          \* the three refs
   checks : Households \union {None},
   batch : BOOLEAN,
   scans : BoundedSeq(Scan, MaxScans),       \* in the order of their last wait
   awaiting : 0..MaxRecordings,              \* recordings not answered
   crossed : BOOLEAN]     \* history: the last scan started before another, or a
                         \* recording, had ended

ComplianceInit ==
  [step |-> "search", hh |-> None, data |-> None, checks |-> None, batch |-> FALSE,
   scans |-> <<>>, awaiting |-> 0, crossed |-> FALSE]

\* RESET: the refs, the batch mode and the running scans are outside the reducer.
Cleared(c) == [c EXCEPT !.step = "search", !.hh = None, !.checks = None]

\* runScan, up to its first wait
Scanned(c, h) ==
  [c EXCEPT !.hh = h, !.step = "scanning",
            !.scans = Append(@, [hh |-> h, stage |-> "reading"]),
            !.crossed = c.scans # <<>> \/ c.awaiting > 0]

\* The effect that scans the page's household when none is selected.
Due(c, ctx) == ctx # None /\ c.step = "search" /\ c.hh = None
Watched(c, ctx) == IF Due(c, ctx) THEN Scanned(c, ctx) ELSE c

CanSelect(c) == c.step = "search" /\ ~c.batch /\ Len(c.scans) < MaxScans

\* Waits of the same length end in the order they began.
First(c, stage, i) ==
  /\ c.scans[i].stage = stage
  /\ \A j \in 1..(i - 1) : c.scans[j].stage # stage

Dropped(c, i) == [c EXCEPT !.scans = RemoveAt(@, i)]
Staged(c, i, stage) ==
  [Dropped(c, i) EXCEPT !.scans = Append(@, [c.scans[i] EXCEPT !.stage = stage])]

\* getHouseholdDetail answers: the refs are the household's, for whichever scan
\* looks at them next.
Read(c, i) == [Staged(c, i, "checking") EXCEPT !.data = c.scans[i].hh]
ReadFailed(c, i) == [Dropped(c, i) EXCEPT !.step = "search"]

\* The last of the waits: the checks are computed from the refs.
MutChecked(c, i) == [Staged(c, i, "ending") EXCEPT !.checks = IF @ = None THEN c.data ELSE @]
Checked(c, i) == [Staged(c, i, "ending") EXCEPT !.checks = c.data]

\* Half a second later the results are shown, whatever is shown by then.
Shown(c, i) == [Dropped(c, i) EXCEPT !.step = "results"]

\* Without a household the click throws, and the results stay.
CanRecord(c) == c.step = "results" /\ c.hh # None /\ c.awaiting < MaxRecordings
Recording(c) == [c EXCEPT !.step = "recording", !.awaiting = @ + 1]

\* The answer, whether the review was recorded or not.
ReviewAnswered(c) == [c EXCEPT !.step = "complete", !.awaiting = @ - 1]

\* goBack, where it does not leave the screen.
BackStays(c, ctx) ==
  \/ c.batch \/ c.step = "complete"
  \/ ctx = None /\ c.step \in {"scanning", "results"}
WentBack(c) ==
  IF c.batch THEN [c EXCEPT !.batch = FALSE]
  ELSE IF c.step = "complete" THEN [c EXCEPT !.step = "results"]
  ELSE IF c.step = "scanning" THEN Cleared(c)
  ELSE [c EXCEPT !.step = "search"]

CanBatch(c) == c.step = "search" /\ ~c.batch
InBatch(c) == [c EXCEPT !.batch = TRUE]
=============================================================================
