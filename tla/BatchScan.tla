------------------------------- MODULE BatchScan -------------------------------
(***************************************************************************)
(* The scan of all households (app/compliance/components/BatchScan.tsx).   *)
(* The page is a record; a finished scan is a function of the households   *)
(* listed, of those whose details were refused, and of the number of chunks*)
(* done when Cancel was noticed.  A household here is a record with the    *)
(* words of its description that name a type.                              *)
(***************************************************************************)
EXTENDS ComplianceEngine, SequencesExt, Lists

CHUNK_SIZE == 3
Never == 99

\* detectAccountType: the first kind the description has a word of.
DetectAccountType(words) ==
  Find(<<"trust", "entity", "retirement", "joint", "individual">>, LAMBDA w : w \in words,
       "unknown")

WithStatus(checks, status) == Cardinality({c \in checks : c.status = status})
BatchResult(hh, firm) ==
  LET checks == RunComplianceChecks([text |-> hh.text, olderThanAYear |-> hh.olderThanAYear,
                                     type |-> DetectAccountType(hh.words)], firm)
  IN  [household |-> hh.id, checks |-> checks, pass |-> WithStatus(checks, "pass"),
       warn |-> WithStatus(checks, "warn"), fail |-> WithStatus(checks, "fail")]
NeedsMore(r, s) == r.fail > s.fail \/ (r.fail = s.fail /\ r.warn > s.warn)

\* The page as it is first shown: a scan starts unless a report of the last day is
\* kept, which the page offers first.
Page(kept) ==
  [offered |-> kept, started |-> ~kept, loading |-> TRUE, error |-> FALSE, cancelled |-> FALSE,
   results |-> <<>>, skipped |-> 0]

\* runBatchScan, run to its end.  Cancel is noticed before a chunk; what was scanned
\* by then is the report, and is kept like a whole one.
Scanned(households, stop) == {i \in DOMAIN households : i <= stop * CHUNK_SIZE}
MutRunBatchScan(page, households, listed, refused, stop, firm) ==
  LET begun == [page EXCEPT !.offered = FALSE, !.started = TRUE, !.cancelled = FALSE]
      done == Filter(SubSeq(households, 1, Cardinality(Scanned(households, stop))),
                        LAMBDA hh : hh.id \notin refused)
  IN  IF ~listed THEN [begun EXCEPT !.error = TRUE, !.loading = FALSE]
      ELSE [begun EXCEPT !.loading = FALSE,
              !.results = Sorted([i \in DOMAIN done |-> BatchResult(done[i], firm)], NeedsMore),
              !.skipped = Cardinality(Scanned(households, stop)) - Len(done)]
RunBatchScan(page, households, listed, refused, stop, firm) ==
  LET begun == [page EXCEPT !.offered = FALSE, !.started = TRUE, !.cancelled = FALSE]
      scanned == SubSeq(households, 1, Cardinality(Scanned(households, stop)))
      done == Filter(scanned, LAMBDA hh : hh.id \notin refused)
  IN  IF ~listed THEN [begun EXCEPT !.error = TRUE, !.loading = FALSE]
      ELSE [begun EXCEPT !.loading = FALSE, !.cancelled = Len(scanned) < Len(households),
              !.results = Sorted([i \in DOMAIN done |-> BatchResult(done[i], firm)], NeedsMore),
              !.skipped = Len(scanned) - Len(done)]

\* loadCachedResults: the offer is not withdrawn, so the page goes on showing it.
LoadCachedResults(page, kept) ==
  [page EXCEPT !.results = kept.results, !.skipped = kept.skipped, !.loading = FALSE]

\* What the page shows, and the households a report calls fully compliant.
Shows(page) ==
  IF page.offered /\ ~page.started THEN "offer"
  ELSE IF page.loading THEN "loading"
  ELSE IF page.error THEN "error"
  ELSE IF page.results = <<>> THEN "nothing" ELSE "report"
Clean(page) == Filter(page.results, LAMBDA r : r.fail = 0)
=============================================================================
