---------------------------- MODULE PracticeProofs ----------------------------
(***************************************************************************)
(* For any households, and however pages are opened, left, reloaded and    *)
(* signed into again while answers are on their way: notes and reviews stay*)
(* with their household, a recorded text is not offered again, and the back*)
(* button keeps what Trail promises.                                       *)
(***************************************************************************)
EXTENDS Practice, TLAPS, SequenceTheorems

LEMMA Bounded ==
  ASSUME NEW S, NEW n \in Nat
  PROVE  /\ <<>> \in BoundedSeq(S, n)
         /\ \A s : s \in BoundedSeq(S, n) <=> s \in Seq(S) /\ Len(s) <= n
<1>1. \A s : s \in BoundedSeq(S, n) <=> \E m \in 0..n : s \in [1..m -> S]
  BY DEF BoundedSeq, SeqOf
<1>2. ASSUME NEW s \in Seq(S), Len(s) <= n
      PROVE  s \in BoundedSeq(S, n)
  <2>1. s \in [1..Len(s) -> S] /\ Len(s) \in 0..n
    BY <1>2, LenProperties
  <2> QED BY <1>1, <2>1
<1>3. ASSUME NEW s \in BoundedSeq(S, n)
      PROVE  s \in Seq(S) /\ Len(s) <= n
  <2>1. PICK m \in 0..n : s \in [1..m -> S]
    BY <1>1
  <2>2. s \in Seq(S)
    BY <2>1, SeqDef
  <2>3. Len(s) = m
    BY <2>1, <2>2, LenProperties
  <2> QED BY <2>2, <2>3
<1>4. <<>> \in BoundedSeq(S, n)
  <2>1. <<>> \in Seq(S) /\ Len(<<>>) = 0 /\ 0 <= n
    BY EmptySeq
  <2> QED BY <1>2, <2>1
<1>5. \A s : s \in BoundedSeq(S, n) => s \in Seq(S) /\ Len(s) <= n
  BY <1>3
<1>6. \A s : s \in Seq(S) /\ Len(s) <= n => s \in BoundedSeq(S, n)
  BY <1>2
<1> QED BY <1>4, <1>5, <1>6

LEMMA FrontOf ==
  ASSUME NEW S, NEW s \in Seq(S), s # <<>>
  PROVE  /\ Front(s) \in Seq(S) /\ Len(Front(s)) = Len(s) - 1
         /\ \A i \in 1..(Len(s) - 1) : Front(s)[i] = s[i]
         /\ Last(s) \in S
         /\ Append(Front(s), Last(s)) = s
<1>1. Len(s) \in Nat \ {0} /\ \A i \in 1..Len(s) : s[i] \in S
  BY EmptySeq, ElementOfSeq
<1>2. /\ Front(s) \in Seq(S) /\ Len(Front(s)) = Len(s) - 1
      /\ \A i \in 1..(Len(s) - 1) : Front(s)[i] = s[i]
  <2> DEFINE k == Len(s) - 1
  <2>1. k \in Int /\ k >= 0 /\ \A i \in 1..k : s[i] \in S
    BY <1>1
  <2>2. Front(s) = SubSeq(s, 1, k)
    BY DEF Front
  <2> HIDE DEF k
  <2>3. /\ SubSeq(s, 1, k) \in Seq(S)
        /\ Len(SubSeq(s, 1, k)) = IF 1 <= k THEN k - 1 + 1 ELSE 0
        /\ \A i \in 1..(k - 1 + 1) : SubSeq(s, 1, k)[i] = s[1 + i - 1]
    BY <2>1, SubSeqProperties
  <2>4. Len(SubSeq(s, 1, k)) = k /\ \A i \in 1..k : SubSeq(s, 1, k)[i] = s[i]
    BY <2>1, <2>3
  <2> QED BY <2>2, <2>3, <2>4 DEF k
<1>3. Last(s) \in S
  BY <1>1 DEF Last
<1>4. Append(Front(s), Last(s)) = s
  <2> DEFINE t == Append(Front(s), Last(s))
  <2>1. t \in Seq(S) /\ Len(t) = Len(s) /\ \A i \in 1..Len(s) : t[i] = s[i]
    BY <1>1, <1>2, <1>3, AppendProperties DEF Last
  <2> HIDE DEF t
  <2> QED BY <2>1, SeqEqual DEF t
<1> QED BY <1>2, <1>3, <1>4

LEMMA FrontOfAppend ==
  ASSUME NEW S, NEW s \in Seq(S), NEW e \in S
  PROVE  Append(s, e) # <<>> /\ Front(Append(s, e)) = s /\ Last(Append(s, e)) = e
<1> DEFINE t == Append(s, e)
<1>1. /\ t \in Seq(S) /\ t # <<>> /\ Len(t) = Len(s) + 1
      /\ \A i \in 1..Len(s) : t[i] = s[i]
      /\ t[Len(s) + 1] = e
  BY AppendProperties
<1>2. Len(s) \in Nat
  OBVIOUS
<1> HIDE DEF t
<1>3. Front(t) \in Seq(S) /\ Len(Front(t)) = Len(s) /\ \A i \in 1..Len(s) : Front(t)[i] = s[i]
  BY <1>1, <1>2, FrontOf
<1>4. Front(t) = s
  BY <1>3, SeqEqual
<1>5. Last(t) = e
  BY <1>1 DEF Last
<1> QED BY <1>1, <1>4, <1>5 DEF t

LEMMA RemoveAtOf ==
  ASSUME NEW S, NEW s \in Seq(S), NEW i \in 1..Len(s)
  PROVE  RemoveAt(s, i) \in Seq(S) /\ Len(RemoveAt(s, i)) = Len(s) - 1
<1>1. \A j \in 1..Len(s) : s[j] \in S
  BY ElementOfSeq
<1>2. SubSeq(s, 1, i - 1) \in Seq(S) /\ Len(SubSeq(s, 1, i - 1)) = i - 1
  BY <1>1, SubSeqProperties
<1>3. SubSeq(s, i + 1, Len(s)) \in Seq(S) /\ Len(SubSeq(s, i + 1, Len(s))) = Len(s) - i
  BY <1>1, SubSeqProperties
<1>4. RemoveAt(s, i) = SubSeq(s, 1, i - 1) \o SubSeq(s, i + 1, Len(s))
  BY DEF RemoveAt
<1> DEFINE a == SubSeq(s, 1, i - 1)
           b == SubSeq(s, i + 1, Len(s))
<1>5. a \in Seq(S) /\ b \in Seq(S) /\ RemoveAt(s, i) = a \o b
  BY <1>2, <1>3, <1>4
<1>6. Len(a) = i - 1 /\ Len(b) = Len(s) - i
  BY <1>2, <1>3
<1> HIDE DEF a, b
<1>7. Len(a) + Len(b) = Len(s) - 1
  BY <1>6
<1> QED BY <1>5, <1>7, ConcatProperties

-------------------------------------------------------------------------------
(* The router. *)

Ctx == Households \union {None}

LEMMA NavBounds ==
  /\ \A n : n \in NavState <=>
       /\ n \in [screen : Screens, ctx : Ctx, stack : Seq(Page)] /\ Len(n.stack) <= MaxDepth
  /\ NavInv(Home)
<1>1. /\ <<>> \in BoundedSeq(Page, MaxDepth)
      /\ \A s : s \in BoundedSeq(Page, MaxDepth) <=> s \in Seq(Page) /\ Len(s) <= MaxDepth
  BY Bounded, NavigationAssumption DEF NavigationAssumption
<1>2. \A n : n \in NavState <=>
        /\ n \in [screen : Screens, ctx : Ctx, stack : Seq(Page)] /\ Len(n.stack) <= MaxDepth
  BY <1>1 DEF NavState, Ctx
<1>3. Home \in NavState
  BY <1>1 DEF NavState, Home, Screens
<1>4. DOMAIN <<>> = {}
  OBVIOUS
<1>5. NavInv(Home)
  BY <1>3, <1>4 DEF NavInv, Home
<1> QED BY <1>2, <1>5

LEMMA NavToInv ==
  ASSUME NEW n, NavInv(n), NEW s \in Screens \ {"home"}, NEW h \in Ctx,
         n.screen # "home" => Len(n.stack) < MaxDepth
  PROVE  NavInv(NavTo(n, s, h))
<1>1. n \in [screen : Screens, ctx : Ctx, stack : Seq(Page)] /\ Len(n.stack) <= MaxDepth
  BY NavBounds DEF NavInv
<1> DEFINE p == [screen |-> n.screen, ctx |-> n.ctx]
           t == NavTo(n, s, h).stack
<1>2. p \in Page
  BY <1>1 DEF Page, Ctx
<1>3. t = IF n.screen = "home" THEN n.stack ELSE Append(n.stack, p)
  BY DEF NavTo
<1>4. t \in Seq(Page) /\ Len(t) <= MaxDepth /\ \A i \in DOMAIN t : t[i].screen # "home"
  <2>1. CASE n.screen = "home"
    BY <1>1, <1>3, <2>1 DEF NavInv
  <2>2. CASE n.screen # "home"
    <3>1. /\ t \in Seq(Page) /\ Len(t) = Len(n.stack) + 1
          /\ \A i \in 1..Len(n.stack) : t[i] = n.stack[i]
          /\ t[Len(n.stack) + 1] = p
      BY <1>1, <1>2, <1>3, <2>2, AppendProperties
    <3>2. Len(n.stack) \in Nat /\ DOMAIN n.stack = 1..Len(n.stack) /\ DOMAIN t = 1..Len(t)
      BY <1>1, <3>1, LenProperties
    <3>3. \A i \in 1..Len(n.stack) : n.stack[i].screen # "home"
      BY <3>2 DEF NavInv
    <3> HIDE DEF t
    <3>4. Len(t) <= MaxDepth
      BY <2>2, <3>1, <3>2, NavigationAssumption DEF NavigationAssumption
    <3>5. ASSUME NEW i \in DOMAIN t
          PROVE  t[i].screen # "home"
      <4>1. i \in 1..Len(n.stack) \/ i = Len(n.stack) + 1
        BY <3>1, <3>2
      <4> QED BY <2>2, <3>1, <3>3, <4>1
    <3> QED BY <3>1, <3>4, <3>5
  <2> QED BY <2>1, <2>2
<1>5. NavTo(n, s, h) = [screen |-> s, ctx |-> IF h # None THEN h ELSE n.ctx, stack |-> t]
  BY DEF NavTo
<1> HIDE DEF t
<1>6. NavTo(n, s, h) \in NavState
  BY <1>1, <1>4, <1>5, NavBounds
<1> QED BY <1>4, <1>5, <1>6 DEF NavInv

LEMMA NavBackInv ==
  ASSUME NEW n, NavInv(n)
  PROVE  NavInv(NavBack(n))
<1>1. CASE n.stack = <<>>
  BY <1>1, NavBounds DEF NavBack
<1>2. CASE n.stack # <<>>
  <2> DEFINE t == Front(n.stack)
             p == Last(n.stack)
  <2>1. n.stack \in Seq(Page) /\ Len(n.stack) <= MaxDepth
    BY NavBounds DEF NavInv
  <2>2. /\ t \in Seq(Page) /\ Len(t) = Len(n.stack) - 1 /\ p \in Page
        /\ \A i \in 1..(Len(n.stack) - 1) : t[i] = n.stack[i]
    BY <1>2, <2>1, FrontOf
  <2>3. /\ Len(n.stack) \in Nat \ {0} /\ DOMAIN n.stack = 1..Len(n.stack)
        /\ DOMAIN t = 1..Len(t)
    BY <1>2, <2>1, <2>2, EmptySeq, LenProperties
  <2>4. p.screen # "home"
    BY <2>3 DEF NavInv, Last
  <2>5. NavBack(n) = [screen |-> p.screen, ctx |-> p.ctx, stack |-> t]
    BY <1>2 DEF NavBack
  <2> HIDE DEF t, p
  <2>6. Len(t) <= MaxDepth /\ \A i \in DOMAIN t : t[i].screen # "home"
    BY <2>1, <2>2, <2>3, NavigationAssumption DEF NavInv, NavigationAssumption
  <2>7. NavBack(n) \in NavState
    BY <2>2, <2>5, <2>6, NavBounds DEF Page, Ctx
  <2> QED BY <2>4, <2>5, <2>6, <2>7 DEF NavInv
<1> QED BY <1>1, <1>2

LEMMA NavReadyInv ==
  ASSUME NEW n, NavInv(n), NEW role
  PROVE  NavInv(NavReady(n, role))
<1>1. n \in [screen : Screens, ctx : Ctx, stack : Seq(Page)] /\ Len(n.stack) <= MaxDepth
  BY NavBounds DEF NavInv
<1> DEFINE t == [n EXCEPT !.screen = "dashboard"]
<1>2. /\ t \in [screen : Screens, ctx : Ctx, stack : Seq(Page)] /\ t.screen = "dashboard"
      /\ t.stack = n.stack
  BY <1>1 DEF Screens
<1> HIDE DEF t
<1>3. t \in NavState
  BY <1>1, <1>2, NavBounds
<1>4. NavInv(t)
  BY <1>2, <1>3 DEF NavInv
<1> QED BY <1>4 DEF NavReady, t

-------------------------------------------------------------------------------
(* The meeting log. *)

LEMMA SelectedInv ==
  ASSUME NEW m, MeetingInv(m), m.step = "search", NEW h \in Households
  PROVE  MeetingInv(Selected(m, h))
BY NavigationAssumption DEF NavigationAssumption, Selected, MeetingInv, MeetingState

LEMMA FollowedInv ==
  ASSUME NEW m, MeetingInv(m), NEW ctx \in Ctx
  PROVE  MeetingInv(Followed(m, ctx))
BY SelectedInv DEF Ctx, Followed

LEMMA OpenedInv ==
  ASSUME NEW d, DraftInv(d), NEW ctx \in Ctx
  PROVE  MeetingInv(Opened(ctx, d))
<1>1. CASE ctx = None /\ d # None
  <2>1. d \in [hh : Households, notes : SUBSET Households, kept : BOOLEAN, logged : BOOLEAN]
    BY <1>1 DEF DraftInv, Draft
  <2>2. d.hh # None
    BY <2>1, NavigationAssumption DEF NavigationAssumption
  <2> QED BY <1>1, <2>1, <2>2 DEF DraftInv, Opened, Restored, MeetingInit, MeetingInv, MeetingState
<1>2. CASE ~(ctx = None /\ d # None)
  <2>1. Opened(ctx, d) = Followed(MeetingInit, ctx)
    BY <1>2 DEF Opened
  <2>2. MeetingInv(MeetingInit)
    BY DEF MeetingInit, MeetingInv, MeetingState
  <2> QED BY <2>1, <2>2, FollowedInv
<1> QED BY <1>1, <1>2

LEMMA DraftOfInv ==
  ASSUME NEW m, MeetingInv(m), NEW d, DraftInv(d)
  PROVE  DraftInv(DraftOf(m, d))
<1>1. CASE m.step = "compose"
  <2>1. m.hh \in Households /\ m \in MeetingState
    BY <1>1 DEF MeetingInv, MeetingState
  <2> QED BY <1>1, <2>1 DEF MeetingInv, MeetingState, DraftOf, DraftNow, DraftInv, Draft
<1>2. CASE m.step # "compose"
  BY <1>2 DEF DraftOf, DraftInv
<1> QED BY <1>1, <1>2

LEMMA ResetInv ==
  ASSUME NEW m, MeetingInv(m)
  PROVE  MeetingInv(Reset(m))
BY DEF Reset, MeetingInit, MeetingInv, MeetingState

LEMMA TypedInv ==
  ASSUME NEW m, MeetingInv(m), CanType(m), NEW t \in Typed(m)
  PROVE  MeetingInv(t)
<1>1. m \in MeetingState /\ m.step = "compose" /\ m.hh \in Households
  BY DEF CanType, MeetingInv, MeetingState
<1>2. PICK T \in SUBSET Households :
        t = [m EXCEPT !.notes = T] /\ (T = m.notes \union {m.hh} \/ T = {})
  BY <1>1 DEF Typed, MeetingState
<1>3. t \in MeetingState
  BY <1>1, <1>2 DEF MeetingState
<1> QED BY <1>1, <1>2, <1>3 DEF MeetingInv, MeetingState

LEMMA UploadedInv ==
  ASSUME NEW m, MeetingInv(m), CanUpload(m)
  PROVE  MeetingInv(Uploaded(m))
<1>1. m \in MeetingState /\ m.step = "compose" /\ m.hh \in Households
  BY DEF CanUpload, MeetingInv, MeetingState
<1> QED BY <1>1 DEF Uploaded, MeetingInv, MeetingState

LEMMA ExtractedInv ==
  ASSUME NEW m, MeetingInv(m), m.image # None
  PROVE  MeetingInv(Extracted(m))
<1>1. m \in MeetingState /\ m.image \in [about : Households, base : SUBSET Households]
  BY DEF MeetingInv, MeetingState
<1>2. m.image.base \union {m.image.about} \in SUBSET Households
  BY <1>1
<1> QED BY <1>1, <1>2 DEF Extracted, MeetingInv, MeetingState

\* The steps that leave the text alone.
LEMMA SavedInv ==
  ASSUME NEW m, MeetingInv(m)
  PROVE  /\ CanSave(m) => MeetingInv(Saving(m))
         /\ MeetingInv(Answered(m))
         /\ m.saved => MeetingInv(Finished(m))
         /\ MeetingInv(HandingOff(m)) /\ MeetingInv(HandedOff(m))
<1>1. CanSave(m) => MeetingInv(Saving(m))
  BY DEF CanSave, Saving, MeetingInv, MeetingState
<1>2. MeetingInv(Answered(m))
  BY DEF Answered, MeetingInv, MeetingState
<1>3. m.saved => MeetingInv(Finished(m))
  BY DEF Finished, MeetingInv, MeetingState
<1>4. MeetingInv(HandingOff(m))
  BY DEF HandingOff, MeetingInv, MeetingState
<1>5. MeetingInv(HandedOff(m))
  BY DEF HandedOff, MeetingInv, MeetingState
<1> QED BY <1>1, <1>2, <1>3, <1>4, <1>5

LEMMA SearchingInv ==
  ASSUME NEW m, MeetingInv(m), m.step = "compose"
  PROVE  MeetingInv(Searching(m))
<1> DEFINE t == Searching(m)
<1>1. /\ m \in MeetingState
      /\ t = [m EXCEPT !.step = "search", !.kept = m.kept \/ m.notes # {} \/ m.image # None]
  BY DEF Searching, MeetingInv, MeetingState
<1>2. t \in MeetingState /\ t.step = "search" /\ t.notes = m.notes /\ t.image = m.image
      /\ t.logged = m.logged /\ t.hh = m.hh
  BY <1>1 DEF MeetingState
<1>3. ~t.kept => ~m.kept /\ m.notes = {} /\ m.image = None
  BY <1>1 DEF MeetingState
<1> HIDE DEF t
<1> QED BY <1>2, <1>3 DEF t, MeetingInv

-------------------------------------------------------------------------------
(* The compliance review. *)

\* The states of a review, but for the bound on its scans.
Reviewed ==
  [step : {"search", "scanning", "results", "recording", "complete"},
   hh : Ctx, data : Ctx, checks : Ctx, batch : BOOLEAN, scans : Seq(Scan),
   awaiting : 0..MaxRecordings, crossed : BOOLEAN]

LEMMA ReviewTypes ==
  \A c : c \in ComplianceState <=> c \in Reviewed /\ Len(c.scans) <= MaxScans
<1>1. \A s : s \in BoundedSeq(Scan, MaxScans) <=> s \in Seq(Scan) /\ Len(s) <= MaxScans
  BY Bounded, ScansAssumption DEF ScansAssumption
<1> QED BY <1>1 DEF ComplianceState, Reviewed, Ctx

LEMMA ComplianceInitInv == ReviewInv(ComplianceInit)
<1>1. <<>> \in Seq(Scan) /\ Len(<<>>) <= MaxScans /\ 0 \in 0..MaxRecordings
  BY ScansAssumption DEF ScansAssumption
<1>2. ComplianceInit \in ComplianceState
  BY <1>1, ReviewTypes DEF ComplianceInit, Reviewed, Ctx
<1>3. NoScan(ComplianceInit)
  BY DEF NoScan, ComplianceInit
<1> QED BY <1>2, <1>3 DEF ReviewInv

\* A reset leaves the scan or the recording that runs without a household.
LEMMA ClearedInv ==
  ASSUME NEW c, ReviewInv(c)
  PROVE  ReviewInv(Cleared(c))
<1> DEFINE t == Cleared(c)
<1>0. c \in Reviewed /\ Len(c.scans) <= MaxScans
  BY ReviewTypes DEF ReviewInv
<1>2. /\ t \in Reviewed
      /\ t.step = "search" /\ t.hh = None /\ t.scans = c.scans /\ t.awaiting = c.awaiting
      /\ t.data = c.data /\ t.crossed = c.crossed
  BY <1>0 DEF Cleared, Reviewed, Ctx
<1> HIDE DEF t
<1>1. t \in ComplianceState
  BY <1>0, <1>2, ReviewTypes
<1>3. OneScan(c) => OneScan(t)
  BY <1>2 DEF OneScan
<1>4. NoScan(c) => NoScan(t)
  BY <1>2 DEF NoScan
<1> QED BY <1>1, <1>2, <1>3, <1>4 DEF ReviewInv, t

LEMMA ScannedInv ==
  ASSUME NEW c, ReviewInv(c), NEW h \in Households, Len(c.scans) < MaxScans
  PROVE  ReviewInv(Scanned(c, h)) /\ Scanned(c, h).step = "scanning"
<1> DEFINE t == Scanned(c, h)
           s == [hh |-> h, stage |-> "reading"]
           scans == Append(c.scans, s)
<1>0. c \in Reviewed
  BY ReviewTypes DEF ReviewInv
<1>1. c.scans \in Seq(Scan) /\ s \in Scan /\ c.awaiting \in Nat
  BY <1>0, ScansAssumption DEF Reviewed, Scan, ScansAssumption
<1>2. /\ scans \in Seq(Scan) /\ Len(scans) = Len(c.scans) + 1
      /\ c.scans = <<>> => Len(scans) = 1 /\ scans[1] = s
  BY <1>1, AppendProperties
<1>3. Len(scans) <= MaxScans
  BY <1>1, <1>2, ScansAssumption DEF ScansAssumption
<1>4. t = [c EXCEPT !.hh = h, !.step = "scanning", !.scans = scans,
                    !.crossed = c.scans # <<>> \/ c.awaiting > 0]
  BY DEF Scanned
<1> HIDE DEF scans, t
<1>5. /\ t \in Reviewed /\ t.step = "scanning" /\ t.hh = h /\ t.scans = scans
      /\ t.awaiting = c.awaiting /\ t.crossed = (c.scans # <<>> \/ c.awaiting > 0)
  BY <1>0, <1>2, <1>4 DEF Reviewed, Ctx
<1>6. t \in ComplianceState
  BY <1>3, <1>5, ReviewTypes
<1>7. ~t.crossed => t.awaiting = 0 /\ Len(t.scans) = 1 /\ t.scans[1] = s
  <2>1. ~t.crossed => c.scans = <<>> /\ ~(c.awaiting > 0)
    BY <1>5
  <2>2. ~(c.awaiting > 0) => c.awaiting = 0
    BY <1>1
  <2> QED BY <1>2, <1>5, <2>1, <2>2
<1>8. s.hh = h /\ s.stage = "reading"
  OBVIOUS
<1> HIDE DEF s
<1>9. ~t.crossed => OneScan(t)
  BY <1>5, <1>7, <1>8 DEF OneScan
<1> QED BY <1>5, <1>6, <1>9 DEF ReviewInv, t

LEMMA WatchedInv ==
  ASSUME NEW c, ReviewInv(c), NEW ctx \in Ctx, Due(c, ctx) => Len(c.scans) < MaxScans
  PROVE  ReviewInv(Watched(c, ctx))
BY ScannedInv DEF Watched, Due, Ctx

\* The scan of place i ends, or goes on to its next stage: it is the only one left, or
\* others stay.
LEMMA DroppedOf ==
  ASSUME NEW c, ReviewInv(c), NEW i \in DOMAIN c.scans
  PROVE  /\ Dropped(c, i) \in ComplianceState
         /\ Len(Dropped(c, i).scans) = Len(c.scans) - 1
         /\ c.scans[i] \in Scan
         /\ Dropped(c, i) = [c EXCEPT !.scans = Dropped(c, i).scans]
         /\ Len(c.scans) \in Nat \ {0}
         /\ ~c.crossed => i = 1 /\ OneScan(c) /\ Dropped(c, i).scans = <<>>
<1> DEFINE r == RemoveAt(c.scans, i)
<1>0. c \in Reviewed
  BY ReviewTypes DEF ReviewInv
<1>1. c.scans \in Seq(Scan) /\ Len(c.scans) <= MaxScans
  BY ReviewTypes DEF ReviewInv, Reviewed
<1>2. i \in 1..Len(c.scans) /\ Len(c.scans) \in Nat \ {0}
  BY <1>1, LenProperties
<1>3. r \in Seq(Scan) /\ Len(r) = Len(c.scans) - 1
  BY <1>1, <1>2, RemoveAtOf
<1>4. Dropped(c, i) = [c EXCEPT !.scans = r]
  BY DEF Dropped
<1> HIDE DEF r
<1>5. Dropped(c, i) \in Reviewed /\ Dropped(c, i).scans = r
  BY <1>0, <1>3, <1>4 DEF Reviewed
<1>9. Dropped(c, i) \in ComplianceState
  BY <1>1, <1>2, <1>3, <1>5, ReviewTypes, ScansAssumption DEF ScansAssumption
<1>6. c.scans[i] \in Scan
  BY <1>1, <1>2, ElementOfSeq
<1>7. c.scans # <<>>
  BY <1>1, <1>2, EmptySeq
<1>8. ASSUME ~c.crossed
      PROVE  i = 1 /\ OneScan(c) /\ r = <<>>
  <2>1. OneScan(c)
    BY <1>7, <1>8 DEF ReviewInv, NoScan
  <2>2. Len(c.scans) = 1
    BY <2>1 DEF OneScan
  <2>3. i = 1 /\ Len(r) = 0
    BY <1>2, <1>3, <2>2
  <2> QED BY <1>3, <2>1, <2>3, EmptySeq
<1> QED BY <1>2, <1>3, <1>4, <1>5, <1>6, <1>8, <1>9

LEMMA StagedOf ==
  ASSUME NEW c, ReviewInv(c), NEW i \in DOMAIN c.scans, NEW stage \in {"checking", "ending"},
         NEW t, t = Staged(c, i, stage), NEW s, s = [c.scans[i] EXCEPT !.stage = stage]
  PROVE  /\ t \in ComplianceState /\ t = [c EXCEPT !.scans = t.scans]
         /\ s \in Scan /\ s.hh = c.scans[i].hh /\ s.stage = stage
         /\ ~c.crossed => i = 1 /\ OneScan(c) /\ Len(t.scans) = 1 /\ t.scans[1] = s
<1> DEFINE d == Dropped(c, i)
           scans == Append(d.scans, s)
<1>1. /\ d \in Reviewed /\ Len(d.scans) = Len(c.scans) - 1 /\ c.scans[i] \in Scan
      /\ d = [c EXCEPT !.scans = d.scans] /\ Len(c.scans) \in Nat \ {0}
      /\ ~c.crossed => i = 1 /\ OneScan(c) /\ d.scans = <<>>
  BY DroppedOf, ReviewTypes
<1>2. c \in Reviewed /\ Len(c.scans) <= MaxScans
  BY ReviewTypes DEF ReviewInv
<1>3. s \in Scan /\ s.hh = c.scans[i].hh /\ s.stage = stage
  BY <1>1 DEF Scan
<1>4. t = [d EXCEPT !.scans = scans]
  BY DEF Staged
<1> HIDE DEF d
<1>5. d.scans \in Seq(Scan)
  BY <1>1 DEF Reviewed
<1>6. /\ scans \in Seq(Scan) /\ Len(scans) = Len(c.scans)
      /\ ~c.crossed => Len(scans) = 1 /\ scans[1] = s
  <2>1. /\ scans \in Seq(Scan) /\ Len(scans) = Len(d.scans) + 1
        /\ scans[Len(d.scans) + 1] = s
    BY <1>3, <1>5, AppendProperties
  <2>2. Len(scans) = Len(c.scans)
    BY <1>1, <2>1
  <2>3. ~c.crossed => Len(d.scans) = 0
    BY <1>1, EmptySeq
  <2> QED BY <2>1, <2>2, <2>3
<1> HIDE DEF scans
<1>7. t \in Reviewed /\ t.scans = scans
  BY <1>1, <1>4, <1>6 DEF Reviewed
<1>8. t = [c EXCEPT !.scans = scans]
  <2>1. t = [[c EXCEPT !.scans = d.scans] EXCEPT !.scans = scans]
    BY <1>1, <1>4
  <2> QED BY <1>2, <2>1 DEF Reviewed
<1>9. t \in ComplianceState
  BY <1>2, <1>6, <1>7, ReviewTypes
<1> QED BY <1>1, <1>3, <1>6, <1>7, <1>8, <1>9

LEMMA ReadInv ==
  ASSUME NEW c, ReviewInv(c), NEW i \in DOMAIN c.scans, c.scans[i].stage = "reading"
  PROVE  ReviewInv(Read(c, i))
<1> DEFINE r == Staged(c, i, "checking")
           s == [c.scans[i] EXCEPT !.stage = "checking"]
           t == Read(c, i)
<1>1. /\ r \in ComplianceState /\ r = [c EXCEPT !.scans = r.scans]
      /\ s \in Scan /\ s.hh = c.scans[i].hh /\ s.stage = "checking"
      /\ ~c.crossed => i = 1 /\ OneScan(c) /\ Len(r.scans) = 1 /\ r.scans[1] = s
  BY StagedOf
<1>2. t = [r EXCEPT !.data = s.hh]
  BY <1>1 DEF Read
<1>3. r \in Reviewed /\ c \in Reviewed /\ Len(r.scans) <= MaxScans /\ s.hh \in Ctx
  BY <1>1, ReviewTypes DEF ReviewInv, Scan, Ctx
<1> HIDE DEF r, s, t
<1>4. /\ t \in Reviewed /\ t.scans = r.scans /\ t.data = s.hh /\ t.hh = r.hh
      /\ t.step = r.step /\ t.awaiting = r.awaiting /\ t.crossed = r.crossed
  BY <1>2, <1>3 DEF Reviewed
<1>5. r.hh = c.hh /\ r.step = c.step /\ r.awaiting = c.awaiting /\ r.crossed = c.crossed
  BY <1>1, <1>3 DEF Reviewed
<1>6. t \in ComplianceState
  BY <1>3, <1>4, ReviewTypes
<1>7. ~c.crossed => OneScan(t)
  <2>1. SUFFICES ASSUME ~c.crossed PROVE OneScan(t)
    OBVIOUS
  <2>2. t.scans[1].hh = c.scans[1].hh /\ t.scans[1].stage = "checking" /\ t.data = t.scans[1].hh
    BY <1>1, <1>4, <2>1
  <2> QED BY <1>1, <1>4, <1>5, <2>1, <2>2 DEF OneScan
<1> QED BY <1>4, <1>5, <1>6, <1>7 DEF ReviewInv, t

LEMMA ReadFailedInv ==
  ASSUME NEW c, ReviewInv(c), NEW i \in DOMAIN c.scans
  PROVE  ReviewInv(ReadFailed(c, i))
<1> DEFINE d == Dropped(c, i)
           t == ReadFailed(c, i)
<1>1. /\ d \in ComplianceState /\ d = [c EXCEPT !.scans = d.scans]
      /\ ~c.crossed => i = 1 /\ OneScan(c) /\ d.scans = <<>>
  BY DroppedOf
<1>2. t = [d EXCEPT !.step = "search"]
  BY DEF ReadFailed
<1>3. d \in Reviewed /\ c \in Reviewed /\ Len(d.scans) <= MaxScans
  BY <1>1, ReviewTypes DEF ReviewInv
<1> HIDE DEF d, t
<1>4. /\ t \in Reviewed /\ t.scans = d.scans /\ t.step = "search"
      /\ t.awaiting = d.awaiting /\ t.crossed = d.crossed
  BY <1>2, <1>3 DEF Reviewed
<1>5. d.awaiting = c.awaiting /\ d.crossed = c.crossed
  BY <1>1, <1>3 DEF Reviewed
<1>6. t \in ComplianceState
  BY <1>3, <1>4, ReviewTypes
<1>7. ~c.crossed => NoScan(t)
  BY <1>1, <1>4, <1>5 DEF OneScan, NoScan
<1> QED BY <1>4, <1>5, <1>6, <1>7 DEF ReviewInv, t

\* A single scan checks the data it read.
LEMMA CheckedInv ==
  ASSUME NEW c, ReviewInv(c), NEW i \in DOMAIN c.scans, c.scans[i].stage = "checking"
  PROVE  ReviewInv(Checked(c, i))
<1> DEFINE r == Staged(c, i, "ending")
           s == [c.scans[i] EXCEPT !.stage = "ending"]
           t == Checked(c, i)
<1>1. /\ r \in ComplianceState /\ r = [c EXCEPT !.scans = r.scans]
      /\ s \in Scan /\ s.hh = c.scans[i].hh /\ s.stage = "ending"
      /\ ~c.crossed => i = 1 /\ OneScan(c) /\ Len(r.scans) = 1 /\ r.scans[1] = s
  BY StagedOf
<1>2. t = [r EXCEPT !.checks = c.data]
  BY DEF Checked
<1>3. r \in Reviewed /\ c \in Reviewed /\ Len(r.scans) <= MaxScans
  BY <1>1, ReviewTypes DEF ReviewInv
<1> HIDE DEF r, s, t
<1>4. /\ t \in Reviewed /\ t.scans = r.scans /\ t.data = r.data /\ t.hh = r.hh /\ t.checks = c.data
      /\ t.step = r.step /\ t.awaiting = r.awaiting /\ t.crossed = r.crossed
  BY <1>2, <1>3 DEF Reviewed
<1>5. /\ r.hh = c.hh /\ r.step = c.step /\ r.awaiting = c.awaiting /\ r.crossed = c.crossed
      /\ r.data = c.data
  BY <1>1, <1>3 DEF Reviewed
<1>6. t \in ComplianceState
  BY <1>3, <1>4, ReviewTypes
<1>7. ~c.crossed => OneScan(t)
  <2>1. SUFFICES ASSUME ~c.crossed PROVE OneScan(t)
    OBVIOUS
  <2>2. t.scans[1].hh = c.scans[1].hh /\ t.scans[1].stage = "ending" /\ c.data = c.scans[1].hh
    BY <1>1, <1>4, <2>1 DEF OneScan
  <2> QED BY <1>1, <1>4, <1>5, <2>1, <2>2 DEF OneScan
<1> QED BY <1>4, <1>5, <1>6, <1>7 DEF ReviewInv, t

\* What a single scan shows is the household's, or nobody's.
LEMMA ShownInv ==
  ASSUME NEW c, ReviewInv(c), NEW i \in DOMAIN c.scans, c.scans[i].stage = "ending"
  PROVE  ReviewInv(Shown(c, i))
<1> DEFINE d == Dropped(c, i)
           t == Shown(c, i)
<1>1. /\ d \in ComplianceState /\ d = [c EXCEPT !.scans = d.scans]
      /\ ~c.crossed => i = 1 /\ OneScan(c) /\ d.scans = <<>>
  BY DroppedOf
<1>2. t = [d EXCEPT !.step = "results"]
  BY DEF Shown
<1>3. d \in Reviewed /\ c \in Reviewed /\ Len(d.scans) <= MaxScans
  BY <1>1, ReviewTypes DEF ReviewInv
<1> HIDE DEF d, t
<1>4. /\ t \in Reviewed /\ t.scans = d.scans /\ t.step = "results" /\ t.hh = d.hh
      /\ t.awaiting = d.awaiting /\ t.crossed = d.crossed /\ t.checks = d.checks
  BY <1>2, <1>3 DEF Reviewed
<1>5. /\ d.awaiting = c.awaiting /\ d.crossed = c.crossed /\ d.hh = c.hh
      /\ d.checks = c.checks
  BY <1>1, <1>3 DEF Reviewed
<1>6. t \in ComplianceState
  BY <1>3, <1>4, ReviewTypes
<1>7. ~c.crossed => NoScan(t)
  BY <1>1, <1>4, <1>5 DEF OneScan, NoScan
<1> QED BY <1>4, <1>5, <1>6, <1>7 DEF ReviewInv, t

LEMMA RecordingInv ==
  ASSUME NEW c, ReviewInv(c), CanRecord(c)
  PROVE  ReviewInv(Recording(c))
<1> DEFINE t == Recording(c)
<1>1. c \in Reviewed /\ Len(c.scans) <= MaxScans /\ c.awaiting \in Nat
  BY ReviewTypes, ScansAssumption DEF ReviewInv, Reviewed, ScansAssumption
<1>2. c.step = "results" /\ c.hh # None /\ c.awaiting + 1 \in 0..MaxRecordings
  BY <1>1, ScansAssumption DEF CanRecord, ScansAssumption
<1>3. /\ t \in Reviewed /\ t.step = "recording" /\ t.awaiting = c.awaiting + 1
      /\ t.scans = c.scans /\ t.hh = c.hh /\ t.checks = c.checks /\ t.crossed = c.crossed
  BY <1>1, <1>2 DEF Recording, Reviewed
<1> HIDE DEF t
<1>4. t \in ComplianceState
  BY <1>1, <1>3, ReviewTypes
<1>5. ~OneScan(c)
  BY <1>2 DEF OneScan
<1>6. NoScan(c) => c.awaiting = 0
  BY <1>2 DEF NoScan
<1>7. NoScan(c) => NoScan(t)
  BY <1>2, <1>3, <1>6 DEF NoScan
<1> QED BY <1>3, <1>4, <1>5, <1>7 DEF ReviewInv, t

LEMMA ReviewAnsweredInv ==
  ASSUME NEW c, ReviewInv(c), c.awaiting > 0
  PROVE  ReviewInv(ReviewAnswered(c))
<1> DEFINE t == ReviewAnswered(c)
<1>1. c \in Reviewed /\ Len(c.scans) <= MaxScans /\ c.awaiting \in 1..MaxRecordings
  BY ReviewTypes, ScansAssumption DEF ReviewInv, Reviewed, ScansAssumption
<1>2. c.awaiting - 1 \in 0..MaxRecordings
  BY <1>1, ScansAssumption DEF ScansAssumption
<1>3. /\ t \in Reviewed /\ t.step = "complete" /\ t.awaiting = c.awaiting - 1
      /\ t.scans = c.scans /\ t.hh = c.hh /\ t.checks = c.checks /\ t.crossed = c.crossed
  BY <1>1, <1>2 DEF ReviewAnswered, Reviewed
<1> HIDE DEF t
<1>4. t \in ComplianceState
  BY <1>1, <1>3, ReviewTypes
<1>5. ~OneScan(c)
  BY <1>1 DEF OneScan
<1>6. NoScan(c) => c.hh = None \/ (c.awaiting = 1 /\ c.step = "recording")
  BY <1>1 DEF NoScan
<1>7. NoScan(c) => NoScan(t)
  BY <1>3, <1>6 DEF NoScan
<1> QED BY <1>3, <1>4, <1>5, <1>7 DEF ReviewInv, t

LEMMA InBatchInv ==
  ASSUME NEW c, ReviewInv(c), NEW b \in BOOLEAN
  PROVE  ReviewInv([c EXCEPT !.batch = b])
<1> DEFINE t == [c EXCEPT !.batch = b]
<1>1. c \in Reviewed /\ Len(c.scans) <= MaxScans
  BY ReviewTypes DEF ReviewInv
<1>2. /\ t \in Reviewed /\ t.step = c.step /\ t.awaiting = c.awaiting /\ t.data = c.data
      /\ t.scans = c.scans /\ t.hh = c.hh /\ t.checks = c.checks /\ t.crossed = c.crossed
  BY <1>1 DEF Reviewed
<1> HIDE DEF t
<1>3. t \in ComplianceState
  BY <1>1, <1>2, ReviewTypes
<1>4. (OneScan(c) => OneScan(t)) /\ (NoScan(c) => NoScan(t))
  BY <1>2 DEF OneScan, NoScan
<1> QED BY <1>2, <1>3, <1>4 DEF ReviewInv, t

\* Back from the last page, or from the results, with the same checks.
LEMMA SteppedBackInv ==
  ASSUME NEW c, ReviewInv(c), NEW step,
         (c.step = "complete" /\ step = "results") \/ (c.step = "results" /\ step = "search")
  PROVE  ReviewInv([c EXCEPT !.step = step])
<1> DEFINE t == [c EXCEPT !.step = step]
<1>1. c \in Reviewed /\ Len(c.scans) <= MaxScans
  BY ReviewTypes DEF ReviewInv
<1>2. /\ t \in Reviewed /\ t.step = step /\ t.awaiting = c.awaiting
      /\ t.scans = c.scans /\ t.hh = c.hh /\ t.checks = c.checks /\ t.crossed = c.crossed
  BY <1>1 DEF Reviewed
<1> HIDE DEF t
<1>3. t \in ComplianceState
  BY <1>1, <1>2, ReviewTypes
<1>4. ~OneScan(c) /\ (NoScan(c) => NoScan(t))
  BY <1>2 DEF OneScan, NoScan
<1> QED BY <1>2, <1>3, <1>4 DEF ReviewInv, t

LEMMA WentBackInv ==
  ASSUME NEW c, ReviewInv(c), NEW ctx, BackStays(c, ctx)
  PROVE  ReviewInv(WentBack(c))
<1>1. CASE c.batch
  BY <1>1, InBatchInv DEF WentBack
<1>2. CASE ~c.batch /\ c.step = "complete"
  BY <1>2, SteppedBackInv DEF WentBack
<1>3. CASE ~c.batch /\ c.step = "scanning"
  BY <1>3, ClearedInv DEF WentBack
<1>4. CASE ~c.batch /\ c.step = "results"
  BY <1>4, SteppedBackInv DEF WentBack
<1> QED BY <1>1, <1>2, <1>3, <1>4 DEF BackStays

-------------------------------------------------------------------------------
(* The screens together. *)

LEMMA InitInv == Init => IInv
BY NavBounds DEF Init, IInv, DraftInv

\* The page shown, with states of its screens that satisfy the invariant.
LEMMA ShowsInv ==
  ASSUME NEW n, NavInv(n), NEW m, m # None => MeetingInv(m),
         NEW c, c # None => ReviewInv(c), NEW d, DraftInv(d), Shows(n, m, c, d)
  PROVE  IInv'
<1>1. n.ctx \in Ctx
  BY NavBounds DEF NavInv
<1>2. NavInv(nav')
  BY DEF Shows
<1>3. CASE n.screen = "meeting"
  <2>1. meeting' = IF m # None THEN Followed(m, n.ctx) ELSE Opened(n.ctx, d)
    BY <1>3 DEF Shows
  <2>2. MeetingInv(meeting')
    BY <1>1, <2>1, FollowedInv, OpenedInv
  <2>3. draft' = DraftOf(meeting', d) /\ review' = None /\ nav' = n
    BY <1>3 DEF Shows
  <2>4. DraftInv(draft')
    BY <2>2, <2>3, DraftOfInv
  <2> QED BY <1>2, <1>3, <2>2, <2>3, <2>4 DEF IInv
<1>4. CASE n.screen = "compliance"
  <2> DEFINE c1 == IF c # None THEN c ELSE ComplianceInit
  <2>1. /\ meeting' = None /\ draft' = d /\ nav' = n /\ review' = Watched(c1, n.ctx)
        /\ Due(c1, n.ctx) => Len(c1.scans) < MaxScans
    BY <1>4 DEF Shows
  <2>2. ReviewInv(c1)
    BY ComplianceInitInv
  <2>3. ReviewInv(review')
    BY <1>1, <2>1, <2>2, WatchedInv
  <2> QED BY <1>2, <1>4, <2>1, <2>3 DEF IInv
<1>5. CASE n.screen \notin {"meeting", "compliance"}
  BY <1>2, <1>5 DEF Shows, IInv
<1> QED BY <1>3, <1>4, <1>5

LEMMA RouterInv ==
  ASSUME IInv, Navigate \/ GoHome \/ Leave \/ Reload \/ Resume
  PROVE  IInv'
<1> USE DEF IInv
<1>1. CASE Navigate
  <2>1. PICK s \in Screens, h \in Ctx :
          /\ Linked(s, h)
          /\ nav.screen # "home" => Len(nav.stack) < MaxDepth
          /\ Shows(NavTo(nav, s, h), meeting, review, draft)
    BY <1>1 DEF Navigate, Ctx
  <2>2. s # "home"
    BY <2>1 DEF Linked
  <2>3. NavInv(NavTo(nav, s, h))
    BY <2>1, <2>2, NavToInv
  <2> QED BY <2>1, <2>3, ShowsInv
<1>2. CASE GoHome
  BY <1>2, NavBounds, ShowsInv DEF GoHome
<1>3. CASE Leave
  <2>1. NavInv(NavBack(nav))
    BY NavBackInv
  <2>2. CASE nav.screen = "family" /\ Shows(NavBack(nav), None, None, draft)
    BY <2>1, <2>2, ShowsInv
  <2>3. CASE meeting # None /\ Shows(NavBack(nav), Reset(meeting), None, None)
    <3>1. MeetingInv(Reset(meeting)) /\ DraftInv(None)
      BY <2>3, ResetInv DEF DraftInv
    <3> QED BY <2>1, <2>3, <3>1, ShowsInv
  <2>4. CASE review # None /\ Shows(NavBack(nav), None, Cleared(review), draft)
    <3>1. ReviewInv(Cleared(review))
      BY <2>4, ClearedInv
    <3> QED BY <2>1, <2>4, <3>1, ShowsInv
  <2> QED BY <1>3, <2>2, <2>3, <2>4 DEF Leave
<1>4. CASE Reload
  <2>1. PICK role \in {"advisor", "principal"} : Shows(NavReady(Home, role), None, None, draft)
    BY <1>4 DEF Reload
  <2>2. NavInv(NavReady(Home, role))
    BY NavBounds, NavReadyInv
  <2> QED BY <2>1, <2>2, ShowsInv
<1>5. CASE Resume
  <2>1. PICK role \in {"advisor", "principal"} : Shows(NavReady(nav, role), None, None, draft)
    BY <1>5 DEF Resume
  <2>2. NavInv(NavReady(nav, role))
    BY NavReadyInv
  <2> QED BY <2>1, <2>2, ShowsInv
<1> QED BY <1>1, <1>2, <1>3, <1>4, <1>5

LEMMA MeetingStepInv ==
  ASSUME IInv, Meeting
  PROVE  IInv'
<1> DEFINE m == meeting
<1>1. NavInv(nav) /\ DraftInv(draft) /\ (m # None => MeetingInv(m))
      /\ (review # None => ReviewInv(review))
  BY DEF IInv
<1>2. m # None
  BY DEF Meeting, Type, Pick, Upload, Extract, Save, SaveAnswered, SaveShown, HandOff,
     HandOffAnswered, LogAnother, SearchAgain
<1>3. ASSUME NEW t, MeetingInv(t), Meets(t)
      PROVE  IInv'
  BY <1>1, <1>3, ShowsInv DEF Meets
<1> HIDE DEF m
<1>4. CASE Type
  BY <1>1, <1>2, <1>3, <1>4, TypedInv DEF Type, m
<1>5. CASE Pick
  BY <1>1, <1>2, <1>3, <1>5, SelectedInv DEF Pick, m
<1>6. CASE Upload
  BY <1>1, <1>2, <1>3, <1>6, UploadedInv DEF Upload, m
<1>7. CASE Extract
  BY <1>1, <1>2, <1>3, <1>7, ExtractedInv DEF Extract, m
<1>8. CASE Save
  BY <1>1, <1>2, <1>3, <1>8, SavedInv DEF Save, m
<1>9. CASE SaveAnswered
  BY <1>1, <1>2, <1>3, <1>9, SavedInv DEF SaveAnswered, m
<1>10. CASE SaveShown
  BY <1>1, <1>2, <1>3, <1>10, SavedInv DEF SaveShown, m
<1>11. CASE HandOff
  BY <1>1, <1>2, <1>3, <1>11, SavedInv DEF HandOff, m
<1>12. CASE HandOffAnswered
  BY <1>1, <1>2, <1>3, <1>12, SavedInv DEF HandOffAnswered, m
<1>13. CASE LogAnother
  <2>1. MeetingInv(Reset(m)) /\ Shows(nav, Reset(m), None, None) /\ DraftInv(None)
    BY <1>1, <1>2, <1>13, ResetInv DEF LogAnother, DraftInv, m
  <2> QED BY <1>1, <2>1, ShowsInv
<1>14. CASE SearchAgain
  BY <1>1, <1>2, <1>3, <1>14, SearchingInv DEF SearchAgain, BackToSearch, m
<1> QED BY <1>4, <1>5, <1>6, <1>7, <1>8, <1>9, <1>10, <1>11, <1>12, <1>13, <1>14 DEF Meeting

LEMMA ReviewStepInv ==
  ASSUME IInv, Review
  PROVE  IInv'
<1> DEFINE c == review
<1>1. NavInv(nav) /\ DraftInv(draft) /\ (c # None => ReviewInv(c))
      /\ (meeting # None => MeetingInv(meeting))
  BY DEF IInv
<1>2. c # None
  BY DEF Review, Select, ScanReads, ScanChecks, ScanShows, ScanStep, Record, RecordAnswered,
     Back, CheckAnother, Batch
<1>3. ASSUME NEW t, ReviewInv(t), Reviews(t)
      PROVE  IInv'
  BY <1>1, <1>3, ShowsInv DEF Reviews
<1> HIDE DEF c
<1>4. CASE Select
  BY <1>1, <1>2, <1>3, <1>4, ScannedInv DEF Select, CanSelect, c
<1>5. CASE ScanReads
  BY <1>1, <1>2, <1>3, <1>5, ReadInv, ReadFailedInv DEF ScanReads, c
<1>6. CASE ScanChecks
  <2>1. PICK i \in DOMAIN c.scans : c.scans[i].stage = "checking" /\ Reviews(Checked(c, i))
    BY <1>6 DEF ScanChecks, ScanStep, First, c
  <2> QED BY <1>1, <1>2, <1>3, <2>1, CheckedInv
<1>7. CASE ScanShows
  <2>1. PICK i \in DOMAIN c.scans : c.scans[i].stage = "ending" /\ Reviews(Shown(c, i))
    BY <1>7 DEF ScanShows, ScanStep, First, c
  <2> QED BY <1>1, <1>2, <1>3, <2>1, ShownInv
<1>8. CASE Record
  BY <1>1, <1>2, <1>3, <1>8, RecordingInv DEF Record, c
<1>9. CASE RecordAnswered
  BY <1>1, <1>2, <1>3, <1>9, ReviewAnsweredInv DEF RecordAnswered, c
<1>10. CASE Back
  BY <1>1, <1>2, <1>3, <1>10, WentBackInv DEF Back, c
<1>11. CASE CheckAnother
  BY <1>1, <1>2, <1>3, <1>11, ClearedInv DEF CheckAnother, c
<1>12. CASE Batch
  BY <1>1, <1>2, <1>3, <1>12, InBatchInv DEF Batch, InBatch, c
<1> QED BY <1>4, <1>5, <1>6, <1>7, <1>8, <1>9, <1>10, <1>11, <1>12 DEF Review

LEMMA NextInv == IInv /\ [Next]_vars => IInv'
<1>1. SUFFICES ASSUME IInv, [Next]_vars PROVE IInv'
  OBVIOUS
<1>2. CASE UNCHANGED vars
  BY <1>1, <1>2 DEF vars, IInv
<1> QED BY <1>1, <1>2, RouterInv, MeetingStepInv, ReviewStepInv DEF Next

THEOREM Invariant == Spec => []IInv
BY InitInv, NextInv, PTL DEF Spec

\* The fields stay of their types, in whatever order the screens are gone through: no
\* stack, list of scans or count of recordings passes its bound.
THEOREM TypeCorrect == Spec => []TypeOK
<1>1. IInv => TypeOK
  <2>1. SUFFICES ASSUME IInv PROVE TypeOK
    OBVIOUS
  <2>2. nav \in NavState /\ (meeting # None => meeting \in MeetingState)
        /\ (review # None => review \in ComplianceState)
    BY <2>1 DEF IInv, NavInv, MeetingInv, ReviewInv
  <2>3. draft \in Draft
    BY <2>1 DEF IInv, DraftInv, Draft
  <2> QED BY <2>2, <2>3 DEF TypeOK
<1> QED BY <1>1, Invariant, PTL

\* The checks shown and recorded under a household's name are of that household's data,
\* unless scans overlapped: a single scan reads, checks and shows one household, and
\* whoever takes the household from it also takes the name.
THEOREM ReviewOfOne == Spec => []ReviewIsOfOne
<1>1. IInv => ReviewIsOfOne
  BY DEF IInv, ReviewIsOfOne, ReviewInv, OneScan, NoScan
<1> QED BY <1>1, Invariant, PTL

\* Notes about one family are not recorded on another, over drafts, pictures being read,
\* reloads and links, unless the writer took the text along.
THEOREM OwnNotes == Spec => []NotesAreOwn
<1>1. IInv => NotesAreOwn
  BY DEF IInv, NotesAreOwn, MeetingInv
<1> QED BY <1>1, Invariant, PTL

\* A text said to be logged is not offered again: neither a draft nor a page one can
\* write on has it.
THEOREM NeverLoggedTwice == Spec => []LoggedOnce
<1>1. IInv => LoggedOnce
  BY DEF IInv, LoggedOnce, MeetingInv
<1> QED BY <1>1, Invariant, PTL

-------------------------------------------------------------------------------
(* The back button. *)

TrailOf(n) ==
  IF n.screen = "home" THEN n.stack ELSE Append(n.stack, [screen |-> n.screen, ctx |-> n.ctx])

\* A page shown is the last of its trail, with the pages behind it before.
LEMMA TrailEnds ==
  ASSUME NEW n, NavInv(n), n.screen # "home"
  PROVE  /\ TrailOf(n) \in Seq(Page) /\ TrailOf(n) # <<>>
         /\ Front(TrailOf(n)) = n.stack
         /\ Last(TrailOf(n)) = [screen |-> n.screen, ctx |-> n.ctx]
<1> DEFINE p == [screen |-> n.screen, ctx |-> n.ctx]
<1>0. n \in [screen : Screens, ctx : Ctx, stack : Seq(Page)]
  BY NavBounds DEF NavInv
<1>1. n.stack \in Seq(Page) /\ p \in Page
  BY <1>0 DEF Page, Ctx
<1>2. TrailOf(n) = Append(n.stack, p)
  BY DEF TrailOf
<1> QED BY <1>1, <1>2, FrontOfAppend, AppendProperties

LEMMA HomeTrail ==
  ASSUME NEW n, NavInv(n), n.screen = "home"
  PROVE  TrailOf(n) = <<>>
BY DEF NavInv, TrailOf

\* Going back shows the page before, or the home screen if there is none.
LEMMA TrailBack ==
  ASSUME NEW n, NavInv(n), n.screen # "home"
  PROVE  TrailOf(NavBack(n)) = Front(TrailOf(n))
<1>1. Front(TrailOf(n)) = n.stack
  BY TrailEnds
<1>2. CASE n.stack = <<>>
  BY <1>1, <1>2 DEF NavBack, TrailOf, Home
<1>3. CASE n.stack # <<>>
  <2> DEFINE p == Last(n.stack)
  <2>1. n.stack \in Seq(Page)
    BY NavBounds DEF NavInv
  <2>2. p \in Page /\ Append(Front(n.stack), p) = n.stack
    BY <1>3, <2>1, FrontOf
  <2>3. p.screen # "home"
    <3>1. Len(n.stack) \in DOMAIN n.stack
      BY <1>3, <2>1, EmptySeq, LenProperties
    <3> QED BY <3>1 DEF NavInv, Last
  <2>4. NavBack(n) = [screen |-> p.screen, ctx |-> p.ctx, stack |-> Front(n.stack)]
    BY <1>3 DEF NavBack
  <2>5. p = [screen |-> p.screen, ctx |-> p.ctx]
    BY <2>2 DEF Page
  <2> HIDE DEF p
  <2>6. TrailOf(NavBack(n)) = Append(Front(n.stack), p)
    BY <2>3, <2>4, <2>5 DEF TrailOf
  <2> QED BY <1>1, <2>2, <2>6
<1> QED BY <1>2, <1>3

LEMMA NavOnly ==
  ASSUME Meeting \/ Review
  PROVE  nav' = nav
<1>1. CASE Meeting
  BY <1>1 DEF Meeting, Type, Pick, Upload, Extract, Save, SaveAnswered, SaveShown, HandOff,
     HandOffAnswered, LogAnother, SearchAgain, Meets, Shows
<1>2. CASE Review
  BY <1>2 DEF Review, Select, ScanReads, ScanChecks, ScanShows, ScanStep, Record,
     RecordAnswered, Back, CheckAnother, Batch, Reviews, Shows
<1> QED BY <1>1, <1>2

\* The pages shown and remembered by the router are the trail that the back button
\* promises: every link grows it by the page visited, every way back takes one page off.
THEOREM KeepsBackPromise == Spec => BackPromise
<1> DEFINE t == TrailOf(nav)
<1>1. Init => Promise!Init
  BY DEF Init, Home, Promise!Init
<1>2. ASSUME IInv, [Next]_vars
      PROVE  [Promise!Next]_t
  <2>1. NavInv(nav)
    BY <1>2 DEF IInv
  <2>2. t' = TrailOf(nav')
    BY DEF TrailOf
  <2>3. nav' = nav => t' = t
    BY <2>2
  <2>4. CASE Navigate
    <3>1. PICK s \in Screens, h \in Ctx :
            /\ Linked(s, h)
            /\ nav.screen # "home" => Len(nav.stack) < MaxDepth
            /\ nav' = NavTo(nav, s, h)
      BY <2>4 DEF Navigate, Shows, Ctx
    <3>2. s # "home"
      BY <3>1 DEF Linked
    <3> DEFINE n == NavTo(nav, s, h)
    <3>3. NavInv(n) /\ n.screen = s /\ n.ctx \in Ctx /\ n.stack = t
      <4>1. NavInv(n)
        BY <2>1, <3>1, <3>2, NavToInv
      <4>2. n.screen = s /\ n.stack = t
        BY DEF NavTo, TrailOf
      <4> QED BY <4>1, <4>2, NavBounds DEF NavInv
    <3>4. t' = TrailOf(n)
      BY <2>2, <3>1
    <3> HIDE DEF n, t
    <3>5. t' # <<>> /\ Front(t') = t /\ Last(t') = [screen |-> s, ctx |-> n.ctx]
      BY <3>2, <3>3, <3>4, TrailEnds
    <3>6. Last(t') \in [screen : Screens \ {"home"}, ctx : Households \union {None}]
      BY <3>2, <3>3, <3>5 DEF Ctx
    <3>7. Promise!Visit
      BY <3>5, <3>6 DEF Promise!Visit, Promise!Front, Promise!Last, Front, Last, t, TrailOf
    <3> QED BY <3>7 DEF Promise!Next
  <2>5. CASE GoHome
    <3>1. t' = <<>>
      BY <2>2, <2>5, NavBounds, HomeTrail DEF GoHome, Shows, Home
    <3>2. Promise!GoHome
      BY <3>1 DEF Promise!GoHome, TrailOf
    <3> QED BY <3>2 DEF Promise!Next
  <2>6. CASE Leave
    <3>1. nav.screen # "home" /\ nav' = NavBack(nav)
      BY <1>2, <2>6 DEF Leave, Shows, IInv
    <3>2. t # <<>> /\ t' = Front(t)
      BY <2>1, <2>2, <3>1, TrailEnds, TrailBack
    <3>3. Promise!Back
      BY <3>2 DEF Promise!Back, Promise!Front, Front, TrailOf
    <3> QED BY <3>3 DEF Promise!Next
  <2>7. CASE Reload
    <3>1. PICK role \in {"advisor", "principal"} : nav' = NavReady(Home, role)
      BY <2>7 DEF Reload, Shows
    <3>2. CASE role = "principal"
      <4>1. nav' = [screen |-> "dashboard", ctx |-> None, stack |-> <<>>]
        BY <3>1, <3>2 DEF NavReady, Home
      <4>2. t' = <<[screen |-> "dashboard", ctx |-> None]>>
        BY <2>2, <4>1 DEF TrailOf
      <4>3. [screen |-> "dashboard", ctx |-> None] \in [screen : {"dashboard"}, ctx : Households \union {None}]
        OBVIOUS
      <4> HIDE DEF t
      <4>4. t' \in {<<>>} \union
                    {<<p>> : p \in [screen : {"dashboard"}, ctx : Households \union {None}]}
        BY <4>2, <4>3
      <4>5. Promise!GoHome
        BY <4>4 DEF Promise!GoHome, t, TrailOf
      <4> QED BY <4>5 DEF Promise!Next
    <3>3. CASE role = "advisor"
      <4>1. t' = <<>>
        BY <2>2, <3>1, <3>3 DEF NavReady, TrailOf, Home
      <4> QED BY <4>1 DEF Promise!Next, Promise!GoHome, TrailOf
    <3> QED BY <3>2, <3>3
  <2>8. CASE Resume
    <3>1. PICK role \in {"advisor", "principal"} : nav' = NavReady(nav, role)
      BY <2>8 DEF Resume, Shows
    <3>2. CASE role = "principal"
      <4> DEFINE n == NavReady(nav, role)
      <4>1. nav \in [screen : Screens, ctx : Ctx, stack : Seq(Page)]
        BY <2>1, NavBounds DEF NavInv
      <4>2. NavInv(n) /\ n.screen = "dashboard" /\ n.ctx \in Ctx /\ n.stack = nav.stack
        BY <2>1, <3>2, <4>1, NavReadyInv DEF NavReady
      <4>3. t' = TrailOf(n)
        BY <2>2, <3>1
      <4> HIDE DEF n
      <4>4. /\ t' # <<>> /\ Front(t') = nav.stack
            /\ Last(t') = [screen |-> "dashboard", ctx |-> n.ctx]
        BY <4>2, <4>3, TrailEnds
      <4>5. nav.stack = IF t = <<>> THEN <<>> ELSE Front(t)
        BY <2>1, HomeTrail, TrailEnds DEF NavInv
      <4> HIDE DEF t
      <4>6. Last(t') \in [screen : {"dashboard"}, ctx : Households \union {None}]
        BY <4>2, <4>4 DEF Ctx
      <4>7. Front(t') = IF t = <<>> THEN <<>> ELSE Front(t)
        BY <4>4, <4>5
      <4>8. Promise!Land
        BY <4>4, <4>6, <4>7 DEF Promise!Land, Promise!Front, Promise!Last, Front, Last, t, TrailOf
      <4> QED BY <4>8 DEF Promise!Next
    <3>3. CASE role = "advisor"
      BY <2>3, <3>1, <3>3 DEF NavReady
    <3> QED BY <3>2, <3>3
  <2>9. CASE Meeting \/ Review
    BY <2>3, <2>9, NavOnly
  <2>10. CASE UNCHANGED vars
    BY <2>3, <2>10 DEF vars
  <2> QED BY <1>2, <2>4, <2>5, <2>6, <2>7, <2>8, <2>9, <2>10 DEF Next
<1> QED BY <1>1, <1>2, Invariant, PTL DEF Spec, BackPromise, Promise!Spec, TrailOf
=============================================================================
