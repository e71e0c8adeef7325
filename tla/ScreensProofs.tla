--------------------------- MODULE ScreensProofs ---------------------------
(***************************************************************************)
(* Proofs about two screens of the browser, which share no state: the      *)
(* document intake and the money movement wizard.                          *)
(*                                                                         *)
(* The intake: the runs that classify, match and save end, if they do,     *)
(* some time after they began.  IntakeInv says of each what the screen     *)
(* still shows of it (an id a loop has not reached is waiting, a document  *)
(* being saved keeps its verdict), and OnceInv accounts for every document *)
(* that was sent to the analysis more than once.                           *)
(*                                                                         *)
(* The movement: while nothing interrupts, the one request that is out is  *)
(* the one the page shows, so the answer that completes the page is an     *)
(* answer to it.                                                           *)
(***************************************************************************)
EXTENDS MoneyMovement, DocumentIntake, SequenceTheorems, FiniteSetTheorems,
        WellFoundedInduction, TLAPS

-------------------------------------------------------------------------------
(* The document intake. *)

\* A set of numbers has a least one.
LEMMA MinIn ==
  ASSUME NEW S, S \subseteq Nat, S # {}
  PROVE  Min(S) \in S
<1>1. IsWellFoundedOn({ss \in Nat \X Nat : ss[1] < ss[2]}, Nat)
  BY NatLessThanWellFounded DEF OpToRel
<1>2. PICK x \in S : \A y \in S : ~(<<y, x>> \in {ss \in Nat \X Nat : ss[1] < ss[2]})
  BY <1>1, WFMin
<1>3. ASSUME NEW y \in S
      PROVE  x <= y
  <2>1. x \in Nat /\ y \in Nat
    OBVIOUS
  <2>2. ~(y < x)
    <3>1. <<y, x>> \in Nat \X Nat /\ <<y, x>>[1] = y /\ <<y, x>>[2] = x
      BY <2>1
    <3> QED BY <1>2, <3>1
  <2> QED BY <2>1, <2>2
<1> QED BY <1>3 DEF Min

LEMMA Numbers == MaxDocs \in Nat /\ MaxTasks \in Nat /\ InContext \in BOOLEAN
                   /\ Docs = 1..MaxDocs /\ Docs \subseteq Nat
BY IntakeAssumption DEF IntakeAssumption, Docs

\* The types of the parts.
Pages ==
  [step : {"upload", "classifying", "review", "linking", "complete", "closed"},
   linked : BOOLEAN, batch : BOOLEAN, processing : BOOLEAN, saving : BOOLEAN]
Loops == [docs : SUBSET Docs, left : SUBSET Docs]
Runs == [todo : SUBSET Docs, live : BOOLEAN, stuck : BOOLEAN]
Verdicts == {"none", "approved", "rejected"}

LEMMA IntakeTypes ==
  IntakeTypeOK <=>
    /\ page \in Pages /\ queue \in [Docs -> Statuses] /\ loops \subseteq Loops
    /\ saves \subseteq Runs /\ uploaded \in 0..MaxDocs /\ tasks \in [Docs -> 0..MaxTasks]
    /\ verdict \in [Docs -> Verdicts] /\ rewound \subseteq Docs /\ hurried \in BOOLEAN
BY DEF IntakeTypeOK, Pages, Loops, Runs, Verdicts

LEMMA OpenedIs == Opened \in Pages /\ Empty \in [Docs -> Statuses]
BY Numbers DEF Opened, Pages, Empty, Statuses

LEMMA IntakeInitInv == IntakeInit => IntakeInv
<1> SUFFICES ASSUME IntakeInit PROVE IntakeInv
  OBVIOUS
<1> USE DEF IntakeInit
<1>1. IntakeTypeOK
  <2>1. /\ page \in Pages /\ queue \in [Docs -> Statuses] /\ loops \subseteq Loops
        /\ saves \subseteq Runs /\ rewound \subseteq Docs /\ hurried \in BOOLEAN
    BY OpenedIs
  <2>2. /\ uploaded \in 0..MaxDocs /\ tasks \in [Docs -> 0..MaxTasks]
        /\ verdict \in [Docs -> Verdicts]
    BY Numbers DEF Verdicts
  <2> QED BY <2>1, <2>2, IntakeTypes
<1>2. UploadInv /\ VerdictInv
  BY DEF UploadInv, VerdictInv, Untouched, Waiting, Empty
<1>3. LoopInv /\ SaveInv /\ OnceInv
  BY DEF LoopInv, SaveInv, OnceInv
<1> QED BY <1>1, <1>2, <1>3 DEF IntakeInv

-------------------------------------------------------------------------------
(* What the steps have in common. *)

\* The steps about one document, and the household link, leave the queue alone.
LEMMA PageOnly ==
  ASSUME IntakeInv, UNCHANGED <<queue, loops, saves, uploaded, tasks, remembered>>,
         page' \in Pages, page'.saving = page.saving
  PROVE  IntakeInv'
<1> USE DEF IntakeInv, remembered
<1>1. IntakeTypeOK'
  BY DEF IntakeTypeOK, Pages
<1>2. UploadInv' /\ LoopInv' /\ VerdictInv' /\ OnceInv'
  BY DEF UploadInv, LoopInv, VerdictInv, OnceInv, Untouched, Waiting
<1>3. SaveInv'
  BY DEF SaveInv
<1> QED BY <1>1, <1>2, <1>3

LEMMA OneInv ==
  ASSUME IntakeInv, One
  PROVE  IntakeInv'
<1>1. page \in Pages
  BY IntakeTypes DEF IntakeInv
<1>2. CASE Upload \/ Extracted \/ Save \/ Saved
  BY <1>1, <1>2, PageOnly DEF Upload, Extracted, Save, Saved, Goes, Pages
<1>3. CASE Reset \/ Link
  BY <1>1, <1>3, PageOnly, Numbers DEF Reset, Link, Pages
<1>4. CASE Exit
  <2> USE <1>4 DEF IntakeInv, Exit, remembered
  <2>1. \A t \in saves' : ~t.live /\ t \in Runs
          /\ \E s \in saves : t.todo = s.todo /\ t = [s EXCEPT !.live = FALSE]
    <3>1. saves' = {[s EXCEPT !.live = FALSE] : s \in saves} /\ saves \subseteq Runs
      BY IntakeTypes
    <3> QED BY <3>1 DEF Runs
  <2>2. IntakeTypeOK'
    <3>1. page' \in Pages /\ queue' \in [Docs -> Statuses] /\ loops' = {} /\ saves' \subseteq Runs
      BY <2>1, OpenedIs
    <3> QED BY <3>1, IntakeTypes DEF IntakeTypeOK, Pages, Loops, Runs
  <2>3. \A d \in Docs : queue'[d] = "gone" /\ (Untouched(d) => Untouched(d)')
                        /\ (Waiting(d)' => Waiting(d))
    BY <2>1 DEF Empty, Untouched, Waiting
  <2>4. UploadInv' /\ LoopInv' /\ VerdictInv'
    BY <2>3 DEF UploadInv, LoopInv, VerdictInv
  <2>5. SaveInv'
    BY <2>1 DEF SaveInv
  <2>6. ASSUME ~hurried, NEW d \in Docs \ rewound, NEW s \in saves', NEW t \in saves',
               d \in s.todo, d \in t.todo
        PROVE  s = t
    <3>1. PICK a \in saves : s.todo = a.todo /\ s = [a EXCEPT !.live = FALSE]
      BY <2>1
    <3>2. PICK b \in saves : t.todo = b.todo /\ t = [b EXCEPT !.live = FALSE]
      BY <2>1
    <3>3. a = b
      BY <2>6, <3>1, <3>2 DEF OnceInv
    <3> QED BY <3>1, <3>2, <3>3
  <2>7. OnceInv'
    BY <2>3, <2>6 DEF OnceInv
  <2> QED BY <2>2, <2>4, <2>5, <2>7
<1>5. CASE Close
  <2> USE <1>5 DEF IntakeInv, Close, remembered
  <2>1. saves' = {} /\ loops' = {} /\ page' \in Pages /\ queue' \in [Docs -> Statuses]
    BY OpenedIs DEF Opened, Pages
  <2>2. IntakeTypeOK'
    BY <2>1, IntakeTypes DEF IntakeTypeOK, Pages, Loops, Runs
  <2>3. \A d \in Docs : queue'[d] = "gone" /\ ~Waiting(d)'
    BY <2>1 DEF Empty, Waiting
  <2>4. ASSUME NEW d \in Docs, ~Waiting(d)
        PROVE  tasks'[d] = tasks[d]
    <3>1. {s \in saves : Min(s.todo) = d} = {}
      <4>1. ASSUME NEW s \in saves, Min(s.todo) = d PROVE FALSE
        <5>1. s.todo \subseteq Docs /\ s.todo # {}
          BY IntakeTypes DEF SaveInv, Runs
        <5>2. d \in s.todo
          BY <4>1, <5>1, MinIn, Numbers
        <5> QED BY <2>4, <5>2 DEF Waiting
      <4> QED BY <4>1
    <3>2. Cardinality(Out(d)) = 0
      BY <3>1, FS_EmptySet DEF Out
    <3>3. tasks[d] \in Nat /\ tasks'[d] \in tasks[d]..(tasks[d] + 0)
      BY <3>2, IntakeTypes, Numbers
    <3> QED BY <3>3
  <2>5. UploadInv' /\ LoopInv' /\ VerdictInv' /\ SaveInv'
    BY <2>1, <2>3, <2>4 DEF UploadInv, LoopInv, VerdictInv, SaveInv, Untouched
  <2>6. ASSUME ~hurried, NEW d \in Docs \ rewound, tasks'[d] > 0
        PROVE  tasks'[d] = 1
    <3>1. CASE ~Waiting(d)
      BY <2>4, <2>6, <3>1 DEF OnceInv
    <3>2. CASE Waiting(d)
      <4>1. PICK s \in saves : d \in s.todo
        BY <3>2 DEF Waiting
      <4>2. \A t \in saves : Min(t.todo) = d => t = s
        <5>1. ASSUME NEW t \in saves, Min(t.todo) = d PROVE t = s
          <6>1. t.todo \subseteq Docs /\ t.todo # {}
            BY IntakeTypes DEF SaveInv, Runs
          <6>2. d \in t.todo
            BY <5>1, <6>1, MinIn, Numbers
          <6> QED BY <2>6, <4>1, <6>2 DEF OnceInv
        <5> QED BY <5>1
      <4>3. Out(d) = {} \/ Out(d) = {s}
        BY <4>2 DEF Out
      <4>4. Cardinality(Out(d)) \in {0, 1}
        BY <4>3, FS_EmptySet, FS_Singleton
      <4>5. tasks[d] = 0
        <5>1. ~(tasks[d] > 0) /\ tasks[d] \in Nat
          BY <2>6, <3>2, IntakeTypes, Numbers DEF OnceInv
        <5> QED BY <5>1
      <4>6. tasks'[d] \in 0..(0 + Cardinality(Out(d)))
        BY <4>5
      <4> QED BY <2>6, <4>4, <4>6
    <3> QED BY <3>1, <3>2
  <2>7. OnceInv'
    BY <2>1, <2>3, <2>6 DEF OnceInv
  <2> QED BY <2>2, <2>5, <2>7
<1> QED BY <1>2, <1>3, <1>4, <1>5 DEF One

\* A batch puts its documents into the queue, those not classified yet as such, and
\* remembers those that had got further.
LEMMA RefillInv ==
  ASSUME IntakeInv, NEW l \in loops, NEW left, left \subseteq l.left, Refill(l.docs, left),
         loops' \subseteq (loops \ {l}) \union {[l EXCEPT !.left = left]},
         page' \in Pages, page'.saving = page.saving,
         UNCHANGED <<saves, uploaded, tasks, verdict, hurried>>
  PROVE  IntakeInv'
<1> USE DEF IntakeInv
<1>1. /\ l \in Loops /\ left \subseteq l.docs /\ l.docs \subseteq Docs
      /\ \A k \in loops : k.left \subseteq k.docs /\ k.docs \subseteq Docs
  BY IntakeTypes DEF LoopInv, Loops
<1> DEFINE m == [l EXCEPT !.left = left]
<1>2. m \in Loops /\ m.docs = l.docs /\ m.left = left
  BY <1>1 DEF Loops
<1>3. \A k \in loops' : (k \in loops /\ k # l) \/ k = m
  OBVIOUS
<1> HIDE DEF m
<1>4. \A d \in Docs :
        /\ d \in left => queue'[d] = "processing"
        /\ d \in l.docs /\ d \notin left => queue'[d] = "ready"
        /\ d \notin l.docs => queue'[d] = "gone"
  BY <1>1 DEF Refill
<1>5. \A d \in Docs : /\ Waiting(d)' <=> Waiting(d)
                      /\ Untouched(d)' <=> Untouched(d)
  BY DEF Waiting, Untouched
<1>6. /\ rewound' \subseteq Docs /\ rewound \subseteq rewound'
      /\ \A d \in Docs : d \in l.docs /\ d \notin left /\ d \notin rewound' => Untouched(d)
  <2>1. rewound' = rewound \union
          {d \in l.docs \ left : \/ verdict[d] # "none" \/ tasks[d] > 0
                                 \/ \E s \in saves : d \in s.todo}
    BY DEF Refill
  <2>2. \A d \in Docs : ~(tasks[d] > 0) => tasks[d] = 0
    BY IntakeTypes, Numbers
  <2> QED BY <1>1, <2>1, <2>2, IntakeTypes DEF Untouched, Waiting
<1>7. IntakeTypeOK'
  <2>1. queue' \in [Docs -> Statuses]
    BY DEF Refill, Statuses
  <2>2. loops' \subseteq Loops
    BY <1>2, <1>3, IntakeTypes
  <2> QED BY <1>6, <2>1, <2>2, IntakeTypes DEF IntakeTypeOK, Pages, Loops
<1>8. \A d \in Docs : d \in left => Untouched(d)
  BY DEF LoopInv
<1>9. \A d \in Docs : d > uploaded => d \notin l.docs /\ Untouched(d)
  <2>1. \A d \in l.docs : d <= uploaded
    BY DEF LoopInv
  <2>2. \A d \in Docs : d \in Nat /\ uploaded \in Nat
    BY Numbers, IntakeTypes
  <2> QED BY <2>1, <2>2 DEF UploadInv
<1>10. UploadInv'
  BY <1>4, <1>5, <1>9 DEF UploadInv
<1>11. LoopInv'
  <2>1. \A k \in loops' : k.left \subseteq k.docs /\ \A d \in k.docs : d <= uploaded'
    BY <1>1, <1>2, <1>3 DEF LoopInv
  <2>2. \A k \in loops : k # l => k.docs \intersect l.docs = {}
    BY DEF LoopInv
  <2>3. \A k \in loops', j \in loops' : k # j => k.docs \intersect j.docs = {}
    BY <1>2, <1>3, <2>2 DEF LoopInv
  <2>4. ASSUME NEW k \in loops', NEW d \in k.left
        PROVE  queue'[d] \in {"gone", "processing"} /\ Untouched(d)'
    <3>1. CASE k = m
      BY <1>1, <1>2, <1>4, <1>5, <1>8, <2>4, <3>1
    <3>2. CASE k # m
      <4>1. k \in loops /\ k # l /\ d \in Docs /\ d \notin l.docs
        BY <1>1, <1>3, <2>2, <2>4, <3>2
      <4> QED BY <1>4, <1>5, <2>4, <4>1 DEF LoopInv
    <3> QED BY <3>1, <3>2
  <2> QED BY <2>1, <2>3, <2>4 DEF LoopInv
<1>12. VerdictInv'
  BY <1>1, <1>4 DEF VerdictInv
<1>13. SaveInv'
  BY DEF SaveInv
<1>14. OnceInv'
  <2>1. SUFFICES ASSUME ~hurried, NEW d \in Docs \ rewound'
                 PROVE  /\ \A s \in saves, t \in saves : d \in s.todo /\ d \in t.todo => s = t
                        /\ \A s \in saves : d \in s.todo /\ ~s.live => queue'[d] = "gone"
                        /\ tasks[d] > 0 => tasks[d] = 1 /\ queue'[d] \in {"gone", "saved"}
                                           /\ ~Waiting(d)'
    BY DEF OnceInv
  <2>2. d \in Docs \ rewound
    BY <1>6
  <2>3. CASE d \in l.docs
    <3>1. Untouched(d)
      BY <1>6, <1>8, <2>1, <2>3
    <3> QED BY <3>1 DEF Untouched, Waiting
  <2>4. CASE d \notin l.docs
    BY <1>4, <1>5, <2>1, <2>2, <2>4 DEF OnceInv
  <2> QED BY <2>3, <2>4
<1> QED BY <1>7, <1>10, <1>11, <1>12, <1>13, <1>14

LEMMA QueueInv ==
  ASSUME IntakeInv, Queue
  PROVE  IntakeInv'
<1> USE DEF IntakeInv
<1>1. page \in Pages
  BY IntakeTypes
<1>2. CASE BatchUpload
  <2>1. PICK n \in 1..(MaxDocs - uploaded) :
          /\ queue' = [d \in Docs |-> IF d \in (uploaded + 1)..(uploaded + n)
                                      THEN "processing" ELSE "gone"]
          /\ loops' = loops \union {[docs |-> (uploaded + 1)..(uploaded + n),
                                    left |-> (uploaded + 1)..(uploaded + n)]}
          /\ uploaded' = uploaded + n
    BY <1>2 DEF BatchUpload
  <2> DEFINE docs == (uploaded + 1)..(uploaded + n)
             l == [docs |-> docs, left |-> docs]
  <2>2. /\ uploaded \in 0..MaxDocs /\ uploaded' \in 0..MaxDocs /\ uploaded < uploaded'
        /\ docs \subseteq Docs
        /\ \A d \in Docs : d > uploaded' => d \notin docs /\ d > uploaded
        /\ \A d \in docs : d > uploaded /\ d <= uploaded'
    <3>1. uploaded \in 0..MaxDocs /\ MaxDocs \in Nat /\ Docs = 1..MaxDocs
      BY IntakeTypes, Numbers
    <3>2. n \in Nat /\ n >= 1 /\ uploaded + n <= MaxDocs /\ uploaded' = uploaded + n
      BY <2>1, <3>1
    <3>3. uploaded' \in 0..MaxDocs /\ uploaded < uploaded'
      BY <3>1, <3>2
    <3>4. docs \subseteq Docs /\ \A d \in docs : d > uploaded /\ d <= uploaded'
      BY <3>1, <3>2
    <3>5. ASSUME NEW d \in Docs, d > uploaded'
          PROVE  d \notin docs /\ d > uploaded
      BY <3>1, <3>2, <3>5
    <3> QED BY <3>1, <3>3, <3>4, <3>5
  <2>3. /\ queue' = [d \in Docs |-> IF d \in docs THEN "processing" ELSE "gone"]
        /\ loops' = loops \union {l} /\ l.docs = docs /\ l.left = docs /\ l \in Loops
    BY <2>1, <2>2 DEF Loops
  <2>4. /\ UNCHANGED <<saves, tasks, verdict, rewound, hurried>>
        /\ page' \in Pages /\ page'.saving = page.saving
    BY <1>1, <1>2 DEF BatchUpload, remembered, Pages
  <2> HIDE DEF docs, l
  <2>5. \A d \in Docs : Untouched(d)' <=> Untouched(d)
    BY <2>4 DEF Untouched, Waiting
  <2>6. IntakeTypeOK'
    <3>1. queue' \in [Docs -> Statuses] /\ loops' \subseteq Loops
      BY <2>3, IntakeTypes DEF Statuses
    <3> QED BY <2>2, <2>4, <3>1, IntakeTypes DEF IntakeTypeOK, Pages, Loops
  <2>7. UploadInv' /\ VerdictInv'
    BY <2>2, <2>3, <2>5 DEF UploadInv, VerdictInv
  <2>8. LoopInv'
    <3>1. \A k \in loops : k.left \subseteq k.docs /\ k.docs \subseteq Docs
            /\ \A d \in k.docs : d <= uploaded
      BY IntakeTypes DEF LoopInv, Loops
    <3>2. \A k \in loops : \A d \in k.docs : d <= uploaded' /\ d \notin docs
      BY <2>2, <3>1, Numbers
    <3>3. \A d \in docs : Untouched(d)'
      BY <2>2, <2>5 DEF UploadInv
    <3>4. \A k \in loops : \A d \in k.left : d \in Docs /\ d \notin docs /\ Untouched(d)'
      BY <2>5, <3>1, <3>2 DEF LoopInv
    <3>5. \A d \in Docs : queue'[d] \in {"gone", "processing"}
      BY <2>3
    <3> QED BY <2>2, <2>3, <3>1, <3>2, <3>3, <3>4, <3>5 DEF LoopInv
  <2>9. SaveInv'
    BY <2>4 DEF SaveInv
  <2>10. OnceInv'
    <3>1. \A d \in docs : Untouched(d)
      BY <2>2 DEF UploadInv
    <3>2. \A d \in Docs : d \notin docs => queue'[d] = "gone"
      BY <2>3
    <3>3. \A d \in Docs : Waiting(d)' <=> Waiting(d)
      BY <2>4 DEF Waiting
    <3>4. \A d \in Docs : Waiting(d) \/ tasks[d] > 0 => queue'[d] = "gone"
      BY <3>1, <3>2 DEF Untouched
    <3> QED BY <2>4, <3>3, <3>4 DEF OnceInv, Waiting
  <2> QED BY <2>6, <2>7, <2>8, <2>9, <2>10
<1>3. CASE Classify
  <2>1. PICK l \in loops :
          /\ loops' = (loops \ {l}) \union {[l EXCEPT !.left = l.left \ {Min(l.left)}]}
          /\ Refill(l.docs, l.left \ {Min(l.left)})
          /\ page' = [page EXCEPT !.processing = @ /\ l.left \ {Min(l.left)} # {}]
    BY <1>3 DEF Classify
  <2>2. page' \in Pages /\ page'.saving = page.saving
    BY <1>1, <2>1 DEF Pages
  <2> QED BY <1>3, <2>1, <2>2, RefillInv DEF Classify
<1>4. CASE Match
  <2>1. PICK l \in loops : loops' = loops \ {l} /\ (Refill(l.docs, {}) \/ UNCHANGED <<queue, rewound>>)
    BY <1>4 DEF Match
  <2>2. UNCHANGED <<page, saves, uploaded, tasks, verdict, hurried>>
    BY <1>4 DEF Match
  <2>3. CASE Refill(l.docs, {})
    BY <1>1, <2>1, <2>2, <2>3, RefillInv
  <2>4. CASE UNCHANGED <<queue, rewound>>
    <3>1. loops' \subseteq loops
      BY <2>1
    <3>2. IntakeTypeOK'
      BY <2>2, <2>4, <3>1, IntakeTypes DEF IntakeTypeOK, Pages, Loops
    <3>3. UploadInv' /\ LoopInv' /\ VerdictInv' /\ SaveInv' /\ OnceInv'
      BY <2>2, <2>4, <3>1 DEF UploadInv, LoopInv, VerdictInv, SaveInv, OnceInv, Untouched, Waiting
    <3> QED BY <3>2, <3>3
  <2> QED BY <2>1, <2>3, <2>4
<1>5. CASE CloseQueue
  <2>1. /\ page' \in Pages /\ ~page'.saving /\ queue' = Empty
        /\ hurried' \in BOOLEAN /\ (~hurried' => ~hurried /\ ~page.saving)
        /\ UNCHANGED <<loops, saves, uploaded, tasks, verdict, rewound>>
    BY <1>1, <1>5, IntakeTypes DEF CloseQueue, Pages
  <2>2. \A d \in Docs : queue'[d] = "gone" /\ (Untouched(d)' <=> Untouched(d))
                        /\ (Waiting(d)' <=> Waiting(d))
    BY <2>1 DEF Empty, Untouched, Waiting
  <2>3. IntakeTypeOK'
    BY <2>1, OpenedIs, IntakeTypes DEF IntakeTypeOK, Pages
  <2>4. UploadInv' /\ LoopInv' /\ VerdictInv'
    <3>1. \A l \in loops : l.left \subseteq Docs
      BY IntakeTypes DEF Loops
    <3> QED BY <2>1, <2>2, <3>1 DEF UploadInv, LoopInv, VerdictInv
  <2>5. SaveInv'
    BY <2>1 DEF SaveInv
  <2>6. OnceInv'
    BY <2>1, <2>2 DEF OnceInv
  <2> QED BY <2>3, <2>4, <2>5, <2>6
<1> QED BY <1>2, <1>3, <1>4, <1>5 DEF Queue

-------------------------------------------------------------------------------
(* The review of the queue, and its saving. *)

\* Documents that are ready or decided about get another status and verdict.
LEMMA DecideInv ==
  ASSUME IntakeInv, NEW docs \in SUBSET Docs, NEW status, NEW v,
         \A d \in docs : queue[d] \in {"ready", "approved", "rejected"},
         <<status, v>> \in {<<"approved", "approved">>, <<"rejected", "rejected">>, <<"ready", "none">>},
         Decide(docs, status, v)
  PROVE  IntakeInv'
<1> USE DEF IntakeInv, Decide
<1>1. status \in {"ready", "approved", "rejected"} /\ v \in Verdicts
      /\ (status = "approved" => v = "approved")
  BY DEF Verdicts
<1>2. \A d \in Docs : /\ d \in docs => queue'[d] = status /\ verdict'[d] = v
                      /\ d \notin docs => queue'[d] = queue[d] /\ verdict'[d] = verdict[d]
  OBVIOUS
<1>3. IntakeTypeOK'
  <2>1. queue' \in [Docs -> Statuses] /\ verdict' \in [Docs -> Verdicts]
    BY <1>1, IntakeTypes DEF Statuses
  <2> QED BY <2>1, IntakeTypes DEF IntakeTypeOK, Verdicts
<1>4. \A d \in Docs : d \notin docs => (Untouched(d)' <=> Untouched(d))
  BY <1>2 DEF Untouched, Waiting
<1>5. UploadInv' /\ VerdictInv'
  BY <1>1, <1>2, <1>4 DEF UploadInv, VerdictInv
<1>6. LoopInv'
  <2>1. \A l \in loops : \A d \in l.left : d \in Docs /\ d \notin docs
    BY IntakeTypes DEF LoopInv, Loops
  <2> QED BY <1>2, <1>4, <2>1 DEF LoopInv
<1>7. SaveInv'
  BY DEF SaveInv
<1>8. OnceInv'
  <2>1. \A d \in Docs : queue[d] \in {"gone", "saved"} => queue'[d] = queue[d]
    BY <1>2
  <2>2. \A d \in Docs : queue[d] = "gone" => queue'[d] = "gone"
    BY <2>1
  <2> QED BY <2>1, <2>2 DEF OnceInv, Waiting
<1> QED BY <1>3, <1>5, <1>6, <1>7, <1>8

LEMMA MarkedIs ==
  ASSUME NEW q \in [Docs -> Statuses], NEW d \in Docs, NEW status \in Statuses
  PROVE  /\ Marked(q, d, status) \in [Docs -> Statuses]
         /\ Marked(q, d, status)[d] \in {"gone", status}
         /\ q[d] = "gone" => Marked(q, d, status)[d] = "gone"
         /\ \A e \in Docs \ {d} : Marked(q, d, status)[e] = q[e]
BY DEF Marked

LEMMA SaveApprovedInv ==
  ASSUME IntakeInv, SaveApproved
  PROVE  IntakeInv'
<1> USE DEF IntakeInv
<1> DEFINE d0 == Min(ToSave)
           r == [todo |-> ToSave, live |-> TRUE, stuck |-> FALSE]
<1>1. /\ page \in Pages /\ queue \in [Docs -> Statuses] /\ saves \subseteq Runs
  BY IntakeTypes
<1>2. /\ ToSave \subseteq Docs /\ ToSave # {} /\ d0 \in ToSave /\ queue[d0] = "approved"
  <2>1. ToSave \subseteq Docs /\ ToSave # {} /\ ToSave \subseteq Nat
    BY Numbers DEF SaveApproved, ToSave
  <2>2. d0 \in ToSave
    BY <2>1, MinIn
  <2> QED BY <2>1, <2>2 DEF ToSave
<1>3. r \in Runs /\ r.todo = ToSave /\ r.live /\ saves' = saves \union {r}
  BY <1>2 DEF SaveApproved, Runs
<1>4. /\ queue' \in [Docs -> Statuses] /\ queue'[d0] \in {"gone", "saving"}
      /\ \A e \in Docs : e # d0 => queue'[e] = queue[e]
  <2>1. queue' = Marked(queue, d0, "saving")
    BY DEF SaveApproved
  <2> HIDE DEF d0
  <2> QED BY <1>1, <1>2, <2>1, MarkedIs DEF Statuses
<1>5. /\ UNCHANGED <<loops, uploaded, tasks, verdict, rewound, hurried>>
      /\ page' \in Pages /\ page'.saving /\ ~page.saving
  BY <1>1 DEF SaveApproved, remembered, Pages
<1> HIDE DEF d0, r
<1>6. ASSUME NEW d \in Docs, queue[d] # "approved"
      PROVE  /\ queue'[d] = queue[d]
             /\ (Waiting(d)' <=> Waiting(d))
             /\ (Untouched(d)' <=> Untouched(d))
  BY <1>2, <1>3, <1>4, <1>5, <1>6 DEF Waiting, Untouched, ToSave
<1>7. IntakeTypeOK'
  BY <1>1, <1>3, <1>4, <1>5, IntakeTypes DEF IntakeTypeOK, Pages, Runs
<1>8. UploadInv'
  BY <1>5, <1>6 DEF UploadInv
<1>9. VerdictInv'
  BY <1>2, <1>4, <1>5 DEF VerdictInv
<1>10. LoopInv'
  <2>1. \A l \in loops : \A d \in l.left : d \in Docs /\ queue[d] # "approved"
    BY IntakeTypes DEF LoopInv, Loops
  <2> QED BY <1>5, <1>6, <2>1 DEF LoopInv
<1>11. SaveInv'
  BY <1>2, <1>3, <1>5 DEF SaveInv
<1>12. OnceInv'
  <2>1. SUFFICES ASSUME ~hurried, NEW d \in Docs \ rewound
                 PROVE  /\ \A s \in saves', t \in saves' : d \in s.todo /\ d \in t.todo => s = t
                        /\ \A s \in saves' : d \in s.todo /\ ~s.live => queue'[d] = "gone"
                        /\ tasks[d] > 0 => tasks[d] = 1 /\ queue'[d] \in {"gone", "saved"}
                                           /\ ~Waiting(d)'
    BY <1>5 DEF OnceInv
  <2>2. \A s \in saves : ~s.live
    BY <1>5, <2>1 DEF SaveInv
  <2>3. CASE queue[d] = "approved"
    <3>1. ~Waiting(d) /\ ~(tasks[d] > 0)
      BY <2>1, <2>2, <2>3 DEF OnceInv, Waiting
    <3> QED BY <1>3, <3>1 DEF Waiting
  <2>4. CASE queue[d] # "approved"
    BY <1>2, <1>3, <1>6, <2>1, <2>4 DEF OnceInv, ToSave
  <2> QED BY <2>3, <2>4
<1> QED BY <1>7, <1>8, <1>9, <1>10, <1>11, <1>12

\* A run that waits for ever still has what it has to send.
LEMMA HangInv ==
  ASSUME IntakeInv, Hang
  PROVE  IntakeInv'
<1> USE DEF IntakeInv
<1>1. PICK s \in saves : saves' = (saves \ {s}) \union {[s EXCEPT !.stuck = TRUE]}
  BY DEF Hang
<1>2. UNCHANGED <<page, queue, loops, uploaded, tasks, verdict, rewound, hurried>>
  BY DEF Hang, remembered
<1> DEFINE m == [s EXCEPT !.stuck = TRUE]
<1>3. m \in Runs /\ m.todo = s.todo /\ m.live = s.live /\ saves \subseteq Runs
  BY IntakeTypes DEF Runs
<1>4. \A t \in saves' : (t \in saves /\ t # s) \/ t = m
  BY <1>1
<1>5. \A t \in saves : (t \in saves' /\ t # s) \/ (t = s /\ m \in saves')
  BY <1>1
<1> HIDE DEF m
<1>6. \A d \in Docs : (Waiting(d)' <=> Waiting(d)) /\ (Untouched(d)' <=> Untouched(d))
  BY <1>2, <1>3, <1>4, <1>5 DEF Waiting, Untouched
<1>7. IntakeTypeOK'
  <2>1. saves' \subseteq Runs
    BY <1>3, <1>4
  <2> QED BY <1>2, <2>1, IntakeTypes DEF IntakeTypeOK, Runs
<1>8. UploadInv' /\ VerdictInv'
  BY <1>2, <1>6 DEF UploadInv, VerdictInv
<1>9. LoopInv'
  <2>1. \A l \in loops : l.left \subseteq Docs
    BY IntakeTypes DEF Loops
  <2> QED BY <1>2, <1>6, <2>1 DEF LoopInv
<1>10. SaveInv'
  BY <1>2, <1>3, <1>4 DEF SaveInv
<1>11. OnceInv'
  BY <1>2, <1>3, <1>4, <1>6 DEF OnceInv
<1> QED BY <1>7, <1>8, <1>9, <1>10, <1>11

LEMMA SaveAnsweredInv ==
  ASSUME IntakeInv, SaveAnswered
  PROVE  IntakeInv'
<1> USE DEF IntakeInv
<1>1. PICK s \in saves :
        LET d == Min(s.todo)
            todo == StillToSave(s)
            q == IF s.live THEN Marked(queue, d, "saved") ELSE queue
        IN  /\ tasks' = [tasks EXCEPT ![d] = IF @ < MaxTasks THEN @ + 1 ELSE @]
            /\ queue' = IF s.live /\ todo # {} THEN Marked(q, Min(todo), "saving") ELSE q
            /\ saves' = (saves \ {s}) \union
                          (IF todo = {} THEN {} ELSE {[s EXCEPT !.todo = todo]})
            /\ page' = [page EXCEPT !.saving = @ /\ ~(s.live /\ todo = {})]
  BY DEF SaveAnswered
<1> DEFINE d == Min(s.todo)
           todo == s.todo \ {d}
           q == IF s.live THEN Marked(queue, d, "saved") ELSE queue
           m == [s EXCEPT !.todo = todo]
<1>2. /\ page \in Pages /\ queue \in [Docs -> Statuses] /\ saves \subseteq Runs
      /\ tasks \in [Docs -> 0..MaxTasks] /\ MaxTasks \in Nat
  BY IntakeTypes, Numbers
<1>3. /\ tasks' = [tasks EXCEPT ![d] = IF @ < MaxTasks THEN @ + 1 ELSE @]
      /\ queue' = IF s.live /\ todo # {} THEN Marked(q, Min(todo), "saving") ELSE q
      /\ saves' = (saves \ {s}) \union (IF todo = {} THEN {} ELSE {m})
      /\ page' = [page EXCEPT !.saving = @ /\ ~(s.live /\ todo = {})]
      /\ UNCHANGED <<loops, uploaded, verdict, rewound, hurried>>
  BY <1>1 DEF StillToSave, SaveAnswered, remembered
<1>4. s.todo \subseteq Docs /\ s.live \in BOOLEAN /\ d \in s.todo /\ d \in Docs
  <2>1. s.todo \subseteq Docs /\ s.todo # {} /\ s.live \in BOOLEAN
    BY <1>2 DEF SaveInv, Runs
  <2> QED BY <2>1, MinIn, Numbers
<1>5. m \in Runs /\ m.todo = todo /\ m.live = s.live
  BY <1>2, <1>4 DEF Runs
<1>6. todo # {} => Min(todo) \in todo
  BY <1>4, MinIn, Numbers
<1>7. \A t \in saves' : (t \in saves /\ t # s) \/ (t = m /\ todo # {})
  BY <1>3
<1>8. \A t \in saves : t # s => t \in saves'
  BY <1>3
<1> HIDE DEF m, d
<1>9. /\ q \in [Docs -> Statuses]
      /\ \A e \in Docs : e # d => q[e] = queue[e]
      /\ queue[d] = "gone" => q[d] = "gone"
      /\ s.live => q[d] \in {"gone", "saved"}
      /\ ~s.live => q = queue
  BY <1>2, <1>4, MarkedIs DEF Statuses
<1> HIDE DEF q
<1>10. /\ queue' \in [Docs -> Statuses]
       /\ \A e \in Docs : e \notin s.todo => queue'[e] = queue[e]
       /\ \A e \in Docs : queue[e] = "gone" => queue'[e] = "gone"
       /\ s.live => queue'[d] \in {"gone", "saved"}
       /\ ~s.live => queue' = queue
       /\ \A e \in Docs : queue'[e] = "approved" => queue[e] = "approved"
  <2>1. CASE s.live /\ todo # {}
    <3> DEFINE f == Min(todo)
    <3>1. f \in s.todo /\ f \in Docs /\ f # d
      BY <1>4, <1>6, <2>1
    <3>2. queue' = Marked(q, f, "saving")
      BY <1>3, <2>1
    <3> HIDE DEF f
    <3>3. /\ queue' \in [Docs -> Statuses]
          /\ queue'[f] \in {"gone", "saving"} /\ (q[f] = "gone" => queue'[f] = "gone")
          /\ \A e \in Docs \ {f} : queue'[e] = q[e]
      BY <1>9, <3>1, <3>2, MarkedIs DEF Statuses
    <3> QED BY <1>4, <1>9, <2>1, <3>1, <3>3
  <2>2. CASE ~(s.live /\ todo # {})
    <3>1. queue' = q
      BY <1>3, <2>2
    <3> QED BY <1>4, <1>9, <3>1
  <2> QED BY <2>1, <2>2
<1>11. /\ tasks' \in [Docs -> 0..MaxTasks]
       /\ \A e \in Docs : e # d => tasks'[e] = tasks[e]
       /\ tasks[d] = 0 => tasks'[d] <= 1
  BY <1>2, <1>3, <1>4
<1>12. page' \in Pages /\ (page'.saving <=> page.saving /\ ~(s.live /\ todo = {}))
  BY <1>2, <1>3, <1>4 DEF Pages
<1>13. ASSUME NEW e \in Docs
       PROVE  /\ Waiting(e)' => Waiting(e)
              /\ e \notin s.todo => (Untouched(e)' <=> Untouched(e))
  <2>1. Waiting(e)' => Waiting(e)
    BY <1>5, <1>7 DEF Waiting
  <2>2. e \notin s.todo => (Waiting(e)' <=> Waiting(e))
    BY <1>8, <2>1 DEF Waiting
  <2> QED BY <1>3, <1>4, <1>11, <2>1, <2>2 DEF Untouched
<1>14. IntakeTypeOK'
  <2>1. saves' \subseteq Runs
    BY <1>2, <1>5, <1>7
  <2> QED BY <1>3, <1>10, <1>11, <1>12, <2>1, IntakeTypes DEF IntakeTypeOK, Pages, Runs
<1>15. UploadInv' /\ VerdictInv'
  <2>1. \A e \in Docs : e > uploaded => e \notin s.todo
    BY DEF UploadInv, Untouched, Waiting
  <2> QED BY <1>3, <1>10, <1>13, <2>1 DEF UploadInv, VerdictInv
<1>16. LoopInv'
  <2>1. \A l \in loops : \A e \in l.left : e \in Docs /\ e \notin s.todo
    BY IntakeTypes DEF LoopInv, Loops, Untouched, Waiting
  <2> QED BY <1>3, <1>10, <1>13, <2>1 DEF LoopInv
<1>17. SaveInv'
  <2>1. \A t \in saves' : t.todo # {}
    BY <1>5, <1>7 DEF SaveInv
  <2>2. ASSUME ~hurried, NEW t \in saves', t.live
        PROVE  page'.saving
    <3>1. CASE t \in saves /\ t # s
      BY <1>12, <2>2, <3>1 DEF SaveInv
    <3>2. CASE t = m /\ todo # {}
      BY <1>5, <1>12, <2>2, <3>2 DEF SaveInv
    <3> QED BY <1>7, <3>1, <3>2
  <2>3. ASSUME ~hurried, NEW t \in saves', NEW u \in saves', t.live, u.live
        PROVE  t = u
    BY <1>5, <1>7, <2>3 DEF SaveInv
  <2> QED BY <1>3, <2>1, <2>2, <2>3 DEF SaveInv
<1>18. OnceInv'
  <2>1. SUFFICES ASSUME ~hurried, NEW e \in Docs \ rewound
                 PROVE  /\ \A t \in saves', u \in saves' : e \in t.todo /\ e \in u.todo => t = u
                        /\ \A t \in saves' : e \in t.todo /\ ~t.live => queue'[e] = "gone"
                        /\ tasks'[e] > 0 => tasks'[e] = 1 /\ queue'[e] \in {"gone", "saved"}
                                            /\ ~Waiting(e)'
    BY <1>3 DEF OnceInv
  <2>2. /\ \A t \in saves, u \in saves : e \in t.todo /\ e \in u.todo => t = u
        /\ \A t \in saves : e \in t.todo /\ ~t.live => queue[e] = "gone"
        /\ tasks[e] > 0 => tasks[e] = 1 /\ queue[e] \in {"gone", "saved"} /\ ~Waiting(e)
    BY <2>1 DEF OnceInv
  <2>3. \A t \in saves', u \in saves' : e \in t.todo /\ e \in u.todo => t = u
    BY <1>5, <1>7, <2>2
  <2>4. \A t \in saves' : e \in t.todo /\ ~t.live => queue'[e] = "gone"
    BY <1>5, <1>7, <1>10, <2>2
  <2>5. CASE e = d
    <3>1. ~(tasks[d] > 0) /\ Waiting(d)
      BY <1>4, <2>2, <2>5 DEF Waiting
    <3>2. tasks'[d] \in 0..1
      BY <1>2, <1>4, <1>11, <3>1
    <3>3. queue'[d] \in {"gone", "saved"}
      BY <1>4, <1>10, <2>2, <2>5
    <3>4. ~Waiting(d)'
      BY <1>4, <1>5, <1>7, <2>2, <2>5 DEF Waiting
    <3> QED BY <2>3, <2>4, <2>5, <3>2, <3>3, <3>4
  <2>6. CASE e # d
    <3>1. tasks'[e] = tasks[e]
      BY <1>11, <2>6
    <3>2. tasks[e] > 0 => e \notin s.todo
      BY <2>2 DEF Waiting
    <3> QED BY <1>10, <1>13, <2>2, <2>3, <2>4, <3>1, <3>2
  <2> QED BY <2>5, <2>6
<1> QED BY <1>14, <1>15, <1>16, <1>17, <1>18

LEMMA ReviewQueueInv ==
  ASSUME IntakeInv, ReviewQueue
  PROVE  IntakeInv'
<1>1. CASE Approve
  <2>1. PICK d \in Docs : queue[d] = "ready" /\ Decide({d}, "approved", "approved")
    BY <1>1 DEF Approve
  <2> QED BY <2>1, DecideInv
<1>2. CASE Reject
  <2>1. PICK d \in Docs : queue[d] = "ready" /\ Decide({d}, "rejected", "rejected")
    BY <1>2 DEF Reject
  <2> QED BY <2>1, DecideInv
<1>3. CASE Undo
  <2>1. PICK d \in Docs : queue[d] \in {"approved", "rejected"} /\ Decide({d}, "ready", "none")
    BY <1>3 DEF Undo
  <2> QED BY <2>1, DecideInv
<1>4. CASE ApproveAll
  <2>1. /\ Remaining \in SUBSET Docs /\ \A d \in Remaining : queue[d] = "ready"
        /\ \A d \in Docs : d \in Remaining <=> queue[d] = "ready"
    BY DEF Remaining
  <2>2. Decide(Remaining, "approved", "approved")
    BY <1>4, <2>1 DEF ApproveAll, Decide
  <2> QED BY <2>1, <2>2, DecideInv
<1> QED BY <1>1, <1>2, <1>3, <1>4, SaveApprovedInv, HangInv, SaveAnsweredInv DEF ReviewQueue

LEMMA IntakeNextInv == IntakeInv /\ [IntakeNext]_intakeVars => IntakeInv'
<1>1. SUFFICES ASSUME IntakeInv, [IntakeNext]_intakeVars PROVE IntakeInv'
  OBVIOUS
<1>2. CASE UNCHANGED intakeVars
  <2>1. page \in Pages
    BY <1>1, IntakeTypes DEF IntakeInv
  <2> QED BY <1>1, <1>2, <2>1, PageOnly DEF intakeVars, remembered
<1> QED BY <1>1, <1>2, OneInv, QueueInv, ReviewQueueInv DEF IntakeNext

\* The invariant holds whatever is uploaded, closed and saved at once, and with any number
\* of batches and of runs.
THEOREM IntakeInvariant == IntakeSpec => []IntakeInv
BY IntakeInitInv, IntakeNextInv, PTL DEF IntakeSpec

\* A task is requested twice for a document only where it was put back into the queue or
\* a queue was closed while it was being saved.
THEOREM SentTwiceExplainedHolds == IntakeSpec => []SentTwiceExplained
<1>1. IntakeInv => SentTwiceExplained
  <2>1. SUFFICES ASSUME IntakeInv, ~hurried, NEW d \in Docs \ rewound, tasks[d] > 1 PROVE FALSE
    BY DEF SentTwiceExplained
  <2>2. tasks[d] \in Nat
    BY <2>1, IntakeTypes, Numbers DEF IntakeInv
  <2>3. tasks[d] > 0
    BY <2>1, <2>2
  <2>4. tasks[d] = 1
    BY <2>1, <2>3 DEF IntakeInv, OnceInv
  <2> QED BY <2>1, <2>4
<1> QED BY <1>1, IntakeInvariant, PTL

\* What a click takes to be sent was approved, and not undone or rejected since.
THEOREM VerdictsKeptHolds == IntakeSpec => VerdictsKept
<1>1. ASSUME IntakeInv, [IntakeNext]_intakeVars
      PROVE  [\A s \in saves' \ saves : page'.saving /\ ~page.saving =>
                \A d \in s.todo : verdict[d] = "approved"]_intakeVars
  <2>1. SUFFICES ASSUME IntakeNext, NEW s \in saves' \ saves, page'.saving, ~page.saving
                 PROVE  \A d \in s.todo : verdict[d] = "approved"
    BY <1>1
  <2>2. page \in Pages
    BY <1>1, IntakeTypes DEF IntakeInv
  <2>3. SaveApproved
    <3>1. CASE One
      BY <2>1, <2>2, <3>1 DEF One, Upload, Extracted, Save, Saved, Reset, Link, Exit, Close, Goes, Opened,
         Pages
    <3>2. CASE Queue
      BY <2>1, <2>2, <3>2 DEF Queue, BatchUpload, Classify, Match, CloseQueue, Pages
    <3>3. CASE Approve \/ Reject \/ Undo \/ ApproveAll
      BY <2>1, <3>3 DEF Approve, Reject, Undo, ApproveAll, Decide
    <3>5. CASE Hang
      BY <2>1, <3>5 DEF Hang
    <3>4. CASE SaveAnswered
      BY <2>1, <2>2, <3>4 DEF SaveAnswered, Pages
    <3> QED BY <2>1, <3>1, <3>2, <3>3, <3>4, <3>5 DEF IntakeNext, ReviewQueue
  <2>4. s.todo = ToSave
    BY <2>1, <2>3 DEF SaveApproved
  <2> QED BY <1>1, <2>4 DEF IntakeInv, VerdictInv, ToSave
<1> QED BY <1>1, IntakeInvariant, PTL DEF IntakeSpec, VerdictsKept

-------------------------------------------------------------------------------
(* The movement. *)

Inv == IInv /\ CompleteIsOwn

USE MoneyAssumption DEF MoneyAssumption, MovementTypes

LEMMA EmptyDetails == EMPTY_DETAILS \in Details /\ EMPTY_DETAILS.from = None
                        /\ EMPTY_DETAILS.to = None
  BY DEF EMPTY_DETAILS, Details

LEMMA InitInv == Init => Inv
<1> SUFFICES ASSUME Init PROVE Inv
  OBVIOUS
<1> USE DEF Init
<1>1. TypeOK
  <2>1. picks \in [Households -> Nat]
    BY DEF NoPicks
  <2>2. out \in Seq(Requests)
    OBVIOUS
  <2>3. details \in Details
    BY EmptyDetails
  <2> QED BY <2>1, <2>2, <2>3 DEF TypeOK
<1>2. PagesHaveHousehold /\ PagesHaveType /\ ReviewedIsValid /\ DetailsFit
  BY EmptyDetails DEF PagesHaveHousehold, PagesHaveType, ReviewedIsValid, DetailsFit
<1>3. OutIsShown /\ CompleteIsOwn
  BY DEF OutIsShown, CompleteIsOwn
<1> QED BY <1>1, <1>2, <1>3 DEF Inv, IInv

\* Taking an answered request out leaves a sequence of requests.
LEMMA RemoveProperties ==
  ASSUME NEW S, NEW s \in Seq(S), NEW i \in DOMAIN s
  PROVE  RemoveAt(s, i) \in Seq(S) /\ Len(RemoveAt(s, i)) = Len(s) - 1
<1>1. i \in 1 .. Len(s) /\ Len(s) \in Nat
  OBVIOUS
<1>2. /\ SubSeq(s, 1, i - 1) \in Seq(S)
      /\ Len(SubSeq(s, 1, i - 1)) = i - 1
  <2>1. \A j \in 1 .. i - 1 : s[j] \in S
    BY <1>1
  <2>2. /\ SubSeq(s, 1, i - 1) \in Seq(S)
        /\ Len(SubSeq(s, 1, i - 1)) = IF 1 <= i - 1 THEN (i - 1) - 1 + 1 ELSE 0
    BY <1>1, <2>1, SubSeqProperties
  <2> QED BY <1>1, <2>2
<1>3. /\ SubSeq(s, i + 1, Len(s)) \in Seq(S)
      /\ Len(SubSeq(s, i + 1, Len(s))) = Len(s) - i
  <2>1. \A j \in i + 1 .. Len(s) : s[j] \in S
    BY <1>1
  <2>2. /\ SubSeq(s, i + 1, Len(s)) \in Seq(S)
        /\ Len(SubSeq(s, i + 1, Len(s)))
             = IF i + 1 <= Len(s) THEN Len(s) - (i + 1) + 1 ELSE 0
    BY <1>1, <2>1, SubSeqProperties
  <2> QED BY <1>1, <2>2
<1> DEFINE before == SubSeq(s, 1, i - 1)
           after == SubSeq(s, i + 1, Len(s))
<1>4. before \o after \in Seq(S) /\ Len(before \o after) = Len(before) + Len(after)
  <2> HIDE DEF before, after
  <2>1. before \in Seq(S) /\ after \in Seq(S)
    BY <1>2, <1>3 DEF before, after
  <2> QED BY <2>1, ConcatProperties
<1>5. Len(before) = i - 1 /\ Len(after) = Len(s) - i
  BY <1>2, <1>3
<1> HIDE DEF before, after
<1>6. Len(before) + Len(after) = Len(s) - 1
  BY <1>1, <1>5
<1>7. RemoveAt(s, i) = before \o after
  BY DEF RemoveAt, before, after
<1> QED BY <1>4, <1>6, <1>7

\* A fresh form satisfies the invariant, whatever is still awaited.
LEMMA FreshInv ==
  ASSUME Inv, NEW c \in Households \union {None},
         NEW pending \in [Households -> Nat], Fresh(c, pending),
         context' \in Households \union {None}, again' \in Nat, mounts' \in Nat,
         sends' = sends, out' = out, interrupted' \in BOOLEAN,
         ~interrupted' => out = <<>>
  PROVE  Inv'
<1> USE DEF Fresh
<1>1. TypeOK'
  <2>1. picks' \in [Households -> Nat]
    OBVIOUS
  <2>2. details' \in Details
    BY EmptyDetails
  <2>3. step' \in Steps
    BY DEF Steps
  <2> QED BY <2>1, <2>2, <2>3 DEF Inv, IInv, TypeOK
<1>2. PagesHaveHousehold' /\ PagesHaveType' /\ ReviewedIsValid' /\ DetailsFit'
  BY EmptyDetails DEF PagesHaveHousehold, PagesHaveType, ReviewedIsValid, DetailsFit
<1>3. OutIsShown' /\ CompleteIsOwn'
  BY DEF OutIsShown, CompleteIsOwn
<1> QED BY <1>1, <1>2, <1>3 DEF Inv, IInv

\* So does the form that is no longer there.
LEMMA UnmountInv == Inv /\ Unmount => Inv'
<1> SUFFICES ASSUME Inv, Unmount PROVE Inv'
  OBVIOUS
<1> USE DEF Unmount
<1>1. TypeOK'
  <2>1. picks' \in [Households -> Nat]
    BY DEF NoPicks
  <2>2. out' \in Seq(Requests)
    OBVIOUS
  <2>3. details' \in Details
    BY EmptyDetails
  <2> QED BY <2>1, <2>2, <2>3 DEF Inv, IInv, TypeOK
<1>2. PagesHaveHousehold' /\ PagesHaveType' /\ ReviewedIsValid' /\ DetailsFit'
  BY EmptyDetails DEF PagesHaveHousehold, PagesHaveType, ReviewedIsValid, DetailsFit
<1>3. OutIsShown' /\ CompleteIsOwn'
  BY DEF OutIsShown, CompleteIsOwn
<1> QED BY <1>1, <1>2, <1>3 DEF Inv, IInv

\* A step that leaves form, requests and history alone, and goes to a page
\* whose demands are met.
LEMMA TurnInv ==
  ASSUME Inv, UNCHANGED <<form, picks, requests, history>>,
         context' \in Households \union {None}, again' \in Nat, mounts' \in Nat,
         \/ step' = step
         \/ /\ step \notin {"closed", "submitting", "complete"}
            /\ step' = "search"
         \/ /\ step \in {"type", "details", "review"}
            /\ step' \in {"type", "details", "review"}
            /\ step' # "type" => details.type \in Types
            /\ step' = "review" => detailsValid(details)
  PROVE  Inv'
<1> USE DEF form, requests, history
<1>1. TypeOK'
  BY DEF Inv, IInv, TypeOK, Steps
<1>2. PagesHaveHousehold' /\ PagesHaveType' /\ DetailsFit'
  BY DEF Inv, IInv, PagesHaveHousehold, PagesHaveType, DetailsFit
<1>3. ReviewedIsValid'
  BY DEF Inv, IInv, ReviewedIsValid, detailsValid, Needed
<1>4. OutIsShown' /\ CompleteIsOwn'
  BY DEF Inv, IInv, OutIsShown, CompleteIsOwn, Request
<1> QED BY <1>1, <1>2, <1>3, <1>4 DEF Inv, IInv

LEMMA OnExitInv == Inv /\ onExit => Inv'
<1> SUFFICES ASSUME Inv, onExit PROVE Inv'
  OBVIOUS
<1>1. CASE again = 0 /\ Unmount
  BY <1>1, UnmountInv
<1>2. CASE again > 0 /\ again' = again - 1
           /\ UNCHANGED <<step, context, mounts, form, picks, requests, history>>
  <2>1. context' \in Households \union {None} /\ again' \in Nat /\ mounts' \in Nat
    BY <1>2 DEF Inv, IInv, TypeOK
  <2> QED BY <1>2, <2>1, TurnInv
<1> QED BY <1>1, <1>2 DEF onExit

LEMMA RESETInv == Inv /\ step = "complete" /\ RESET => Inv'
<1> SUFFICES ASSUME Inv, step = "complete", RESET PROVE Inv'
  OBVIOUS
<1>1. ~interrupted' => out = <<>>
  BY DEF RESET, Inv, IInv, OutIsShown
<1> QED BY <1>1, FreshInv DEF RESET, stack, Inv, IInv, TypeOK

\* Choosing a household, from whatever page.
LEMMA SelectInv ==
  ASSUME Inv, NEW h \in Households, NEW offered \in Offers, selectHousehold(h, offered)
  PROVE  Inv'
<1> USE DEF selectHousehold, stack, requests
<1>1. TypeOK'
  <2>1. accounts' \in SUBSET Labels
    OBVIOUS
  <2>2. picks' \in [Households -> Nat]
    BY DEF Inv, IInv, TypeOK
  <2>3. step' \in Steps
    BY DEF Steps
  <2> QED BY <2>1, <2>2, <2>3 DEF Inv, IInv, TypeOK
<1>2. PagesHaveHousehold' /\ PagesHaveType' /\ ReviewedIsValid' /\ CompleteIsOwn'
  BY DEF PagesHaveHousehold, PagesHaveType, ReviewedIsValid, CompleteIsOwn
<1>3. DetailsFit'
  BY DEF Inv, IInv, DetailsFit
<1>4. OutIsShown'
  BY DEF Inv, IInv, OutIsShown
<1> QED BY <1>1, <1>2, <1>3, <1>4 DEF Inv, IInv

\* Entering details, on their page, from what the page offers.
LEMMA EditInv ==
  ASSUME Inv, step \in {"type", "details"}, step' = "details",
         UNCHANGED <<stack, selected, accounts, picks, requests, history>>,
         details' \in Details, details'.type \in Types,
         details'.from \in {None, details.from} \union accounts,
         details'.to \in {None, details.to} \union accounts
  PROVE  Inv'
<1> USE DEF stack, requests, history
<1>1. TypeOK'
  BY DEF Inv, IInv, TypeOK, Steps
<1>2. PagesHaveHousehold' /\ PagesHaveType' /\ ReviewedIsValid' /\ CompleteIsOwn'
  BY DEF Inv, IInv, PagesHaveHousehold, PagesHaveType, ReviewedIsValid, CompleteIsOwn
<1>3. DetailsFit'
  BY DEF Inv, IInv, PagesHaveHousehold, DetailsFit
<1>4. OutIsShown'
  BY DEF Inv, IInv, OutIsShown
<1> QED BY <1>1, <1>2, <1>3, <1>4 DEF Inv, IInv

LEMMA EditFormInv ==
  /\ \A t \in Types : Inv /\ ChooseType(t) => Inv'
  /\ Inv /\ EditAccount => Inv'
  /\ \A f \in Fields : Inv /\ EditField(f) => Inv'
<1>1. ASSUME NEW t \in Types, Inv, ChooseType(t) PROVE Inv'
  <2>1. details \in Details
    BY <1>1 DEF Inv, IInv, TypeOK
  <2>2. /\ details' \in Details
        /\ details'.type = t /\ details'.from = details.from /\ details'.to = details.to
    BY <1>1, <2>1 DEF ChooseType, Details
  <2> QED BY <1>1, <2>2, EditInv DEF ChooseType
<1>2. ASSUME Inv, EditAccount PROVE Inv'
  <2>1. details \in Details /\ accounts \subseteq Labels /\ details.type \in Types
    BY <1>2 DEF Inv, IInv, TypeOK, PagesHaveType, EditAccount
  <2>2. CASE \E a \in accounts \union {None} : details' = [details EXCEPT !.from = a]
    <3>1. PICK a \in accounts \union {None} : details' = [details EXCEPT !.from = a]
      BY <2>2
    <3>2. /\ details' \in Details
          /\ details'.type = details.type /\ details'.from = a /\ details'.to = details.to
      BY <2>1, <3>1 DEF Details
    <3> QED BY <1>2, <2>1, <3>2, EditInv DEF EditAccount
  <2>3. CASE \E a \in (accounts \ {details.from}) \union {None} :
               details' = [details EXCEPT !.to = a]
    <3>1. PICK a \in accounts \union {None} : details' = [details EXCEPT !.to = a]
      BY <2>3
    <3>2. /\ details' \in Details
          /\ details'.type = details.type /\ details'.from = details.from /\ details'.to = a
      BY <2>1, <3>1 DEF Details
    <3> QED BY <1>2, <2>1, <3>2, EditInv DEF EditAccount
  <2> QED BY <1>2, <2>2, <2>3 DEF EditAccount
<1>3. ASSUME NEW f \in Fields, Inv, EditField(f) PROVE Inv'
  <2>1. details \in Details /\ details.type \in Types
    BY <1>3 DEF Inv, IInv, TypeOK, PagesHaveType, EditField
  <2>2. PICK filled \in {details.filled \union {f}, details.filled \ {f}} :
          details' = [details EXCEPT !.filled = filled]
    BY <1>3 DEF EditField
  <2>3. filled \in SUBSET Fields
    BY <2>1, <2>2 DEF Details
  <2>4. /\ details' \in Details /\ details'.type = details.type
        /\ details'.from = details.from /\ details'.to = details.to
    BY <2>1, <2>2, <2>3 DEF Details
  <2> QED BY <1>3, <2>1, <2>4, EditInv DEF EditField
<1> QED BY <1>1, <1>2, <1>3

\* Sending the request of the page.
LEMMA SubmitInv == Inv /\ submit => Inv'
<1> SUFFICES ASSUME Inv, submit PROVE Inv'
  OBVIOUS
<1> USE DEF submit, stack, form, history
<1>1. Request \in Requests
  BY DEF Inv, IInv, TypeOK, PagesHaveHousehold, PagesHaveType, ReviewedIsValid,
         detailsValid, Request, Requests, Details
<1>2. TypeOK'
  <2>1. out' \in Seq(Requests)
    BY <1>1 DEF Inv, IInv, TypeOK
  <2> QED BY <2>1 DEF Inv, IInv, TypeOK, Steps
<1>3. PagesHaveHousehold' /\ PagesHaveType' /\ DetailsFit' /\ CompleteIsOwn'
  BY DEF Inv, IInv, PagesHaveHousehold, PagesHaveType, DetailsFit, CompleteIsOwn
<1>4. ReviewedIsValid'
  BY DEF Inv, IInv, ReviewedIsValid, detailsValid, Needed
<1>5. OutIsShown'
  <2>1. Request' = Request
    BY DEF Request
  <2>2. ~interrupted => Append(out, Request) = <<Request>>
    BY <1>1 DEF Inv, IInv, OutIsShown
  <2> QED BY <2>1, <2>2 DEF OutIsShown
<1> QED BY <1>2, <1>3, <1>4, <1>5 DEF Inv, IInv

\* An answer: without an interruption it is the answer to what is shown.
LEMMA AnsweredInv == ASSUME Inv, NEW i, Answered(i) PROVE Inv'
<1> USE DEF Answered, stack, form, history
<1>1. i \in DOMAIN out /\ out \in Seq(Requests)
  BY DEF Inv, IInv, TypeOK
<1>2. TypeOK'
  <2>1. out' \in Seq(Requests)
    BY <1>1, RemoveProperties
  <2>2. answered' \in Requests
    BY <1>1
  <2> QED BY <2>1, <2>2 DEF Inv, IInv, TypeOK, Steps
<1>3. PagesHaveHousehold' /\ PagesHaveType' /\ ReviewedIsValid' /\ DetailsFit'
  BY DEF Inv, IInv, PagesHaveHousehold, PagesHaveType, ReviewedIsValid, DetailsFit
<1>4. ASSUME ~interrupted PROVE out = <<Request>> /\ i = 1
  BY <1>1, <1>4 DEF Inv, IInv, OutIsShown
<1>5. OutIsShown'
  <2>1. ASSUME ~interrupted PROVE out' = <<>>
    <3>1. out' \in Seq(Requests) /\ Len(out') = Len(out) - 1
      BY <1>1, RemoveProperties
    <3>2. Len(out) = 1
      BY <1>4, <2>1
    <3> QED BY <3>1, <3>2
  <2> QED BY <2>1 DEF OutIsShown
<1>6. CompleteIsOwn'
  <2>1. Request' = Request
    BY DEF Request
  <2> QED BY <1>4, <2>1 DEF CompleteIsOwn
<1> QED BY <1>2, <1>3, <1>5, <1>6 DEF Inv, IInv

LEMMA GoBackInv == Inv /\ goBack => Inv'
<1> SUFFICES ASSUME Inv, goBack PROVE Inv'
  OBVIOUS
<1>1. CASE onExit
  BY <1>1, OnExitInv
<1>2. CASE step = "complete" /\ RESET
  BY <1>2, RESETInv
<1>3. CASE \/ step = "type" /\ StepTo("search")
           \/ step = "details" /\ StepTo("type")
           \/ step = "review" /\ StepTo("details")
  <2>1. details.type \in Types \/ step' \in {"search", "type"}
    BY <1>3 DEF StepTo, Inv, IInv, PagesHaveType
  <2>2. context' \in Households \union {None} /\ again' \in Nat /\ mounts' \in Nat
    BY <1>3 DEF StepTo, stack, Inv, IInv, TypeOK
  <2> QED BY <1>3, <2>1, <2>2, TurnInv DEF StepTo
<1> QED BY <1>1, <1>2, <1>3 DEF goBack

LEMMA HomeInv == Inv /\ Home => Inv'
<1> SUFFICES ASSUME Inv, Home PROVE Inv'
  OBVIOUS
<1>1. CASE again = 0 /\ Unmount
  BY <1>1, UnmountInv
<1>2. CASE again > 0 /\ again' = again - 1 /\ Fresh(context, picks)
           /\ UNCHANGED <<context, mounts, sends, out, interrupted>>
  <2>1. ~interrupted' => out = <<>>
    BY <1>2 DEF Home, Inv, IInv, OutIsShown
  <2>2. /\ context \in Households \union {None} /\ picks \in [Households -> Nat]
        /\ again' \in Nat /\ mounts \in Nat /\ interrupted \in BOOLEAN
    BY <1>2 DEF Inv, IInv, TypeOK
  <2> QED BY <1>2, <2>1, <2>2, FreshInv
<1> QED BY <1>1, <1>2 DEF Home

LEMMA NextInv == Inv /\ [Next]_vars => Inv'
<1> SUFFICES ASSUME Inv, [Next]_vars PROVE Inv'
  OBVIOUS
<1>1. ASSUME NEW c \in Contexts, Enter(c) PROVE Inv'
  <2>1. out = <<>>
    BY <1>1 DEF Enter, Inv, IInv, OutIsShown
  <2>2. /\ c \in Households \union {None}
        /\ NoPicks \in [Households -> Nat]
        /\ again \in Nat /\ mounts' \in Nat
    BY <1>1 DEF Enter, NoPicks, Inv, IInv, TypeOK
  <2>3. ~interrupted' => out = <<>>
    BY <1>1, <2>1 DEF Enter
  <2> QED BY <1>1, <2>2, <2>3, FreshInv DEF Enter
<1>2. CASE EnterAgain
  <2>1. context' \in Households \union {None} /\ again' \in Nat /\ mounts' \in Nat
    BY <1>2 DEF EnterAgain, Inv, IInv, TypeOK
  <2> QED BY <1>2, <2>1, TurnInv DEF EnterAgain
<1>3. CASE Leave
  BY <1>3, UnmountInv DEF Leave
<1>4. ASSUME NEW h \in Households, Pick(h) PROVE Inv'
  <2> USE <1>4 DEF Pick, stack, form, requests, history
  <2>1. TypeOK'
    BY DEF Inv, IInv, TypeOK
  <2>2. PagesHaveHousehold' /\ PagesHaveType' /\ ReviewedIsValid' /\ DetailsFit'
    BY DEF Inv, IInv, PagesHaveHousehold, PagesHaveType, ReviewedIsValid, DetailsFit
  <2>3. OutIsShown' /\ CompleteIsOwn'
    BY DEF Inv, IInv, OutIsShown, CompleteIsOwn
  <2> QED BY <2>1, <2>2, <2>3 DEF Inv, IInv
<1>5. ASSUME NEW h \in Households, NEW offered \in Offers, selectHousehold(h, offered)
      PROVE  Inv'
  BY <1>5, SelectInv
<1>6. CASE \/ \E t \in Types : ChooseType(t)
           \/ EditAccount
           \/ \E f \in Fields : EditField(f)
  BY <1>6, EditFormInv
<1>7. CASE Review
  <2>1. details.type \in Types
    BY <1>7 DEF Review, Inv, IInv, PagesHaveType
  <2>2. context' \in Households \union {None} /\ again' \in Nat /\ mounts' \in Nat
    BY <1>7 DEF Review, stack, Inv, IInv, TypeOK
  <2> QED BY <1>7, <2>1, <2>2, TurnInv DEF Review
<1>8. CASE submit
  BY <1>8, SubmitInv
<1>9. ASSUME NEW i, Answered(i) PROVE Inv'
  BY <1>9, AnsweredInv
<1>10. CASE goBack
  BY <1>10, GoBackInv
<1>11. CASE NewMovement
  BY <1>11, RESETInv DEF NewMovement
<1>12. CASE Home
  BY <1>12, HomeInv
<1>13. CASE UNCHANGED vars
  <2>1. context' \in Households \union {None} /\ again' \in Nat /\ mounts' \in Nat
    BY <1>13 DEF vars, stack, Inv, IInv, TypeOK
  <2> QED BY <1>13, <2>1, TurnInv DEF vars
<1> QED
  BY <1>1, <1>2, <1>3, <1>4, <1>5, <1>6, <1>7, <1>8, <1>9, <1>10, <1>11, <1>12,
     <1>13 DEF Next

----------------------------------------------------------------------------
\* What each page of the wizard may rely on, and that a request is out
\* exactly while the page says so, hold for any households, accounts and
\* kinds of movement, and without the bounds of the model checking.
THEOREM Invariant == Spec => []IInv
<1>1. Spec => []Inv
  BY InitInv, NextInv, PTL DEF Spec
<1> QED BY <1>1, PTL DEF Inv

\* The last page of MoneyScreen describes the request that was answered.
THEOREM CompleteIsOwnHolds == Spec => []CompleteIsOwn
<1>1. Spec => []Inv
  BY InitInv, NextInv, PTL DEF Spec
<1> QED BY <1>1, PTL DEF Inv

\* Without an interruption a mount has one request out at a time.
THEOREM OneAtATimeHolds == Spec => []OneAtATime
<1>1. IInv => OneAtATime
  <2>1. Len(<<Request>>) = 1 /\ Len(<<>>) = 0
    OBVIOUS
  <2>2. ASSUME IInv, ~interrupted PROVE Len(out) <= 1
    <3>1. Len(out) = 0 \/ Len(out) = 1
      BY <2>1, <2>2 DEF IInv, OutIsShown
    <3>2. Len(out) \in Nat
      BY <2>2 DEF IInv, TypeOK
    <3>3. \A n \in Nat : n = 0 \/ n = 1 => n <= 1
      OBVIOUS
    <3> QED BY <3>1, <3>2, <3>3
  <2> QED BY <2>2 DEF OneAtATime
<1> QED BY <1>1, Invariant, PTL

\* What is sent names accounts that were offered for its household.
THEOREM OwnAccountHolds == Spec => OwnAccount
<1> DEFINE Sent == \A i \in DOMAIN out' \ DOMAIN out :
             ~reselected => /\ out'[i].from \in accounts
                            /\ out'[i].to \in accounts \union {None}
<1>1. ASSUME IInv, [Next]_vars PROVE [Sent]_vars
  <2>1. CASE submit
    <3>1. /\ details.from \in accounts \/ reselected
          /\ details.to \in accounts \union {None} \/ reselected
      BY <1>1, <2>1 DEF submit, IInv, DetailsFit, ReviewedIsValid, detailsValid
    <3>2. out \in Seq(Requests) /\ out' = Append(out, Request)
      BY <1>1, <2>1 DEF submit, IInv, TypeOK
    <3>3. ASSUME NEW i \in DOMAIN out' \ DOMAIN out PROVE out'[i] = Request
      BY <3>2, <3>3
    <3>4. Request.from = details.from /\ Request.to = details.to
      BY DEF Request
    <3> QED BY <3>1, <3>3, <3>4
  <2>2. CASE out' = out \/ out' = <<>>
    BY <2>2
  <2>3. ASSUME NEW i, Answered(i) PROVE Sent
    <3>1. out \in Seq(Requests) /\ i \in 1 .. Len(out) /\ out' = RemoveAt(out, i)
      BY <1>1, <2>3 DEF Answered, IInv, TypeOK
    <3>2. DOMAIN out' \subseteq DOMAIN out
      BY <3>1, RemoveProperties
    <3> QED BY <3>2
  <2>4. CASE Next
    <3>1. CASE \E c \in Contexts : Enter(c)
      BY <2>2, <3>1 DEF Enter
    <3>2. CASE EnterAgain \/ Leave
      BY <2>2, <3>2 DEF EnterAgain, Leave, Unmount, requests
    <3>3. CASE \E h \in Households : Pick(h)
      BY <2>2, <3>3 DEF Pick, requests
    <3>4. CASE \E h \in Households, offered \in Offers : selectHousehold(h, offered)
      BY <2>2, <3>4 DEF selectHousehold, requests
    <3>5. CASE \/ \E t \in Types : ChooseType(t)
               \/ EditAccount
               \/ \E f \in Fields : EditField(f)
               \/ Review
      BY <2>2, <3>5 DEF ChooseType, EditAccount, EditField, Review, requests
    <3>6. CASE goBack
      BY <2>2, <3>6 DEF goBack, onExit, Unmount, StepTo, RESET, requests
    <3>7. CASE NewMovement
      BY <2>2, <3>7 DEF NewMovement, RESET
    <3>8. CASE Home
      BY <2>2, <3>8 DEF Home, Unmount
    <3> QED
      BY <2>1, <2>3, <2>4, <3>1, <3>2, <3>3, <3>4, <3>5, <3>6, <3>7, <3>8 DEF Next
  <2> QED BY <1>1, <2>4
<1> QED BY <1>1, Invariant, PTL DEF Spec, OwnAccount
===============================================================================
