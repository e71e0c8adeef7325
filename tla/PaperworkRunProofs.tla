-------------------------- MODULE PaperworkRunProofs --------------------------
(***************************************************************************)
(* For any number of runs, mounts and openings, and whatever the calls of  *)
(* the pipeline answer: a run writes to its own household, the screen shows*)
(* what belongs to the opening on it, and an opening gets one household,   *)
(* until a mount is reset under a run of its own.                          *)
(***************************************************************************)
EXTENDS PaperworkRun, TLAPS

\* The initial states satisfy the invariant.
LEMMA InitInv == Init => IInv
<1> SUFFICES ASSUME Init PROVE IInv
  OBVIOUS
<1> USE RunAssumption DEF RunAssumption, Init, Runs, Mounts, Openings
<1>1. TypeOK
  <2>1. run \in [Runs -> [pc : Working \union {"idle", "ended"}, next : 1 .. Len(Recording) + 1,
                         mount : Mounts, opening : Openings]]
    <3>1. 1 \in 1 .. Len(Recording) + 1
      OBVIOUS
    <3> QED BY <3>1
  <2>2. sfRef \in [Mounts -> [household : Runs \union {None}, envelopes : Runs \union {None}]]
    OBVIOUS
  <2>3. mount \in Mounts /\ opening \in Openings
    OBVIOUS
  <2>4. /\ created = {} /\ untold = {} /\ records = {} /\ evidence = {} /\ polls = {}
        /\ statuses = None /\ overlapped = {} /\ overtaken = FALSE /\ page = "editing"
    OBVIOUS
  <2> HIDE DEF Init, Runs, Mounts, Openings
  <2> QED BY <2>1, <2>2, <2>3, <2>4 DEF TypeOK
<1>2. OrderInv /\ WrittenInv /\ OwnHousehold /\ OneHouseholdPerOpening
  BY DEF OrderInv, WrittenInv, OwnHousehold, OneHouseholdPerOpening
<1>3. AloneInv /\ RefInv /\ OnceInv /\ AskedInv
  BY DEF AloneInv, RefInv, OnceInv, AskedInv, Going, Writing, Working
<1>4. ScreenIsOwn
  BY DEF ScreenIsOwn, EvidenceIsReal, CompleteIsOwn, EnvelopesAreOwn, StatusesAreOwn
<1> QED BY <1>1, <1>2, <1>3, <1>4 DEF IInv

-------------------------------------------------------------------------------
(* What the steps of a run have in common. *)

\* A run keeps the mount and the opening it was started for, and other runs keep
\* everything, while it goes through the pipeline.
Moves(r) ==
  /\ Going(r)
  /\ run' \in [Runs -> [pc : Working \union {"idle", "ended"}, next : 1 .. Len(Recording) + 1,
                        mount : Mounts, opening : Openings]]
  /\ \A q \in Runs : run'[q].mount = run[q].mount /\ run'[q].opening = run[q].opening
  /\ \A q \in Runs \ {r} : run'[q] = run[q]
  /\ run'[r].pc # "idle" /\ run'[r].pc # "household"
  /\ UNCHANGED <<mount, opening, overlapped, overtaken>>

\* Every step of the pipeline moves its run and touches no other ref.
LEMMA StepMoves ==
  ASSUME IInv, NEW r \in Runs, Step(r)
  PROVE  Moves(r)
<1> USE RunAssumption DEF RunAssumption, IInv, TypeOK, Moves, Going, Working
<1>1. Len(Recording) \in Nat
  OBVIOUS
<1>2. CASE Household(r)
  BY <1>1, <1>2 DEF Household, screen, history
<1>3. CASE HouseholdFails(r)
  BY <1>1, <1>3 DEF HouseholdFails, screen, history
<1>4. CASE RecordFails(r)
  BY <1>1, <1>4 DEF RecordFails, screen, history
<1>5. CASE RecordMade(r)
  <2>1. /\ run[r].pc = "recording" /\ run[r].next <= Len(Recording)
        /\ run' = [run EXCEPT ![r].next = @ + 1]
        /\ UNCHANGED <<mount, opening, overlapped, overtaken>>
    BY <1>5 DEF RecordMade, screen, history
  <2>2. run[r].next + 1 \in 1 .. Len(Recording) + 1
    BY <1>1, <2>1
  <2> QED BY <2>1, <2>2
<1>6. CASE SendEnvelopes(r)
  BY <1>1, <1>6 DEF SendEnvelopes, screen, history
<1>7. CASE RecordTasks(r)
  BY <1>1, <1>7 DEF RecordTasks, screen, history
<1>8. CASE Finish(r)
  BY <1>1, <1>8 DEF Finish, screen, history
<1> QED BY <1>2, <1>3, <1>4, <1>5, <1>6, <1>7, <1>8 DEF Step

\* How a step changes the refs and the households: only creating one names another, and
\* only a failing run leaves one unheard of.
Refs(r) ==
  /\ sfRef' \in [Mounts -> [household : Runs \union {None}, envelopes : Runs \union {None}]]
  /\ \A m \in Mounts \ {run[r].mount} : sfRef'[m] = sfRef[m]
  /\ untold' = untold \/ (run[r].pc = "household" /\ run'[r].pc = "ended" /\ untold' = untold \union {r})
  /\ \/ Household(r)
     \/ /\ created' = created
        /\ \A m \in Mounts : sfRef'[m].household = sfRef[m].household
        /\ \A m \in Mounts : sfRef'[m].envelopes # sfRef[m].envelopes =>
             Writing(r) /\ m = run[r].mount /\ sfRef'[m].envelopes = r
        /\ run[r].pc = "household" => run'[r].pc = "ended" /\ sfRef' = sfRef

LEMMA StepRefs ==
  ASSUME IInv, NEW r \in Runs, Step(r)
  PROVE  Refs(r)
<1> USE DEF IInv, TypeOK, Refs
<1>1. CASE Household(r)
  BY <1>1 DEF Household
<1>2. CASE HouseholdFails(r)
  BY <1>2 DEF HouseholdFails, Unheard
<1>3. CASE RecordFails(r)
  BY <1>3 DEF RecordFails
<1>4. CASE RecordMade(r)
  BY <1>4 DEF RecordMade
<1>5. CASE SendEnvelopes(r)
  <2>1. /\ created' = created /\ untold' = untold /\ run[r].pc # "household" /\ sfRef' \in Sent(r)
        /\ Writing(r)
    BY <1>5 DEF SendEnvelopes, salesforce, Writing, Working
  <2>2. CASE sfRef' = sfRef
    BY <2>1, <2>2
  <2>3. CASE sfRef' = [sfRef EXCEPT ![run[r].mount].envelopes = r]
    BY <2>1, <2>3
  <2> QED BY <2>1, <2>2, <2>3 DEF Sent
<1>6. CASE RecordTasks(r)
  BY <1>6 DEF RecordTasks
<1>7. CASE Finish(r)
  BY <1>7 DEF Finish, salesforce
<1> QED BY <1>1, <1>2, <1>3, <1>4, <1>5, <1>6, <1>7 DEF Step

\* How a step changes the screen and the records: it takes the page only when the run
\* ends, and what it records is of the household that sfRef names.
Shown(r) ==
  /\ \/ page' = page
     \/ /\ Here(r) /\ run'[r].pc = "ended"
        /\ \/ page' = "editing" /\ run[r].pc = "household"
           \/ page' = "complete" /\ Writing(r)
  /\ \E rec \in {[kind |-> k, household |-> Ref(r).household, by |-> r] :
                   k \in {Recording[i] : i \in DOMAIN Recording} \union {"tasks"}} :
       /\ records' \in {records, records \union {rec}}
       /\ evidence' \in {evidence, evidence \union {rec}}
       /\ records' # records => Writing(r)
       /\ evidence' # evidence => Here(r) /\ rec \in records' /\ Writing(r)
  /\ UNCHANGED <<polls, statuses>>

LEMMA StepShown ==
  ASSUME IInv, NEW r \in Runs, Step(r)
  PROVE  Shown(r)
<1> DEFINE Kinds == {Recording[i] : i \in DOMAIN Recording} \union {"tasks"}
           Rec(k) == [kind |-> k, household |-> Ref(r).household, by |-> r]
<1>1. "tasks" \in Kinds
  OBVIOUS
<1>2. CASE Household(r) \/ SendEnvelopes(r)
  <2>1. UNCHANGED <<page, records, evidence, polls, statuses>>
    BY <1>2 DEF Household, SendEnvelopes, screen, shown, salesforce
  <2> QED BY <1>1, <2>1 DEF Shown
<1>3. CASE HouseholdFails(r)
  <2>1. UNCHANGED <<records, evidence, polls, statuses>> /\ run'[r].pc = "ended"
    BY <1>3 DEF HouseholdFails, shown, IInv, TypeOK
  <2>2. page' = page \/ (Here(r) /\ page' = "editing" /\ run[r].pc = "household")
    BY <1>3 DEF HouseholdFails, Shows
  <2> QED BY <1>1, <2>1, <2>2 DEF Shown
<1>4. CASE Finish(r)
  <2>1. UNCHANGED <<records, evidence, polls, statuses>> /\ run'[r].pc = "ended"
    BY <1>4 DEF Finish, shown, salesforce, IInv, TypeOK
  <2>2. page' = page \/ (Here(r) /\ page' = "complete" /\ Writing(r))
    BY <1>4 DEF Finish, Shows, Writing, Working
  <2> QED BY <1>1, <2>1, <2>2 DEF Shown
<1>5. CASE RecordFails(r) \/ RecordMade(r)
  <2> DEFINE rec == Rec(Recording[run[r].next])
  <2>1. Recording[run[r].next] \in Kinds
    BY <1>5, RunAssumption DEF RunAssumption, RecordFails, RecordMade, IInv, TypeOK
  <2>2. /\ records' \in {records, records \union {rec}}
        /\ evidence' \in {evidence, evidence \union {rec}}
        /\ evidence' # evidence => Here(r) /\ rec \in records'
        /\ Writing(r) /\ UNCHANGED <<page, polls, statuses>>
    BY <1>5 DEF RecordFails, RecordMade, Record, AddEv, Writing, Working, screen, shown
  <2> QED BY <2>1, <2>2 DEF Shown
<1>6. CASE RecordTasks(r)
  <2> DEFINE rec == Rec("tasks")
  <2>1. /\ records' \in {records, records \union {rec}}
        /\ evidence' \in {evidence, evidence \union {rec}}
        /\ evidence' # evidence => Here(r) /\ rec \in records'
        /\ Writing(r) /\ UNCHANGED <<page, polls, statuses>>
    BY <1>6 DEF RecordTasks, Record, AddEv, Writing, Working, screen
  <2> QED BY <1>1, <2>1 DEF Shown
<1> QED BY <1>2, <1>3, <1>4, <1>5, <1>6 DEF Step

-------------------------------------------------------------------------------
(* A step of a run keeps the invariant, conjunct by conjunct. *)

LEMMA StepOrder ==
  ASSUME IInv, NEW r \in Runs, Moves(r), Refs(r)
  PROVE  OrderInv'
<1> USE DEF IInv, OrderInv
<1>1. run[r].pc # "idle" /\ run[r].mount <= mount
  BY DEF Moves, Going, Working
<1>2. ASSUME NEW q \in Runs, run'[q].pc # "idle"
      PROVE  run'[q].mount <= mount' /\ run'[q].opening <= opening'
  BY <1>1, <1>2 DEF Moves
<1>3. ASSUME NEW m \in Mounts, m > mount
      PROVE  sfRef'[m] = [household |-> None, envelopes |-> None]
  <2>1. m # run[r].mount
    BY <1>1, <1>3 DEF TypeOK, Mounts
  <2> QED BY <1>3, <2>1 DEF Refs
<1>4. ASSUME NEW p \in Runs, NEW q \in Runs, p < q, run'[p].pc = "idle"
      PROVE  run'[q].pc = "idle"
  BY <1>1, <1>4 DEF Moves
<1> QED BY <1>2, <1>3, <1>4 DEF Moves

LEMMA StepAlone ==
  ASSUME IInv, NEW r \in Runs, Moves(r), Shown(r)
  PROVE  AloneInv'
<1> USE DEF IInv, AloneInv
<1>1. ASSUME NEW q \in Runs, Going(q)'
      PROVE  Going(q)
  BY <1>1 DEF Moves, Going
<1>2. ASSUME NEW q \in Runs, NEW p \in Runs, Going(q)', Going(p)', run'[q].mount = run'[p].mount
      PROVE  q = p \/ run'[q].mount \in overlapped'
  BY <1>1, <1>2 DEF Moves
<1>3. ASSUME NEW q \in Runs, Going(q)', Here(q)', mount' \notin overlapped'
      PROVE  page' \in {"generating", "waiting"} /\ run'[q].opening = opening'
  <2>1. Going(q) /\ Here(q) /\ mount \notin overlapped
    BY <1>1, <1>3 DEF Moves, Here
  <2>2. page \in {"generating", "waiting"} /\ run[q].opening = opening
    BY <2>1
  <2>3. page' = page
    <3> SUFFICES ASSUME Here(r), run'[r].pc = "ended" PROVE FALSE
      BY DEF Shown
    <3>1. q # r
      BY <1>3 DEF Going, Working
    <3> QED BY <2>1, <3>1 DEF Here, Moves
  <2> QED BY <2>2, <2>3 DEF Moves
<1>4. ASSUME NEW p \in Runs, NEW q \in Runs,
             Going(p)', run'[p].mount \notin overlapped', p < q, run'[q].pc # "idle"
      PROVE  run'[p].mount # run'[q].mount
  <2>1. Going(p) /\ run[q].pc # "idle"
    BY <1>1, <1>4 DEF Moves, Going, Working
  <2> QED BY <1>4, <2>1 DEF Moves
<1> QED BY <1>2, <1>3, <1>4

LEMMA StepRef ==
  ASSUME IInv, NEW r \in Runs, Moves(r), Refs(r)
  PROVE  RefInv'
<1> USE DEF IInv, RefInv
<1>0. untold' \subseteq {q \in Runs : run'[q].pc = "ended"}
  <2>1. r \notin untold
    BY DEF Moves, Going, Working
  <2> QED BY <2>1 DEF Moves, Refs
<1>1. CASE Household(r)
  <2>1. /\ created' = created \union {r} /\ run'[r].pc = "recording"
        /\ sfRef'[run[r].mount].household = r
    BY <1>1 DEF Household, TypeOK
  <2>2. created' \subseteq {q \in Runs : Writing(q)' \/ run'[q].pc = "ended"}
    BY <2>1 DEF Moves, Writing, Working
  <2>3. ASSUME NEW q \in Runs, Writing(q)'
        PROVE  /\ q \in created' /\ Ref(q)'.household # None
               /\ Ref(q)'.household = q \/ run'[q].mount \in overlapped'
    <3>1. CASE q = r
      BY <2>1, <3>1, RunAssumption DEF Moves, Ref, RunAssumption, Runs
    <3>2. CASE q # r /\ run[q].mount = run[r].mount
      <4>1. Writing(q) /\ Going(q) /\ run[q].mount \in overlapped
        BY <2>3, <3>2 DEF Moves, Writing, Going, AloneInv
      <4> QED BY <2>1, <3>2, <4>1, RunAssumption DEF Moves, Ref, RunAssumption, Runs
    <3>3. CASE run[q].mount # run[r].mount
      <4>1. Writing(q) /\ sfRef'[run[q].mount] = sfRef[run[q].mount]
        BY <2>3, <3>3 DEF Moves, Refs, Writing, TypeOK
      <4> QED BY <2>1, <3>3, <4>1 DEF Moves, Ref
    <3> QED BY <3>1, <3>2, <3>3
  <2> QED BY <1>0, <2>2, <2>3
<1>2. CASE ~Household(r)
  <2>1. /\ created' = created
        /\ \A m \in Mounts : sfRef'[m].household = sfRef[m].household
        /\ run[r].pc = "household" => run'[r].pc = "ended"
    BY <1>2 DEF Refs
  <2>2. \A q \in Runs : Writing(q)' => Writing(q)
    BY <2>1 DEF Moves, Writing, Going, Working
  <2>3. created \subseteq {q \in Runs : Writing(q)' \/ run'[q].pc = "ended"}
    <3>1. r \in created => Writing(r)' \/ run'[r].pc = "ended"
      BY DEF Moves, Writing, Working
    <3> QED BY <3>1 DEF Moves, Writing
  <2>4. ASSUME NEW q \in Runs, Writing(q)'
        PROVE  /\ q \in created' /\ Ref(q)'.household # None
               /\ Ref(q)'.household = q \/ run'[q].mount \in overlapped'
    BY <2>1, <2>2, <2>4 DEF Moves, Ref, TypeOK
  <2> QED BY <1>0, <2>1, <2>3, <2>4
<1> QED BY <1>1, <1>2

\* Only a run about to make its household leads back to editing, and then it was the
\* only one of its opening.
LEMMA StepOnce ==
  ASSUME IInv, NEW r \in Runs, Moves(r), Refs(r), Shown(r)
  PROVE  OnceInv'
<1> USE DEF IInv
<1> SUFFICES ASSUME NEW q \in created', run'[q].mount \notin overlapped'
             PROVE  /\ Here(q)' /\ run'[q].opening = opening' => page' # "editing"
                    /\ \A p \in Runs :
                         run'[p].pc = "household" /\ run'[p].mount = run'[q].mount =>
                           run'[p].opening # run'[q].opening
  BY DEF OnceInv
<1>1. q \in Runs /\ (q \in created \/ q = r)
  BY DEF Refs, Household, TypeOK
<1>2. run[q].mount \notin overlapped
  BY <1>1 DEF Moves
<1>3. CASE q \in created
  <2>1. ASSUME Here(q)', run'[q].opening = opening'
        PROVE  page' # "editing"
    <3>1. Here(q) /\ run[q].opening = opening /\ page # "editing"
      BY <1>1, <1>2, <1>3, <2>1 DEF Moves, Here, OnceInv
    <3>2. ASSUME Here(r), run[r].pc = "household" PROVE FALSE
      <4>1. run[r].opening = opening
        BY <1>2, <3>1, <3>2 DEF AloneInv, Here, Going, Working
      <4> QED BY <1>2, <1>3, <3>1, <3>2, <4>1 DEF OnceInv, Here
    <3> QED BY <3>1, <3>2 DEF Shown
  <2>2. ASSUME NEW p \in Runs, run'[p].pc = "household", run'[p].mount = run'[q].mount
        PROVE  run'[p].opening # run'[q].opening
    BY <1>1, <1>2, <1>3, <2>2 DEF Moves, OnceInv
  <2> QED BY <2>1, <2>2
<1>4. CASE q = r /\ q \notin created
  <2>1. Household(r)
    BY <1>4 DEF Refs
  <2>2. page' = page /\ run[r].pc = "household"
    BY <2>1 DEF Household, screen
  <2>3. ASSUME Here(q)'
        PROVE  page' # "editing"
    BY <1>2, <1>4, <2>2, <2>3 DEF Moves, Here, AloneInv
  <2>4. ASSUME NEW p \in Runs, run'[p].pc = "household", run'[p].mount = run'[q].mount
        PROVE  FALSE
    <3>1. p # r /\ run[p].pc = "household" /\ run[p].mount = run[r].mount
      BY <1>4, <2>4 DEF Moves
    <3> QED BY <1>2, <1>4, <2>2, <3>1 DEF AloneInv, Going, Working
  <2> QED BY <2>3, <2>4
<1> QED BY <1>1, <1>3, <1>4

LEMMA StepWritten ==
  ASSUME IInv, NEW r \in Runs, Moves(r), Shown(r)
  PROVE  WrittenInv' /\ OwnHousehold'
<1> USE DEF IInv
<1> SUFFICES ASSUME NEW rec \in records'
             PROVE  /\ run'[rec.by].pc # "idle"
                    /\ rec.household = rec.by \/ run'[rec.by].mount \in overlapped'
  BY DEF WrittenInv, OwnHousehold
<1>1. CASE rec \in records
  <2>1. rec.by \in Runs
    BY <1>1 DEF TypeOK, Records
  <2> QED BY <1>1, <2>1 DEF Moves, WrittenInv, OwnHousehold
<1>2. CASE rec \notin records
  <2>1. Writing(r) /\ rec.by = r /\ rec.household = Ref(r).household
    BY <1>2 DEF Shown
  <2> QED BY <2>1 DEF Moves, RefInv
<1> QED BY <1>1, <1>2

\* A household is made by the only run of its mount, the latest, for an opening without
\* an acknowledged one.
LEMMA StepOneHousehold ==
  ASSUME IInv, NEW r \in Runs, Moves(r), Refs(r)
  PROVE  OneHouseholdPerOpening'
<1> USE DEF IInv
<1> SUFFICES ASSUME NEW p \in created' \union untold', NEW q \in created' \union untold', p < q,
                    run'[p].opening = run'[q].opening, run'[p].mount = run'[q].mount,
                    p \notin untold', run'[p].mount \notin overlapped'
             PROVE  FALSE
  BY DEF OneHouseholdPerOpening
<1>1. /\ created' \subseteq created \union {r} /\ untold' \subseteq untold \union {r}
      /\ untold \subseteq untold'
      /\ r \in created' \union untold' => r \in created \union untold \/ run[r].pc = "household"
  BY DEF Refs, Household
<1>2. /\ p \in Runs /\ q \in Runs
      /\ p \in created \union {r} /\ q \in created \union untold \union {r}
  BY <1>1 DEF TypeOK
<1>3. /\ run[p].opening = run[q].opening /\ run[p].mount = run[q].mount
      /\ run[p].mount \notin overlapped /\ p \notin untold
  BY <1>1, <1>2 DEF Moves
<1>4. CASE p \in created /\ q \in created \union untold
  BY <1>3, <1>4 DEF OneHouseholdPerOpening
<1>5. CASE p \in created /\ q = r /\ run[r].pc = "household"
  BY <1>2, <1>3, <1>5 DEF OnceInv
<1>6. CASE p = r /\ run[r].pc = "household" /\ q \in created \union untold
  <2>1. run[q].pc # "idle"
    BY <1>6 DEF RefInv, Writing, Working
  <2> QED BY <1>2, <1>3, <1>6, <2>1 DEF AloneInv, Going, Working
<1>7. p # r \/ q # r
  BY <1>2 DEF Runs
<1> QED BY <1>1, <1>2, <1>4, <1>5, <1>6, <1>7

\* A run asks DocuSign nothing, and leaves the households that were made.
LEMMA StepAsked ==
  ASSUME IInv, NEW r \in Runs, Moves(r), Refs(r), Shown(r)
  PROVE  AskedInv'
<1> USE DEF IInv
<1>1. created \subseteq created' /\ created \subseteq Runs
  BY DEF Refs, Household, TypeOK
<1>2. UNCHANGED <<opening, mount, overlapped, overtaken, polls, statuses>>
  BY DEF Moves, Shown
<1> QED BY <1>1, <1>2 DEF AskedInv, Moves

LEMMA StepScreen ==
  ASSUME IInv, NEW r \in Runs, Moves(r), Refs(r), Shown(r), AskedInv'
  PROVE  ScreenIsOwn'
<1> USE DEF IInv
<1>1. /\ mount' = mount /\ opening' = opening /\ overlapped' = overlapped
      /\ mount \in Mounts
  BY DEF Moves, TypeOK
<1>2. EvidenceIsReal'
  <2> SUFFICES ASSUME NEW rec \in evidence'
               PROVE  rec \in records' /\ (run'[rec.by].opening = opening \/ mount \in overlapped)
    BY <1>1 DEF EvidenceIsReal
  <2>1. CASE rec \in evidence
    <3>1. rec \in records /\ rec.by \in Runs
      BY <2>1 DEF ScreenIsOwn, EvidenceIsReal, TypeOK, Records
    <3>2. records \subseteq records'
      BY DEF Shown
    <3> QED BY <2>1, <3>1, <3>2 DEF ScreenIsOwn, EvidenceIsReal, Moves
  <2>2. CASE rec \notin evidence
    <3>1. Here(r) /\ rec \in records' /\ rec.by = r
      BY <2>2 DEF Shown
    <3> QED BY <3>1 DEF Moves, AloneInv, Here
  <2> QED BY <2>1, <2>2
<1>3. CompleteIsOwn'
  <2> SUFFICES ASSUME page' = "complete", mount \notin overlapped
               PROVE  \E q \in created' : sfRef'[mount].household = q /\ run'[q].opening = opening
    BY <1>1 DEF CompleteIsOwn
  <2>1. CASE page = "complete"
    <3>1. PICK q \in created : sfRef[mount].household = q /\ run[q].opening = opening
      BY <2>1 DEF ScreenIsOwn, CompleteIsOwn
    <3>2. mount # run[r].mount
      BY <2>1 DEF Moves, AloneInv, Here
    <3>3. sfRef'[mount] = sfRef[mount] /\ q \in created' /\ q \in Runs
      BY <1>1, <3>2 DEF Refs, Household, TypeOK
    <3> QED BY <3>1, <3>3 DEF Moves
  <2>2. CASE page # "complete"
    <3>1. Here(r) /\ Writing(r)
      BY <2>2 DEF Shown
    <3>2. r \in created /\ sfRef[mount].household = r /\ run[r].opening = opening
      BY <3>1 DEF RefInv, AloneInv, Moves, Here, Ref
    <3>3. created' = created /\ sfRef'[mount].household = r
      BY <1>1, <3>1, <3>2 DEF Refs, Household, Writing
    <3> QED BY <3>2, <3>3 DEF Moves
  <2> QED BY <2>1, <2>2
<1>4. EnvelopesAreOwn'
  <2> SUFFICES ASSUME mount \notin overlapped
               PROVE  sfRef'[mount].envelopes \in {None, sfRef'[mount].household}
    BY <1>1 DEF EnvelopesAreOwn
  <2>1. sfRef[mount].envelopes \in {None, sfRef[mount].household}
    BY DEF ScreenIsOwn, EnvelopesAreOwn
  <2>2. CASE Household(r)
    BY <1>1, <2>1, <2>2 DEF Household, TypeOK
  <2>3. CASE ~Household(r)
    <3>1. sfRef'[mount].household = sfRef[mount].household
      BY <1>1, <2>3 DEF Refs
    <3>2. CASE sfRef'[mount].envelopes = sfRef[mount].envelopes
      BY <2>1, <3>1, <3>2
    <3>3. CASE sfRef'[mount].envelopes # sfRef[mount].envelopes
      BY <1>1, <2>3, <3>1, <3>3 DEF Refs, RefInv, Ref
    <3> QED BY <3>2, <3>3
  <2> QED BY <2>2, <2>3
<1>5. StatusesAreOwn'
  BY DEF AskedInv, StatusesAreOwn
<1> QED BY <1>2, <1>3, <1>4, <1>5 DEF ScreenIsOwn

LEMMA StepType ==
  ASSUME IInv, NEW r \in Runs, Moves(r), Refs(r), Shown(r)
  PROVE  TypeOK'
<1> USE DEF IInv, TypeOK
<1>1. created' \subseteq Runs /\ untold' \subseteq Runs
  BY DEF Refs, Household
<1>2. records' \subseteq Records /\ evidence' \subseteq Records
  <2>1. PICK rec \in {[kind |-> k, household |-> Ref(r).household, by |-> r] :
                        k \in {Recording[i] : i \in DOMAIN Recording} \union {"tasks"}} :
          /\ records' \in {records, records \union {rec}}
          /\ evidence' \in {evidence, evidence \union {rec}}
          /\ records' # records => Writing(r)
          /\ evidence' # evidence => Here(r) /\ rec \in records' /\ Writing(r)
    BY DEF Shown
  <2>2. CASE Writing(r)
    <3>1. Ref(r).household \in Runs
      BY <2>2 DEF RefInv, Ref
    <3>2. rec \in Records
      BY <2>1, <3>1 DEF Records
    <3> QED BY <2>1, <3>2
  <2>3. CASE ~Writing(r)
    BY <2>1, <2>3
  <2> QED BY <2>2, <2>3
<1>3. page' \in {"editing", "generating", "waiting", "complete"}
  BY DEF Shown
<1> QED BY <1>1, <1>2, <1>3 DEF Moves, Refs, Shown

\* A step of the pipeline keeps the invariant.
LEMMA StepInv ==
  ASSUME IInv, NEW r \in Runs, Step(r)
  PROVE  IInv'
<1>1. Moves(r) /\ Refs(r) /\ Shown(r)
  BY StepMoves, StepRefs, StepShown
<1> QED BY <1>1, StepType, StepOrder, StepAlone, StepRef, StepOnce, StepAsked, StepWritten,
           StepOneHousehold, StepScreen DEF IInv

-------------------------------------------------------------------------------
(* The actions of the screen. *)

\* A run is started only where the page says none is going on and none made a household.
LEMMA GenerateInv ==
  ASSUME IInv, NEW r \in Runs, Generate(r)
  PROVE  IInv'
<1> USE DEF IInv
<1>1. /\ page = "editing" /\ page' = "generating" /\ run[r].pc = "idle"
      /\ \A q \in Runs : q < r => run[q].pc # "idle"
      /\ UNCHANGED <<mount, opening, sfRef, created, untold, records, evidence, polls, statuses>>
      /\ UNCHANGED <<overlapped, overtaken>>
  BY RunAssumption DEF Generate, salesforce, shown, history, Runs, RunAssumption
<1>2. /\ run'[r].pc = "household" /\ run'[r].mount = mount /\ run'[r].opening = opening
      /\ \A q \in Runs \ {r} : run'[q] = run[q]
      /\ TypeOK'
  BY <1>1, RunAssumption DEF Generate, TypeOK, Working, RunAssumption
<1>3. created \subseteq Runs \ {r} /\ untold \subseteq Runs \ {r}
  BY <1>1 DEF RefInv, Writing, Working
<1>4. \A rec \in records : rec.by \in Runs \ {r}
  BY <1>1 DEF WrittenInv, TypeOK, Records
<1>5. OrderInv'
  <2>1. mount <= mount /\ opening <= opening
    BY RunAssumption DEF RunAssumption, TypeOK, Mounts, Openings
  <2>2. ASSUME NEW p \in Runs, NEW q \in Runs, p < q, run'[p].pc = "idle"
        PROVE  run'[q].pc = "idle"
    BY <1>1, <1>2, <2>2 DEF OrderInv
  <2> QED BY <1>1, <1>2, <2>1, <2>2 DEF OrderInv
<1>6. AloneInv'
  <2>1. ASSUME NEW p \in Runs, NEW q \in Runs,
               Going(p)', run'[p].mount \notin overlapped', p < q, run'[q].pc # "idle"
        PROVE  run'[p].mount # run'[q].mount
    <3>1. CASE p = r
      BY <1>1, <1>2, <2>1, <3>1 DEF OrderInv
    <3>2. CASE p # r /\ q = r
      BY <1>1, <1>2, <2>1, <3>2 DEF AloneInv, Going, Here
    <3>3. CASE p # r /\ q # r
      BY <1>1, <1>2, <2>1, <3>3 DEF AloneInv, Going
    <3> QED BY <3>1, <3>2, <3>3
  <2> QED BY <1>1, <1>2, <2>1 DEF AloneInv, Going, Here
<1>7. RefInv'
  <2>1. \A q \in Runs : Writing(q)' => q # r /\ Writing(q) /\ Ref(q)' = Ref(q)
    BY <1>1, <1>2 DEF Writing, Working, Ref
  <2>2. \A q \in Runs \ {r} : Writing(q) => Writing(q)'
    BY <1>2 DEF Writing
  <2> QED BY <1>1, <1>2, <1>3, <2>1, <2>2 DEF RefInv
<1>8. OnceInv' /\ AskedInv'
  BY <1>1, <1>2, <1>3 DEF OnceInv, AskedInv, Here
<1>9. WrittenInv' /\ OwnHousehold'
  BY <1>1, <1>2, <1>4 DEF WrittenInv, OwnHousehold
<1>10. OneHouseholdPerOpening'
  BY <1>1, <1>2, <1>3 DEF OneHouseholdPerOpening
<1>11. ScreenIsOwn'
  <2>1. evidence \subseteq records
    BY DEF ScreenIsOwn, EvidenceIsReal
  <2>2. EvidenceIsReal'
    BY <1>1, <1>2, <1>4, <2>1 DEF ScreenIsOwn, EvidenceIsReal
  <2> QED BY <1>1, <2>2 DEF ScreenIsOwn, CompleteIsOwn, EnvelopesAreOwn, StatusesAreOwn
<1> QED BY <1>2, <1>5, <1>6, <1>7, <1>8, <1>9, <1>10, <1>11

\* The last page asks for the envelopes of its household; polling changes nothing else.
LEMMA PollInv ==
  ASSUME IInv, Poll \/ PollAnswered \/ UNCHANGED vars
  PROVE  IInv'
<1> USE DEF IInv
<1>1. /\ UNCHANGED <<mount, opening, page, run, sfRef, created, untold, records, evidence>>
      /\ UNCHANGED <<overlapped, overtaken>>
  BY DEF Poll, PollAnswered, vars, screen, salesforce, shown, history
<1>2. TypeOK'
  <2>1. polls' \subseteq Runs /\ statuses' \in Runs \union {None}
    BY DEF Poll, PollAnswered, vars, shown, TypeOK
  <2> QED BY <1>1, <2>1 DEF TypeOK
<1>3. OrderInv' /\ AloneInv' /\ OnceInv' /\ WrittenInv'
  BY <1>1 DEF OrderInv, AloneInv, OnceInv, WrittenInv, Going, Here
<1>4. RefInv' /\ OwnHousehold' /\ OneHouseholdPerOpening'
  BY <1>1 DEF RefInv, Writing, Ref, OwnHousehold, OneHouseholdPerOpening
<1>5. AskedInv'
  <2>1. CASE Poll
    <3>1. /\ page = "complete" /\ sfRef[mount].envelopes # None /\ statuses' = statuses
          /\ polls' = polls \union {sfRef[mount].envelopes}
      BY <2>1 DEF Poll
    <3>2. mount \notin overlapped =>
            /\ sfRef[mount].envelopes \in created
            /\ run[sfRef[mount].envelopes].opening = opening
      BY <3>1 DEF ScreenIsOwn, CompleteIsOwn, EnvelopesAreOwn
    <3> QED BY <1>1, <3>1, <3>2 DEF AskedInv
  <2>2. CASE PollAnswered \/ UNCHANGED vars
    <3>1. polls' \union ({statuses'} \ {None}) \subseteq polls \union ({statuses} \ {None})
      BY <2>2 DEF PollAnswered, vars, shown
    <3> QED BY <1>1, <3>1 DEF AskedInv
  <2> QED BY <2>1, <2>2
<1>6. ScreenIsOwn'
  <2>1. StatusesAreOwn'
    BY <1>5 DEF AskedInv, StatusesAreOwn
  <2> QED BY <1>1, <2>1 DEF ScreenIsOwn, EvidenceIsReal, CompleteIsOwn, EnvelopesAreOwn
<1> QED BY <1>2, <1>3, <1>4, <1>5, <1>6

\* Back at the review while its run goes on, the screen still cannot start another.
LEMMA JumpInv ==
  ASSUME IInv, JumpToReview
  PROVE  IInv'
<1> USE DEF IInv
<1>1. /\ page = "generating" /\ page' = "waiting"
      /\ UNCHANGED <<mount, opening, run, sfRef, created, untold, records, evidence, polls, statuses>>
      /\ UNCHANGED <<overlapped, overtaken>>
  BY DEF JumpToReview, salesforce, shown, history
<1>2. TypeOK'
  BY <1>1 DEF TypeOK
<1>3. OrderInv' /\ AloneInv' /\ OnceInv' /\ AskedInv' /\ WrittenInv'
  BY <1>1 DEF OrderInv, AloneInv, OnceInv, AskedInv, WrittenInv, Going, Here
<1>4. RefInv' /\ OwnHousehold' /\ OneHouseholdPerOpening'
  BY <1>1 DEF RefInv, Writing, Ref, OwnHousehold, OneHouseholdPerOpening
<1>5. ScreenIsOwn'
  BY <1>1 DEF ScreenIsOwn, EvidenceIsReal, CompleteIsOwn, EnvelopesAreOwn, StatusesAreOwn
<1> QED BY <1>2, <1>3, <1>4, <1>5

\* Start Over and New Opening mark the mount when a run of it goes on; no run is for the
\* opening that begins.
LEMMA ResetInv ==
  ASSUME IInv, Reset
  PROVE  IInv'
<1> USE DEF IInv
<1>1. /\ opening' = opening + 1 /\ page' = "editing" /\ evidence' = {}
      /\ overlapped \subseteq overlapped'
      /\ statuses' = None /\ polls' = polls /\ (~overtaken' => polls = {})
      /\ UNCHANGED <<mount, run, sfRef, created, untold, records>>
      /\ \A r \in Runs : Going(r) /\ Here(r) => mount \in overlapped'
  BY DEF Reset, salesforce
<1>2. TypeOK'
  BY <1>1, RunAssumption DEF Reset, TypeOK, Openings, RunAssumption
<1>3. OrderInv'
  BY <1>1 DEF OrderInv, TypeOK, Openings
<1>4. AloneInv'
  BY <1>1 DEF AloneInv, Going, Here
<1>5. RefInv' /\ OwnHousehold' /\ OneHouseholdPerOpening'
  BY <1>1 DEF RefInv, Writing, Ref, OwnHousehold, OneHouseholdPerOpening
<1>6. ASSUME NEW q \in created
      PROVE  q \in Runs /\ run[q].opening # opening + 1
  <2>1. q \in Runs /\ run[q].pc # "idle"
    BY DEF RefInv, Writing, Working
  <2>2. run[q].opening <= opening /\ run[q].opening \in Openings /\ opening \in Openings
    BY <2>1 DEF OrderInv, TypeOK
  <2> QED BY <2>1, <2>2, RunAssumption DEF RunAssumption, Openings
<1>7. OnceInv' /\ AskedInv'
  BY <1>1, <1>6 DEF OnceInv, AskedInv
<1>8. WrittenInv' /\ ScreenIsOwn'
  BY <1>1 DEF WrittenInv, ScreenIsOwn, EvidenceIsReal, CompleteIsOwn, EnvelopesAreOwn, StatusesAreOwn
<1> QED BY <1>2, <1>3, <1>4, <1>5, <1>7, <1>8

\* No run is of the mount that begins, and its ref is empty.
LEMMA RemountInv ==
  ASSUME IInv, Remount
  PROVE  IInv'
<1> USE DEF IInv
<1>1. /\ mount' = mount + 1 /\ mount' \in Mounts
      /\ opening' \in Openings /\ opening' \in {opening, opening + 1}
      /\ page' = "editing" /\ evidence' = {}
      /\ polls' = {} /\ statuses' = None
      /\ UNCHANGED <<run, sfRef, created, untold, records, overlapped>>
  BY RunAssumption DEF Remount, salesforce, TypeOK, Mounts, RunAssumption
<1>2. TypeOK'
  BY <1>1 DEF Remount, TypeOK
<1>3. mount \in Nat /\ opening \in Nat /\ \A r \in Runs : run[r].mount \in Nat /\ run[r].opening \in Nat
  BY DEF TypeOK, Mounts, Openings
<1>4. \A r \in Runs : run[r].pc # "idle" => run[r].mount # mount + 1
  BY <1>3 DEF OrderInv
<1>5. OrderInv'
  BY <1>1, <1>3 DEF OrderInv, Mounts
<1>6. AloneInv'
  BY <1>1, <1>4 DEF AloneInv, Going, Here, Working
<1>7. RefInv' /\ OwnHousehold' /\ OneHouseholdPerOpening'
  BY <1>1 DEF RefInv, Writing, Ref, OwnHousehold, OneHouseholdPerOpening
<1>8. OnceInv'
  <2>1. \A q \in created : q \in Runs /\ run[q].mount # mount + 1
    BY <1>4 DEF RefInv, Writing, Working, TypeOK
  <2> QED BY <1>1, <2>1 DEF OnceInv, Here
<1>11. AskedInv'
  BY <1>1 DEF AskedInv
<1>9. sfRef[mount + 1].envelopes = None
  <2>1. mount + 1 \in Mounts /\ mount + 1 > mount
    BY <1>1, <1>3
  <2> QED BY <2>1 DEF OrderInv
<1>10. WrittenInv' /\ ScreenIsOwn'
  BY <1>1, <1>9 DEF WrittenInv, ScreenIsOwn, EvidenceIsReal, CompleteIsOwn, EnvelopesAreOwn,
     StatusesAreOwn
<1> QED BY <1>2, <1>5, <1>6, <1>7, <1>8, <1>10, <1>11

-------------------------------------------------------------------------------
(* The theorems. *)

\* Whatever runs are started, left behind and answered, the invariant holds.
THEOREM Invariant == Spec => []IInv
<1>1. ASSUME IInv, [Next]_vars PROVE IInv'
  BY <1>1, GenerateInv, StepInv, PollInv, ResetInv, JumpInv, RemountInv DEF Next
<1> QED BY <1>1, InitInv, PTL DEF Spec

\* A run of executeGen (useFlowState.ts:439-590) writes to the household it made, never
\* to the one an earlier opening left in sfRef, unless its screen was started over.
THEOREM OwnHouseholdHolds == Spec => []OwnHousehold
<1>1. IInv => OwnHousehold
  BY DEF IInv
<1> QED BY <1>1, Invariant, PTL

\* What the screen lists, its last page, the envelopes it polls and their statuses
\* (useFlowState.ts:363-378) belong to the opening on it, over later mounts and openings
\* and runs left behind.
THEOREM ScreenIsOwnHolds == Spec => []ScreenIsOwn
<1>1. IInv => ScreenIsOwn
  BY DEF IInv
<1> QED BY <1>1, Invariant, PTL

\* However often generating fails and is repeated, a second household of an opening
\* follows only one that confirmIntent did not acknowledge (useFlowState.ts:441-442).
THEOREM OneHouseholdPerOpeningHolds == Spec => []OneHouseholdPerOpening
<1>1. IInv => OneHouseholdPerOpening
  BY DEF IInv
<1> QED BY <1>1, Invariant, PTL
===============================================================================
