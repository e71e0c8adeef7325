----------------------------- MODULE PaperworkRun -----------------------------
(***************************************************************************)
(* The paperwork pipeline behind "Generate Paperwork & Send": executeGen   *)
(* of app/flow/useFlowState.ts, the sfRef its steps share, and the polling *)
(* of DocuSign on the last page, in one browser tab.                       *)
(*                                                                         *)
(* A run is an asynchronous function that keeps the opening it was started *)
(* for, but reads sfRef, one per mount of the screen, at every step.  The  *)
(* screen can be started over or left while a run goes on.  A call follows *)
(* the contract HouseholdCreation and TasksBatch establish: success means  *)
(* the record is there, failure leaves that open.  AccountOpening has the  *)
(* pages before the review.                                                *)
(***************************************************************************)
EXTENDS Naturals, Sequences, FiniteSets

CONSTANTS
  Recording,    \* the steps that write one kind of record: funding, MoneyLink,
                \* beneficiaries, completeness, paperwork, DocuSign configuration
  None,         \* no household, no envelopes
  MaxRuns,      \* bound: runs of the pipeline
  MaxMounts,    \* bound: mounts of the screen
  MaxOpenings   \* bound: openings begun

ASSUME RunAssumption ==
  /\ None \notin Nat
  /\ MaxRuns \in Nat \ {0}
  /\ Recording \in Seq(STRING)
  /\ MaxMounts \in Nat \ {0}
  /\ MaxOpenings \in Nat \ {0}

Runs == 1 .. MaxRuns
Mounts == 1 .. MaxMounts
Openings == 1 .. MaxOpenings
Working == {"household", "recording", "envelopes", "tasks", "finishing"}

\* What is at Salesforce for a household: one kind of record, written by a run.
Records == [kind : {Recording[i] : i \in DOMAIN Recording} \union {"tasks"},
            household : Runs, by : Runs]

VARIABLES
  mount,       \* the mount of the screen
  opening,     \* the opening on the screen
  page,        \* its page: before generating, generating, back at the review meanwhile, or
               \* the last
  run,         \* each run: where it is, and what it was started for
  sfRef,       \* of each mount: household and envelopes, named by their run
  created,     \* runs whose household was acknowledged
  untold,      \* runs told of no household, for which one is made all the same
  records,     \* at Salesforce
  evidence,    \* state.evidence: the records the screen claims
  polls,       \* status requests under way, by the run of their envelopes
  statuses,    \* state.envStatuses, by the run of their envelopes
  overlapped,  \* history: mounts that were reset while a run was going on
  overtaken    \* history: the opening on the screen began while a status request was
               \* under way

screen == <<mount, opening, page>>
salesforce == <<created, untold, records>>
shown == <<evidence, polls, statuses>>
history == <<overlapped, overtaken>>
vars == <<screen, run, sfRef, salesforce, shown, history>>

TypeOK ==
  /\ mount \in Mounts /\ opening \in Openings
  /\ page \in {"editing", "generating", "waiting", "complete"}
  /\ run \in [Runs -> [pc : Working \union {"idle", "ended"}, next : 1 .. Len(Recording) + 1,
                       mount : Mounts, opening : Openings]]
  /\ sfRef \in [Mounts -> [household : Runs \union {None}, envelopes : Runs \union {None}]]
  /\ created \subseteq Runs /\ untold \subseteq Runs
  /\ records \subseteq Records /\ evidence \subseteq Records
  /\ polls \subseteq Runs /\ statuses \in Runs \union {None}
  /\ overlapped \subseteq Mounts /\ overtaken \in BOOLEAN

Init ==
  /\ mount = 1 /\ opening = 1 /\ page = "editing"
  /\ run = [r \in Runs |-> [pc |-> "idle", next |-> 1, mount |-> 1, opening |-> 1]]
  /\ sfRef = [m \in Mounts |-> [household |-> None, envelopes |-> None]]
  /\ created = {} /\ untold = {} /\ records = {}
  /\ evidence = {} /\ polls = {} /\ statuses = None
  /\ overlapped = {} /\ overtaken = FALSE

Ref(r) == sfRef[run[r].mount]
Going(r) == run[r].pc \in Working
Here(r) == run[r].mount = mount

\* What a run dispatches reaches the screen only while its mount is there.
Shows(r, p) == page' = IF Here(r) THEN p ELSE page
AddEv(r, rec) == evidence' = IF Here(r) THEN evidence \union {rec} ELSE evidence

-------------------------------------------------------------------------------
(* The pipeline. *)

Generate(r) ==
  /\ page = "editing"
  /\ run[r].pc = "idle" /\ \A q \in 1 .. r - 1 : run[q].pc # "idle"
  /\ run' = [run EXCEPT ![r] = [pc |-> "household", next |-> 1, mount |-> mount, opening |-> opening]]
  /\ page' = "generating"
  /\ UNCHANGED <<mount, opening, sfRef, salesforce, shown, history>>

\* confirmIntent succeeds.
Household(r) ==
  /\ run[r].pc = "household"
  /\ run' = [run EXCEPT ![r].pc = "recording"]
  /\ created' = created \union {r}
  /\ sfRef' = [sfRef EXCEPT ![run[r].mount] = [household |-> r, envelopes |-> None]]
  /\ UNCHANGED <<screen, untold, records, shown, history>>

\* A household of which the answer is lost, or that is made once the caller gave up.
Unheard(r) == {untold, untold \union {r}}

\* Mutant: the error is recorded and the pipeline goes on.
MutHouseholdFails(r) ==
  /\ run[r].pc = "household"
  /\ run' = [run EXCEPT ![r].pc = IF Ref(r).household = None THEN "ended" ELSE "recording"]
  /\ Shows(r, IF Ref(r).household = None THEN "editing" ELSE "generating")
  /\ untold' \in Unheard(r)
  /\ UNCHANGED <<mount, opening, sfRef, created, records, shown, history>>

\* The only step that throws: back to the review page, whether or not there is a
\* household that the caller was not told of.
HouseholdFails(r) ==
  /\ run[r].pc = "household"
  /\ run' = [run EXCEPT ![r].pc = "ended"]
  /\ Shows(r, "editing")
  /\ untold' \in Unheard(r)
  /\ UNCHANGED <<mount, opening, sfRef, created, records, shown, history>>

Record(r, kind) == [kind |-> kind, household |-> Ref(r).household, by |-> r]

\* Mutant: a failed record ends the run like a failed household.
MutRecordFails(r) ==
  /\ run[r].pc = "recording" /\ run[r].next <= Len(Recording)
  /\ run' = [run EXCEPT ![r].pc = "ended"]
  /\ Shows(r, "editing")
  /\ UNCHANGED <<mount, opening, sfRef, salesforce, shown, history>>

\* A record the caller is not told of, or none at all, or a step with nothing to
\* record: the pipeline goes on.
RecordFails(r) ==
  /\ run[r].pc = "recording" /\ run[r].next <= Len(Recording)
  /\ run' = [run EXCEPT ![r].next = @ + 1]
  /\ records' \in {records, records \union {Record(r, Recording[run[r].next])}}
  /\ UNCHANGED <<screen, sfRef, created, untold, shown, history>>

\* Mutant: evidence is added whatever the call answered.
MutRecordMade(r) ==
  /\ run[r].pc = "recording" /\ run[r].next <= Len(Recording)
  /\ run' = [run EXCEPT ![r].next = @ + 1]
  /\ AddEv(r, Record(r, Recording[run[r].next]))
  /\ UNCHANGED <<screen, sfRef, salesforce, polls, statuses, history>>

RecordMade(r) ==
  /\ run[r].pc = "recording" /\ run[r].next <= Len(Recording)
  /\ LET rec == Record(r, Recording[run[r].next])
     IN records' = records \union {rec} /\ AddEv(r, rec)
  /\ run' = [run EXCEPT ![r].next = @ + 1]
  /\ UNCHANGED <<screen, sfRef, created, untold, polls, statuses, history>>

\* The route signs in, then builds and makes one envelope after another. When
\* one cannot be made, the answer is an error and sfRef keeps none of those that
\* went out before it.
Sent(r) == {sfRef, [sfRef EXCEPT ![run[r].mount].envelopes = r]}

SendEnvelopes(r) ==
  /\ run[r].pc = "recording" /\ run[r].next = Len(Recording) + 1
  /\ run' = [run EXCEPT ![r].pc = "tasks"]
  /\ sfRef' \in Sent(r)
  /\ UNCHANGED <<screen, salesforce, shown, history>>

\* recordSFDocusignTasks, whatever DocuSign said.
RecordTasks(r) ==
  /\ run[r].pc = "tasks"
  /\ run' = [run EXCEPT ![r].pc = "finishing"]
  /\ \/ /\ records' = records \union {Record(r, "tasks")}
        /\ AddEv(r, Record(r, "tasks"))
     \/ /\ records' \in {records, records \union {Record(r, "tasks")}}
        /\ UNCHANGED evidence
  /\ UNCHANGED <<screen, sfRef, created, untold, polls, statuses, history>>

\* The PDF, which may fail, and the timer for the last page.
Finish(r) ==
  /\ run[r].pc = "finishing"
  /\ run' = [run EXCEPT ![r].pc = "ended"]
  /\ Shows(r, "complete")
  /\ UNCHANGED <<mount, opening, sfRef, salesforce, shown, history>>

Step(r) ==
  \/ Household(r) \/ HouseholdFails(r)
  \/ RecordFails(r) \/ RecordMade(r)
  \/ SendEnvelopes(r) \/ RecordTasks(r)
  \/ Finish(r)

-------------------------------------------------------------------------------
(* The screen. *)

\* The poll of the last page: at once, and again every ten seconds.
Poll ==
  /\ page = "complete"
  /\ sfRef[mount].envelopes # None
  /\ polls' = polls \union {sfRef[mount].envelopes}
  /\ UNCHANGED <<screen, run, sfRef, salesforce, evidence, statuses, history>>

\* Its answer, whatever the screen shows by then.
PollAnswered ==
  \E r \in polls :
    /\ polls' = polls \ {r}
    /\ statuses' \in {statuses, r}
    /\ UNCHANGED <<screen, run, sfRef, salesforce, evidence, history>>

\* RESET: Start Over, also while generating, or New Opening; sfRef stays.
Reset ==
  /\ opening < MaxOpenings
  /\ opening' = opening + 1
  /\ page' = "editing"
  /\ evidence' = {} /\ statuses' = None
  /\ overlapped' = IF \E r \in Runs : Going(r) /\ Here(r) THEN overlapped \union {mount} ELSE overlapped
  /\ overtaken' = IF polls = {} THEN FALSE ELSE TRUE
  /\ UNCHANGED <<mount, run, sfRef, salesforce, polls>>

\* In demo mode, quick-fill clicked twice: its second timer takes the page back to the
\* review, where the button stays off (isProcessing) until the run ends.
JumpToReview ==
  /\ page = "generating"
  /\ page' = "waiting"
  /\ UNCHANGED <<mount, opening, run, sfRef, salesforce, shown, history>>

\* The screen is left and opened again, for the same opening, which its draft or
\* the handoff brings back to before generating, or for another one.
Remount ==
  /\ mount < MaxMounts
  /\ mount' = mount + 1
  /\ opening' \in {opening, opening + 1} \intersect Openings
  /\ page' = "editing"
  /\ evidence' = {} /\ polls' = {} /\ statuses' = None
  /\ overtaken' = FALSE
  /\ UNCHANGED <<run, sfRef, salesforce, overlapped>>

Next ==
  \/ \E r \in Runs : Generate(r) \/ Step(r)
  \/ Poll \/ PollAnswered
  \/ Reset \/ JumpToReview \/ Remount

Spec == Init /\ [][Next]_vars

-------------------------------------------------------------------------------
(* Properties. *)

\* A run writes to its own household, never to the one of an earlier opening that
\* sfRef still holds, unless the screen was reset under a run.
OwnHousehold ==
  \A rec \in records : rec.household = rec.by \/ run[rec.by].mount \in overlapped

\* What the screen lists as done is at Salesforce, and was done for the opening on it.
EvidenceIsReal ==
  \A rec \in evidence :
    rec \in records /\ (run[rec.by].opening = opening \/ mount \in overlapped)

\* Generating again gives an opening a second household only where the first one was
\* never acknowledged: confirmIntent failed after it was made, and `force` skips the
\* check for duplicates.  Once one is acknowledged none follows it.  (A run left behind
\* by Start Over that fails takes the page of the next opening back to its review, from
\* where a second household is made while the first is being written to.)
OneHouseholdPerOpening ==
  \A r, q \in created \union untold :
    /\ r < q
    /\ run[r].opening = run[q].opening /\ run[r].mount = run[q].mount
    => r \in untold \/ run[r].mount \in overlapped

\* The last page stands for the household made for the opening on it.
CompleteIsOwn ==
  page = "complete" /\ mount \notin overlapped =>
    \E r \in created : sfRef[mount].household = r /\ run[r].opening = opening

\* Envelopes that are polled are those of the household on the screen, never the ones
\* of the opening before, also when its own could not be sent.
EnvelopesAreOwn ==
  mount \notin overlapped => sfRef[mount].envelopes \in {None, sfRef[mount].household}

\* The envelope statuses on the last page are those of the opening on it, unless New
\* Opening was pressed while an earlier one's were being asked for: their answer is
\* shown when it comes.
StatusesAreOwn ==
  /\ page = "complete" /\ statuses # None
  /\ mount \notin overlapped /\ ~overtaken
  => run[statuses].opening = opening

\* Everything the screen shows of a run, the list of what was done, the last page, the
\* envelopes it follows and their statuses, belongs to the opening on it, over resets,
\* later mounts and runs left behind.
ScreenIsOwn == EvidenceIsReal /\ CompleteIsOwn /\ EnvelopesAreOwn /\ StatusesAreOwn

-------------------------------------------------------------------------------
(* The strengthening that makes the properties inductive. *)

\* Past its household, a run writes to what sfRef names.
Writing(r) == run[r].pc \in Working \ {"household"}

\* Runs are started one after another, for mounts and openings there have been; the ref of
\* a mount to come is empty.
OrderInv ==
  /\ \A r, q \in Runs : r < q /\ run[r].pc = "idle" => run[q].pc = "idle"
  /\ \A r \in Runs : run[r].pc # "idle" => run[r].mount <= mount /\ run[r].opening <= opening
  /\ \A m \in Mounts : m > mount => sfRef[m] = [household |-> None, envelopes |-> None]

\* Unless a mount was reset under a run, one run of it goes on at most, its latest; that
\* of the mount on the screen is for the opening on it, and goes on only while the page
\* says so.
AloneInv ==
  /\ \A r, q \in Runs :
       Going(r) /\ run[r].mount \notin overlapped /\ r < q /\ run[q].pc # "idle" =>
         run[r].mount # run[q].mount
  /\ \A r, q \in Runs :
       Going(r) /\ Going(q) /\ run[r].mount = run[q].mount =>
         r = q \/ run[r].mount \in overlapped
  /\ \A r \in Runs :
       Going(r) /\ Here(r) /\ mount \notin overlapped =>
         page \in {"generating", "waiting"} /\ run[r].opening = opening

\* A run that writes has made its household, and sfRef names it unless the mount was
\* reset under a run.
RefInv ==
  /\ untold \subseteq {r \in Runs : run[r].pc = "ended"}
  /\ created \subseteq {r \in Runs : Writing(r) \/ run[r].pc = "ended"}
  /\ \A r \in Runs : Writing(r) =>
       /\ r \in created
       /\ Ref(r).household # None
       /\ Ref(r).household = r \/ run[r].mount \in overlapped

\* The household of the opening on the screen was made by a run that has not led back to
\* editing, and not while another run was about to make one.
OnceInv ==
  \A q \in created : run[q].mount \notin overlapped =>
    /\ Here(q) /\ run[q].opening = opening => page # "editing"
    /\ \A r \in Runs :
         run[r].pc = "household" /\ run[r].mount = run[q].mount =>
           run[r].opening # run[q].opening

\* What is asked of DocuSign, or was answered, is of the household of the opening on the
\* screen.
AskedInv ==
  mount \notin overlapped /\ ~overtaken =>
    \A r \in polls \union ({statuses} \ {None}) : r \in created /\ run[r].opening = opening

\* Records are written by runs that were started.
WrittenInv == \A rec \in records : run[rec.by].pc # "idle"

IInv ==
  /\ TypeOK /\ OrderInv /\ AloneInv /\ RefInv /\ OnceInv /\ AskedInv /\ WrittenInv
  /\ OwnHousehold /\ ScreenIsOwn /\ OneHouseholdPerOpening
=============================================================================
