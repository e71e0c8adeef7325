---------------------------- MODULE DocumentIntake ----------------------------
(***************************************************************************)
(* The document intake of app/documents/DocumentScreen.tsx: one document   *)
(* is classified, reviewed and saved to Salesforce, or a batch of them is  *)
(* put in a queue where each is approved or rejected and the approved ones *)
(* are saved one after another.                                            *)
(*                                                                         *)
(* Only closing the page cancels what was started: a batch goes on being   *)
(* processed, then matched to households, then saved, after its queue was  *)
(* closed, and each of these writes into the queue that is shown by then.  *)
(* Documents are numbered in the order they are uploaded.  Of the          *)
(* household they are linked to only whether there is one is followed.     *)
(***************************************************************************)
EXTENDS Naturals, FiniteSets, FiniteSetsExt, Functions

CONSTANTS
  MaxDocs,   \* documents uploaded in batches, over all batches
  MaxTasks,  \* tasks counted per document
  MaxAtOnce, \* batches being processed or matched, and runs saving one, at once
  InContext  \* whether the screen is opened about a household

ASSUME IntakeAssumption == {MaxDocs, MaxTasks, MaxAtOnce} \subseteq Nat /\ InContext \in BOOLEAN

Docs == 1..MaxDocs
Statuses == {"gone", "processing", "ready", "approved", "rejected", "saving", "saved"}

VARIABLES
  page,      \* the screen: its step, the household link, the batch flags
  queue,     \* batchDocs: each document's status, "gone" when it is not in the queue
  loops,     \* batches being processed or matched
  saves,     \* runs of saveBatchApproved, each with what it has still to send, and
             \* whether it waits for an answer that never comes
  uploaded,  \* how many documents have been uploaded
  tasks,     \* requests to create a document's task
  verdict,   \* history: what the user last decided about a document
  rewound,   \* history: documents put back after a decision or a request
  hurried    \* history: a queue was closed while it was being saved

remembered == <<verdict, rewound, hurried>>
intakeVars == <<page, queue, loops, saves, uploaded, tasks, remembered>>

IntakeTypeOK ==
  /\ page \in [step : {"upload", "classifying", "review", "linking", "complete", "closed"},
               linked : BOOLEAN, batch : BOOLEAN, processing : BOOLEAN, saving : BOOLEAN]
  /\ queue \in [Docs -> Statuses]
  /\ loops \subseteq [docs : SUBSET Docs, left : SUBSET Docs]
  /\ saves \subseteq [todo : SUBSET Docs, live : BOOLEAN, stuck : BOOLEAN]
  /\ uploaded \in 0..MaxDocs
  /\ tasks \in [Docs -> 0..MaxTasks]
  /\ verdict \in [Docs -> {"none", "approved", "rejected"}]
  /\ rewound \subseteq Docs
  /\ hurried \in BOOLEAN

Empty == [d \in Docs |-> "gone"]
Opened ==
  [step |-> "upload", linked |-> InContext, batch |-> FALSE, processing |-> FALSE,
   saving |-> FALSE]

IntakeInit ==
  /\ page = Opened
  /\ queue = Empty /\ loops = {} /\ saves = {} /\ uploaded = 0
  /\ tasks = [d \in Docs |-> 0]
  /\ verdict = [d \in Docs |-> "none"] /\ rewound = {} /\ hurried = FALSE

(***************************************************************************)
(* One document.                                                           *)
(***************************************************************************)
On(step) == page.step = step /\ ~page.batch
Goes(step) == page' = [page EXCEPT !.step = step]

Upload ==
  /\ On("upload") /\ Goes("classifying")
  /\ UNCHANGED <<queue, loops, saves, uploaded, tasks, remembered>>

Extracted ==
  /\ page.step = "classifying" /\ Goes("review")
  /\ UNCHANGED <<queue, loops, saves, uploaded, tasks, remembered>>

Save ==
  /\ On("review") /\ page.linked /\ Goes("linking")
  /\ UNCHANGED <<queue, loops, saves, uploaded, tasks, remembered>>

\* Any answer: callSF does not throw.
Saved ==
  /\ page.step = "linking" /\ Goes("complete")
  /\ UNCHANGED <<queue, loops, saves, uploaded, tasks, remembered>>

Reset ==
  /\ On("review") \/ On("complete")
  /\ page' = [page EXCEPT !.step = "upload", !.linked = InContext]
  /\ UNCHANGED <<queue, loops, saves, uploaded, tasks, remembered>>

\* A household is found by its name, or taken away; in a queue too.
Link ==
  /\ On("review") \/ (page.batch /\ ~page.processing)
  /\ page' = [page EXCEPT !.linked = ~@]
  /\ UNCHANGED <<queue, loops, saves, uploaded, tasks, remembered>>

\* The screen is left, by its back button, a link or the command palette, and opened
\* again some time.  What goes on for the screen that was left reaches no queue any
\* more, but its tasks are still sent.
Exit ==
  /\ page.step # "closed"
  /\ page' = Opened
  /\ queue' = Empty /\ loops' = {}
  /\ saves' = {[s EXCEPT !.live = FALSE] : s \in saves}
  /\ UNCHANGED <<uploaded, tasks, remembered>>

\* The page is reloaded, or its tab closed: nothing of it goes on.  Of the requests that
\* are out each may have been received.  A screen opened after that shares nothing with
\* this one, and starts as this one did.
Out(d) == {s \in saves : Min(s.todo) = d}
Close ==
  /\ page.step # "closed"
  /\ page' = [Opened EXCEPT !.step = "closed"]
  /\ queue' = Empty /\ loops' = {} /\ saves' = {}
  /\ tasks' \in [Docs -> 0..MaxTasks]
  /\ \A d \in Docs : tasks'[d] \in tasks[d]..(tasks[d] + Cardinality(Out(d)))
  /\ UNCHANGED <<uploaded, remembered>>

(***************************************************************************)
(* The queue: handleBatchUpload.                                           *)
(***************************************************************************)
CanStart == Cardinality(loops) + Cardinality(saves) < MaxAtOnce

BatchUpload ==
  /\ On("upload") /\ CanStart
  /\ \E n \in 1..(MaxDocs - uploaded) :
       LET docs == (uploaded + 1)..(uploaded + n)
       IN  /\ queue' = [d \in Docs |-> IF d \in docs THEN "processing" ELSE "gone"]
           /\ loops' = loops \union {[docs |-> docs, left |-> docs]}
           /\ uploaded' = uploaded + n
  /\ page' = [page EXCEPT !.batch = TRUE, !.processing = TRUE]
  /\ UNCHANGED <<saves, tasks, remembered>>

\* setBatchDocs with the loop's own array, in which nothing is decided.
Refill(docs, left) ==
  /\ queue' = [d \in Docs |-> IF d \in left THEN "processing"
                              ELSE IF d \in docs THEN "ready" ELSE "gone"]
  /\ rewound' = rewound \union
       {d \in docs \ left : \/ verdict[d] # "none" \/ tasks[d] > 0
                            \/ \E s \in saves : d \in s.todo}

\* The next document is classified; after the last one the queue can be reviewed.
Classify ==
  /\ \E l \in loops :
       /\ l.left # {}
       /\ LET left == l.left \ {Min(l.left)}
          IN  /\ loops' = (loops \ {l}) \union {[l EXCEPT !.left = left]}
              /\ Refill(l.docs, left)
              /\ page' = [page EXCEPT !.processing = @ /\ left # {}]
  /\ UNCHANGED <<saves, uploaded, tasks, verdict, hurried>>

\* The searches for the clients' households have been answered: if they found any,
\* the queue is what it was before the review, with the households.
Match ==
  /\ \E l \in loops :
       /\ l.left = {}
       /\ loops' = loops \ {l}
       /\ \/ Refill(l.docs, {})
          \/ UNCHANGED <<queue, rewound>>
  /\ UNCHANGED <<page, saves, uploaded, tasks, verdict, hurried>>

\* resetBatch: the back button, "Cancel" and "Done".
CloseQueue ==
  /\ page.batch
  /\ page' = [page EXCEPT !.batch = FALSE, !.processing = FALSE, !.saving = FALSE]
  /\ queue' = Empty
  /\ hurried' = (hurried \/ page.saving)
  /\ UNCHANGED <<loops, saves, uploaded, tasks, verdict, rewound>>

(***************************************************************************)
(* The review of the queue.                                                *)
(***************************************************************************)
Reviewing == page.batch /\ ~page.processing

Decide(docs, status, v) ==
  /\ queue' = [d \in Docs |-> IF d \in docs THEN status ELSE queue[d]]
  /\ verdict' = [d \in Docs |-> IF d \in docs THEN v ELSE verdict[d]]
  /\ UNCHANGED <<page, loops, saves, uploaded, tasks, rewound, hurried>>

Approve == Reviewing /\ \E d \in Docs : queue[d] = "ready" /\ Decide({d}, "approved", "approved")
Reject == Reviewing /\ \E d \in Docs : queue[d] = "ready" /\ Decide({d}, "rejected", "rejected")
Undo ==
  Reviewing /\ \E d \in Docs : queue[d] \in {"approved", "rejected"} /\ Decide({d}, "ready", "none")

\* "Approve All Remaining"
MutRemaining == {d \in Docs : queue[d] \in {"ready", "rejected"}}
Remaining == {d \in Docs : queue[d] = "ready"}
ApproveAll ==
  /\ Reviewing /\ Remaining # {}
  /\ queue' = [d \in Docs |-> IF d \in Remaining THEN "approved" ELSE queue[d]]
  /\ verdict' = [d \in Docs |-> IF queue[d] = "ready" THEN "approved" ELSE verdict[d]]
  /\ UNCHANGED <<page, loops, saves, uploaded, tasks, rewound, hurried>>

(***************************************************************************)
(* saveBatchApproved: the documents approved now, one request at a time,   *)
(* whatever is decided about them meanwhile.                               *)
(***************************************************************************)
MutToSave == {d \in Docs : queue[d] \in {"approved", "saved"}}
ToSave == {d \in Docs : queue[d] = "approved"}

\* Documents whose status a run changes: those in the queue shown.
Marked(q, d, status) == IF q[d] = "gone" THEN q ELSE [q EXCEPT ![d] = status]

SaveApproved ==
  /\ Reviewing /\ page.linked /\ ~page.saving /\ CanStart
  /\ \E d \in Docs : queue[d] = "approved"
  /\ page' = [page EXCEPT !.saving = TRUE]
  /\ queue' = Marked(queue, Min(ToSave), "saving")
  /\ saves' = saves \union {[todo |-> ToSave, live |-> TRUE, stuck |-> FALSE]}
  /\ UNCHANGED <<loops, uploaded, tasks, remembered>>

\* The request that is out is never answered: callSF has no timer for the token and for
\* the body of the answer.
Hang ==
  /\ \E s \in saves : ~s.stuck /\ saves' = (saves \ {s}) \union {[s EXCEPT !.stuck = TRUE]}
  /\ UNCHANGED <<page, queue, loops, uploaded, tasks, remembered>>

\* A request is answered, with success or not; the next one is sent.
MutStillToSave(s) == {}
StillToSave(s) == s.todo \ {Min(s.todo)}
SaveAnswered ==
  /\ \E s \in {t \in saves : ~t.stuck} :
       LET d == Min(s.todo)
           todo == StillToSave(s)
           q == IF s.live THEN Marked(queue, d, "saved") ELSE queue
       IN  /\ tasks' = [tasks EXCEPT ![d] = IF @ < MaxTasks THEN @ + 1 ELSE @]
           /\ queue' = IF s.live /\ todo # {} THEN Marked(q, Min(todo), "saving") ELSE q
           /\ saves' = (saves \ {s}) \union
                         (IF todo = {} THEN {} ELSE {[s EXCEPT !.todo = todo]})
           /\ page' = [page EXCEPT !.saving = @ /\ ~(s.live /\ todo = {})]
  /\ UNCHANGED <<loops, uploaded, remembered>>

One == Upload \/ Extracted \/ Save \/ Saved \/ Reset \/ Link \/ Exit \/ Close
Queue == BatchUpload \/ Classify \/ Match \/ CloseQueue
ReviewQueue ==
  \/ Approve \/ Reject \/ Undo \/ ApproveAll
  \/ SaveApproved \/ Hang \/ SaveAnswered
IntakeNext == One \/ Queue \/ ReviewQueue

IntakeSpec == IntakeInit /\ [][IntakeNext]_intakeVars

\* A request that is not one of those never answered is answered, with success or not:
\* which ones are is left open, so this asks nothing of Salesforce or of callSF.
FairSpec ==
  /\ IntakeSpec
  /\ WF_intakeVars(SaveAnswered)

-------------------------------------------------------------------------------
(* Properties. *)

\* What a click on "Save to Salesforce" takes was approved by the user, one by one or
\* as all that was pending, and not undone or rejected since: also where a batch that
\* was still being matched put its documents back.
VerdictsKept ==
  [][\A s \in saves' \ saves : page'.saving /\ ~page.saving =>
       \A d \in s.todo : verdict[d] = "approved"]_intakeVars

\* A document's task is requested twice only where the batch put the document back in
\* the queue after it was decided about or sent, or where a queue was closed while it
\* was being saved (the run goes on, and its end allows another one to start).
SentTwiceExplained == \A d \in Docs : tasks[d] > 1 => d \in rewound \/ hurried

\* Every document taken by a click on "Save to Salesforce" is sent, whatever is answered
\* for the ones before it and whether or not the queue is still shown, unless the page is
\* closed or the run waits for ever for an answer: no decision, upload, match or other
\* run meanwhile makes it skip or forget one.
TakenIsSent ==
  \A d \in Docs :
    (\E s \in saves : d \in s.todo) ~>
      \/ tasks[d] > 0
      \/ page.step = "closed"
      \/ \E s \in saves : s.stuck /\ d \in s.todo

-------------------------------------------------------------------------------
(* The inductive invariant. *)

Waiting(d) == \E s \in saves : d \in s.todo
Untouched(d) == verdict[d] = "none" /\ tasks[d] = 0 /\ ~Waiting(d)

\* Documents that are still to be uploaded are nowhere.
UploadInv == \A d \in Docs : d > uploaded => queue[d] = "gone" /\ Untouched(d)

\* A document belongs to one batch, and nothing is decided about it before it is
\* classified.
LoopInv ==
  /\ \A l \in loops : l.left \subseteq l.docs /\ \A d \in l.docs : d <= uploaded
  /\ \A l \in loops, k \in loops : l # k => l.docs \intersect k.docs = {}
  /\ \A l \in loops : \A d \in l.left : queue[d] \in {"gone", "processing"} /\ Untouched(d)

VerdictInv == \A d \in Docs : queue[d] = "approved" => verdict[d] = "approved"

\* One run at a time saves the queue shown, and the page says so.
SaveInv ==
  /\ \A s \in saves : s.todo # {}
  /\ ~hurried =>
       /\ \A s \in saves : s.live => page.saving
       /\ \A s \in saves, t \in saves : s.live /\ t.live => s = t

\* A document is on its way to Salesforce once; what a queue that was left has still to
\* send, and what was sent, cannot be approved any more.
OnceInv == ~hurried =>
  \A d \in Docs \ rewound :
    /\ \A s \in saves, t \in saves : d \in s.todo /\ d \in t.todo => s = t
    /\ \A s \in saves : d \in s.todo /\ ~s.live => queue[d] = "gone"
    /\ tasks[d] > 0 => tasks[d] = 1 /\ queue[d] \in {"gone", "saved"} /\ ~Waiting(d)

IntakeInv == IntakeTypeOK /\ UploadInv /\ LoopInv /\ VerdictInv /\ SaveInv /\ OnceInv
=============================================================================
