-------------------------- MODULE HouseholdCreation --------------------------
(***************************************************************************)
(* The confirmIntent call, end to end: callSF's retry loop in the browser  *)
(* (lib/salesforce.ts), the dispatcher of api/salesforce/route.ts with the *)
(* proxy in front of it, the handler of handlers/households.ts, the        *)
(* adapter's operations and fireWorkflowTrigger (lib/workflows.ts), over   *)
(* the Salesforce primitives.  All calls name the same family.             *)
(*                                                                         *)
(* Every attempt of a call is a request of its own.  The server is not     *)
(* told when the browser drops or gives up one, so several requests of a   *)
(* call can run at the same time.  A write to Salesforce follows           *)
(* RemoteCreate: an attempt of it that was never answered may have made    *)
(* another record, for a household perhaps much later ("owed").            *)
(***************************************************************************)
EXTENDS Naturals, FiniteSets

CONSTANTS
  Calls,       \* calls of confirmIntent for one family name
  Members,     \* the family members a call sends
  Steps,       \* steps of the "new-client-onboarding" template
  MaxRetries   \* CLIENT_MAX_RETRIES

ASSUME CreationAssumption ==
  /\ IsFiniteSet(Members)
  /\ MaxRetries \in Nat \ {0}

Attempts == 0 .. MaxRetries

Requests == Calls \X Attempts

\* Household records: the acknowledged one of a request, or an unanswered copy.
Acknowledged(r) == <<r, "acknowledged">>
Copy(r) == <<r, "copy">>
Households == Requests \X {"acknowledged", "copy"}

CallOf(h) == h[1][1]

VARIABLES
  force,       \* data.force
  pc,          \* where the browser's call is
  attempt,     \* its current attempt
  answer,      \* what callSF returned
  step,        \* where the handler of each request is
  reply,       \* what each request has answered
  work,        \* what the handler holds: the records it was told of
  rival,       \* whether someone else has made a household of that name
  households,  \* of these calls, at Salesforce
  owed,        \* households asked for, given up, still to be created or not
  contacts,    \* at Salesforce
  linked,      \* households whose first two contacts are related
  tasks,       \* workflow tasks at Salesforce
  known,       \* history: calls that began with the household there already
  shaky        \* history: calls with a broken connection on their way

client == <<pc, attempt, answer>>
salesforce == <<rival, households, owed, contacts, linked, tasks>>
vars == <<force, client, step, reply, work, salesforce, known, shaky>>

ClientSteps == {"idle", "token", "waiting", "reading", "backoff", "done"}
ServerSteps == {"finding", "creating", "contacts", "relating", "querying", "tasking"}
Replies == {"none", "success", "duplicate", "transient", "error", "csrf"}
Answers == {"none", "success", "duplicate", "transient", "error", "timeout", "network"}

TypeOK ==
  /\ force \in [Calls -> BOOLEAN]
  /\ pc \in [Calls -> ClientSteps]
  /\ attempt \in [Calls -> Attempts]
  /\ answer \in [Calls -> Answers]
  /\ step \in [Requests -> ServerSteps \union {"unsent", "arriving", "replied", "gone"}]
  /\ reply \in [Requests -> Replies]
  /\ work \in [Requests -> [contacts : SUBSET Members,
                            missing : SUBSET Steps,
                            tasks : SUBSET Steps]]
  /\ rival \in BOOLEAN
  /\ households \subseteq Households
  /\ owed \subseteq Households
  /\ contacts \subseteq Households \X Members
  /\ linked \subseteq Households
  /\ tasks \subseteq Households \X Steps
  /\ known \subseteq Calls
  /\ shaky \subseteq Calls

Init ==
  /\ force \in [Calls -> BOOLEAN]
  /\ pc = [c \in Calls |-> "idle"]
  /\ attempt = [c \in Calls |-> 0]
  /\ answer = [c \in Calls |-> "none"]
  /\ step = [r \in Requests |-> "unsent"]
  /\ reply = [r \in Requests |-> "none"]
  /\ work = [r \in Requests |-> [contacts |-> {}, missing |-> {}, tasks |-> {}]]
  /\ rival = FALSE
  /\ households = {} /\ owed = {} /\ contacts = {} /\ linked = {} /\ tasks = {}
  /\ known = {} /\ shaky = {}

-------------------------------------------------------------------------------
(* The browser: callSF. *)

\* findHouseholdByName would return a record.
Existing == rival \/ households # {}

Current(c) == <<c, attempt[c]>>

Call(c) ==
  /\ pc[c] = "idle"
  /\ pc' = [pc EXCEPT ![c] = "token"]
  /\ known' = IF Existing THEN known \union {c} ELSE known
  /\ UNCHANGED <<force, attempt, answer, step, reply, work, salesforce, shaky>>

\* getCsrfToken returns, with a token or with "" when its own fetch failed, and the
\* request goes out under the timer.
Send(c) ==
  /\ pc[c] = "token"
  /\ pc' = [pc EXCEPT ![c] = "waiting"]
  /\ step' = [step EXCEPT ![Current(c)] = "arriving"]
  /\ UNCHANGED <<force, attempt, answer, reply, work, salesforce, known, shaky>>

\* Mutant: the next attempt is sent under the old number.
MutResendUncounted(c) ==
  /\ pc[c] = "backoff"
  /\ pc' = [pc EXCEPT ![c] = "token"]
  /\ reply' = [reply EXCEPT ![Current(c)] = "none"]
  /\ UNCHANGED <<force, attempt, answer, step, work, salesforce, known, shaky>>

\* The delay is over: _callSF(action, data, attempt + 1), with force as it was.
Resend(c) ==
  /\ pc[c] = "backoff"
  /\ pc' = [pc EXCEPT ![c] = "token"]
  /\ attempt' = [attempt EXCEPT ![c] = @ + 1]
  /\ UNCHANGED <<force, answer, step, reply, work, salesforce, known, shaky>>

\* The headers are in and the timer is cleared.  A transient status is retried at
\* once, of any other answer, and of the last one, the body is read.
TransientAgain(c) == reply[Current(c)] = "transient" /\ attempt[c] < MaxRetries

Retry(c) ==
  /\ pc[c] = "waiting"
  /\ TransientAgain(c)
  /\ pc' = [pc EXCEPT ![c] = "backoff"]
  /\ UNCHANGED <<force, attempt, answer, step, reply, work, salesforce, known, shaky>>

ReadBody(c) ==
  /\ pc[c] = "waiting"
  /\ reply[Current(c)] # "none" /\ ~TransientAgain(c)
  /\ pc' = [pc EXCEPT ![c] = "reading"]
  /\ UNCHANGED <<force, attempt, answer, step, reply, work, salesforce, known, shaky>>

Finish(c, result) ==
  /\ pc' = [pc EXCEPT ![c] = "done"]
  /\ answer' = [answer EXCEPT ![c] = result]

\* A rejected CSRF token, the first time: getCsrfToken(true), _callSF(action, data, 1).
TokenRejected(c) == reply[Current(c)] = "csrf" /\ attempt[c] = 0

RefreshToken(c) ==
  /\ pc[c] = "reading"
  /\ TokenRejected(c)
  /\ pc' = [pc EXCEPT ![c] = "token"]
  /\ attempt' = [attempt EXCEPT ![c] = 1]
  /\ UNCHANGED <<force, answer, step, reply, work, salesforce, known, shaky>>

TakeAnswer(c) ==
  /\ pc[c] = "reading"
  /\ ~TokenRejected(c)
  /\ Finish(c, IF reply[Current(c)] = "csrf" THEN "error" ELSE reply[Current(c)])
  /\ UNCHANGED <<force, attempt, step, reply, work, salesforce, known, shaky>>

\* fetch, or reading the body, fails.  The request may have got through.
Drop(c) ==
  /\ pc[c] \in {"waiting", "reading"}
  /\ \/ UNCHANGED step
     \/ /\ step[Current(c)] = "arriving"
        /\ step' = [step EXCEPT ![Current(c)] = "gone"]
  /\ IF attempt[c] < MaxRetries
       THEN pc' = [pc EXCEPT ![c] = "backoff"] /\ UNCHANGED answer
       ELSE Finish(c, "network")
  /\ shaky' = shaky \union {c}
  /\ UNCHANGED <<force, attempt, reply, work, salesforce, known>>

\* CLIENT_TIMEOUT_MS have passed before the headers came.
GiveUp(c) ==
  /\ pc[c] = "waiting"
  /\ Finish(c, "timeout")
  /\ shaky' = shaky \union {c}
  /\ UNCHANGED <<force, attempt, step, reply, work, salesforce, known>>

-------------------------------------------------------------------------------
(* The server: proxy, route and handler. *)

Reply(r, kind) ==
  /\ step' = [step EXCEPT ![r] = "replied"]
  /\ reply' = [reply EXCEPT ![r] = kind]

Goto(r, s) ==
  /\ step' = [step EXCEPT ![r] = s]
  /\ UNCHANGED reply

\* The connection of r's call has broken if records were lost.
Shake(r, lost) == shaky' = IF lost = {} THEN shaky ELSE shaky \union {r[1]}

\* The proxy's CSRF check fails (403 CSRF_ERROR); or the rate limit, the role,
\* the validation or the access token stops the request (a lasting error).
Reject(r) ==
  /\ step[r] = "arriving"
  /\ \E kind \in {"csrf", "error"} : Reply(r, kind)
  /\ UNCHANGED <<force, client, work, salesforce, known, shaky>>

Accept(r) ==
  /\ step[r] = "arriving"
  /\ Goto(r, "finding")
  /\ UNCHANGED <<force, client, work, salesforce, known, shaky>>

\* A SOQL query fails: 502 or 504 for the retry, 500 for anything else.
QueryFails(r) ==
  /\ step[r] \in {"finding", "querying"}
  /\ \E kind \in {"transient", "error"} : Reply(r, kind)
  /\ UNCHANGED <<force, client, work, salesforce, known, shaky>>

\* Mutant: only the first attempt looks for a duplicate.
MutFindOnFirstAttempt(r) ==
  /\ step[r] = "finding"
  /\ IF Existing /\ ~force[r[1]] /\ r[2] = 0
       THEN Reply(r, "duplicate")
       ELSE Goto(r, "creating")
  /\ UNCHANGED <<force, client, work, salesforce, known, shaky>>

FindHouseholdByName(r) ==
  /\ step[r] = "finding"
  /\ IF Existing /\ ~force[r[1]]
       THEN Reply(r, "duplicate")
       ELSE Goto(r, "creating")
  /\ UNCHANGED <<force, client, work, salesforce, known, shaky>>

CreateHousehold(r) ==
  /\ step[r] = "creating"
  /\ Goto(r, "contacts")
  /\ households' = households \union {Acknowledged(r)}
  /\ \E lost \in SUBSET {Copy(r)} : owed' = owed \union lost /\ Shake(r, lost)
  /\ UNCHANGED <<force, client, work, rival, contacts, linked, tasks, known>>

\* An HTTP error (502), a timeout (504), or a network or parse error (500).
CreateFails(r) ==
  /\ step[r] = "creating"
  /\ \E lost \in SUBSET {Copy(r)} :
       /\ \E kind \in {"transient", "error"} : Reply(r, kind)
       /\ owed' = owed \union lost
       /\ Shake(r, lost)
  /\ UNCHANGED <<force, client, work, rival, households, contacts, linked, tasks, known>>

\* createContactsBatch settles every member; its errors are dropped.
CreateContacts(r) ==
  /\ step[r] = "contacts"
  /\ \E ok \in SUBSET Members, lost \in SUBSET Members :
       /\ contacts' = contacts \union ({Acknowledged(r)} \X (ok \union lost))
       /\ work' = [work EXCEPT ![r].contacts = ok]
       /\ Shake(r, lost)
       /\ Goto(r, IF Cardinality(ok) >= 2 THEN "relating" ELSE "querying")
  /\ UNCHANGED <<force, client, rival, households, owed, linked, tasks, known>>

\* createContactRelationship turns every failure into null.
Relate(r) ==
  /\ step[r] = "relating"
  /\ linked' \in {linked, linked \union {Acknowledged(r)}}
  /\ Goto(r, "querying")
  /\ UNCHANGED <<force, client, work, rival, households, owed, contacts, tasks, known, shaky>>

\* The step-level deduplication of fireWorkflowTrigger.
QueryWorkflowTasks(r) ==
  /\ step[r] = "querying"
  /\ work' = [work EXCEPT ![r].missing = {s \in Steps : <<Acknowledged(r), s>> \notin tasks}]
  /\ Goto(r, "tasking")
  /\ UNCHANGED <<force, client, salesforce, known, shaky>>

\* Mutant: the tasks asked for are reported, not the records that came back.
MutCreateTasks(r) ==
  /\ step[r] = "tasking"
  /\ \E ok \in SUBSET work[r].missing, lost \in SUBSET work[r].missing :
       /\ tasks' = tasks \union ({Acknowledged(r)} \X (ok \union lost))
       /\ work' = [work EXCEPT ![r].tasks = work[r].missing]
       /\ Shake(r, lost)
  /\ Reply(r, "success")
  /\ UNCHANGED <<force, client, rival, households, owed, contacts, linked, known>>

\* createTasksBatch never throws here; the answer is a success whatever it made.
CreateTasks(r) ==
  /\ step[r] = "tasking"
  /\ \E ok \in SUBSET work[r].missing, lost \in SUBSET work[r].missing :
       /\ tasks' = tasks \union ({Acknowledged(r)} \X (ok \union lost))
       /\ work' = [work EXCEPT ![r].tasks = ok]
       /\ Shake(r, lost)
  /\ Reply(r, "success")
  /\ UNCHANGED <<force, client, rival, households, owed, contacts, linked, known>>

\* The server instance is lost; the platform answers 502 to 504 for it.  What it
\* had sent to Salesforce may be carried out all the same.
Die(r) ==
  /\ step[r] \in ServerSteps
  /\ Reply(r, "transient")
  /\ \E copies \in SUBSET (IF step[r] = "creating" THEN {Copy(r)} ELSE {}),
        people \in SUBSET (IF step[r] = "contacts" THEN Members ELSE {}),
        todo \in SUBSET (IF step[r] = "tasking" THEN work[r].missing ELSE {}) :
       /\ owed' = owed \union copies
       /\ contacts' = contacts \union ({Acknowledged(r)} \X people)
       /\ tasks' = tasks \union ({Acknowledged(r)} \X todo)
       /\ Shake(r, copies \union people \union todo)
  /\ \/ UNCHANGED linked
     \/ step[r] = "relating" /\ linked' = linked \union {Acknowledged(r)}
  /\ UNCHANGED <<force, client, work, rival, households, known>>

\* Salesforce carries out a request nobody waits for any more.
LateCommit(h) ==
  /\ h \in owed
  /\ owed' = owed \ {h}
  /\ households' = households \union {h}
  /\ UNCHANGED <<force, client, step, reply, work, rival, contacts, linked, tasks, known, shaky>>

\* Another tab, or somebody in Salesforce itself, makes the same household.
RivalCreates ==
  /\ ~rival
  /\ rival' = TRUE
  /\ UNCHANGED <<force, client, step, reply, work, households, owed, contacts, linked, tasks, known, shaky>>

-------------------------------------------------------------------------------

Browser(c) ==
  \/ Call(c) \/ Send(c) \/ Resend(c)
  \/ Retry(c) \/ ReadBody(c) \/ RefreshToken(c) \/ TakeAnswer(c)
  \/ Drop(c) \/ GiveUp(c)

Handler(r) ==
  \/ Reject(r) \/ Accept(r)
  \/ QueryFails(r) \/ FindHouseholdByName(r)
  \/ CreateHousehold(r) \/ CreateFails(r)
  \/ CreateContacts(r) \/ Relate(r)
  \/ QueryWorkflowTasks(r) \/ CreateTasks(r)
  \/ Die(r)

Next ==
  \/ \E c \in Calls : Browser(c)
  \/ \E r \in Requests : Handler(r)
  \/ \E h \in Households : LateCommit(h)
  \/ RivalCreates

Spec == Init /\ [][Next]_vars

\* The browser's timers fire, and a status that has arrived is looked at.  Nothing
\* makes a token arrive, or a body: neither has a timer.
Timers(c) == Resend(c) \/ Retry(c) \/ ReadBody(c) \/ GiveUp(c)

FairSpec == Spec /\ \A c \in Calls : WF_vars(Timers(c))

-------------------------------------------------------------------------------
(* Properties. *)

MadeBy(c) == {h \in households : CallOf(h) = c}

\* A success names a household that is there, lists only contacts and workflow
\* steps that are there, and on unbroken connections lists all of them: the
\* records of another attempt are never mixed into the answer.
SuccessIsReal ==
  \A c \in Calls : answer[c] = "success" =>
    LET h == Acknowledged(Current(c)) IN
      /\ h \in households
      /\ \A m \in work[Current(c)].contacts : <<h, m>> \in contacts
      /\ \A s \in work[Current(c)].tasks : <<h, s>> \in tasks
      /\ c \notin shaky =>
           /\ \A m \in Members : <<h, m>> \in contacts => m \in work[Current(c)].contacts
           /\ \A s \in Steps : <<h, s>> \in tasks => s \in work[Current(c)].tasks

\* A call without force never adds a household for a family that had one when
\* the call began, through all of its retries, lost answers and late commits.
UnforcedRespectsExisting ==
  \A c \in known : ~force[c] => MadeBy(c) = {}

\* On unbroken connections a call leaves two households only with force, and
\* only behind an attempt that failed transiently after its create.
DuplicatesExplained ==
  \A c \in Calls \ shaky : \A h, g \in MadeBy(c) :
    h # g => force[c] /\ \E r \in {h[1], g[1]} : reply[r] = "transient"

\* Once a call on unbroken connections has come back, nothing of it is still
\* running: its records at Salesforce stay as the answer found them.
QuietAfterAnswer ==
  [][\A c \in Calls : pc[c] = "done" /\ c \notin shaky =>
       /\ {h \in households' : CallOf(h) = c} = MadeBy(c)
       /\ {x \in contacts' : CallOf(x[1]) = c} = {x \in contacts : CallOf(x[1]) = c}
       /\ {x \in tasks' : CallOf(x[1]) = c} = {x \in tasks : CallOf(x[1]) = c}]_vars

\* A call that was begun comes back, whatever server and network do with its
\* attempts, unless a token or a body it awaits never arrives.
EveryCallEnds ==
  \A c \in Calls : \/ <>(pc[c] = "done")
                  \/ <>[](pc[c] \in {"idle", "token", "reading"})

\* A call ends, but for what has no timer, and on unbroken connections nothing of it
\* is left running then: both halves of what the code after an awaited callSF builds on.
EndsQuietly == EveryCallEnds /\ QuietAfterAnswer

-------------------------------------------------------------------------------
(* The strengthening that makes UnforcedRespectsExisting inductive. *)

\* A delay always leads to one of the allowed attempts.
BackoffInv == \A c \in Calls : pc[c] = "backoff" => attempt[c] < MaxRetries

\* Nothing exists of a call that has not begun.
IdleInv ==
  \A c \in Calls : pc[c] = "idle" =>
    /\ c \notin known
    /\ \A r \in Requests : r[1] = c => step[r] = "unsent"
    /\ \A h \in households \union owed : CallOf(h) # c

\* Where an unforced request can be that must not create.
HarmlessSteps == {"unsent", "arriving", "finding", "replied", "gone"}

\* A call that found the household there stops short of creating another.
BlockedInv ==
  \A c \in known :
    /\ Existing
    /\ ~force[c] =>
         /\ \A r \in Requests : r[1] = c => step[r] \in HarmlessSteps
         /\ \A h \in households \union owed : CallOf(h) # c

IInv == TypeOK /\ BackoffInv /\ IdleInv /\ BlockedInv

-------------------------------------------------------------------------------
(* The strengthening for the other properties, by request and by call. *)

ContactsOf(r) == {m \in Members : <<Acknowledged(r), m>> \in contacts}
TasksOf(r) == {s \in Steps : <<Acknowledged(r), s>> \in tasks}

\* The steps behind the household's create.
MadeSteps == {"contacts", "relating", "querying", "tasking"}

\* A request has its household from its create on, and what it holds of contacts and
\* tasks is what it has made, all of it while its call's connections are unbroken.
RequestInv(r) ==
  /\ reply[r] # "none" <=> step[r] = "replied"
  /\ step[r] \in MadeSteps \/ reply[r] = "success" => Acknowledged(r) \in households
  /\ Acknowledged(r) \in households =>
       step[r] \in MadeSteps \union {"replied"} /\ reply[r] # "csrf"
  /\ step[r] \notin MadeSteps \ {"contacts"} /\ step[r] # "replied" =>
       ContactsOf(r) = {} /\ work[r].contacts = {}
  /\ step[r] # "replied" => TasksOf(r) = {} /\ work[r].tasks = {}
  /\ work[r].contacts \subseteq ContactsOf(r) /\ work[r].tasks \subseteq TasksOf(r)
  /\ r[1] \notin shaky =>
       ContactsOf(r) \subseteq work[r].contacts /\ TasksOf(r) \subseteq work[r].tasks

\* While its connections are unbroken a call has one request running at most: the
\* ones before were answered so that it goes on, those behind are not sent.
CalmInv(c) ==
  /\ \A a \in Attempts : a < attempt[c] \/ (a = attempt[c] /\ pc[c] = "backoff") =>
       reply[<<c, a>>] \in {"transient", "csrf"}
  /\ pc[c] = "done" => step[Current(c)] = "replied"
  /\ \A h \in households \union owed : CallOf(h) = c => h[2] = "acknowledged"
  /\ ~force[c] => \A a, b \in Attempts : a # b /\ Acknowledged(<<c, a>>) \in households =>
       step[<<c, b>>] \in HarmlessSteps /\ Acknowledged(<<c, b>>) \notin households

CallInv(c) ==
  /\ \A a \in Attempts : a > attempt[c] \/ (a = attempt[c] /\ pc[c] = "token") =>
       step[<<c, a>>] = "unsent"
  /\ pc[c] = "reading" => reply[Current(c)] # "none"
  /\ answer[c] = "success" => pc[c] = "done" /\ reply[Current(c)] = "success"
  /\ c \notin shaky => CalmInv(c)

\* Only copies come late.
OwedInv == \A h \in owed : h[2] = "copy"

AnswerInv ==
  /\ \A r \in Requests : RequestInv(r)
  /\ \A c \in Calls : CallInv(c)
  /\ OwedInv
===============================================================================
