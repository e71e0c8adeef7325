----------------------- MODULE HouseholdCreationProofs -----------------------
(***************************************************************************)
(* For any calls, members, workflow steps and number of retries: an        *)
(* unforced call never adds to a household that was there before it, a     *)
(* success is of what is there, a duplicate has its reason, and a call that*)
(* has come back is quiet.                                                 *)
(***************************************************************************)
EXTENDS HouseholdCreation, TLAPS

\* The initial states satisfy the invariant.
LEMMA InitInv == Init => IInv
<1> SUFFICES ASSUME Init PROVE IInv
  OBVIOUS
<1>1. 0 \in Attempts
  BY CreationAssumption DEF Attempts
<1>2. TypeOK
  BY <1>1 DEF Init, TypeOK, ClientSteps, Answers, Replies
<1>3. BackoffInv /\ IdleInv /\ BlockedInv
  BY DEF Init, BackoffInv, IdleInv, BlockedInv
<1> QED BY <1>2, <1>3 DEF IInv

\* What the browser does to its own variables keeps the invariant.
LEMMA BrowserInv ==
  ASSUME IInv, NEW c \in Calls, Browser(c)
  PROVE  IInv'
<1> USE CreationAssumption
<1>1. CASE Call(c)
  <2>1. TypeOK' /\ BackoffInv' /\ IdleInv'
    BY <1>1 DEF Call, IInv, TypeOK, ClientSteps, BackoffInv, IdleInv, salesforce
  <2>2. BlockedInv'
    BY <1>1 DEF Call, IInv, IdleInv, BlockedInv, Existing, HarmlessSteps, Requests, salesforce
  <2> QED BY <2>1, <2>2 DEF IInv
<1>2. CASE Send(c)
  <2>1. TypeOK' /\ BackoffInv'
    BY <1>2 DEF Send, Current, IInv, TypeOK, ClientSteps, BackoffInv, salesforce
  <2>2. IdleInv'
    BY <1>2 DEF Send, Current, IInv, TypeOK, IdleInv, Requests, salesforce
  <2>3. BlockedInv'
    BY <1>2 DEF Send, Current, IInv, TypeOK, BlockedInv, Existing, HarmlessSteps,
       Requests, salesforce
  <2> QED BY <2>1, <2>2, <2>3 DEF IInv
<1>3. CASE Resend(c) \/ RefreshToken(c)
  <2>1. /\ attempt' = [attempt EXCEPT ![c] = attempt'[c]] /\ attempt'[c] \in Attempts
        /\ pc' = [pc EXCEPT ![c] = "token"] /\ pc[c] # "idle"
        /\ UNCHANGED <<force, answer, step, reply, work, salesforce, known, shaky>>
    BY <1>3 DEF Resend, RefreshToken, IInv, TypeOK, BackoffInv, Attempts
  <2> QED
    BY <2>1 DEF IInv, TypeOK, ClientSteps, BackoffInv, IdleInv, BlockedInv, Existing, salesforce
<1>4. CASE Retry(c) \/ ReadBody(c)
  <2>1. Retry(c) => attempt[c] < MaxRetries
    BY DEF Retry, TransientAgain
  <2> QED
    BY <1>4, <2>1 DEF Retry, ReadBody, IInv, TypeOK, ClientSteps, BackoffInv, IdleInv, BlockedInv,
       Existing, salesforce
<1>5. CASE TakeAnswer(c)
  <2>1. reply[Current(c)] \in Replies
    BY DEF IInv, TypeOK, Current, Requests
  <2>2. TypeOK'
    BY <1>5, <2>1 DEF TakeAnswer, Finish, IInv, TypeOK, ClientSteps, Replies, Answers, salesforce
  <2> QED
    BY <1>5, <2>2 DEF TakeAnswer, Finish, IInv, TypeOK, BackoffInv, IdleInv, BlockedInv,
       Existing, salesforce
<1>6. CASE Drop(c)
  <2>1. TypeOK'
    <3>1. step' \in [Requests -> ServerSteps \union {"unsent", "arriving", "replied", "gone"}]
      BY <1>6 DEF Drop, IInv, TypeOK
    <3>2. pc' \in [Calls -> ClientSteps] /\ answer' \in [Calls -> Answers]
      BY <1>6 DEF Drop, Finish, IInv, TypeOK, ClientSteps, Answers
    <3> QED BY <1>6, <3>1, <3>2 DEF Drop, IInv, TypeOK, salesforce
  <2>4. BackoffInv'
    BY <1>6 DEF Drop, Finish, IInv, TypeOK, BackoffInv
  <2>2. IdleInv'
    BY <1>6 DEF Drop, Finish, Current, IInv, TypeOK, IdleInv, Requests, salesforce
  <2>3. BlockedInv'
    BY <1>6 DEF Drop, Current, IInv, TypeOK, BlockedInv, Existing, HarmlessSteps,
       Requests, salesforce
  <2> QED BY <2>1, <2>2, <2>3, <2>4 DEF IInv
<1>7. CASE GiveUp(c)
  BY <1>7 DEF GiveUp, Finish, IInv, TypeOK, ClientSteps, BackoffInv, IdleInv, BlockedInv,
     Existing, Answers, salesforce
<1> QED BY <1>1, <1>2, <1>3, <1>4, <1>5, <1>6, <1>7 DEF Browser

\* A request is running only if its call has begun; a running unforced request
\* of a call that found the household there has not got past the search.
LEMMA RunningRequest ==
  ASSUME IInv, NEW r \in Requests, step[r] # "unsent"
  PROVE  /\ r[1] \in Calls
         /\ pc[r[1]] # "idle"
         /\ r[1] \in known /\ ~force[r[1]] => step[r] \in HarmlessSteps
  BY DEF IInv, IdleInv, BlockedInv, Requests

\* A handler that stays on the harmless steps, or already left them, and adds no
\* household keeps the invariant.
LEMMA QuietHandlerInv ==
  ASSUME IInv, TypeOK', NEW r \in Requests, step[r] # "unsent",
         NEW s, step' = [step EXCEPT ![r] = s],
         s \in HarmlessSteps \/ ~(r[1] \in known /\ ~force[r[1]]),
         UNCHANGED <<force, client, rival, households, owed, known>>
  PROVE  IInv'
<1>1. BackoffInv'
  BY DEF IInv, BackoffInv, client
<1>2. IdleInv'
  BY RunningRequest DEF IInv, TypeOK, IdleInv, client
<1>3. BlockedInv'
  BY DEF IInv, TypeOK, BlockedInv, Existing
<1> QED BY <1>1, <1>2, <1>3 DEF IInv

\* Every step of a handler keeps the invariant.
LEMMA HandlerInv ==
  ASSUME IInv, NEW r \in Requests, Handler(r)
  PROVE  IInv'
<1> USE DEF Reply, Goto, Shake, salesforce
<1>1. CASE Reject(r) \/ Accept(r) \/ QueryFails(r)
  <2>1. TypeOK' /\ step[r] # "unsent"
    BY <1>1 DEF Reject, Accept, QueryFails, IInv, TypeOK, ServerSteps, Replies, client
  <2>2. PICK s \in {"replied", "finding"} : step' = [step EXCEPT ![r] = s]
    BY <1>1 DEF Reject, Accept, QueryFails
  <2> QED
    BY <1>1, <2>1, <2>2, QuietHandlerInv
       DEF Reject, Accept, QueryFails, HarmlessSteps
<1>2. CASE FindHouseholdByName(r)
  <2>1. TypeOK' /\ step[r] # "unsent"
    BY <1>2 DEF FindHouseholdByName, IInv, TypeOK, ServerSteps, Replies, client
  <2>2. r[1] \in known => Existing
    BY DEF IInv, BlockedInv
  <2>3. CASE Existing /\ ~force[r[1]]
    BY <1>2, <2>1, <2>3, QuietHandlerInv DEF FindHouseholdByName, HarmlessSteps
  <2>4. CASE ~(Existing /\ ~force[r[1]])
    BY <1>2, <2>1, <2>2, <2>4, QuietHandlerInv DEF FindHouseholdByName
  <2> QED BY <2>3, <2>4
<1>3. CASE CreateHousehold(r) \/ CreateFails(r)
  <2>1. /\ step[r] = "creating"
        /\ r[1] \in Calls
        /\ pc[r[1]] # "idle"
        /\ ~(r[1] \in known /\ ~force[r[1]])
    BY <1>3, RunningRequest DEF CreateHousehold, CreateFails, HarmlessSteps
  <2>2. /\ Acknowledged(r) \in Households /\ CallOf(Acknowledged(r)) = r[1]
        /\ Copy(r) \in Households /\ CallOf(Copy(r)) = r[1]
    BY DEF Acknowledged, Copy, Households, CallOf
  <2>3. /\ households \subseteq households'
        /\ \A h \in households' \union owed' : h \in households \union owed \/ CallOf(h) = r[1]
        /\ households' \subseteq Households /\ owed' \subseteq Households
    BY <1>3, <2>2 DEF CreateHousehold, CreateFails, IInv, TypeOK
  <2>4. PICK s \in {"contacts", "replied"} : step' = [step EXCEPT ![r] = s]
    BY <1>3 DEF CreateHousehold, CreateFails
  <2>5. UNCHANGED <<force, client, rival, known>>
    BY <1>3 DEF CreateHousehold, CreateFails
  <2>6. TypeOK'
    BY <1>3, <2>1, <2>3, <2>4, <2>5
       DEF CreateHousehold, CreateFails, IInv, TypeOK, ServerSteps, Replies, client
  <2>7. BackoffInv' /\ IdleInv'
    BY <2>1, <2>3, <2>4, <2>5 DEF IInv, TypeOK, BackoffInv, IdleInv, client
  <2>8. BlockedInv'
    BY <2>1, <2>3, <2>4, <2>5 DEF IInv, TypeOK, BlockedInv, Existing
  <2> QED BY <2>6, <2>7, <2>8 DEF IInv
<1>4. CASE CreateContacts(r) \/ Relate(r) \/ QueryWorkflowTasks(r) \/ CreateTasks(r)
  <2>1. /\ step[r] \in {"contacts", "relating", "querying", "tasking"}
        /\ r[1] \in Calls
        /\ ~(r[1] \in known /\ ~force[r[1]])
    BY <1>4, RunningRequest
       DEF CreateContacts, Relate, QueryWorkflowTasks, CreateTasks, HarmlessSteps
  <2>2. Acknowledged(r) \in Households
    BY DEF Acknowledged, Households
  <2>3. CASE CreateContacts(r)
    <3>1. PICK ok \in SUBSET Members, lost \in SUBSET Members :
             /\ contacts' = contacts \union ({Acknowledged(r)} \X (ok \union lost))
             /\ work' = [work EXCEPT ![r].contacts = ok]
             /\ Shake(r, lost)
             /\ Goto(r, IF Cardinality(ok) >= 2 THEN "relating" ELSE "querying")
      BY <2>3 DEF CreateContacts
    <3>2. contacts' \subseteq Households \X Members
      BY <2>2, <3>1 DEF IInv, TypeOK
    <3>3. work' \in [Requests -> [contacts : SUBSET Members,
                                 missing : SUBSET Steps,
                                 tasks : SUBSET Steps]]
      BY <3>1 DEF IInv, TypeOK
    <3>4. TypeOK'
      BY <2>1, <2>3, <3>1, <3>2, <3>3 DEF CreateContacts, IInv, TypeOK, ServerSteps, client
    <3> QED BY <2>1, <2>3, <3>4, QuietHandlerInv DEF CreateContacts
  <2>4. CASE Relate(r)
    <3>1. TypeOK'
      BY <2>2, <2>4 DEF Relate, IInv, TypeOK, ServerSteps, client
    <3> QED BY <2>1, <2>4, <3>1, QuietHandlerInv DEF Relate
  <2>5. CASE QueryWorkflowTasks(r)
    <3>1. TypeOK'
      BY <2>5 DEF QueryWorkflowTasks, IInv, TypeOK, ServerSteps, client
    <3> QED BY <2>1, <2>5, <3>1, QuietHandlerInv DEF QueryWorkflowTasks
  <2>6. CASE CreateTasks(r)
    <3>1. TypeOK'
      BY <2>1, <2>2, <2>6 DEF CreateTasks, IInv, TypeOK, ServerSteps, Replies, client
    <3> QED BY <2>1, <2>6, <3>1, QuietHandlerInv DEF CreateTasks
  <2> QED BY <1>4, <2>3, <2>4, <2>5, <2>6
<1>5. CASE Die(r)
  <2>1. PICK copies \in SUBSET (IF step[r] = "creating" THEN {Copy(r)} ELSE {}),
             people \in SUBSET (IF step[r] = "contacts" THEN Members ELSE {}),
             todo \in SUBSET (IF step[r] = "tasking" THEN work[r].missing ELSE {}) :
           /\ owed' = owed \union copies
           /\ contacts' = contacts \union ({Acknowledged(r)} \X people)
           /\ tasks' = tasks \union ({Acknowledged(r)} \X todo)
           /\ Shake(r, copies \union people \union todo)
    BY <1>5 DEF Die
  <2>2. /\ step[r] \in ServerSteps /\ step[r] # "unsent" /\ r[1] \in Calls
        /\ step' = [step EXCEPT ![r] = "replied"] /\ reply' = [reply EXCEPT ![r] = "transient"]
        /\ linked' \in {linked, linked \union {Acknowledged(r)}}
        /\ UNCHANGED <<force, client, work, rival, households, known>>
    BY <1>5, RunningRequest DEF Die, ServerSteps
  <2>3. /\ Acknowledged(r) \in Households
        /\ Copy(r) \in Households /\ CallOf(Copy(r)) = r[1]
        /\ work[r].missing \subseteq Steps
    BY DEF Acknowledged, Copy, Households, CallOf, IInv, TypeOK
  <2>4. contacts' \subseteq Households \X Members /\ tasks' \subseteq Households \X Steps
    BY <2>1, <2>3 DEF IInv, TypeOK
  <2>5. owed' \subseteq Households /\ shaky' \subseteq Calls
    BY <2>1, <2>2, <2>3 DEF IInv, TypeOK
  <2>6. TypeOK'
    BY <2>2, <2>3, <2>4, <2>5 DEF IInv, TypeOK, Replies, client
  <2>7. CASE copies = {}
    BY <2>1, <2>2, <2>6, <2>7, QuietHandlerInv DEF HarmlessSteps
  <2>8. CASE copies # {}
    <3>1. step[r] = "creating" /\ owed' = owed \union {Copy(r)}
      BY <2>1, <2>8
    <3>2. pc[r[1]] # "idle" /\ ~(r[1] \in known /\ ~force[r[1]])
      BY <2>2, <3>1, RunningRequest DEF HarmlessSteps
    <3>3. BackoffInv' /\ IdleInv'
      BY <2>2, <2>3, <3>1, <3>2 DEF IInv, TypeOK, BackoffInv, IdleInv, client
    <3>4. BlockedInv'
      BY <2>2, <2>3, <3>1, <3>2 DEF IInv, TypeOK, BlockedInv, Existing
    <3> QED BY <2>6, <3>3, <3>4 DEF IInv
  <2> QED BY <2>7, <2>8
<1> QED BY <1>1, <1>2, <1>3, <1>4, <1>5 DEF Handler

\* Every step keeps the invariant.
LEMMA NextInv == IInv /\ [Next]_vars => IInv'
<1> SUFFICES ASSUME IInv, [Next]_vars PROVE IInv'
  OBVIOUS
<1>1. ASSUME NEW c \in Calls, Browser(c) PROVE IInv'
  BY <1>1, BrowserInv
<1>2. ASSUME NEW r \in Requests, Handler(r) PROVE IInv'
  BY <1>2, HandlerInv
<1>3. ASSUME NEW h \in Households, LateCommit(h) PROVE IInv'
  BY <1>3 DEF LateCommit, IInv, TypeOK, BackoffInv, IdleInv, BlockedInv, Existing, client
<1>4. CASE RivalCreates
  BY <1>4 DEF RivalCreates, IInv, TypeOK, BackoffInv, IdleInv, BlockedInv, Existing, client
<1>5. CASE UNCHANGED vars
  BY <1>5 DEF vars, client, salesforce, IInv, TypeOK, BackoffInv, IdleInv, BlockedInv, Existing
<1> QED BY <1>1, <1>2, <1>3, <1>4, <1>5 DEF Next

\* The strengthened invariant holds in every reachable state.
THEOREM Invariant == Spec => []IInv
  BY InitInv, NextInv, PTL DEF Spec

\* A call without force never adds a household for a family that had one when
\* it began: the duplicate check holds across every retry of callSF, every
\* request left running and every create that Salesforce carries out late.
THEOREM UnforcedRespectsExistingHolds == Spec => []UnforcedRespectsExisting
<1>1. IInv => UnforcedRespectsExisting
  BY DEF IInv, TypeOK, BlockedInv, UnforcedRespectsExisting, MadeBy
<1> QED BY <1>1, Invariant, PTL
-------------------------------------------------------------------------------
(* What an answer says: AnswerInv, on top of IInv. *)

\* The invariant holds before the first call.
LEMMA AnswerInit == Init => AnswerInv
<1> SUFFICES ASSUME Init PROVE AnswerInv
  OBVIOUS
<1>1. ASSUME NEW r \in Requests PROVE RequestInv(r)
  BY DEF Init, RequestInv, ContactsOf, TasksOf, MadeSteps
<1>2. ASSUME NEW c \in Calls PROVE CallInv(c)
  <2>1. \A a \in Attempts : <<c, a>> \in Requests
    BY DEF Requests
  <2> QED BY <2>1, CreationAssumption DEF Init, CallInv, CalmInv, Attempts
<1> QED BY <1>1, <1>2 DEF Init, AnswerInv, OwedInv

\* The browser sends only requests that were never sent: what they hold is empty.
LEMMA BrowserRequestInv ==
  ASSUME IInv, AnswerInv, NEW c \in Calls, Browser(c)
  PROVE  /\ \A r \in Requests : RequestInv(r)'
         /\ OwedInv'
<1>1. UNCHANGED <<reply, work, salesforce>> /\ shaky \subseteq shaky'
  BY DEF Browser, Call, Send, Resend, Retry, ReadBody, RefreshToken, TakeAnswer, Drop, GiveUp
<1>2. ASSUME NEW r \in Requests
      PROVE  \/ step'[r] = step[r]
             \/ step[r] = "unsent" /\ step'[r] = "arriving"
             \/ step[r] = "arriving" /\ step'[r] = "gone"
  <2>1. CASE Send(c)
    <3>1. step[Current(c)] = "unsent"
      BY <2>1 DEF Send, Current, AnswerInv, CallInv, IInv, TypeOK
    <3> QED BY <2>1, <3>1 DEF Send, IInv, TypeOK
  <2>2. CASE Drop(c)
    BY <2>2 DEF Drop, IInv, TypeOK
  <2>3. CASE \/ Call(c) \/ Resend(c) \/ Retry(c) \/ ReadBody(c) \/ RefreshToken(c)
             \/ TakeAnswer(c) \/ GiveUp(c)
    BY <2>3 DEF Call, Resend, Retry, ReadBody, RefreshToken, TakeAnswer, GiveUp
  <2> QED BY <2>1, <2>2, <2>3 DEF Browser
<1>3. ASSUME NEW r \in Requests PROVE RequestInv(r)'
  <2>1. RequestInv(r)
    BY DEF AnswerInv
  <2> QED BY <1>1, <1>2, <2>1 DEF RequestInv, ContactsOf, TasksOf, MadeSteps, salesforce
<1> QED BY <1>1, <1>3 DEF AnswerInv, OwedInv, salesforce

\* A call's own steps keep what is claimed of it.
LEMMA BrowserCallInv ==
  ASSUME IInv, AnswerInv, NEW c \in Calls, Browser(c)
  PROVE  CallInv(c)'
<1> USE CreationAssumption DEF Attempts
<1>1. /\ CallInv(c)
      /\ \A a \in Attempts : <<c, a>> \in Requests
      /\ \A r \in Requests : RequestInv(r)
      /\ attempt[c] \in Attempts
  BY DEF AnswerInv, Requests, IInv, TypeOK
<1>2. CASE Call(c)
  <2>1. /\ attempt' = attempt /\ pc'[c] = "token" /\ answer'[c] = answer[c] /\ pc[c] = "idle"
        /\ UNCHANGED <<step, reply, households, owed, force, shaky>>
    BY <1>2 DEF Call, IInv, TypeOK, salesforce
  <2>2. \A a \in Attempts : step[<<c, a>>] = "unsent"
    BY <1>1, <2>1 DEF IInv, IdleInv
  <2> QED BY <1>1, <2>1, <2>2 DEF CallInv, CalmInv, CallOf, Acknowledged
<1>3. CASE Send(c)
  <2>1. /\ attempt' = attempt /\ pc'[c] = "waiting" /\ answer'[c] = answer[c] /\ pc[c] = "token"
        /\ \A r \in Requests : step'[r] = IF r = <<c, attempt[c]>> THEN "arriving" ELSE step[r]
        /\ UNCHANGED <<reply, households, owed, force, shaky>>
    BY <1>3 DEF Send, Current, IInv, TypeOK, salesforce
  <2>2. step[<<c, attempt[c]>>] = "unsent"
    BY <1>1, <2>1 DEF CallInv
  <2>3. \A a \in Attempts : a > attempt[c] => step'[<<c, a>>] = "unsent"
    BY <1>1, <2>1 DEF CallInv
  <2>4. answer[c] # "success"
    BY <1>1, <2>1 DEF CallInv
  <2>5. ASSUME c \notin shaky PROVE CalmInv(c)'
    <3>1. CalmInv(c)
      BY <1>1, <2>5 DEF CallInv
    <3>2. ~force[c] => \A a, b \in Attempts :
             a # b /\ Acknowledged(<<c, a>>) \in households =>
               step'[<<c, b>>] \in HarmlessSteps /\ Acknowledged(<<c, b>>) \notin households
      BY <1>1, <2>1, <3>1 DEF CalmInv, HarmlessSteps
    <3> QED BY <1>1, <2>1, <3>1, <3>2 DEF CalmInv, CallOf, Acknowledged
  <2> QED BY <1>1, <2>1, <2>3, <2>4, <2>5 DEF CallInv
<1>4. CASE Resend(c)
  <2>1. /\ attempt'[c] = attempt[c] + 1 /\ pc'[c] = "token" /\ pc[c] = "backoff"
        /\ UNCHANGED <<step, reply, households, owed, force, shaky, answer>>
    BY <1>4 DEF Resend, IInv, TypeOK, salesforce
  <2>2. answer[c] # "success"
    BY <1>1, <2>1 DEF CallInv
  <2>3. \A a \in Attempts : a >= attempt'[c] => step[<<c, a>>] = "unsent"
    BY <1>1, <2>1 DEF CallInv
  <2>4. ASSUME c \notin shaky PROVE CalmInv(c)'
    <3>1. CalmInv(c)
      BY <1>1, <2>4 DEF CallInv
    <3>2. \A a \in Attempts : a < attempt[c] + 1 => reply[<<c, a>>] \in {"transient", "csrf"}
      BY <1>1, <2>1, <3>1 DEF CalmInv
    <3> QED BY <1>1, <2>1, <3>1, <3>2 DEF CalmInv, CallOf, Acknowledged
  <2> QED BY <1>1, <2>1, <2>2, <2>3, <2>4 DEF CallInv
<1>5. CASE RefreshToken(c)
  <2>1. /\ attempt'[c] = 1 /\ attempt[c] = 0 /\ pc'[c] = "token" /\ pc[c] = "reading"
        /\ reply[<<c, 0>>] = "csrf"
        /\ UNCHANGED <<step, reply, households, owed, force, shaky, answer>>
    BY <1>5 DEF RefreshToken, TokenRejected, Current, IInv, TypeOK, salesforce
  <2>2. answer[c] # "success"
    BY <1>1, <2>1 DEF CallInv
  <2>3. \A a \in Attempts : a >= attempt'[c] => step[<<c, a>>] = "unsent"
    BY <1>1, <2>1 DEF CallInv
  <2>4. ASSUME c \notin shaky PROVE CalmInv(c)'
    <3>1. CalmInv(c)
      BY <1>1, <2>4 DEF CallInv
    <3>2. \A a \in Attempts : a < 1 => reply[<<c, a>>] \in {"transient", "csrf"}
      BY <1>1, <2>1
    <3> QED BY <1>1, <2>1, <3>1, <3>2 DEF CalmInv, CallOf, Acknowledged
  <2> QED BY <1>1, <2>1, <2>2, <2>3, <2>4 DEF CallInv
<1>6. CASE Retry(c) \/ ReadBody(c)
  <2>1. /\ pc[c] = "waiting" /\ reply[Current(c)] # "none"
        /\ \/ pc'[c] = "backoff" /\ reply[Current(c)] = "transient"
           \/ pc'[c] = "reading"
        /\ UNCHANGED <<attempt, step, reply, households, owed, force, shaky, answer>>
    BY <1>6 DEF Retry, ReadBody, TransientAgain, IInv, TypeOK, salesforce
  <2>2. Current(c)' = Current(c) /\ answer[c] # "success"
    BY <1>1, <2>1 DEF Current, CallInv
  <2> QED BY <1>1, <2>1, <2>2 DEF CallInv, CalmInv, CallOf, Acknowledged, Current
<1>7. CASE TakeAnswer(c)
  <2>1. /\ pc'[c] = "done" /\ pc[c] = "reading"
        /\ answer'[c] = IF reply[Current(c)] = "csrf" THEN "error" ELSE reply[Current(c)]
        /\ UNCHANGED <<attempt, step, reply, households, owed, force, shaky>>
    BY <1>7 DEF TakeAnswer, Finish, IInv, TypeOK, salesforce
  <2>2. step[Current(c)] = "replied"
    BY <1>1, <2>1 DEF RequestInv, CallInv, Current
  <2>3. Current(c)' = Current(c)
    BY <2>1 DEF Current
  <2> QED BY <1>1, <2>1, <2>2, <2>3 DEF CallInv, CalmInv, CallOf, Acknowledged
<1>8. CASE Drop(c) \/ GiveUp(c)
  <2>1. /\ c \in shaky' /\ attempt' = attempt
        /\ pc'[c] \in {"backoff", "done"} /\ pc[c] # "token"
        /\ answer'[c] # "success"
        /\ \A a \in Attempts : step[<<c, a>>] = "unsent" => step'[<<c, a>>] = "unsent"
    BY <1>1, <1>8 DEF Drop, GiveUp, Finish, Current, CallInv, IInv, TypeOK
  <2> QED BY <1>1, <2>1 DEF CallInv
<1> QED BY <1>2, <1>3, <1>4, <1>5, <1>6, <1>7, <1>8 DEF Browser

\* The steps of one call's browser are nothing to another call.
LEMMA BrowserOtherCall ==
  ASSUME IInv, AnswerInv, NEW c \in Calls, Browser(c), NEW d \in Calls, d # c
  PROVE  CallInv(d)'
<1>1. /\ \A a \in Attempts : <<d, a>> \in Requests
      /\ \A a \in Attempts : step'[<<d, a>>] = step[<<d, a>>]
      /\ attempt'[d] = attempt[d] /\ pc'[d] = pc[d] /\ answer'[d] = answer[d]
      /\ UNCHANGED <<reply, households, owed, force>>
      /\ d \notin shaky' => d \notin shaky
      /\ attempt[d] \in Attempts
  BY CreationAssumption DEF Browser, Call, Send, Resend, Retry, ReadBody, RefreshToken, TakeAnswer,
     Drop, GiveUp, Finish, Current, Requests, Attempts, IInv, TypeOK, salesforce
<1>2. Current(d)' = Current(d) /\ step'[Current(d)] = step[Current(d)]
  BY <1>1 DEF Current
<1>3. CallInv(d)
  BY DEF AnswerInv
<1> QED BY <1>1, <1>2, <1>3 DEF CallInv, CalmInv, CallOf, Acknowledged

\* What a handler's step changes is its own request's.
LEMMA HandlerUntouched ==
  ASSUME TypeOK, NEW q \in Requests, Handler(q)
  PROVE  /\ UNCHANGED <<force, client>>
         /\ shaky \subseteq shaky' /\ shaky' \subseteq shaky \union {q[1]}
         /\ \A r \in Requests \ {q} :
              /\ step'[r] = step[r] /\ reply'[r] = reply[r] /\ work'[r] = work[r]
              /\ Acknowledged(r) \in households' <=> Acknowledged(r) \in households
              /\ ContactsOf(r)' = ContactsOf(r) /\ TasksOf(r)' = TasksOf(r)
<1> USE DEF Reply, Goto, Shake, salesforce
<1>1. CASE Reject(q) \/ Accept(q) \/ QueryFails(q) \/ FindHouseholdByName(q)
  BY <1>1 DEF Reject, Accept, QueryFails, FindHouseholdByName, TypeOK, ContactsOf, TasksOf
<1>2. CASE CreateHousehold(q) \/ CreateFails(q)
  BY <1>2 DEF CreateHousehold, CreateFails, TypeOK, ContactsOf, TasksOf, Acknowledged
<1>3. CASE CreateContacts(q)
  BY <1>3 DEF CreateContacts, TypeOK, ContactsOf, TasksOf, Acknowledged
<1>4. CASE Relate(q)
  BY <1>4 DEF Relate, TypeOK, ContactsOf, TasksOf
<1>5. CASE QueryWorkflowTasks(q)
  BY <1>5 DEF QueryWorkflowTasks, TypeOK, ContactsOf, TasksOf
<1>6. CASE CreateTasks(q)
  BY <1>6 DEF CreateTasks, TypeOK, ContactsOf, TasksOf, Acknowledged
<1>7. CASE Die(q)
  BY <1>7 DEF Die, TypeOK, ContactsOf, TasksOf, Acknowledged
<1> QED BY <1>1, <1>2, <1>3, <1>4, <1>5, <1>6, <1>7 DEF Handler

\* A handler keeps what is claimed of its own request.
LEMMA HandlerRequestInv ==
  ASSUME TypeOK, NEW r \in Requests, RequestInv(r), Handler(r)
  PROVE  RequestInv(r)'
<1> USE DEF Reply, Goto, Shake, salesforce
<1>1. CASE Reject(r) \/ Accept(r) \/ QueryFails(r) \/ FindHouseholdByName(r)
  BY <1>1 DEF Reject, Accept, QueryFails, FindHouseholdByName, TypeOK, ContactsOf, TasksOf,
     RequestInv, MadeSteps, ServerSteps
<1>2. CASE CreateHousehold(r) \/ CreateFails(r)
  <2>1. Copy(r) # Acknowledged(r)
    BY DEF Copy, Acknowledged
  <2> QED
    BY <1>2, <2>1 DEF CreateHousehold, CreateFails, TypeOK, ContactsOf, TasksOf, RequestInv, MadeSteps
<1>3. CASE CreateContacts(r)
  <2>1. PICK ok \in SUBSET Members, lost \in SUBSET Members :
           /\ contacts' = contacts \union ({Acknowledged(r)} \X (ok \union lost))
           /\ work' = [work EXCEPT ![r].contacts = ok]
           /\ Shake(r, lost)
           /\ Goto(r, IF Cardinality(ok) >= 2 THEN "relating" ELSE "querying")
    BY <1>3 DEF CreateContacts
  <2>2. /\ step[r] = "contacts" /\ step'[r] \in {"relating", "querying"}
        /\ UNCHANGED <<reply, households, tasks>>
    BY <1>3, <2>1 DEF CreateContacts, TypeOK
  <2>3. /\ work'[r].contacts = ok /\ work'[r].tasks = work[r].tasks
        /\ ContactsOf(r) = {}
    BY <2>1, <2>2 DEF TypeOK, RequestInv, MadeSteps
  <2>4. ContactsOf(r)' = ok \union lost
    BY <2>1, <2>3 DEF ContactsOf
  <2>5. r[1] \notin shaky' => lost = {} /\ r[1] \notin shaky
    BY <2>1
  <2>6. TasksOf(r)' = TasksOf(r)
    BY <2>2 DEF TasksOf
  <2> QED BY <2>2, <2>3, <2>4, <2>5, <2>6 DEF RequestInv, MadeSteps
<1>4. CASE Relate(r)
  BY <1>4 DEF Relate, TypeOK, ContactsOf, TasksOf, RequestInv, MadeSteps
<1>5. CASE QueryWorkflowTasks(r)
  BY <1>5 DEF QueryWorkflowTasks, TypeOK, ContactsOf, TasksOf, RequestInv, MadeSteps
<1>6. CASE CreateTasks(r)
  <2>1. PICK ok \in SUBSET work[r].missing, lost \in SUBSET work[r].missing :
           /\ tasks' = tasks \union ({Acknowledged(r)} \X (ok \union lost))
           /\ work' = [work EXCEPT ![r].tasks = ok]
           /\ Shake(r, lost)
    BY <1>6 DEF CreateTasks
  <2>2. /\ step[r] = "tasking" /\ step'[r] = "replied" /\ reply'[r] = "success"
        /\ UNCHANGED <<households, contacts>>
        /\ work[r].missing \subseteq Steps
    BY <1>6 DEF CreateTasks, TypeOK
  <2>3. /\ work'[r].tasks = ok /\ work'[r].contacts = work[r].contacts
        /\ TasksOf(r) = {}
    BY <2>1, <2>2 DEF TypeOK, RequestInv
  <2>4. TasksOf(r)' = ok \union lost
    BY <2>1, <2>2, <2>3 DEF TasksOf
  <2>5. r[1] \notin shaky' => lost = {} /\ r[1] \notin shaky
    BY <2>1
  <2>6. ContactsOf(r)' = ContactsOf(r)
    BY <2>2 DEF ContactsOf
  <2> QED BY <2>2, <2>3, <2>4, <2>5, <2>6 DEF RequestInv, MadeSteps
<1>7. CASE Die(r)
  <2>1. PICK copies \in SUBSET (IF step[r] = "creating" THEN {Copy(r)} ELSE {}),
             people \in SUBSET (IF step[r] = "contacts" THEN Members ELSE {}),
             todo \in SUBSET (IF step[r] = "tasking" THEN work[r].missing ELSE {}) :
           /\ owed' = owed \union copies
           /\ contacts' = contacts \union ({Acknowledged(r)} \X people)
           /\ tasks' = tasks \union ({Acknowledged(r)} \X todo)
           /\ Shake(r, copies \union people \union todo)
    BY <1>7 DEF Die
  <2>2. /\ step[r] \in ServerSteps /\ step'[r] = "replied" /\ reply'[r] = "transient"
        /\ UNCHANGED <<work, households>>
        /\ work[r].missing \subseteq Steps
    BY <1>7 DEF Die, TypeOK
  <2>3. /\ ContactsOf(r)' = ContactsOf(r) \union people
        /\ TasksOf(r)' = TasksOf(r) \union todo
    BY <2>1, <2>2 DEF ContactsOf, TasksOf
  <2>4. r[1] \notin shaky' => people = {} /\ todo = {} /\ r[1] \notin shaky
    BY <2>1
  <2>5. step[r] # "replied" /\ reply[r] # "success"
    BY <2>2 DEF ServerSteps, RequestInv
  <2> QED BY <2>2, <2>3, <2>4, <2>5 DEF RequestInv, MadeSteps
<1> QED BY <1>1, <1>2, <1>3, <1>4, <1>5, <1>6, <1>7 DEF Handler

\* What a handler adds at Salesforce is of its own request, and late only as a copy.
LEMMA HandlerAdds ==
  ASSUME NEW r \in Requests, Handler(r)
  PROVE  /\ \A h \in households' : h \in households \/ h = Acknowledged(r)
         /\ \A h \in owed' : h \in owed \/ h = Copy(r)
         /\ \A x \in contacts' : x \in contacts \/ x[1] = Acknowledged(r)
         /\ \A x \in tasks' : x \in tasks \/ x[1] = Acknowledged(r)
         /\ households \subseteq households' /\ contacts \subseteq contacts' /\ tasks \subseteq tasks'
<1>1. CASE Reject(r) \/ Accept(r) \/ QueryFails(r) \/ FindHouseholdByName(r) \/ QueryWorkflowTasks(r)
  BY <1>1 DEF Reject, Accept, QueryFails, FindHouseholdByName, QueryWorkflowTasks, salesforce
<1>2. CASE CreateHousehold(r) \/ CreateFails(r) \/ Relate(r)
  BY <1>2 DEF CreateHousehold, CreateFails, Relate
<1>3. CASE CreateContacts(r) \/ CreateTasks(r)
  BY <1>3 DEF CreateContacts, CreateTasks
<1>4. CASE Die(r)
  BY <1>4 DEF Die
<1> QED BY <1>1, <1>2, <1>3, <1>4 DEF Handler

\* Only copies are added to what comes late.
LEMMA HandlerOwedInv ==
  ASSUME OwedInv, NEW r \in Requests, Handler(r)
  PROVE  OwedInv'
  BY HandlerAdds DEF OwedInv, Copy

\* A handler at work on an unbroken call is the one request the call waits for.
LEMMA HandlerOfCalm ==
  ASSUME IInv, AnswerInv, NEW r \in Requests, Handler(r), r[1] \notin shaky
  PROVE  /\ r = Current(r[1]) /\ pc[r[1]] = "waiting"
         /\ step[r] # "replied" /\ step[r] # "unsent"
         /\ \A b \in Attempts : b # attempt[r[1]] => step[<<r[1], b>>] \in {"replied", "unsent"}
<1> USE CreationAssumption DEF Attempts
<1>1. /\ step[r] # "replied" /\ step[r] # "unsent"
  BY DEF Handler, Reject, Accept, QueryFails, FindHouseholdByName, CreateHousehold,
     CreateFails, CreateContacts, Relate, QueryWorkflowTasks, CreateTasks, Die, ServerSteps
<1>2. PICK c \in Calls, a \in Attempts : r = <<c, a>>
  BY DEF Requests
<1>3. /\ CallInv(c) /\ CalmInv(c) /\ attempt[c] \in Attempts /\ c = r[1]
      /\ \A b \in Attempts : <<c, b>> \in Requests /\ RequestInv(<<c, b>>)
  BY <1>2 DEF AnswerInv, CallInv, Requests, IInv, TypeOK
<1>4. \A b \in Attempts : /\ b > attempt[c] => step[<<c, b>>] = "unsent"
                          /\ b < attempt[c] => step[<<c, b>>] = "replied"
  BY <1>3 DEF CallInv, CalmInv, RequestInv
<1>5. a = attempt[c]
  BY <1>1, <1>2, <1>3, <1>4
<1>6. pc[c] \notin {"idle", "token", "backoff", "reading", "done"}
  BY <1>1, <1>2, <1>3, <1>5, RunningRequest DEF CallInv, CalmInv, RequestInv, Current
<1>7. pc[c] = "waiting"
  BY <1>3, <1>6 DEF IInv, TypeOK, ClientSteps
<1>8. \A b \in Attempts : b # attempt[c] => step[<<c, b>>] \in {"replied", "unsent"}
  BY <1>3, <1>4
<1> QED BY <1>1, <1>2, <1>3, <1>5, <1>7, <1>8 DEF Current

\* A handler keeps what is claimed of every call.
LEMMA HandlerCallInv ==
  ASSUME IInv, AnswerInv, NEW r \in Requests, Handler(r), NEW c \in Calls
  PROVE  CallInv(c)'
<1> USE CreationAssumption DEF Attempts
<1>1. /\ CallInv(c)
      /\ \A a \in Attempts : <<c, a>> \in Requests /\ RequestInv(<<c, a>>)
      /\ attempt[c] \in Attempts /\ Current(c) \in Requests
      /\ attempt' = attempt /\ pc' = pc /\ answer' = answer /\ force' = force
      /\ Current(c)' = Current(c) /\ RequestInv(r)
      /\ r[1] \in Calls /\ r[2] \in Attempts /\ r = <<r[1], r[2]>>
  BY HandlerUntouched DEF AnswerInv, Requests, IInv, TypeOK, Current, client
<1>2. step[r] # "unsent" /\ step[r] # "replied"
  BY DEF Handler, Reject, Accept, QueryFails, FindHouseholdByName, CreateHousehold,
     CreateFails, CreateContacts, Relate, QueryWorkflowTasks, CreateTasks, Die, ServerSteps
<1>3. \A q \in Requests \ {r} :
        /\ step'[q] = step[q] /\ reply'[q] = reply[q]
        /\ Acknowledged(q) \in households' <=> Acknowledged(q) \in households
  BY HandlerUntouched DEF IInv
<1>4. /\ \A a \in Attempts : a > attempt'[c] \/ (a = attempt'[c] /\ pc'[c] = "token") =>
            step'[<<c, a>>] = "unsent"
      /\ pc'[c] = "reading" => reply'[Current(c)] # "none"
  <2>1. pc[c] = "reading" => Current(c) # r
    BY <1>1, <1>2 DEF CallInv, RequestInv
  <2> QED BY <1>1, <1>2, <1>3, <2>1 DEF CallInv
<1>5. ASSUME answer[c] = "success" PROVE pc[c] = "done" /\ reply'[Current(c)] = "success"
  <2>1. pc[c] = "done" /\ reply[Current(c)] = "success"
    BY <1>1, <1>5 DEF CallInv
  <2>2. Current(c) # r
    BY <1>1, <1>2, <2>1 DEF RequestInv
  <2> QED BY <1>1, <1>3, <2>1, <2>2
<1>6. ASSUME c \notin shaky' PROVE CalmInv(c)'
  <2>1. c \notin shaky /\ CalmInv(c)
    BY <1>1, <1>6, HandlerUntouched DEF IInv, CallInv
  <2>2. CASE r[1] # c
    <3>1. \A a \in Attempts : /\ step'[<<c, a>>] = step[<<c, a>>]
                              /\ reply'[<<c, a>>] = reply[<<c, a>>]
                              /\ Acknowledged(<<c, a>>) \in households' <=> Acknowledged(<<c, a>>) \in households
      BY <1>1, <1>3, <2>2
    <3>2. step'[Current(c)] = step[Current(c)]
      BY <1>1, <3>1 DEF Current
    <3>3. \A h \in households' \union owed' : h \in households \union owed \/ CallOf(h) = r[1]
      BY HandlerAdds DEF Acknowledged, Copy, CallOf
    <3> QED BY <1>1, <2>1, <2>2, <3>1, <3>2, <3>3 DEF CalmInv, CallOf
  <2>3. CASE r[1] = c
    <3>1. /\ r = Current(c) /\ pc[c] = "waiting"
          /\ \A b \in Attempts : b # attempt[c] => step[<<c, b>>] \in {"replied", "unsent"}
      BY <2>1, <2>3, HandlerOfCalm
    <3>2. \A a \in Attempts : a # attempt[c] =>
             /\ step'[<<c, a>>] = step[<<c, a>>]
             /\ reply'[<<c, a>>] = reply[<<c, a>>]
             /\ Acknowledged(<<c, a>>) \in households' <=> Acknowledged(<<c, a>>) \in households
      BY <1>1, <1>3, <3>1 DEF Current
    <3>3. \A a \in Attempts : a < attempt[c] => reply'[<<c, a>>] \in {"transient", "csrf"}
      BY <1>1, <2>1, <3>2 DEF CalmInv
    <3>4. /\ \A h \in households' \union owed' : h \in households \union owed \/ h = Acknowledged(r)
          /\ Existing /\ ~force[c] => step'[r] \in HarmlessSteps \/ step[r] # "finding"
          /\ Acknowledged(r) \in households' => Acknowledged(r) \in households \/ step[r] = "creating"
          /\ step[r] \in {"arriving", "finding"} /\ step'[r] \notin HarmlessSteps =>
               step[r] = "finding" /\ ~(Existing /\ ~force[c])
          /\ \/ step'[r] \in HarmlessSteps
             \/ step[r] \in {"finding", "creating", "contacts", "relating", "querying", "tasking"}
      <4>1. step \in [Requests -> ServerSteps \union {"unsent", "arriving", "replied", "gone"}]
        BY DEF IInv, TypeOK
      <4>2. CASE Reject(r) \/ Accept(r) \/ QueryFails(r) \/ FindHouseholdByName(r)
        BY <2>3, <4>1, <4>2 DEF Reject, Accept, QueryFails, FindHouseholdByName, Reply, Goto,
           HarmlessSteps, salesforce
      <4>5. CASE Die(r)
        BY <1>6, <2>3, <4>1, <4>5 DEF Die, Reply, Shake, HarmlessSteps, ServerSteps
      <4>3. CASE CreateHousehold(r) \/ CreateFails(r)
        BY <1>6, <2>3, <4>1, <4>3 DEF CreateHousehold, CreateFails, Reply, Goto, Shake, HarmlessSteps
      <4>4. CASE CreateContacts(r) \/ Relate(r) \/ QueryWorkflowTasks(r) \/ CreateTasks(r)
        BY <4>1, <4>4 DEF CreateContacts, Relate, QueryWorkflowTasks, CreateTasks, Reply, Goto,
           HarmlessSteps, salesforce
      <4> QED BY <4>2, <4>3, <4>4, <4>5 DEF Handler
    <3>5. ASSUME ~force[c], NEW a \in Attempts, NEW b \in Attempts, a # b,
                 Acknowledged(<<c, a>>) \in households'
          PROVE  step'[<<c, b>>] \in HarmlessSteps /\ Acknowledged(<<c, b>>) \notin households'
      <4>1. CASE b = attempt[c]
        <5>1. r = <<c, b>> /\ Acknowledged(<<c, a>>) \in households
          BY <3>1, <3>2, <3>5, <4>1 DEF Current
        <5>2. step[r] \in HarmlessSteps /\ Acknowledged(r) \notin households /\ Existing
          BY <2>1, <3>5, <5>1 DEF CalmInv, Existing
        <5>3. step[r] # "creating"
          BY <5>2 DEF HarmlessSteps
        <5> QED BY <1>2, <3>4, <3>5, <5>1, <5>2, <5>3 DEF HarmlessSteps
      <4>2. CASE b # attempt[c]
        <5>1. step'[<<c, b>>] \in HarmlessSteps
          BY <3>1, <3>2, <4>2 DEF HarmlessSteps
        <5>2. Acknowledged(<<c, b>>) \in households =>
                step[r] \in HarmlessSteps /\ Acknowledged(r) \notin households
          BY <1>1, <2>1, <3>1, <3>5, <4>2 DEF CalmInv, Current
        <5>3. CASE a = attempt[c]
          <6>1. Acknowledged(r) \in households \/ step[r] = "creating"
            BY <3>1, <3>4, <3>5, <5>3 DEF Current
          <6>2. Acknowledged(<<c, b>>) \notin households
            BY <5>2, <6>1 DEF HarmlessSteps
          <6> QED BY <3>2, <4>2, <5>1, <6>2
        <5>4. CASE a # attempt[c]
          BY <2>1, <3>2, <3>5, <4>2, <5>1, <5>4 DEF CalmInv
        <5> QED BY <5>3, <5>4
      <4> QED BY <4>1, <4>2
    <3>6. \A h \in households' \union owed' : CallOf(h) = c => h[2] = "acknowledged"
      BY <2>1, <3>4 DEF CalmInv, Acknowledged
    <3> QED BY <1>1, <3>1, <3>3, <3>5, <3>6 DEF CalmInv, CallOf
  <2> QED BY <2>2, <2>3
<1> QED BY <1>1, <1>4, <1>5, <1>6 DEF CallInv

\* Every step keeps the invariant.
LEMMA AnswerNext == IInv /\ AnswerInv /\ [Next]_vars => AnswerInv'
<1> SUFFICES ASSUME IInv, AnswerInv, [Next]_vars PROVE AnswerInv'
  OBVIOUS
<1>1. ASSUME NEW c \in Calls, Browser(c) PROVE AnswerInv'
  BY <1>1, BrowserRequestInv, BrowserCallInv, BrowserOtherCall DEF AnswerInv
<1>2. ASSUME NEW q \in Requests, Handler(q) PROVE AnswerInv'
  <2>1. ASSUME NEW r \in Requests PROVE RequestInv(r)'
    <3>1. RequestInv(r) /\ (r = q => Handler(r))
      BY <1>2 DEF AnswerInv
    <3>2. CASE r = q
      BY <3>1, <3>2, HandlerRequestInv DEF IInv
    <3>3. CASE r # q
      BY <1>2, <3>1, <3>3, HandlerUntouched DEF IInv, RequestInv, MadeSteps
    <3> QED BY <3>2, <3>3
  <2> QED BY <1>2, <2>1, HandlerCallInv, HandlerOwedInv DEF AnswerInv
<1>3. ASSUME NEW g \in Households, LateCommit(g) PROVE AnswerInv'
  <2>1. /\ g[2] = "copy" /\ owed' \subseteq owed /\ households' = households \union {g} /\ g \in owed
        /\ UNCHANGED <<force, client, step, reply, work, contacts, tasks, shaky>>
    BY <1>3 DEF LateCommit, AnswerInv, OwedInv
  <2>2. \A r \in Requests : Acknowledged(r) \in households' <=> Acknowledged(r) \in households
    BY <2>1 DEF Acknowledged
  <2>3. ASSUME NEW r \in Requests PROVE RequestInv(r)'
    BY <2>1, <2>2 DEF AnswerInv, RequestInv, ContactsOf, TasksOf
  <2>4. ASSUME NEW c \in Calls PROVE CallInv(c)'
    <3>1. \A a \in Attempts : <<c, a>> \in Requests
      BY DEF Requests
    <3> QED BY <2>1, <2>2, <3>1 DEF AnswerInv, CallInv, CalmInv, client, Current, CallOf
  <2> QED BY <2>1, <2>3, <2>4 DEF AnswerInv, OwedInv
<1>4. CASE RivalCreates \/ UNCHANGED vars
  <2>1. UNCHANGED <<force, client, step, reply, work, households, owed, contacts, tasks, shaky>>
    BY <1>4 DEF RivalCreates, vars, salesforce
  <2> QED BY <2>1 DEF AnswerInv, RequestInv, CallInv, CalmInv, OwedInv, ContactsOf, TasksOf, client,
     Current, CallOf
<1> QED BY <1>1, <1>2, <1>3, <1>4 DEF Next

\* It holds in every reachable state.
THEOREM AnswerInvariant == Spec => []AnswerInv
  BY AnswerInit, AnswerNext, Invariant, PTL DEF Spec

\* A success names a household, contacts and tasks that are there, and on unbroken
\* connections all of them: no answer mixes in what another attempt has made.
THEOREM SuccessIsRealHolds == Spec => []SuccessIsReal
<1>1. ASSUME TypeOK, AnswerInv PROVE SuccessIsReal
  <2> SUFFICES ASSUME NEW c \in Calls, answer[c] = "success"
      PROVE  LET h == Acknowledged(Current(c)) IN
               /\ h \in households
               /\ \A m \in work[Current(c)].contacts : <<h, m>> \in contacts
               /\ \A s \in work[Current(c)].tasks : <<h, s>> \in tasks
               /\ c \notin shaky =>
                    /\ \A m \in Members : <<h, m>> \in contacts => m \in work[Current(c)].contacts
                    /\ \A s \in Steps : <<h, s>> \in tasks => s \in work[Current(c)].tasks
    BY DEF SuccessIsReal
  <2>1. Current(c) \in Requests /\ Current(c)[1] = c
    BY <1>1 DEF TypeOK, Current, Requests
  <2>2. RequestInv(Current(c)) /\ reply[Current(c)] = "success"
    BY <1>1, <2>1 DEF AnswerInv, CallInv
  <2> QED BY <2>1, <2>2 DEF RequestInv, ContactsOf, TasksOf
<1> QED BY <1>1, Invariant, AnswerInvariant, PTL DEF IInv

\* On unbroken connections a call makes a second household only with force, behind an
\* attempt that failed transiently after its create.
THEOREM DuplicatesExplainedHolds == Spec => []DuplicatesExplained
<1>1. ASSUME TypeOK, AnswerInv PROVE DuplicatesExplained
  <2> SUFFICES ASSUME NEW c \in Calls \ shaky, NEW h \in MadeBy(c), NEW g \in MadeBy(c), h # g
      PROVE  force[c] /\ \E r \in {h[1], g[1]} : reply[r] = "transient"
    BY DEF DuplicatesExplained
  <2>1. CalmInv(c) /\ CallInv(c)
    BY <1>1 DEF AnswerInv, CallInv
  <2>2. ASSUME NEW k \in MadeBy(c)
        PROVE  \E a \in Attempts : k = Acknowledged(<<c, a>>)
    <3>1. k \in Households /\ k \in households /\ CallOf(k) = c /\ k[2] = "acknowledged"
      BY <1>1, <2>1 DEF MadeBy, TypeOK, CalmInv
    <3> QED BY <3>1 DEF Households, Requests, CallOf, Acknowledged
  <2>3. PICK a \in Attempts, b \in Attempts :
           h = Acknowledged(<<c, a>>) /\ g = Acknowledged(<<c, b>>)
    BY <2>2
  <2>4. a # b /\ h[1] = <<c, a>> /\ g[1] = <<c, b>> /\ h \in households /\ g \in households
    BY <2>3 DEF Acknowledged, MadeBy
  <2>5. force[c]
    BY <2>1, <2>3, <2>4 DEF CalmInv
  <2>6. ASSUME NEW e \in Attempts, Acknowledged(<<c, e>>) \in households
        PROVE  e <= attempt[c] /\ reply[<<c, e>>] # "csrf"
    <3>1. RequestInv(<<c, e>>) /\ step[<<c, e>>] # "unsent"
      BY <1>1, <2>6 DEF AnswerInv, RequestInv, Requests, MadeSteps
    <3>2. reply[<<c, e>>] # "csrf"
      BY <2>6, <3>1 DEF RequestInv
    <3>3. ~(e > attempt[c])
      BY <2>1, <3>1 DEF CallInv
    <3>4. e \in Nat /\ attempt[c] \in Nat
      BY <1>1, CreationAssumption DEF TypeOK, Attempts
    <3> QED BY <3>2, <3>3, <3>4
  <2>7. a < attempt[c] \/ b < attempt[c]
    <3>1. a <= attempt[c] /\ b <= attempt[c]
      BY <2>3, <2>4, <2>6
    <3>2. attempt[c] \in Nat /\ a \in Nat /\ b \in Nat
      BY <1>1, CreationAssumption DEF TypeOK, Attempts
    <3> QED BY <2>4, <3>1, <3>2
  <2> QED BY <2>1, <2>3, <2>4, <2>5, <2>6, <2>7 DEF CalmInv
<1> QED BY <1>1, Invariant, AnswerInvariant, PTL DEF IInv

\* On unbroken connections nothing of a call is left running when it has come back:
\* the safety half of EndsQuietly.
THEOREM QuietAfterAnswerHolds == Spec => QuietAfterAnswer
<1> DEFINE Quiet(c) ==
      /\ {h \in households' : CallOf(h) = c} = MadeBy(c)
      /\ {x \in contacts' : CallOf(x[1]) = c} = {x \in contacts : CallOf(x[1]) = c}
      /\ {x \in tasks' : CallOf(x[1]) = c} = {x \in tasks : CallOf(x[1]) = c}
<1>1. ASSUME IInv, AnswerInv, [Next]_vars, NEW c \in Calls, pc[c] = "done", c \notin shaky
      PROVE  Quiet(c)
  <2>1. ASSUME UNCHANGED <<households, contacts, tasks>> PROVE Quiet(c)
    BY <2>1 DEF MadeBy
  <2>2. ASSUME NEW d \in Calls, Browser(d) PROVE Quiet(c)
    BY <2>1, <2>2 DEF Browser, Call, Send, Resend, Retry, ReadBody, RefreshToken, TakeAnswer, Drop,
       GiveUp, salesforce
  <2>3. ASSUME NEW r \in Requests, Handler(r) PROVE Quiet(c)
    <3>1. r[1] # c
      BY <1>1, <2>3, HandlerOfCalm
    <3>2. CallOf(Acknowledged(r)) # c
      BY <3>1 DEF CallOf, Acknowledged
    <3>3. /\ \A h \in households' : h \in households \/ h = Acknowledged(r)
          /\ \A x \in contacts' : x \in contacts \/ x[1] = Acknowledged(r)
          /\ \A x \in tasks' : x \in tasks \/ x[1] = Acknowledged(r)
          /\ households \subseteq households' /\ contacts \subseteq contacts' /\ tasks \subseteq tasks'
      BY <2>3, HandlerAdds
    <3> QED BY <3>2, <3>3 DEF MadeBy
  <2>4. ASSUME NEW g \in Households, LateCommit(g) PROVE Quiet(c)
    <3>1. CallOf(g) # c
      BY <1>1, <2>4 DEF LateCommit, AnswerInv, CallInv, CalmInv, OwedInv
    <3> QED BY <2>4, <3>1 DEF LateCommit, MadeBy
  <2>5. CASE RivalCreates \/ UNCHANGED vars
    BY <2>1, <2>5 DEF RivalCreates, vars, salesforce
  <2> QED BY <1>1, <2>2, <2>3, <2>4, <2>5 DEF Next
<1>2. IInv /\ AnswerInv /\ [Next]_vars =>
        [\A c \in Calls : pc[c] = "done" /\ c \notin shaky => Quiet(c)]_vars
  BY <1>1
<1> QED BY <1>2, Invariant, AnswerInvariant, PTL DEF Spec, QuietAfterAnswer
===============================================================================
