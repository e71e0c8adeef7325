---------------------------- MODULE PrimitivesProofs ----------------------------
(***************************************************************************)
(* The safety properties of the Salesforce primitives: of sfFetch and its  *)
(* refinement of RemoteCreate, for every set of calls and every number of  *)
(* retries; and of createTasksBatch, for every input length and every      *)
(* composite limit.                                                        *)
(***************************************************************************)
EXTENDS SalesforceFetch, TasksBatch, TLAPS

-------------------------------------------------------------------------------
(* sfFetch. *)

\* IInv holds before the first call.
LEMMA InitIInv == Init => IInv
  BY MaxRetriesAssumption
     DEF Init, IInv, TypeOK, CallInv, Attempts, Statuses, Errors, NoAnswer

\* A step of call c leaves every variable of the other calls alone.
LEMMA OthersUntouched ==
  ASSUME NEW c \in Calls, TypeOK, CallerStep(c) \/ SalesforceStep(c)
  PROVE  \A d \in Calls \ {c} :
           /\ pc'[d] = pc[d]
           /\ attempt'[d] = attempt[d]
           /\ answer'[d] = answer[d]
           /\ result'[d] = result[d]
           /\ wire'[d] = wire[d]
           /\ created'[d] = created[d]
           /\ broken'[d] = broken[d]
  BY DEF TypeOK, CallerStep, SalesforceStep, Start, Resend, ReceiveStatus,
         ReadBody, FailBody, Timeout, NetworkError, Commit, Refuse, Answered,
         Send, Return

\* Every caller's step preserves the typing and the invariant of its own call.
LEMMA CallerStepIInv ==
  ASSUME NEW c \in Calls, IInv, CallerStep(c)
  PROVE  TypeOK' /\ CallInv(c)'
<1> USE MaxRetriesAssumption DEF IInv, TypeOK, CallInv, Attempts, Statuses,
        Errors, NoAnswer
<1>1. CASE Start(c)
  BY <1>1 DEF Start, Send
<1>2. CASE Resend(c)
  BY <1>2 DEF Resend, Send
<1>3. CASE ReceiveStatus(c)
  BY <1>3 DEF ReceiveStatus, isRetryable
<1>4. CASE ReadBody(c)
  BY <1>4 DEF ReadBody, Return
<1>5. CASE FailBody(c)
  BY <1>5 DEF FailBody, Return
<1>6. CASE Timeout(c)
  BY <1>6 DEF Timeout, Return
<1>7. CASE NetworkError(c)
  BY <1>7 DEF NetworkError, Return
<1>8. QED
  BY <1>1, <1>2, <1>3, <1>4, <1>5, <1>6, <1>7, CallerStep(c) DEF CallerStep

\* So does every step of Salesforce on one of its requests.
LEMMA SalesforceStepIInv ==
  ASSUME NEW c \in Calls, IInv, SalesforceStep(c)
  PROVE  TypeOK' /\ CallInv(c)'
<1> USE MaxRetriesAssumption DEF IInv, TypeOK, CallInv, Attempts, Statuses,
        Errors, NoAnswer
<1>1. PICK a \in Attempts :
        Commit(c, a) \/ \E status \in {"refused", "busy"} : Refuse(c, a, status)
  BY DEF SalesforceStep
<1>2. CASE Commit(c, a)
  BY <1>2 DEF Commit, Answered
<1>3. CASE \E status \in {"refused", "busy"} : Refuse(c, a, status)
  BY <1>3 DEF Refuse, Answered
<1>4. QED
  BY <1>1, <1>2, <1>3

\* IInv is inductive.
LEMMA StepIInv == IInv /\ [Next]_vars => IInv'
<1> SUFFICES ASSUME IInv, [Next]_vars PROVE IInv'
  OBVIOUS
<1>1. ASSUME NEW c \in Calls, CallerStep(c) \/ SalesforceStep(c)
      PROVE  IInv'
  <2>1. TypeOK' /\ CallInv(c)'
    BY <1>1, CallerStepIInv, SalesforceStepIInv
  <2>2. ASSUME NEW d \in Calls \ {c} PROVE CallInv(d)'
    <3>1. CallInv(d)
      BY DEF IInv
    <3>2. QED
      BY <1>1, <3>1, OthersUntouched DEF CallInv, IInv
  <2>3. QED
    BY <2>1, <2>2 DEF IInv
<1>2. CASE UNCHANGED vars
  BY <1>2 DEF IInv, TypeOK, CallInv, vars
<1>3. QED
  BY <1>1, <1>2 DEF Next

\* The inductive invariant holds in every reachable state, for any number of
\* concurrent calls and any retry limit.
THEOREM Invariant == Spec => []IInv
  BY InitIInv, StepIInv, PTL DEF Spec

\* The variables keep their types.
THEOREM TypeCorrect == Spec => []TypeOK
  BY Invariant, PTL DEF IInv

\* A record id handed to the caller stands for a record Salesforce made for
\* the attempt that was answered.
THEOREM OkMeansCreatedHolds == Spec => []OkMeansCreated
<1>1. IInv => OkMeansCreated
  BY DEF IInv, CallInv, OkMeansCreated, Statuses
<1>2. QED
  BY <1>1, Invariant, PTL

\* Retrying after 429 and 503 never duplicates a record; only a broken
\* connection can.
THEOREM CopiesExplainedHolds == Spec => []CopiesExplained
<1>1. ASSUME IInv, NEW c \in Calls, NEW a \in created[c] \ broken[c]
      PROVE  a = attempt[c]
  <2>1. /\ attempt[c] \in Nat
        /\ a \in 0 .. attempt[c]
        /\ ~ (a < attempt[c])
    BY <1>1, MaxRetriesAssumption DEF IInv, TypeOK, CallInv, Attempts
  <2>2. QED
    BY <2>1
<1>2. IInv => CopiesExplained
  BY <1>1 DEF CopiesExplained
<1>3. QED
  BY <1>2, Invariant, PTL

\* Without a broken connection a refused call has made nothing.
THEOREM RefusalIsFinalHolds == Spec => []RefusalIsFinal
<1>1. IInv => RefusalIsFinal
  BY MaxRetriesAssumption
     DEF IInv, TypeOK, CallInv, RefusalIsFinal, Attempts, Statuses
<1>2. QED
  BY <1>1, Invariant, PTL

\* After create() has returned, the code sends nothing more and its result
\* stands.
THEOREM SilentAfterReturnHolds == Spec => SilentAfterReturn
<1>1. ASSUME IInv, [Next]_vars, NEW c \in Calls, pc[c] = "returned"
      PROVE  result'[c] = result[c] /\ wire'[c] \subseteq wire[c]
  <2>1. CASE UNCHANGED vars
    BY <2>1 DEF vars
  <2>2. ASSUME NEW d \in Calls, CallerStep(d) \/ SalesforceStep(d)
        PROVE  result'[c] = result[c] /\ wire'[c] \subseteq wire[c]
    <3>1. CASE d # c
      BY <1>1, <2>2, <3>1, OthersUntouched DEF IInv
    <3>2. CASE d = c /\ CallerStep(c)
      BY <1>1, <3>2 DEF CallerStep, Start, Resend, ReceiveStatus, ReadBody,
                        FailBody, Timeout, NetworkError
    <3>3. CASE d = c /\ SalesforceStep(c)
      BY <1>1, <3>3 DEF SalesforceStep, Commit, Refuse, IInv, TypeOK
    <3>4. QED
      BY <2>2, <3>1, <3>2, <3>3
  <2>3. QED
    BY <1>1, <2>1, <2>2 DEF Next
<1>2. IInv /\ [Next]_vars => [Silent]_vars
  BY <1>1 DEF Silent
<1>3. QED
  BY <1>2, Invariant, PTL DEF Spec, SilentAfterReturn

\* sfFetch and create implement the contract RemoteCreate: every step is a
\* step of the contract or leaves what the contract sees unchanged.
THEOREM Refinement == Spec => ImplementsContract
<1>1. Init => Contract!Init
  BY DEF Init, Contract!Init, verdict
<1>2. ASSUME IInv, [Next]_vars
      PROVE  [Contract!Next]_(Contract!vars)
  <2> USE <1>2 DEF Contract!vars, Contract!Next
  <2>1. CASE UNCHANGED vars
    BY <2>1 DEF vars, verdict
  <2>2. ASSUME NEW c \in Calls, CallerStep(c)
        PROVE  [Contract!Next]_(Contract!vars)
    <3> DEFINE v(d) == verdict[d]
    <3>1. \A d \in Calls \ {c} : verdict'[d] = verdict[d]
      BY <2>2, OthersUntouched DEF verdict, IInv
    <3>2. DOMAIN verdict = Calls /\ DOMAIN verdict' = Calls
      BY DEF verdict
    <3>3. created' = created
      BY <2>2 DEF CallerStep, Start, Resend, ReceiveStatus, ReadBody,
                  FailBody, Timeout, NetworkError
    <3>4. CASE Start(c)
      <4>1. verdict[c] = "unused" /\ verdict'[c] = "open"
        BY <3>4 DEF Start, Send, verdict, IInv, TypeOK
      <4>2. verdict' = [verdict EXCEPT ![c] = "open"]
        BY <3>1, <3>2, <4>1 DEF verdict
      <4>3. QED
        BY <3>3, <4>1, <4>2 DEF Contract!Open
    <3>5. CASE ReadBody(c) \/ FailBody(c) \/ Timeout(c) \/ NetworkError(c)
      <4>1. verdict[c] = "open"
        BY <3>5 DEF ReadBody, FailBody, Timeout, NetworkError, verdict
      <4>2. CASE verdict'[c] = "open"
        BY <3>1, <3>2, <3>3, <4>1, <4>2 DEF verdict
      <4>3. CASE verdict'[c] = "acknowledged"
        <5>1. pc[c] = "reading" /\ answer[c] = "ok"
          BY <3>5, <4>3 DEF ReadBody, FailBody, Timeout, NetworkError, Return,
                            verdict, IInv, TypeOK, CallInv
        <5>2. created[c] # {}
          BY <5>1 DEF IInv, CallInv
        <5>3. verdict' = [verdict EXCEPT ![c] = "acknowledged"]
          BY <3>1, <3>2, <4>3 DEF verdict
        <5>4. QED
          BY <3>3, <4>1, <5>2, <5>3 DEF Contract!Acknowledge
      <4>4. CASE verdict'[c] = "failed"
        <5>1. verdict' = [verdict EXCEPT ![c] = "failed"]
          BY <3>1, <3>2, <4>4 DEF verdict
        <5>2. QED
          BY <3>3, <4>1, <5>1 DEF Contract!Fail
      <4>5. verdict'[c] # "unused"
        BY <3>5 DEF ReadBody, FailBody, Timeout, NetworkError, Return,
                    verdict, IInv, TypeOK
      <4>6. verdict'[c] \in {"unused", "open", "acknowledged", "failed"}
        BY DEF verdict
      <4>7. QED
        BY <4>2, <4>3, <4>4, <4>5, <4>6
    <3>6. CASE Resend(c) \/ ReceiveStatus(c)
      <4>1. verdict[c] = "open" /\ verdict'[c] = "open"
        BY <3>6 DEF Resend, ReceiveStatus, Send, verdict, IInv, TypeOK
      <4>2. QED
        BY <3>1, <3>2, <3>3, <4>1 DEF verdict
    <3>7. QED
      BY <2>2, <3>4, <3>5, <3>6 DEF CallerStep
  <2>3. ASSUME NEW c \in Calls, SalesforceStep(c)
        PROVE  [Contract!Next]_(Contract!vars)
    <3>1. verdict' = verdict
      BY <2>3 DEF SalesforceStep, Commit, Refuse, verdict
    <3>2. PICK a \in Attempts :
            Commit(c, a) \/ \E status \in {"refused", "busy"} : Refuse(c, a, status)
      BY <2>3 DEF SalesforceStep
    <3>3. CASE Commit(c, a)
      <4>1. verdict[c] # "unused" /\ a \notin created[c]
        BY <3>3 DEF Commit, IInv, CallInv, verdict
      <4>2. QED
        BY <3>1, <3>3, <4>1 DEF Commit, Contract!Appear
    <3>4. CASE \E status \in {"refused", "busy"} : Refuse(c, a, status)
      BY <3>1, <3>4 DEF Refuse
    <3>5. QED
      BY <3>2, <3>3, <3>4
  <2>4. QED
    BY <2>1, <2>2, <2>3 DEF Next
<1>3. QED
  BY <1>1, <1>2, Invariant, PTL DEF Spec, ImplementsContract, Contract!Spec

-------------------------------------------------------------------------------
(* createTasksBatch. *)

\* A count is zero or one.
LEMMA CountIsBit ==
  ASSUME NEW i, NEW S
  PROVE  Count(i, S) \in {0, 1} /\ (Count(i, S) = 1 <=> i \in S)
  BY DEF Count

\* The invariant holds when the function is called.
LEMMA BatchInitIInv == BatchInit => BatchIInv
<1> SUFFICES ASSUME BatchInit PROVE BatchIInv
  OBVIOUS
<1>1. BatchTypeOK
  BY BatchAssumption DEF BatchInit, BatchTypeOK, Given, Inputs
<1>2. PhaseInv
  BY BatchAssumption DEF BatchInit, PhaseInv, Given, Inputs
<1>3. QED
  BY <1>1, <1>2 DEF BatchInit, BatchIInv, RecordedIsMade

\* What a chunk adds to the inputs that are settled.
LEMMA ChunkExtendsSettled ==
  ASSUME BatchTypeOK
  PROVE  /\ {i \in Given : i < next + ChunkSize} = Settled \union Chunk
         /\ Settled \intersect Chunk = {}
         /\ Chunk \subseteq Given
         /\ Given \subseteq Inputs
  BY BatchAssumption DEF BatchTypeOK, Settled, Chunk, Given, Inputs

\* Every action preserves the types.
LEMMA BatchStepTypeOK == BatchTypeOK /\ [BatchNext]_batchVars => BatchTypeOK'
<1> SUFFICES ASSUME BatchTypeOK, [BatchNext]_batchVars PROVE BatchTypeOK'
  OBVIOUS
<1> USE BatchAssumption, CountIsBit DEF BatchTypeOK, Given, Inputs, Chunk
<1>1. CASE Reject
  BY <1>1 DEF Reject
<1>2. CASE ReturnEmpty
  BY <1>2 DEF ReturnEmpty
<1>3. CASE CreateSingle
  BY <1>3 DEF CreateSingle, Create
<1>4. CASE Begin
  BY <1>4 DEF Begin
<1>5. CASE ChunkAnswered
  <2>1. PICK ok \in SUBSET Chunk, lost \in SUBSET Chunk :
          /\ Create(ok, lost)
          /\ records' = records \union ok
          /\ errors' = errors \union (Chunk \ ok)
          /\ acked' = acked \union ok
    BY <1>5 DEF ChunkAnswered
  <2>2. made' \in [Inputs -> Nat] /\ link' \in {"sound", "broken"}
    BY <2>1 DEF Create
  <2>3. next' \in Nat
    BY <1>5 DEF ChunkAnswered
  <2>4. QED
    BY <1>5, <2>1, <2>2, <2>3 DEF ChunkAnswered
<1>6. CASE ChunkRefused
  BY <1>6 DEF ChunkRefused, Create, Fallback
<1>7. CASE ChunkThrew
  BY <1>7 DEF ChunkThrew, Fallback
<1>8. CASE Finish
  BY <1>8 DEF Finish
<1>9. ASSUME NEW i \in Inputs, CreateOne(i) PROVE BatchTypeOK'
  BY <1>9 DEF CreateOne, Create
<1>10. CASE AllSettled
  BY <1>10 DEF AllSettled
<1>11. CASE UNCHANGED batchVars
  BY <1>11 DEF batchVars
<1>12. QED
  BY <1>1, <1>2, <1>3, <1>4, <1>5, <1>6, <1>7, <1>8, <1>9, <1>10, <1>11
     DEF BatchNext

\* Every action preserves what is known in each phase.
LEMMA BatchStepIInv == BatchIInv /\ [BatchNext]_batchVars => BatchIInv'
<1> SUFFICES ASSUME BatchIInv, [BatchNext]_batchVars PROVE BatchIInv'
  OBVIOUS
<1>0. BatchTypeOK /\ BatchTypeOK'
  BY BatchStepTypeOK DEF BatchIInv
<1>1. CASE Reject
  BY <1>0, <1>1 DEF Reject, BatchIInv, PhaseInv, RecordedIsMade, Given
<1>2. CASE ReturnEmpty
  <2>1. Given = {} /\ Given' = {}
    BY <1>2 DEF ReturnEmpty, Given
  <2>2. invalid' = {}
    BY <1>0, <2>1 DEF BatchTypeOK
  <2>3. PhaseInv'
    BY <1>0, <1>2, <2>1 DEF ReturnEmpty, BatchIInv, PhaseInv
  <2>4. QED
    BY <1>0, <1>2, <2>2, <2>3 DEF ReturnEmpty, BatchIInv, RecordedIsMade
<1>3. CASE CreateSingle
  <2>1. PICK ok \in SUBSET Given, lost \in SUBSET Given :
          Create(ok, lost) /\ records' = ok /\ errors' = Given \ ok
    BY <1>3 DEF CreateSingle
  <2>2. \A i \in Inputs : made'[i] = Count(i, ok) + Count(i, lost)
    BY <1>0, <1>3, <2>1, CountIsBit DEF CreateSingle, Create, BatchIInv, PhaseInv
  <2>3. link' = "broken" \/ lost = {}
    BY <2>1 DEF Create
  <2>4. RecordedIsMade'
    BY <1>0, <2>1, <2>2, CountIsBit, ChunkExtendsSettled DEF RecordedIsMade
  <2>5. /\ phase' = "returned" /\ Given' = Given /\ n' = n /\ invalid' = {}
    BY <1>3 DEF CreateSingle, Given
  <2>6. ASSUME link' = "sound", NEW i \in Inputs PROVE ~(made'[i] > 1) /\ made'[i] <= 1
    BY <2>2, <2>3, <2>6, CountIsBit DEF Count
  <2>7. PhaseInv'
    BY <2>1, <2>5, <2>6 DEF PhaseInv
  <2>8. QED
    BY <1>0, <2>4, <2>5, <2>7 DEF BatchIInv
<1>4. CASE Begin
  <2>1. /\ next' = 1 /\ records' = {} /\ errors' = {} /\ acked' = {}
        /\ \A i \in Inputs : made'[i] = 0
    BY <1>4 DEF Begin, BatchIInv, PhaseInv
  <2>2. Settled' = {}
    BY <1>0, <2>1 DEF Settled, Given, BatchTypeOK
  <2>3. PhaseInv'
    BY <1>4, <2>1, <2>2 DEF Begin, PhaseInv, Count
  <2>4. QED
    BY <1>0, <1>4, <2>1, <2>3 DEF Begin, BatchIInv, RecordedIsMade
<1>5. CASE ChunkAnswered
  <2>1. PICK ok \in SUBSET Chunk, lost \in SUBSET Chunk :
          /\ Create(ok, lost)
          /\ records' = records \union ok
          /\ errors' = errors \union (Chunk \ ok)
          /\ acked' = acked \union ok
    BY <1>5 DEF ChunkAnswered
  <2>2. PhaseInv
    BY DEF BatchIInv
  <2>3. Settled' = Settled \union Chunk /\ Settled \intersect Chunk = {}
    BY <1>0, <1>5, ChunkExtendsSettled DEF ChunkAnswered, Settled, Given
  <2>4. \A i \in Inputs : made'[i] = made[i] + Count(i, ok) + Count(i, lost)
    BY <2>1 DEF Create
  <2>5. link' = "sound" => link = "sound" /\ lost = {}
    BY <1>0, <2>1 DEF Create, BatchTypeOK
  <2>6. ASSUME link' = "sound", NEW i \in Inputs PROVE made'[i] = Count(i, acked')
    <3>1. made[i] = Count(i, acked)
      BY <1>5, <2>2, <2>5, <2>6 DEF ChunkAnswered, PhaseInv
    <3>2. ~(i \in acked /\ i \in ok)
      BY <1>5, <2>2, <2>3 DEF ChunkAnswered, PhaseInv
    <3>3. QED
      BY <2>1, <2>4, <2>5, <2>6, <3>1, <3>2 DEF Count
  <2>7. RecordedIsMade'
    <3>1. ASSUME NEW i \in records' PROVE made'[i] > 0
      <4>1. i \in Inputs /\ made[i] \in Nat
        BY <1>0, <2>1, <3>1, ChunkExtendsSettled DEF BatchTypeOK
      <4>2. CASE i \in records
        BY <2>4, <4>1, <4>2, CountIsBit DEF BatchIInv, RecordedIsMade
      <4>3. CASE i \in ok
        BY <2>4, <4>1, <4>3, CountIsBit
      <4>4. QED
        BY <2>1, <3>1, <4>2, <4>3
    <3>2. QED
      BY <3>1 DEF RecordedIsMade
  <2>8. records' \union errors' = Settled' /\ records' \intersect errors' = {}
        /\ acked' = records'
    BY <1>5, <2>1, <2>2, <2>3 DEF ChunkAnswered, PhaseInv
  <2>9. next' >= 1 /\ (n <= ChunkSize => next' > n)
    BY <1>0, <1>5, <2>2, BatchAssumption DEF ChunkAnswered, PhaseInv, BatchTypeOK
  <2>10. QED
    BY <1>0, <1>5, <2>6, <2>7, <2>8, <2>9
       DEF ChunkAnswered, BatchIInv, PhaseInv, Settled, Given
<1>6. ASSUME phase = "chunks", next <= n, Fallback,
             NEW lost \in SUBSET Chunk,
             \A i \in Inputs : made'[i] = made[i] + Count(i, lost),
             link' = "sound" => link = "sound" /\ lost = {}
      PROVE  BatchIInv'
  <2>1. link' = "sound" => \A i \in Inputs : made'[i] = Count(i, acked') + Count(i, records')
    BY <1>0, <1>6 DEF BatchIInv, PhaseInv, BatchTypeOK, Fallback, Count
  <2>2. n <= ChunkSize => acked' = {}
    BY <1>0, <1>6 DEF BatchIInv, PhaseInv, BatchTypeOK, Fallback, Settled, Given
  <2>3. QED
    BY <1>0, <1>6, <2>1, <2>2
       DEF BatchIInv, PhaseInv, RecordedIsMade, Fallback, Given
<1>7. CASE ChunkRefused
  BY <1>0, <1>6, <1>7, CountIsBit DEF ChunkRefused, Create, Count, BatchTypeOK
<1>8. CASE ChunkThrew
  BY <1>0, <1>6, <1>8 DEF ChunkThrew
<1>9. CASE Finish
  <2>1. Settled = Given
    BY <1>0, <1>9 DEF Finish, Settled, Given, BatchTypeOK
  <2>2. QED
    BY <1>0, <1>9, <2>1, CountIsBit
       DEF Finish, BatchIInv, PhaseInv, RecordedIsMade, Given
<1>10. ASSUME NEW i \in Inputs, CreateOne(i) PROVE BatchIInv'
  <2>1. PICK ok \in SUBSET {i}, lost \in SUBSET {i} :
          /\ Create(ok, lost)
          /\ records' = records \union ok
          /\ errors' = errors \union ({i} \ ok)
    BY <1>10 DEF CreateOne
  <2>2. /\ phase = "sequential" /\ i \in pending /\ PhaseInv /\ i \in Given
        /\ i \notin records /\ i \notin errors
    BY <1>0, <1>10 DEF CreateOne, BatchIInv, PhaseInv, BatchTypeOK
  <2>3. \A j \in Inputs : made'[j] = made[j] + Count(j, ok) + Count(j, lost)
    BY <2>1 DEF Create
  <2>4. link' = "sound" => link = "sound" /\ lost = {}
    BY <1>0, <2>1 DEF Create, BatchTypeOK
  <2>5. ASSUME link' = "sound", NEW j \in Inputs
        PROVE  made'[j] = Count(j, acked') + Count(j, records')
    <3>1. made[j] = Count(j, acked) + Count(j, records)
      BY <2>2, <2>4, <2>5 DEF PhaseInv
    <3>2. Count(j, records') = Count(j, records) + Count(j, ok)
      BY <2>1, <2>2 DEF Count
    <3>3. acked' = acked
      BY <1>10 DEF CreateOne
    <3>4. QED
      BY <2>3, <2>4, <2>5, <3>1, <3>2, <3>3, CountIsBit DEF Count
  <2>6. RecordedIsMade'
    <3>1. ASSUME NEW j \in records' PROVE made'[j] > 0
      <4>1. j \in Inputs /\ made[j] \in Nat
        BY <1>0, <2>1, <3>1, ChunkExtendsSettled DEF BatchTypeOK
      <4>2. CASE j \in records
        BY <2>3, <4>1, <4>2, CountIsBit DEF BatchIInv, RecordedIsMade
      <4>3. CASE j \in ok
        BY <2>3, <4>1, <4>3, CountIsBit
      <4>4. QED
        BY <2>1, <3>1, <4>2, <4>3
    <3>2. QED
      BY <3>1 DEF RecordedIsMade
  <2>7. /\ records' \union errors' = Given' \ pending'
        /\ records' \intersect errors' = {}
    <3>1. Given' = Given /\ pending' = pending \ {i}
      BY <1>10 DEF CreateOne, Given
    <3>2. /\ records \union errors = Given \ pending
          /\ records \intersect errors = {}
      BY <2>2 DEF PhaseInv
    <3>3. QED
      BY <2>1, <2>2, <3>1, <3>2
  <2>8. QED
    BY <1>0, <1>10, <2>2, <2>5, <2>6, <2>7 DEF CreateOne, BatchIInv, PhaseInv
<1>11. CASE AllSettled
  <2>1. PhaseInv /\ BatchTypeOK /\ RecordedIsMade
    BY DEF BatchIInv
  <2>2. ASSUME link = "sound", NEW i \in Inputs
        PROVE  /\ made[i] > 1 => i \in acked
               /\ n <= ChunkSize => made[i] <= 1
    BY <1>11, <2>1, <2>2, CountIsBit DEF AllSettled, PhaseInv
  <2>3. QED
    BY <1>0, <1>11, <2>1, <2>2
       DEF AllSettled, BatchIInv, PhaseInv, RecordedIsMade, Given
<1>12. CASE UNCHANGED batchVars
  BY <1>0, <1>12
     DEF batchVars, BatchIInv, PhaseInv, RecordedIsMade, Given, Settled
<1>13. QED
  BY <1>1, <1>2, <1>3, <1>4, <1>5, <1>7, <1>8, <1>9, <1>10, <1>11, <1>12
     DEF BatchNext

\* The inductive invariant holds for every input and every composite limit.
THEOREM BatchInvariant == BatchSpec => []BatchIInv
  BY BatchInitIInv, BatchStepIInv, PTL DEF BatchSpec

\* A batch with a malformed ID makes no task at all.
THEOREM InvalidMakesNothingHolds == BatchSpec => []InvalidMakesNothing
<1>1. BatchIInv => InvalidMakesNothing
  BY DEF BatchIInv, PhaseInv, InvalidMakesNothing
<1>2. QED
  BY <1>1, BatchInvariant, PTL

\* Every input is accounted for once.
THEOREM EveryInputReportedHolds == BatchSpec => []EveryInputReported
<1>1. BatchIInv => EveryInputReported
  BY DEF BatchIInv, PhaseInv, EveryInputReported
<1>2. QED
  BY <1>1, BatchInvariant, PTL

\* No task is reported that does not exist.
THEOREM RecordedIsMadeHolds == BatchSpec => []RecordedIsMade
<1>1. BatchIInv => RecordedIsMade
  BY DEF BatchIInv
<1>2. QED
  BY <1>1, BatchInvariant, PTL

\* A duplicate comes from a broken connection or from an acknowledged chunk
\* that the fallback repeats.
THEOREM DuplicatesExplainedHolds == BatchSpec => []DuplicatesExplained
<1>1. ASSUME BatchIInv, link = "sound", NEW i \in Given, made[i] > 1 PROVE i \in acked
  <2>1. BatchTypeOK /\ PhaseInv /\ i \in Inputs
    BY <1>1, ChunkExtendsSettled DEF BatchIInv
  <2>2. CASE phase \in {"called", "threw"}
    BY <1>1, <2>1, <2>2 DEF PhaseInv
  <2>3. CASE phase = "chunks"
    BY <1>1, <2>1, <2>3, CountIsBit DEF PhaseInv
  <2>4. CASE phase = "sequential"
    BY <1>1, <2>1, <2>4, CountIsBit DEF PhaseInv
  <2>5. CASE phase = "returned"
    BY <1>1, <2>1, <2>5 DEF PhaseInv
  <2>6. QED
    BY <2>1, <2>2, <2>3, <2>4, <2>5 DEF BatchTypeOK
<1>2. BatchIInv => DuplicatesExplained
  BY <1>1 DEF DuplicatesExplained, BatchIInv, BatchTypeOK
<1>3. QED
  BY <1>2, BatchInvariant, PTL

\* A batch within the composite limit duplicates nothing on a sound connection.
THEOREM OneChunkNeverDuplicatesHolds == BatchSpec => []OneChunkNeverDuplicates
<1>1. ASSUME BatchIInv, n <= ChunkSize, link = "sound", NEW i \in Given PROVE made[i] <= 1
  <2>1. BatchTypeOK /\ PhaseInv /\ i \in Inputs
    BY <1>1, ChunkExtendsSettled DEF BatchIInv
  <2>2. CASE phase \in {"called", "threw"}
    BY <1>1, <2>1, <2>2 DEF PhaseInv
  <2>3. CASE phase = "chunks"
    BY <1>1, <2>1, <2>3, CountIsBit DEF PhaseInv
  <2>4. CASE phase = "sequential"
    <3>1. Count(i, acked) = 0
      BY <1>1, <2>1, <2>4 DEF PhaseInv, Count
    <3>2. QED
      BY <1>1, <2>1, <2>4, <3>1, CountIsBit DEF PhaseInv
  <2>5. CASE phase = "returned"
    BY <1>1, <2>1, <2>5 DEF PhaseInv
  <2>6. QED
    BY <2>1, <2>2, <2>3, <2>4, <2>5 DEF BatchTypeOK
<1>2. BatchIInv => OneChunkNeverDuplicates
  BY <1>1 DEF OneChunkNeverDuplicates
<1>3. QED
  BY <1>2, BatchInvariant, PTL
===============================================================================
