----------------------------- MODULE TasksBatch -----------------------------
(***************************************************************************)
(* createTasksBatch and _createTasksSequential of lib/sf-client.ts: n      *)
(* tasks are created in composite requests of ChunkSize; the first one     *)
(* that fails sends the whole input again, one task per request.           *)
(*                                                                         *)
(* A request follows RemoteCreate: whatever its answer, an attempt that    *)
(* was never answered may have created records too ("lost").  How many     *)
(* such attempts one request can have is SalesforceFetch's question; here  *)
(* they count as one, and a record that arrives late counts at the moment  *)
(* it was asked for.                                                       *)
(***************************************************************************)
EXTENDS Naturals

CONSTANTS
  MaxInputs,   \* bound on the length of the input
  ChunkSize    \* COMPOSITE_BATCH_SIZE

ASSUME BatchAssumption ==
  /\ MaxInputs \in Nat
  /\ ChunkSize \in Nat \ {0}

Inputs == 1 .. MaxInputs

VARIABLES
  n,        \* length of the input
  invalid,  \* inputs whose household or contact ID is malformed
  phase,
  next,     \* first input of the next chunk
  pending,  \* inputs the sequential fallback has not settled yet
  made,     \* made[i]: how many records input i has at Salesforce
  records,  \* inputs reported as created
  errors,   \* inputs reported as failed
  acked,    \* history: inputs a composite answer has acknowledged
  link      \* history: whether some connection broke or was given up

batchVars == <<n, invalid, phase, next, pending, made, records, errors, acked, link>>

Given == 1 .. n

Chunk == {i \in Given : next <= i /\ i < next + ChunkSize}

BatchTypeOK ==
  /\ n \in 0 .. MaxInputs
  /\ invalid \subseteq Given
  /\ phase \in {"called", "chunks", "sequential", "returned", "threw"}
  /\ next \in Nat
  /\ pending \subseteq Given
  /\ made \in [Inputs -> Nat]
  /\ records \subseteq Given
  /\ errors \subseteq Given
  /\ acked \subseteq Given
  /\ link \in {"sound", "broken"}

BatchInit ==
  /\ n \in 0 .. MaxInputs
  /\ invalid \in SUBSET Given
  /\ phase = "called"
  /\ next = 1
  /\ pending = {}
  /\ made = [i \in Inputs |-> 0]
  /\ records = {}
  /\ errors = {}
  /\ acked = {}
  /\ link = "sound"

-------------------------------------------------------------------------------

Count(i, S) == IF i \in S THEN 1 ELSE 0

\* Salesforce has created the tasks of ok, and those of lost without telling.
Create(ok, lost) ==
  /\ made' = [i \in Inputs |-> made[i] + Count(i, ok) + Count(i, lost)]
  /\ link' = IF lost = {} THEN link ELSE "broken"

\* requireSalesforceId throws before anything is sent.
Reject ==
  /\ phase = "called"
  /\ invalid # {}
  /\ phase' = "threw"
  /\ UNCHANGED <<n, invalid, next, pending, made, records, errors, acked, link>>

ReturnEmpty ==
  /\ phase = "called"
  /\ n = 0
  /\ phase' = "returned"
  /\ UNCHANGED <<n, invalid, next, pending, made, records, errors, acked, link>>

\* A single task skips the composite request.
CreateSingle ==
  /\ phase = "called"
  /\ n = 1 /\ invalid = {}
  /\ \E ok \in SUBSET Given, lost \in SUBSET Given :
       /\ Create(ok, lost)
       /\ records' = ok
       /\ errors' = Given \ ok
  /\ phase' = "returned"
  /\ UNCHANGED <<n, invalid, next, pending, acked>>

Begin ==
  /\ phase = "called"
  /\ n > 1 /\ invalid = {}
  /\ phase' = "chunks"
  /\ UNCHANGED <<n, invalid, next, pending, made, records, errors, acked, link>>

\* The composite answer settles every task of the chunk (allOrNone is false).
ChunkAnswered ==
  /\ phase = "chunks" /\ next <= n
  /\ \E ok \in SUBSET Chunk, lost \in SUBSET Chunk :
       /\ Create(ok, lost)
       /\ records' = records \union ok
       /\ errors' = errors \union (Chunk \ ok)
       /\ acked' = acked \union ok
  /\ next' = next + ChunkSize
  /\ UNCHANGED <<n, invalid, phase, pending>>

\* Mutant: what earlier chunks achieved is carried into the fallback's result.
MutFallbackKeepsResults ==
  /\ phase' = "sequential"
  /\ pending' = Given
  /\ UNCHANGED <<n, invalid, next, records, errors, acked>>

\* return _createTasksSequential(ctx, inputs): from the start, results dropped.
Fallback ==
  /\ phase' = "sequential"
  /\ pending' = Given
  /\ records' = {}
  /\ errors' = {}
  /\ UNCHANGED <<n, invalid, next, acked>>

\* An HTTP error: the answered attempt has created nothing.
ChunkRefused ==
  /\ phase = "chunks" /\ next <= n
  /\ \E lost \in SUBSET Chunk : Create({}, lost)
  /\ Fallback

\* A broken connection, the 30 s timer, or a body that cannot be read.
ChunkThrew ==
  /\ phase = "chunks" /\ next <= n
  /\ \E lost \in SUBSET Chunk :
       made' = [i \in Inputs |-> made[i] + Count(i, lost)]
  /\ link' = "broken"
  /\ Fallback

\* Mutant: the loop stops only when the chunks come out even.
MutFinishExact ==
  /\ phase = "chunks" /\ next = n + 1
  /\ phase' = "returned"
  /\ UNCHANGED <<n, invalid, next, pending, made, records, errors, acked, link>>

Finish ==
  /\ phase = "chunks" /\ next > n
  /\ phase' = "returned"
  /\ UNCHANGED <<n, invalid, next, pending, made, records, errors, acked, link>>

\* Mutant: a failed task is sent once more.
MutCreateOneTwice(i) ==
  /\ phase = "sequential"
  /\ i \in pending
  /\ \E ok \in SUBSET {i}, lost \in SUBSET {i} :
       /\ Create(ok, lost)
       /\ records' = records \union ok
       /\ errors' = errors \union ({i} \ ok)
  /\ pending' \in {pending, pending \ {i}}
  /\ UNCHANGED <<n, invalid, phase, next, acked>>

\* One of the parallel createTask calls settles.
CreateOne(i) ==
  /\ phase = "sequential"
  /\ i \in pending
  /\ \E ok \in SUBSET {i}, lost \in SUBSET {i} :
       /\ Create(ok, lost)
       /\ records' = records \union ok
       /\ errors' = errors \union ({i} \ ok)
  /\ pending' = pending \ {i}
  /\ UNCHANGED <<n, invalid, phase, next, acked>>

AllSettled ==
  /\ phase = "sequential"
  /\ pending = {}
  /\ phase' = "returned"
  /\ UNCHANGED <<n, invalid, next, pending, made, records, errors, acked, link>>

BatchNext ==
  \/ Reject
  \/ ReturnEmpty
  \/ CreateSingle
  \/ Begin
  \/ ChunkAnswered
  \/ ChunkRefused
  \/ ChunkThrew
  \/ Finish
  \/ \E i \in Inputs : CreateOne(i)
  \/ AllSettled

BatchSpec == BatchInit /\ [][BatchNext]_batchVars

\* Every request settles: each attempt has a time-out and there are finitely many.
FairSpec == BatchSpec /\ WF_batchVars(BatchNext)

-------------------------------------------------------------------------------
(* Properties. *)

\* A malformed ID anywhere in the input keeps every task of the batch from
\* being created: the validation is finished before the first request.
InvalidMakesNothing ==
  invalid # {} => \A i \in Inputs : made[i] = 0

\* The result accounts for each input once, as a record or as an error, in
\* whichever of the three ways the batch was carried out.
EveryInputReported ==
  phase = "returned" => records \union errors = Given /\ records \intersect errors = {}

\* No task is reported as created without being at Salesforce.
RecordedIsMade == \A i \in records : made[i] > 0

\* A task exists twice only if a connection broke, or if an earlier chunk had
\* already created it when a later one made the batch start over.
DuplicatesExplained ==
  \A i \in Given : made[i] > 1 => link = "broken" \/ i \in acked

\* A batch that fits one composite request -- every workflow does -- creates
\* no task twice unless a connection broke, fallback or not.
OneChunkNeverDuplicates ==
  n <= ChunkSize /\ link = "sound" => \A i \in Given : made[i] <= 1

\* createTasksBatch always comes back.
BatchEnds == <>(phase \in {"returned", "threw"})

\* The strengthening that makes the safety invariants inductive.
Settled == {i \in Given : i < next}

PhaseInv ==
  /\ phase \in {"called", "threw"} =>
       /\ next = 1
       /\ records = {} /\ errors = {} /\ acked = {}
       /\ \A i \in Inputs : made[i] = 0
  /\ phase = "chunks" =>
       /\ records \union errors = Settled
       /\ records \intersect errors = {}
       /\ acked = records
       /\ next >= 1
       /\ link = "sound" => \A i \in Inputs : made[i] = Count(i, acked)
  /\ phase = "sequential" =>
       /\ records \union errors = Given \ pending
       /\ records \intersect errors = {}
       /\ link = "sound" => \A i \in Inputs :
                    made[i] = Count(i, acked) + Count(i, records)
       /\ n <= ChunkSize => acked = {}
  /\ phase = "returned" =>
       /\ records \union errors = Given
       /\ records \intersect errors = {}
       /\ link = "sound" =>
            /\ \A i \in Inputs : made[i] > 1 => i \in acked
            /\ n <= ChunkSize => \A i \in Inputs : made[i] <= 1
  /\ phase = "chunks" /\ n <= ChunkSize => next = 1 \/ next > n

BatchIInv ==
  /\ BatchTypeOK
  /\ PhaseInv
  /\ RecordedIsMade
  /\ invalid # {} => phase \in {"called", "threw"}
===============================================================================
