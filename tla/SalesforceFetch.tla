--------------------------- MODULE SalesforceFetch ---------------------------
(***************************************************************************)
(* sfFetch and create of lib/sf-client.ts: a POST that creates a record,   *)
(* repeated on 429, 503 and on a broken connection, abandoned when the     *)
(* 30 s timer fires.  Salesforce is the environment: a request it has been *)
(* sent may be carried out at any later moment, also when its sender has   *)
(* given it up.                                                            *)
(***************************************************************************)
EXTENDS Naturals

CONSTANTS
  Calls,       \* concurrent calls of create()
  MaxRetries   \* SF_MAX_RETRIES

ASSUME MaxRetriesAssumption == MaxRetries \in Nat

Attempts == 0 .. MaxRetries

\* HTTP statuses by what the code does with them.
Statuses == {"ok", "refused", "busy"}

Errors == {"refused", "busy", "timeout", "network", "badBody"}

NoAnswer == "none"

VARIABLES
  pc,        \* where each call stands
  attempt,   \* the attempt it is making
  answer,    \* the status line that has come back for that attempt
  result,    \* what create() returned or threw
  wire,      \* attempts whose request is on its way to Salesforce
  created,   \* attempts that Salesforce has turned into a record
  broken     \* history: attempts that ended with a broken connection

vars == <<pc, attempt, answer, result, wire, created, broken>>

caller == <<pc, attempt, answer, result, broken>>

TypeOK ==
  /\ pc \in [Calls -> {"idle", "waiting", "backoff", "reading", "returned"}]
  /\ attempt \in [Calls -> Attempts]
  /\ answer \in [Calls -> Statuses \union {NoAnswer}]
  /\ result \in [Calls -> {"none", "ok"} \union Errors]
  /\ wire \in [Calls -> SUBSET Attempts]
  /\ created \in [Calls -> SUBSET Attempts]
  /\ broken \in [Calls -> SUBSET Attempts]

Init ==
  /\ pc = [c \in Calls |-> "idle"]
  /\ attempt = [c \in Calls |-> 0]
  /\ answer = [c \in Calls |-> NoAnswer]
  /\ result = [c \in Calls |-> "none"]
  /\ wire = [c \in Calls |-> {}]
  /\ created = [c \in Calls |-> {}]
  /\ broken = [c \in Calls |-> {}]

-------------------------------------------------------------------------------
(* The caller's side. *)

isRetryable(status) == status = "busy"

Return(c, r) ==
  /\ pc' = [pc EXCEPT ![c] = "returned"]
  /\ result' = [result EXCEPT ![c] = r]

Send(c, n) ==
  /\ pc' = [pc EXCEPT ![c] = "waiting"]
  /\ attempt' = [attempt EXCEPT ![c] = n]
  /\ answer' = [answer EXCEPT ![c] = NoAnswer]
  /\ wire' = [wire EXCEPT ![c] = @ \union {n}]

Start(c) ==
  /\ pc[c] = "idle"
  /\ Send(c, 0)
  /\ UNCHANGED <<result, created, broken>>

\* The delay is over; the loop goes round.
Resend(c) ==
  /\ pc[c] = "backoff"
  /\ Send(c, attempt[c] + 1)
  /\ UNCHANGED <<result, created, broken>>

\* fetch() resolved: the status decides between another round and the body.
ReceiveStatus(c) ==
  /\ pc[c] = "waiting"
  /\ answer[c] # NoAnswer
  /\ IF isRetryable(answer[c]) /\ attempt[c] < MaxRetries
       THEN pc' = [pc EXCEPT ![c] = "backoff"]
       ELSE pc' = [pc EXCEPT ![c] = "reading"]
  /\ UNCHANGED <<attempt, answer, result, wire, created, broken>>

\* Mutant: response.ok is not looked at.
MutReadBodyUnchecked(c) ==
  /\ pc[c] = "reading"
  /\ Return(c, "ok")
  /\ UNCHANGED <<attempt, answer, wire, created, broken>>

\* The body has been read; create() returns the record or throws.
ReadBody(c) ==
  /\ pc[c] = "reading"
  /\ Return(c, answer[c])
  /\ UNCHANGED <<attempt, answer, wire, created, broken>>

\* response.json() rejects: outside the retry loop, so it is final.
FailBody(c) ==
  /\ pc[c] = "reading"
  /\ Return(c, "badBody")
  /\ UNCHANGED <<attempt, answer, wire, created, broken>>

\* Mutant: a timeout is retried like any other error.
MutTimeoutRetries(c) ==
  /\ pc[c] = "waiting"
  /\ IF attempt[c] < MaxRetries
       THEN pc' = [pc EXCEPT ![c] = "backoff"] /\ UNCHANGED result
       ELSE Return(c, "timeout")
  /\ UNCHANGED <<attempt, answer, wire, created, broken>>

\* The 30 s timer aborts the fetch.  The request itself is not called back.
Timeout(c) ==
  /\ pc[c] = "waiting"
  /\ Return(c, "timeout")
  /\ UNCHANGED <<attempt, answer, wire, created, broken>>

\* fetch() rejects: the request may or may not have got through.
NetworkError(c) ==
  /\ pc[c] = "waiting"
  /\ broken' = [broken EXCEPT ![c] = @ \union {attempt[c]}]
  /\ wire' \in {wire, [wire EXCEPT ![c] = @ \ {attempt[c]}]}
  /\ IF attempt[c] < MaxRetries
       THEN pc' = [pc EXCEPT ![c] = "backoff"] /\ UNCHANGED result
       ELSE Return(c, "network")
  /\ UNCHANGED <<attempt, answer, created>>

-------------------------------------------------------------------------------
(* Salesforce's side.  Only the attempt the caller waits for is answered. *)

Answered(c, a, status) ==
  answer' = IF pc[c] = "waiting" /\ attempt[c] = a
              THEN [answer EXCEPT ![c] = status]
              ELSE answer

Commit(c, a) ==
  /\ a \in wire[c]
  /\ wire' = [wire EXCEPT ![c] = @ \ {a}]
  /\ created' = [created EXCEPT ![c] = @ \union {a}]
  /\ Answered(c, a, "ok")
  /\ UNCHANGED <<pc, attempt, result, broken>>

\* A validation error, a missing permission, or a limit: nothing is created.
Refuse(c, a, status) ==
  /\ a \in wire[c]
  /\ status \in {"refused", "busy"}
  /\ wire' = [wire EXCEPT ![c] = @ \ {a}]
  /\ Answered(c, a, status)
  /\ UNCHANGED <<pc, attempt, result, created, broken>>

-------------------------------------------------------------------------------

CallerStep(c) ==
  \/ Start(c)
  \/ Resend(c)
  \/ ReceiveStatus(c)
  \/ ReadBody(c)
  \/ FailBody(c)
  \/ Timeout(c)
  \/ NetworkError(c)

SalesforceStep(c) ==
  \E a \in Attempts :
    \/ Commit(c, a)
    \/ \E status \in {"refused", "busy"} : Refuse(c, a, status)

Next == \E c \in Calls : CallerStep(c) \/ SalesforceStep(c)

Spec == Init /\ [][Next]_vars

-------------------------------------------------------------------------------
(* Properties. *)

\* What create() reports as done is done: a call that returned a record id has
\* a record at Salesforce, made by the very attempt whose answer was read.
OkMeansCreated ==
  \A c \in Calls : result[c] = "ok" => attempt[c] \in created[c]

\* The retry loop never duplicates by itself: a second record of one call is
\* always the work of an attempt whose connection broke before its answer was
\* seen.  Throttling (429, 503) and the retries it causes add none.
CopiesExplained ==
  \A c \in Calls : created[c] \ broken[c] \subseteq {attempt[c]}

\* On a connection that never broke, a refusal is the truth: nothing was made.
RefusalIsFinal ==
  \A c \in Calls :
    result[c] \in {"refused", "busy"} /\ broken[c] = {} => created[c] = {}

\* Once create() has returned or thrown, the code sends nothing more for the
\* call and its result stands; a request already sent may still be carried out.
Silent ==
  \A c \in Calls :
    pc[c] = "returned" =>
      /\ result'[c] = result[c]
      /\ wire'[c] \subseteq wire[c]

SilentAfterReturn == [][Silent]_vars

\* The strengthening that makes the safety invariants inductive.
CallInv(c) ==
  /\ created[c] \subseteq 0 .. attempt[c]
  /\ wire[c] \subseteq 0 .. attempt[c]
  /\ broken[c] \subseteq 0 .. attempt[c]
  /\ wire[c] \intersect created[c] = {}
  /\ \A a \in created[c] \union wire[c] : a < attempt[c] => a \in broken[c]
  /\ answer[c] = "ok" => attempt[c] \in created[c]
  /\ pc[c] = "idle" => attempt[c] = 0 /\ wire[c] = {} /\ created[c] = {}
  /\ pc[c] = "backoff" =>
       /\ attempt[c] < MaxRetries
       /\ attempt[c] \in created[c] \union wire[c] => attempt[c] \in broken[c]
  /\ answer[c] \in {"refused", "busy"} => attempt[c] \notin created[c] \union wire[c]
  /\ pc[c] = "reading" => answer[c] # NoAnswer
  /\ pc[c] # "returned" => result[c] = "none"
  /\ result[c] \in Statuses => answer[c] = result[c]

IInv == TypeOK /\ \A c \in Calls : CallInv(c)

-------------------------------------------------------------------------------
(* The contract the callers of create() build on. *)

verdict ==
  [c \in Calls |->
     IF pc[c] = "idle" THEN "unused"
     ELSE IF pc[c] # "returned" THEN "open"
     ELSE IF result[c] = "ok" THEN "acknowledged" ELSE "failed"]

Contract == INSTANCE RemoteCreate
              WITH Copies <- Attempts, copies <- created

\* sfFetch and create implement that contract.
ImplementsContract == Contract!Spec
===============================================================================
