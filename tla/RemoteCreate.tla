----------------------------- MODULE RemoteCreate -----------------------------
(***************************************************************************)
(* What a caller of the Salesforce primitives may rely on when it creates  *)
(* a record over an unreliable connection: an acknowledged call has left   *)
(* at least one record behind, a failed one may have left any number, and  *)
(* a record may still appear after the answer.                             *)
(***************************************************************************)
CONSTANTS
  Calls,    \* the calls of create() under consideration
  Copies    \* the names of the records one call may leave behind

VARIABLES
  verdict,  \* what the caller has been told about each call
  copies    \* the records each call has left at Salesforce

vars == <<verdict, copies>>

Init ==
  /\ verdict = [c \in Calls |-> "unused"]
  /\ copies = [c \in Calls |-> {}]

Open(c) ==
  /\ verdict[c] = "unused"
  /\ verdict' = [verdict EXCEPT ![c] = "open"]
  /\ UNCHANGED copies

\* A record appears, while the call is open or after it was answered.
Appear(c, k) ==
  /\ verdict[c] # "unused"
  /\ k \notin copies[c]
  /\ copies' = [copies EXCEPT ![c] = @ \union {k}]
  /\ UNCHANGED verdict

Acknowledge(c) ==
  /\ verdict[c] = "open"
  /\ copies[c] # {}
  /\ verdict' = [verdict EXCEPT ![c] = "acknowledged"]
  /\ UNCHANGED copies

Fail(c) ==
  /\ verdict[c] = "open"
  /\ verdict' = [verdict EXCEPT ![c] = "failed"]
  /\ UNCHANGED copies

Next ==
  \E c \in Calls :
    \/ Open(c)
    \/ \E k \in Copies : Appear(c, k)
    \/ Acknowledge(c)
    \/ Fail(c)

Spec == Init /\ [][Next]_vars
===============================================================================
