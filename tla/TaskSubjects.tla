------------------------------ MODULE TaskSubjects ------------------------------
(***************************************************************************)
(* The subjects of tasks and what the screens recognise in them            *)
(* (lib/task-subjects.ts).  A subject is the kind of task that is written  *)
(* with it; "plan" stands for PLAN: and MILESTONE:.  "workflow review" and *)
(* "workflow envelopes" are the steps of the new-client workflow that ask  *)
(* to run a compliance review and to prepare DocuSign envelopes; "audit    *)
(* docusign" is the audit's record of a call with Docusign in its name;    *)
(* "advisory" is a task entered by hand with KYC or ADV in its subject.    *)
(*                                                                         *)
(* Times are whole days.  A record was created so many days ago; a due date*)
(* is so many days ahead, negative when it is past.  Salesforce gives due  *)
(* dates without a time, which JavaScript reads as midnight, so a task due *)
(* today is already past.                                                  *)
(***************************************************************************)
EXTENDS Integers, Sequences, FiniteSets, SequencesExt, Lists

Subjects == {"compliance review", "meeting note", "send docu", "docusign configured",
             "follow-up", "goal", "plan", "account opening", "paperwork", "audit",
             "audit docusign", "workflow review", "workflow envelopes", "advisory",
             "other"}

\* classifyTask: the type an item is shown as, whatever the subject's case.
ClassifyTask(subject) ==
  CASE subject \in {"compliance review", "workflow review"} -> "compliance"
    [] subject \in {"send docu", "docusign configured", "workflow envelopes", "audit docusign"}
         -> "docusign"
    [] subject = "meeting note" -> "meeting"
    [] subject = "follow-up" -> "followup"
    [] subject = "goal" -> "goal"
    [] OTHER -> "task"

\* The matchers the figures are counted with, which mind the case.
IsComplianceReview(t) == t.subject = "compliance review"
IsMeetingNote(t) == t.subject = "meeting note"
IsDocuSign(t) == t.subject \in {"send docu", "docusign configured", "workflow envelopes"}
IsGoal(t) == t.subject \in {"goal", "plan"}

NoDate == 99
IsOpen(t) == t.status # "Completed"
IsOverdue(t) == IsOpen(t) /\ t.due # NoDate /\ t.due <= 0
=============================================================================
