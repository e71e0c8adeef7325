------------------------------ MODULE HouseholdPages ------------------------------
(***************************************************************************)
(* What the pages about one household make of its records: the tasks as    *)
(* the handlers file them, the family page (app/family/FamilyScreen.tsx),  *)
(* the briefing (app/briefing/BriefingScreen.tsx) and the activity feed    *)
(* (app/activity/ActivityFeedScreen.tsx).  Each counts by its own rules.   *)
(* Accounts, funding and the bank link, which the briefing reads out of    *)
(* descriptions, are left out.                                             *)
(***************************************************************************)
EXTENDS PracticeData

(***************************************************************************)
(* The records.  A task filed alone is open unless its handler says        *)
(* otherwise, one filed in a batch or for the audit is completed.          *)
(***************************************************************************)
Audit == {"audit", "audit docusign"}
FiledStatus(subject) ==
  IF subject \in Audit \union {"paperwork"} THEN "Completed" ELSE "Not Started"
FiledPriority(subject, passed) ==
  CASE subject \in {"send docu", "workflow review", "workflow envelopes"} -> "High"
    [] subject = "compliance review" -> IF passed THEN "Normal" ELSE "High"
    [] subject \in Audit -> IF passed THEN "Low" ELSE "High"
    [] OTHER -> "Normal"

\* getHouseholdDetail: the tasks of the household, the oldest first; the list of
\* all tasks has the newest first.
DetailTasks(tasks, h) == Reverse(Filter(tasks, LAMBDA t : t.household = h.id))
NewestFirst(s) == Sorted(s, LAMBDA t, u : t.created < u.created)

(***************************************************************************)
(* The family page.                                                        *)
(***************************************************************************)
FamilyQuality(h, own, contacts) ==
  LET stale == IF own = <<>> THEN h.created ELSE Min({t.created : t \in Range(own)})
  IN  AtLeast0(100 - (IF stale >= 90 THEN 30 ELSE 0)
                   - (IF ~\E t \in Range(own) : IsComplianceReview(t) THEN 20 ELSE 0)
                   - (IF Len(own) <= 1 THEN 10 ELSE 0)
                   - (IF ~\E t \in Range(own) : t.subject = "account opening" THEN 10 ELSE 0)
                   - (IF ~\E c \in contacts : c.email THEN 15 ELSE 0))

MutFamilyPage(h, tasks, contacts) ==
  LET own == DetailTasks(tasks, h)
      open == Filter(own, LAMBDA t : t.status = "Not Started")
      OfType(type) == Filter(open, LAMBDA t : ClassifyTask(t.subject) = type)
  IN  [open |-> open, unsigned |-> OfType("docusign"), followUps |-> OfType("followup"),
       reviews |-> NewestFirst(Filter(own, IsComplianceReview)),
       meetings |-> NewestFirst(Filter(own, IsMeetingNote)),
       completed |-> Len(own) - Len(open), quality |-> FamilyQuality(h, own, contacts)]
FamilyPage(h, tasks, contacts) ==
  LET own == DetailTasks(tasks, h)
      open == Filter(own, IsOpen)
      OfType(type) == Filter(open, LAMBDA t : ClassifyTask(t.subject) = type)
  IN  [open |-> open, unsigned |-> OfType("docusign"), followUps |-> OfType("followup"),
       reviews |-> NewestFirst(Filter(own, IsComplianceReview)),
       meetings |-> NewestFirst(Filter(own, IsMeetingNote)),
       completed |-> Len(own) - Len(open), quality |-> FamilyQuality(h, own, contacts)]

ReviewPassed(t) == t.subject = "compliance review" /\ t.priority # "High"

(***************************************************************************)
(* The briefing.  It looks for its words whatever their case, so that the  *)
(* workflow's task to run a compliance review is a review to it.           *)
(***************************************************************************)
AccountsOpened(own) == Filter(own, LAMBDA t : t.subject = "paperwork")
BuildIntel(h, tasks) ==
  LET own == DetailTasks(tasks, h)
      envelopes == Filter(own, LAMBDA t : ClassifyTask(t.subject) = "docusign")
  IN  [days |-> h.created,
       accounts |-> Len(AccountsOpened(own)),
       signed |-> Filter(envelopes, LAMBDA t : ~IsOpen(t)),
       pending |-> Filter(envelopes, IsOpen),
       reviews |-> Filter(own, LAMBDA t : t.subject \in {"compliance review", "workflow review"}),
       open |-> Filter(own, IsOpen),
       completed |-> Len(Filter(own, LAMBDA t : ~IsOpen(t)))]

\* buildNarrative, sentence by sentence; "" where there is none.
BuildNarrative(intel) ==
  [accounts |-> intel.accounts,
   envelopes |-> CASE intel.pending # <<>> -> "awaiting signature"
                   [] intel.pending = <<>> /\ intel.signed # <<>> -> "all sent"
                   [] OTHER -> "",
   review |-> IF intel.reviews # <<>>
                THEN IF ReviewPassed(Last(intel.reviews)) THEN "passed" ELSE "flagged"
                ELSE IF intel.days > 1 THEN "never" ELSE "",
   high |-> Len(Filter(intel.open, LAMBDA t : t.priority = "High")),
   clear |-> intel.open = <<>>]

(***************************************************************************)
(* The activity feed: what was completed, and the audit, the newest first, *)
(* at most fifty of the category chosen, day by day.  Its categories for   *)
(* onboarding, workflows and money are "task" here, the one for the rest.  *)
(***************************************************************************)
ClassifyActivity(subject) ==
  CASE subject \in {"compliance review", "workflow review", "advisory"} -> "compliance"
    [] subject \in {"send docu", "docusign configured", "workflow envelopes"} -> "docusign"
    [] subject = "meeting note" -> "meeting"
    [] subject \in Audit -> "audit"
    [] OTHER -> "task"

ActivityFeed(tasks) ==
  NewestFirst(Filter(tasks, LAMBDA t : ~IsOpen(t) \/ t.subject \in Audit))
OfCategory(feed, category) ==
  Filter(feed, LAMBDA t : category = "all" \/ ClassifyActivity(t.subject) = category)
CategoryCount(feed, category) == Len(OfCategory(feed, category))
ByDay(feed, category, show) ==
  LET shown == FirstOf(OfCategory(feed, category), show)
  IN  [day \in {t.created : t \in Range(shown)} |->
         Filter(shown, LAMBDA t : t.created = day)]
=============================================================================
