------------------------------- MODULE TaskLists -------------------------------
(***************************************************************************)
(* The lists of the task manager (app/tasks/TaskManager.tsx), made from    *)
(* the open items of the home screen's figures.  The order within a list,  *)
(* by the text of the date, is left out.  The label of an item is its      *)
(* subject with the leading words in lower case (humanizeSubject), and its *)
(* type is read off the label in upper case, so it is the subject's.       *)
(***************************************************************************)
EXTENDS HomeStats

Buckets == {"overdue", "today", "thisWeek", "upcoming", "noDue"}

\* The day an item is due on: the midnight Salesforce's date is read as is still
\* the day before where clocks are behind UTC.
MutDueDay(t, behindUTC) == IF behindUTC THEN t.due + 1 ELSE t.due
DueDay(t, behindUTC) == IF behindUTC THEN t.due - 1 ELSE t.due

\* getBucket, on a day of the week counted from Sunday.
GetBucket(t, weekday, behindUTC) ==
  LET due == DueDay(t, behindUTC)
  IN  CASE t.due = NoDate -> "noDue"
        [] t.due # NoDate /\ due < 0 -> "overdue"
        [] t.due # NoDate /\ due = 0 -> "today"
        [] t.due # NoDate /\ due \in 1..(7 - weekday) -> "thisWeek"
        [] OTHER -> "upcoming"

\* What is left of the items when those done here are taken away, with the type
\* and the text the user filters by ("found" are the items that have the text).
NotDone(items, done) == {t \in items : t.id \notin done}
Filtered(items, done, type, found) ==
  {t \in NotDone(items, done) : t.id \in found /\ (type = "all" \/ ClassifyTask(t.subject) = type)}
InBucket(items, bucket, weekday, behindUTC) ==
  {t \in items : GetBucket(t, weekday, behindUTC) = bucket}

\* The pills, and what each shows of the items.
Pills == {"all", "compliance", "docusign", "meeting", "task"}
TypeCount(items, done, type) ==
  Cardinality({t \in NotDone(items, done) : type = "all" \/ ClassifyTask(t.subject) = type})
=============================================================================
