-------------------------------- MODULE HomeStats --------------------------------
(***************************************************************************)
(* The figures of the home screen: buildHomeStats of lib/home-stats.ts,    *)
(* a function of the tasks and households the server listed and of the     *)
(* advisor the screen is filtered by.  A task names its household by id and*)
(* by name, or by NoOne; a household has an id, a name, an age in days and *)
(* the advisor its description names, or NoOne.                            *)
(***************************************************************************)
EXTENDS TaskSubjects

NoOne == "none"

\* DEFAULT_TRIAGE_CONFIG, and a firm's saved thresholds over it.
DefaultTriageConfig ==
  [unsignedDocuSignDays |-> 5, dueSoonDays |-> 1, complianceUnreviewedDays |-> 7,
   staleHouseholdDays |-> 30, triageCap |-> 7, complianceCriticalPct |-> 50,
   complianceHighPct |-> 80, unsignedCriticalDays |-> 10, staleCriticalDays |-> 60,
   highPriOverdueCriticalDays |-> 7]
LoadTriageConfig(saved) ==
  [k \in DOMAIN DefaultTriageConfig |->
     IF k \in DOMAIN saved THEN saved[k] ELSE DefaultTriageConfig[k]]

AtLeastOne(n) == IF n < 1 THEN 1 ELSE n
DaysOverdue(t) == AtLeastOne(-t.due)
DaysWaiting(t) == AtLeastOne(t.created)
FirstOf(s, n) == SubSeq(s, 1, IF Len(s) < n THEN Len(s) ELSE n)
Numbered(n, d) == (n * 200 + d) \div (2 * d)       \* Math.round(100 * n / d)

\* The advisor's book: the households assigned to the advisor and their tasks.
MutBook(tasks, households, advisor) ==
  IF advisor = NoOne THEN [tasks |-> tasks, households |-> households]
  ELSE LET own == Filter(households, LAMBDA h : h.advisor = advisor)
       IN  [tasks |-> Filter(tasks, LAMBDA t : t.household # NoOne), households |-> own]
Book(tasks, households, advisor) ==
  IF advisor = NoOne THEN [tasks |-> tasks, households |-> households]
  ELSE LET own == Filter(households, LAMBDA h : h.advisor = advisor)
           ids == {own[i].id : i \in DOMAIN own}
       IN  [tasks |-> Filter(tasks, LAMBDA t : t.household \in ids), households |-> own]

Open(b) == Filter(b.tasks, IsOpen)
Completed(b) == Filter(b.tasks, LAMBDA t : ~IsOpen(t))
Overdue(b) == Filter(b.tasks, IsOverdue)
HighOverdue(b) == Filter(Overdue(b), LAMBDA t : t.priority = "High")
Unsigned(b) == Filter(b.tasks, LAMBDA t : t.status = "Not Started" /\ IsDocuSign(t))
Meetings(b) == Filter(b.tasks, LAMBDA t : IsMeetingNote(t) /\ t.created <= 7)

\* A household counts as reviewed when a review names one of its name.
ReviewedNames(b) ==
  {t.name : t \in {u \in Range(b.tasks) : IsComplianceReview(u) /\ u.name # NoOne}}
Unreviewed(b) == Filter(b.households, LAMBDA h : h.name \notin ReviewedNames(b))

(***************************************************************************)
(* Insights: at most one of each kind, the three most severe.              *)
(***************************************************************************)
Insight(kind, severity, about) == [kind |-> kind, severity |-> severity, about |-> about]

\* The last of the tasks that have waited longest.
LongestUnsigned(b, cfg) ==
  LET u == Unsigned(b)
      worst == CHOOSE i \in DOMAIN u :
                 \A j \in DOMAIN u : /\ DaysWaiting(u[j]) <= DaysWaiting(u[i])
                                     /\ j > i => DaysWaiting(u[j]) < DaysWaiting(u[i])
      days == DaysWaiting(u[worst])
  IN  IF u # <<>> /\ days >= cfg.unsignedDocuSignDays
      THEN <<Insight("unsigned", IF days > cfg.unsignedCriticalDays THEN "critical" ELSE "high",
                     u[worst].id)>>
      ELSE <<>>

Coverage(b) == Numbered(Cardinality(ReviewedNames(b)), Len(b.households))
CoverageGap(b, cfg) ==
  IF b.households # <<>> /\ Coverage(b) < cfg.complianceHighPct
  THEN <<Insight("coverage",
                 IF Coverage(b) < cfg.complianceCriticalPct THEN "critical" ELSE "high", NoOne)>>
  ELSE <<>>

\* The household with the longest time since its creation or its last task;
\* a household that only a task names is among them.
DaysSilent(b, id) ==
  LET days == {h.created : h \in {g \in Range(b.households) : g.id = id}}
                \union {t.created : t \in {u \in Range(b.tasks) : u.household = id}}
  IN  CHOOSE d \in days : \A e \in days : d <= e
Stalest(b, cfg) ==
  LET ids == {h.id : h \in Range(b.households)}
               \union ({t.household : t \in Range(b.tasks)} \ {NoOne})
      worst == CHOOSE i \in ids : \A j \in ids : DaysSilent(b, j) <= DaysSilent(b, i)
      days == DaysSilent(b, worst)
  IN  IF b.households # <<>> /\ days >= cfg.staleHouseholdDays
      THEN <<Insight("stale", IF days > cfg.staleCriticalDays THEN "critical" ELSE "medium",
                     worst)>>
      ELSE <<>>

WorstOverdue(b, cfg) ==
  LET o == HighOverdue(b)
      worst == CHOOSE i \in DOMAIN o :
                 \A j \in DOMAIN o : o[i].due <= o[j].due /\ (j > i => o[i].due < o[j].due)
  IN  IF o = <<>> THEN <<>>
      ELSE <<Insight("overdue", IF DaysOverdue(o[worst]) > cfg.highPriOverdueCriticalDays
                                THEN "critical" ELSE "high", o[worst].id)>>

Insights(b, cfg) ==
  LET all == LongestUnsigned(b, cfg) \o CoverageGap(b, cfg) \o Stalest(b, cfg)
               \o WorstOverdue(b, cfg)
      Of(severity) == Filter(all, LAMBDA i : i.severity = severity)
  IN  FirstOf(Of("critical") \o Of("high") \o Of("medium"), 3)

(***************************************************************************)
(* The triage list: five sources of items, each cut off, the most urgent   *)
(* first, the whole cut off again.                                         *)
(***************************************************************************)
Items(s, urgency, category) ==
  [i \in DOMAIN s |-> [urgency |-> urgency, category |-> category, about |-> s[i].id]]

OverdueNow(b) == Items(FirstOf(HighOverdue(b), 3), "now", "overdue")
UnsignedNow(b, cfg) ==
  Items(FirstOf(Filter(Unsigned(b), LAMBDA t : DaysWaiting(t) >= cfg.unsignedDocuSignDays), 2),
        "now", "unsigned")
OverdueToday(b) ==
  Items(FirstOf(Filter(Overdue(b), LAMBDA t : t.priority # "High"), 3), "today", "overdue")
DueSoon(b, cfg) ==
  Items(FirstOf(Filter(Open(b), LAMBDA t : t.due # NoDate /\ t.due \in 1..cfg.dueSoonDays), 2),
        "today", "followup")
\* The two oldest of the unreviewed, those old enough to be asked about.
UnreviewedThisWeek(b, cfg) ==
  Items(Filter(FirstOf(Sorted(Unreviewed(b), LAMBDA g, h : g.created > h.created), 2),
                  LAMBDA h : h.created >= cfg.complianceUnreviewedDays),
        "this-week", "compliance")

Triage(b, cfg) ==
  FirstOf(OverdueNow(b) \o UnsignedNow(b, cfg) \o OverdueToday(b) \o DueSoon(b, cfg)
            \o UnreviewedThisWeek(b, cfg), cfg.triageCap)

\* computeSnooze: a due date more than two weeks ahead offers dates before it.
SnoozeOptions(t) ==
  IF t.due # NoDate /\ t.due > 14 THEN {"two weeks before", "three days before", "tomorrow"}
  ELSE {"tomorrow", "next Monday", "in two weeks"}

\* makeSources: the systems an item names, and whether it calls each fresh.
Sources(t) ==
  {IF t.subject = "send docu" THEN <<"DocuSign", DaysWaiting(t) <= 3>>
   ELSE <<"Salesforce", DaysWaiting(t) <= 7>>}
    \union (IF t.name # NoOne THEN {<<"CRM", TRUE>>} ELSE {})

\* describeActivity: what a completed task is said to be.  The word "passed" is
\* in the subject of a review that passed.
Describe(t) ==
  CASE IsComplianceReview(t) -> IF t.priority = "High" THEN "review flagged" ELSE "review passed"
    [] IsMeetingNote(t) -> "notes recorded"
    [] t.subject = "send docu" -> "DocuSign completed"
    [] t.subject = "follow-up" -> "completed"
    [] OTHER -> t.subject

\* buildHomeStats
BuildHomeStats(tasks, households, advisor, cfg) ==
  LET b == Book(tasks, households, advisor)
      Ids(s, n) == LET top == FirstOf(s, n) IN {top[i].id : i \in DOMAIN top}
  IN  [overdue |-> Len(Overdue(b)), open |-> Len(Open(b)), review |-> Len(Unreviewed(b)),
       unsigned |-> Len(Unsigned(b)), meetings |-> Len(Meetings(b)),
       overdueItems |-> Ids(Overdue(b), 20), openItems |-> Ids(Open(b), 20),
       reviewItems |-> Ids(Unreviewed(b), 20), unsignedItems |-> Ids(Unsigned(b), 20),
       meetingItems |-> Ids(Meetings(b), 20), recentItems |-> Ids(Completed(b), 5),
       insights |-> Insights(b, cfg), triage |-> Triage(b, cfg)]
=============================================================================
