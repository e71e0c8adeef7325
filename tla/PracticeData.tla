------------------------------- MODULE PracticeData -------------------------------
(***************************************************************************)
(* The figures of the practice dashboard                                   *)
(* (app/dashboard/usePracticeData.ts), a function of the tasks and         *)
(* households the server listed, the balances of the financial accounts    *)
(* and the risks the user has disposed of.  Everything about a household   *)
(* is kept under its name.  Money is counted in whole units of the assumed *)
(* assets of a household; scores are whole percentages, rounded where the  *)
(* code rounds.  A household also has the owner the organisation names, or *)
(* NoOne.                                                                  *)
(***************************************************************************)
EXTENDS HomeStats, FiniteSetsExt

KnownAdvisors == <<"Jon Cambras", "Marcus Rivera">>
KnownOpsStaff == <<"Sandra Ellis", "Emily Chen", "Miguel Torres">>
AverageAum == 2

Names(households) == {h.name : h \in Range(households)}
AtMost100(n) == IF n > 100 THEN 100 ELSE n
AtLeast0(n) == IF n < 0 THEN 0 ELSE n

(***************************************************************************)
(* assignDemoAdvisors: the owners when the organisation has more than one, *)
(* else the advisor the description names, else the known advisors in turn.*)
(* A later household of the same name overwrites the earlier.              *)
(***************************************************************************)
AdvisorAt(households, i) ==
  LET owners == {h.owner : h \in Range(households)} \ {NoOne}
      InTurn(j) == /\ ~(Cardinality(owners) > 1 /\ households[j].owner # NoOne)
                   /\ households[j].advisor = NoOne
      turn == Cardinality({j \in 1..(i - 1) : InTurn(j)})
  IN  IF Cardinality(owners) > 1 /\ households[i].owner # NoOne THEN households[i].owner
      ELSE IF households[i].advisor # NoOne THEN households[i].advisor
      ELSE KnownAdvisors[(turn % Len(KnownAdvisors)) + 1]
AssignAdvisors(households) ==
  [n \in Names(households) |->
     AdvisorAt(households, Max({i \in DOMAIN households : households[i].name = n}))]

\* buildRevenueData: how many households, by the record, each advisor is paid for.
MutRevenuePerAdvisor(households) ==
  LET by == AssignAdvisors(households)
  IN  [a \in Range(by) |-> Cardinality({n \in DOMAIN by : by[n] = a})]
RevenuePerAdvisor(households) ==
  LET by == AssignAdvisors(households)
  IN  [a \in Range(by) |->
         Cardinality({i \in DOMAIN households : by[households[i].name] = a})]
EstimatedAum(households) == Len(households) * AverageAum

(***************************************************************************)
(* The health of the practice, of an advisor and of a household.           *)
(***************************************************************************)
OpenTasks(tasks) == Filter(tasks, IsOpen)
OpenDocuSign(tasks) == Filter(OpenTasks(tasks), IsDocuSign)
OverdueTasks(tasks) == Filter(tasks, IsOverdue)
Reviews(tasks) == {t.name : t \in {u \in Range(tasks) : IsComplianceReview(u)}} \ {NoOne}
Met90(tasks) ==
  {t.name : t \in {u \in Range(tasks) : IsMeetingNote(u) /\ u.created <= 90}} \ {NoOne}
Late(s) == Filter(s, LAMBDA t : t.created > 7)
Percent(n, d) == IF d = 0 THEN 100 ELSE Numbered(n, d)

HealthBreakdown(tasks, households) ==
  [compliance |-> Percent(Cardinality(Reviews(tasks)), Len(households)),
   docusign |-> Percent(Len(OpenDocuSign(tasks)) - Len(Late(OpenDocuSign(tasks))),
                        Len(OpenDocuSign(tasks))),
   onTime |-> IF Len(OpenTasks(tasks)) = Len(tasks) THEN 100
              ELSE Percent(Len(tasks) - Len(OverdueTasks(tasks)), Len(tasks)),
   meetings |-> Percent(Cardinality(Met90(tasks)), Len(households))]
HealthScore(tasks, households) ==
  LET h == HealthBreakdown(tasks, households)
  IN  (30 * h.compliance + 25 * h.docusign + 25 * h.onTime + 20 * h.meetings + 50) \div 100

\* The scoreboard.  A task counts for the first advisor who has a household of
\* its name; the tasks of names nobody has are left out of the known advisors'.
Scoreboard(tasks, households) ==
  LET by == AssignAdvisors(households)
  IN  [a \in Range(KnownAdvisors) \union Range(by) |->
         LET own == {n \in DOMAIN by : by[n] = a}
             mine == Filter(tasks, LAMBDA t : t.name \in own)
         IN  [households |-> Cardinality(own), open |-> Len(OpenTasks(mine)),
              overdue |-> Len(OverdueTasks(mine)), unsigned |-> Len(OpenDocuSign(mine)),
              reviewed |-> Cardinality(Reviews(mine)), met |-> Cardinality(Met90(mine))]]

\* An advisor's score: one without households has every coverage in full.
AdvisorScore(d) ==
  LET n == AtLeastOne(d.households)
      met == IF d.households = 0 THEN 1 ELSE d.met
      tenths == 3 * Percent(d.reviewed, d.households) + 3 * AtLeast0(100 - 20 * d.overdue)
                  + 2 * AtLeast0(100 - 15 * d.unsigned)
  IN  AtMost100((2 * (tenths * n + 200 * met) + 10 * n) \div (20 * n))

HouseholdHealth(tasks, h) ==
  LET own == Filter(tasks, LAMBDA t : t.name = h.name)
      sent == OpenDocuSign(own)
      D == AtLeastOne(Len(sent))
      T == AtLeastOne(Len(own))
      sum == (IF h.name \in Reviews(tasks) THEN 30 * D * T ELSE 0)
               + 25 * (D - Len(Late(sent))) * T + 25 * (T - Len(OverdueTasks(own))) * D
               + (IF h.name \in Met90(tasks) THEN 20 * D * T ELSE 0)
  IN  (2 * sum + D * T) \div (2 * D * T)

\* Days since the last task of the household's name, or since its creation.
DaysStale(tasks, h) ==
  LET days == {t.created : t \in {u \in Range(tasks) : u.name = h.name}}
  IN  IF days = {} THEN h.created ELSE Min(days)

\* An address in a household's description counts as a record of its accounts.
DataQuality(tasks, h) ==
  100 - (IF DaysStale(tasks, h) >= 90 THEN 30 ELSE 0)
      - (IF h.name \notin Reviews(tasks) THEN 20 ELSE 0)
      - (IF Len(Filter(tasks, LAMBDA t : t.name = h.name)) <= 1 THEN 10 ELSE 0)
      - (IF ~h.mail /\ ~\E t \in Range(tasks) : t.name = h.name /\ t.subject = "account opening"
           THEN 10 ELSE 0)

(***************************************************************************)
(* The pipeline: each name is in one stage, by the tasks of that name.  A  *)
(* completed "DocuSign configured" task counts as a signature.             *)
(***************************************************************************)
Stages == <<"onboarded", "sent", "signed", "compliance", "active">>
StageOf(tasks, name) ==
  LET own == {t \in Range(tasks) : t.name = name}
      reviewed == \E t \in own : IsComplianceReview(t)
      signed == \E t \in own : IsDocuSign(t) /\ ~IsOpen(t)
      met == \E t \in own : IsMeetingNote(t)
  IN  IF reviewed /\ signed /\ met THEN "active"
      ELSE IF reviewed THEN "compliance"
      ELSE IF signed THEN "signed"
      ELSE IF \E t \in own : IsDocuSign(t) THEN "sent" ELSE "onboarded"

Stuck(stage, days) ==
  CASE stage = "sent" -> days > 7
    [] stage = "active" -> FALSE
    [] OTHER -> days > 14

\* The share of the names that went on to a later stage.
Pipeline(tasks, households) ==
  LET In(s) == {n \in Names(households) : StageOf(tasks, n) = s}
      After(i) == SumOver((i + 1)..5, LAMBDA j : Cardinality(In(Stages[j])))
      Age(n) == households[Max({i \in DOMAIN households : households[i].name = n})].created
  IN  [i \in 1..5 |->
         [count |-> Cardinality(In(Stages[i])),
          stuck |-> Cardinality({n \in In(Stages[i]) : Stuck(Stages[i], Age(n))}),
          conversion |-> IF i = 5 THEN 100
                         ELSE Numbered(After(i), AtLeastOne(Cardinality(Names(households))))]]

(***************************************************************************)
(* The risk radar, the thirty worst, and the risks the user disposed of.   *)
(***************************************************************************)
Risk(id, category, severity, days) ==
  [id |-> id, category |-> category, severity |-> severity, days |-> days]
Risks(tasks, households) ==
  LET unsigned == Filter(OpenDocuSign(tasks), LAMBDA t : t.created >= 5)
      late == Filter(OverdueTasks(tasks), LAMBDA t : t.priority = "High")
      unreviewed == Filter(households,
                      LAMBDA h : h.name \notin Reviews(tasks) /\ h.created >= 7)
      stale == Filter(households, LAMBDA h : DaysStale(tasks, h) >= 30)
      all == [i \in DOMAIN unsigned |->
                Risk(unsigned[i].id, "DocuSign",
                     IF unsigned[i].created > 10 THEN "critical" ELSE "high", unsigned[i].created)]
             \o [i \in DOMAIN unreviewed |->
                   LET days == unreviewed[i].created
                   IN  Risk(unreviewed[i].id, "Compliance",
                            IF days > 30 THEN "critical" ELSE IF days > 14 THEN "high"
                            ELSE "medium", days)]
             \o [i \in DOMAIN late |->
                   Risk(late[i].id, "Overdue Task",
                        IF -late[i].due > 7 THEN "critical" ELSE "high", -late[i].due)]
             \o [i \in DOMAIN stale |->
                   LET days == DaysStale(tasks, stale[i])
                   IN  Risk(stale[i].id, "Stale Account",
                            IF days > 60 THEN "critical" ELSE "medium", days)]
      Worst(severity) == Sorted(Filter(all, LAMBDA r : r.severity = severity),
                                 LAMBDA r, s : r.days > s.days)
  IN  FirstOf(Worst("critical") \o Worst("high") \o Worst("medium"), 30)

\* A disposition is [id, action, expired]; a new one replaces the one of its id,
\* and only an expired snooze no longer hides.  It hides every risk of its id.
AddDisposition(dispositions, d) == {e \in dispositions : e.id # d.id} \union {d}
VisibleRisks(risks, dispositions) ==
  LET active == {d.id : d \in {e \in dispositions : ~(e.action = "snoozed" /\ e.expired)}}
  IN  Filter(risks, LAMBDA r : r.id \notin active)

\* The weekly comparison: this week, last week and the twelve weeks before this.
InWeek(t, ago) == t.created > 7 * ago /\ t.created <= 7 * (ago + 1)
Weekly(records) ==
  LET In(ago) == Len(Filter(records, LAMBDA t : InWeek(t, ago)))
  IN  [thisWeek |-> Len(Filter(records, LAMBDA t : t.created <= 7)),
       lastWeek |-> In(1), history |-> [w \in 1..12 |-> In(13 - w)]]

(***************************************************************************)
(* The staff's workload: the tasks that are not meeting notes are dealt out*)
(* in turn.                                                                *)
(***************************************************************************)
OpsStaff(tasks) ==
  LET dealt == Filter(tasks, LAMBDA t : ~IsMeetingNote(t))
      Of(k) == Filter([i \in DOMAIN dealt |->
                            [task |-> dealt[i], to |-> ((i - 1) % Len(KnownOpsStaff)) + 1]],
                         LAMBDA d : d.to = k)
      Count(k, Test(_)) == Len(Filter(Of(k), LAMBDA d : Test(d.task)))
  IN  [k \in DOMAIN KnownOpsStaff |->
         [open |-> Count(k, IsOpen), overdue |-> Count(k, IsOverdue),
          week |-> Count(k, LAMBDA t : ~IsOpen(t) /\ t.created <= 7),
          compliance |-> Count(k, IsComplianceReview), docusign |-> Count(k, IsDocuSign)]]

(***************************************************************************)
(* The overlay of real balances, a function from household ids: the others *)
(* are estimated.  With no balance at all the estimate is kept.            *)
(***************************************************************************)
Balance(balances, id) == IF id \in DOMAIN balances THEN balances[id] ELSE 0
Total(balances) == SumOver(DOMAIN balances, LAMBDA id : balances[id])
Without(households, balances) ==
  Cardinality({i \in DOMAIN households : Balance(balances, households[i].id) = 0})
AumCoverage(households, balances) ==
  LET without == Without(households, balances)
  IN  [mode |-> IF without = Len(households) THEN "none" ELSE IF without = 0 THEN "full"
                ELSE "partial",
       actual |-> Total(balances), gap |-> without * AverageAum,
       blended |-> Total(balances) + without * AverageAum]

\* An advisor's assets, over the names and the last household of each.
AdvisorAum(households, balances) ==
  LET by == AssignAdvisors(households)
      IdOf(n) == households[Max({i \in DOMAIN households : households[i].name = n})].id
  IN  [a \in Range(by) |->
         SumOver({n \in DOMAIN by : by[n] = a},
                 LAMBDA n : IF Balance(balances, IdOf(n)) > 0 THEN Balance(balances, IdOf(n))
                            ELSE AverageAum)]

\* The practice's health weighted by assets: the live screen weighs every
\* household alike, whatever its balance; the demonstration uses the balances.
WeightedHealth(tasks, households, balances, demo) ==
  LET Weight(h) == IF demo /\ Balance(balances, h.id) > 0 THEN Balance(balances, h.id)
                   ELSE AverageAum
      total == IF demo THEN AumCoverage(households, balances).blended ELSE EstimatedAum(households)
      sum == SumOver(DOMAIN households,
               LAMBDA i : HouseholdHealth(tasks, households[i]) * Weight(households[i]))
  IN  IF total = 0 THEN HealthScore(tasks, households) ELSE (2 * sum + total) \div (2 * total)
=============================================================================
