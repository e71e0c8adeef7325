--------------------------------- MODULE Figures ---------------------------------
(***************************************************************************)
(* The application's pure functions over bounded inputs: what an opening   *)
(* prints and records, what discovery makes of an organisation, what the   *)
(* home screen and the dashboard count, and what a compliance scan finds.  *)
(* Each action takes one input of one kind; the properties compare what the*)
(* functions answer with each other.                                       *)
(***************************************************************************)
EXTENDS ClientRecords, OrgQuery, HouseholdPages, TaskLists, BatchScan

VARIABLE input

FiguresInit == input = [kind |-> "start"]
At(kind) == input.kind = kind

(***************************************************************************)
(* An account of the opening wizard, at a custodian.                       *)
(***************************************************************************)
WizardAccounts ==
  {[type |-> t, owner |-> o, funding |-> f] :
     t \in IndivTypes, o \in {"p1", "p2"}, f \in Fundings}
    \union {[type |-> t, owner |-> "both", funding |-> f] : t \in JointTypes, f \in Fundings}

OpenAccount ==
  /\ At("start")
  /\ \E c \in Custodians, a \in WizardAccounts, ach, p2Email \in BOOLEAN :
       input' = [kind |-> "opening", custodian |-> c, account |-> a, ach |-> ach,
                 p2Email |-> p2Email]

(***************************************************************************)
(* An organisation, the calls it refuses and an answer to the manual       *)
(* questions.                                                              *)
(***************************************************************************)
SomeObjects == {"family__c", "family_member__c", "cloupra__Household__c",
                "cloupra__Client_Group_Member__c"}
Refusals == {{}, {"catalog"}, {"account"}, {"package"}, {"custom"}, {"types"}, {"contact"},
             {"account", "types"}, {"package", "custom"}}
Organisation(objects, rt, types, dataTypes, fields) ==
  [objects |-> objects, rt |-> rt, rtId |-> IF rt = None THEN None ELSE "rt id",
   types |-> types, fields |-> fields, hidden |-> {}, person |-> FALSE, links |-> objects,
   financial |-> {}, counts |-> [financial |-> FALSE, opportunities |-> TRUE, tasks |-> TRUE],
   dataTypes |-> dataTypes, hierarchy |-> FALSE, automation |-> [flows |-> 0, triggers |-> 0],
   required |-> {}]

MapOrganisation ==
  /\ At("start")
  /\ \E objects \in SUBSET SomeObjects, rt \in {None, "Household", "Household Group"},
        types \in {{}, {"Household"}, {"Household", "Client"}},
        dataTypes \in {{}, {"Household"}, {"Client"}},
        fields \in {{}, {"advisor", "aum"}}, refused \in Refusals :
       input' = [kind |-> "organisation", refused |-> refused,
                 org |-> Organisation(objects, rt, types, dataTypes, fields)]

(***************************************************************************)
(* A book of tasks and households, and the balances of some of them.       *)
(***************************************************************************)
Task(id, subject, status, priority, due, created, h) ==
  [id |-> id, subject |-> subject, status |-> status, priority |-> priority, due |-> due,
   created |-> created, household |-> h.id, name |-> h.name]
TaskShapes ==
  {<<"compliance review", "Not Started", "Normal", NoDate, 3>>,
   <<"meeting note", "Completed", "Normal", -40, 40>>,
   <<"send docu", "Not Started", "High", 0, 6>>,
   <<"send docu", "Completed", "High", 0, 12>>,
   <<"docusign configured", "Completed", "Normal", NoDate, 6>>,
   <<"follow-up", "Not Started", "High", -8, 9>>,
   <<"other", "Not Started", "Normal", 1, 1>>}
Advisors == {"Jon Cambras", "Amy Sato"}
Book1 ==
  {[id |-> "h1", name |-> "Ash", created |-> 10, advisor |-> "Jon Cambras", owner |-> o] :
     o \in {NoOne, "o1"}}
Book2 ==
  {[id |-> "h2", name |-> n, created |-> 70, advisor |-> a, owner |-> o] :
     n \in {"Ash", "Birch"}, a \in Advisors \union {NoOne}, o \in {NoOne, "o2"}}
Books == Book1 \X Book2
Balances == {[id \in held |-> IF id = "h1" THEN 5 ELSE 3] : held \in SUBSET {"h1", "h2"}}
Elsewhere == [id |-> NoOne, name |-> NoOne]

ShowPractice ==
  /\ At("start")
  /\ \E hs \in Books, shapes \in TaskShapes \X TaskShapes, n \in 0..2, balances \in Balances :
       \E on1, on2 \in {hs[1], hs[2], Elsewhere} :
         LET t(i, on) == Task(IF i = 1 THEN "t1" ELSE "t2", shapes[i][1], shapes[i][2],
                              shapes[i][3], shapes[i][4], shapes[i][5], on)
         IN  /\ n < 2 => on2 = on1 /\ shapes[2] = shapes[1]
             /\ input' = [kind |-> "practice", households |-> hs, balances |-> balances,
                          tasks |-> SubSeq(<<t(1, on1), t(2, on2)>>, 1, n)]

(***************************************************************************)
(* A household's tasks, as they were filed or since then worked on and     *)
(* completed, and its contacts.  The newest is first, and no two are of    *)
(* the same day.                                                           *)
(***************************************************************************)
DueOf(subject) ==
  CASE subject \in {"meeting note", "send docu"} -> -1
    [] subject \in {"follow-up", "workflow review", "workflow envelopes"} -> 3
    [] OTHER -> NoDate
Filed ==
  {f \in {[subject |-> s, status |-> w, priority |-> FiledPriority(s, passed)] :
            s \in Subjects \ {"plan"}, passed \in BOOLEAN,
            w \in {"filed", "In Progress", "Completed"}} :
     f.subject \in Audit => f.status = "filed"}
Ash(age, mail) ==
  [id |-> "h1", name |-> "Ash", created |-> age, advisor |-> NoOne, owner |-> NoOne,
   mail |-> mail]

ShowHousehold ==
  /\ At("start")
  /\ \E age \in {1, 120}, n \in 0..2, days \in {<<0, 1>>, <<5, 95>>, <<95, 100>>},
        email, mail \in BOOLEAN :
       \E f \in [1..n -> Filed] :
         LET h == Ash(age, mail)
             status(i) == IF f[i].status = "filed" THEN FiledStatus(f[i].subject) ELSE f[i].status
         IN  /\ \A i \in 1..n : days[i] <= age
             /\ input' = [kind |-> "household", household |-> h, contacts |-> {[email |-> email]},
                          tasks |-> [i \in 1..n |->
                            Task(<<"t1", "t2">>[i], f[i].subject, status(i), f[i].priority,
                                 DueOf(f[i].subject), days[i], h)]]

(***************************************************************************)
(* A household's records under a firm's configuration.                     *)
(***************************************************************************)
SomeKeywords == {"kyc", "gov id", "rollover", "docusign", "trust cert"}
Firms == {[keywords |-> k, customs |-> c] :
            k \in {<<>>, "kyc-profile" :> {"client profile update"}},
            c \in {{}, {[id |-> "custom", keyword |-> "annual fee letter", missing |-> "fail"]}}}

ScanHousehold ==
  /\ At("start")
  /\ \E text \in SUBSET SomeKeywords, type \in AccountTypes, old \in BOOLEAN, firm \in Firms :
       input' = [kind |-> "scan", firm |-> firm,
                 household |-> [text |-> text, type |-> type, olderThanAYear |-> old]]

(***************************************************************************)
(* A scan of four households, two chunks, some refused, perhaps cancelled; *)
(* or the offer of the report a scan of the same households left behind.   *)
(***************************************************************************)
Complete == {"kyc", "gov id", "risk", "form crs", "docusign", "completeness"}
HouseholdShapes ==
  {[text |-> Complete, words |-> {}, olderThanAYear |-> FALSE],
   [text |-> Complete, words |-> {"joint"}, olderThanAYear |-> TRUE],
   [text |-> Complete \union {"trust cert"}, words |-> {"retirement", "trust"},
    olderThanAYear |-> FALSE],
   [text |-> {"rollover"}, words |-> {"retirement"}, olderThanAYear |-> FALSE]}
Household(id, shape) ==
  [id |-> id, text |-> shape.text, words |-> shape.words, olderThanAYear |-> shape.olderThanAYear]
NoFirm == [keywords |-> <<>>, customs |-> {}]

ScanBook ==
  /\ At("start")
  /\ \E shape \in [1..4 -> HouseholdShapes], listed, viewed \in BOOLEAN,
        refused \in SUBSET {"h1", "h2", "h4"}, stop \in {0, 1, Never} :
       LET households == [i \in 1..4 |-> Household(<<"h1", "h2", "h3", "h4">>[i], shape[i])]
       IN  input' = [kind |-> "batch", households |-> households,
                     page |-> LET scan == RunBatchScan(Page(FALSE), households, listed, refused,
                                                       stop, NoFirm)
                              IN  IF viewed THEN LoadCachedResults(Page(TRUE), scan) ELSE scan]

(***************************************************************************)
(* A file of up to three clients, imported by somebody while Salesforce    *)
(* refuses some calls; and a run of the wizard, for up to one account more *)
(* than a household may have.                                              *)
(***************************************************************************)
Rows == [lastName : {"Ash", "Unknown"}, role : {"", "primary", "spouse"}, email : {0, 12}]
ByRow(rows) ==
  [i \in DOMAIN rows |-> [row |-> i, lastName |-> rows[i].lastName, role |-> rows[i].role,
                          email |-> rows[i].email]]

ImportFile ==
  /\ At("start")
  /\ \E n \in 1..3 : \E rows \in [1..n -> Rows], role \in {"advisor", "operations"},
        failing \in {{}, {"confirmIntent"}, {"kyc"}, {"workflow", "review"}},
        refused \in SUBSET {1, 2} :
       /\ n = 3 => failing = {}
       /\ input' = [kind |-> "import", rows |-> ByRow(rows), role |-> role,
                    failing |-> failing, refused |-> refused]

Recorded == {"recordFunding", "recordCompleteness", "recordPaperwork", "workflow"}
Wizard(accounts, benes, name, source, ach) ==
  [custodian |-> "schwab", accounts |-> accounts, benes |-> benes, name |-> name,
   source |-> source, ach |-> ach]

RunAccounts ==
  {[type |-> t, owner |-> IF t = "JTWROS" THEN "both" ELSE "p1", funding |-> f] :
     t \in {"IRA", "Individual TOD", "JTWROS"}, f \in {"Rollover", "None"}}

RunWizard ==
  /\ At("start")
  /\ \E a \in RunAccounts, n \in {1, 20, 21}, benes \in {0, 13, 14}, name \in {12, 200},
        source \in {0, 478, 479}, ach \in BOOLEAN, failing \in SUBSET Recorded :
       /\ n > 1 => failing = {}
       /\ input' = [kind |-> "wizard", failing |-> failing,
                    opening |-> Wizard([i \in 1..n |-> a], benes, name, source, ach)]

FiguresNext ==
  \/ OpenAccount \/ MapOrganisation \/ ShowPractice \/ ShowHousehold \/ ScanHousehold
  \/ ScanBook \/ ImportFile \/ RunWizard
FiguresSpec == FiguresInit /\ [][FiguresNext]_input

(***************************************************************************)
(* Properties.                                                             *)
(***************************************************************************)
\* What the wizard prints for an account (docsFor) holds every document the
\* custodian's rules ask for in its situation, save the three agreements the
\* wizard has no form for; and where the rules ask for a beneficiary, the form is
\* printed and the beneficiaries page lets one be added.
PaperworkMeetsRules ==
  At("opening") =>
    LET c == input.custodian
        a == input.account
        rule == RulesType[a.type]
        needed == UNION {RequiredDocuments(c, rule, x) : x \in Contexts(a, input.ach)}
    IN  a.type \in DOMAIN RulesType /\ HasRules(c, rule) =>
          /\ needed \ DocsFor(a, input.ach)
               \subseteq {"sep plan", "custodial agreement", "customer agreement"}
          /\ RulesFor(c, rule).beneficiary =>
               "beneficiary" \in DocsFor(a, input.ach) /\ CanAddBeneficiary(a)

\* An envelope for an account the first client owns, alone or with a second who
\* gave an address: each owner signs at the owner's own address, no form is filled
\* in with another person's data, and each document is printed on its own form,
\* Fidelity's ACH form and Pershing's transfer form excepted (see README).
OwnPaperwork ==
  (At("opening") /\ input.account.owner # "p2" /\ input.p2Email) =>
    LET a == input.account
        e == Envelope(input.custodian, a, input.ach, input.p2Email)
        owners == IF a.owner = "both" THEN {"p1", "p2"} ELSE {a.owner}
        unmatched == {<<"fidelity", "ach">>, <<"pershing", "transfer">>}
    IN  /\ {r.name : r \in Range(e.recipients)} = owners
        /\ \A r \in Range(e.recipients) : r.email = r.name
        /\ \A d \in e.documents : /\ d.data.about \subseteq owners
                                  /\ d.form = d.name \/ <<input.custodian, d.name>> \in unmatched

\* The scan that picks the household object and the one that lists every pattern
\* agree: what is picked is one of the patterns, and discovery falls back on all
\* accounts, and asks the user, exactly when there is no pattern.  Only a package
\* whose describe was refused is listed and not picked.
ScansAgree ==
  At("organisation") /\ "package" \notin input.refused =>
    PicksAPattern(Classify(DiscoverOrg(input.org, input.refused)))

\* A household made under a mapping is among the households listed under it,
\* whether discovery or the user made the mapping.
FoundAgain ==
  At("organisation") =>
    LET b == DiscoverOrg(input.org, input.refused)
        manual == {ApplyManual(b, choice, "OwnerId", None) : choice \in HouseholdChoices(b)}
    IN  \A m \in {Classify(b)} \union manual : FindsItsOwn(m)

\* The home screen of an advisor shows the advisor's book: what is listed belongs
\* to a household of the advisor, and the figures are those of the book alone.
OwnBook ==
  At("practice") =>
    \A a \in Advisors :
      LET cfg == LoadTriageConfig([triageCap |-> 3])
          own == Filter(input.households, LAMBDA h : h.advisor = a)
          ids == {h.id : h \in Range(own)}
          tasks == Filter(input.tasks, LAMBDA t : t.household \in ids)
          mine == BuildHomeStats(input.tasks, input.households, a, cfg)
      IN  /\ mine = BuildHomeStats(tasks, own, NoOne, cfg)
          /\ mine.openItems \subseteq {t.id : t \in Range(tasks)}
          /\ mine.reviewItems \subseteq ids

\* The dashboard's parts add up to its totals: the households the advisors are
\* paid for, the pipeline's stages, the advisors' open tasks; and, when no two
\* households share a name, the advisors' assets are the practice's.
FiguresAddUp ==
  At("practice") =>
    LET hs == input.households
        ids == {h.id : h \in Range(hs)}
        revenue == RevenuePerAdvisor(hs)
        aum == AdvisorAum(hs, input.balances)
        score == Scoreboard(input.tasks, hs)
        listed == Filter(input.tasks, LAMBDA t : t.name \in Names(hs))
        pipeline == Pipeline(input.tasks, hs)
    IN  /\ SumOver(DOMAIN revenue, LAMBDA a : revenue[a]) = Len(hs)
        /\ SumOver(1..5, LAMBDA i : pipeline[i].count) = Cardinality(Names(hs))
        /\ SumOver(DOMAIN score, LAMBDA a : score[a].open) = Len(OpenTasks(listed))
        /\ Cardinality(Names(hs)) = Len(hs) /\ DOMAIN input.balances \subseteq ids =>
             SumOver(DOMAIN aum, LAMBDA a : aum[a]) = AumCoverage(hs, input.balances).blended

\* What the home screen counts as overdue is under Overdue or Due Today in the task
\* manager, from Sunday to Saturday and on either side of UTC; the manager's lists,
\* and its pills with the goals and follow-ups that have none, hold each item once.
ListsAgree ==
  At("practice") =>
    LET home == BuildHomeStats(input.tasks, input.households, NoOne, DefaultTriageConfig)
        items == {t \in Range(input.tasks) : t.id \in home.openItems}
        Count(done, type) == TypeCount(items, done, type)
    IN  \A day \in {0, 6}, behindUTC \in BOOLEAN, done \in {{}, {"t1"}} :
          LET In(bucket) == InBucket(NotDone(items, done), bucket, day, behindUTC)
          IN  /\ home.overdueItems \ done
                   \subseteq {t.id : t \in In("overdue") \union In("today")}
              /\ SumOver(Buckets, LAMBDA b : Cardinality(In(b))) = Count(done, "all")
              /\ SumOver((Pills \ {"all"}) \union {"goal", "followup"}, LAMBDA p : Count(done, p))
                   = Count(done, "all")

\* The family page, the briefing and the activity feed say of a household what the
\* home screen and the dashboard say: what is open, unsigned, reviewed and completed,
\* and how good the data is, but for an address: the family page misses one that
\* none of the contacts has, and the dashboard takes one in the description for a
\* record of accounts.  Of an envelope, home asks that nobody has begun with it.  To
\* the briefing alone the workflow's step is a review, and a record of the audit an
\* envelope.
PagesAgree ==
  At("household") =>
    LET h == input.household
        tasks == input.tasks
        Ids(s) == {t.id : t \in Range(s)}
        Of(subject) == Filter(tasks, LAMBDA t : t.subject = subject)
        family == FamilyPage(h, tasks, input.contacts)
        intel == BuildIntel(h, tasks)
        narrative == BuildNarrative(intel)
        home == BuildHomeStats(tasks, <<h>>, NoOne, DefaultTriageConfig)
        feed == ActivityFeed(tasks)
        noEmail == ~\E c \in input.contacts : c.email
        opened == \E t \in Range(tasks) : t.subject = "account opening"
    IN  /\ Ids(family.open) = home.openItems /\ family.open = intel.open
        /\ home.overdueItems \subseteq Ids(family.open)
        /\ family.unsigned = intel.pending
        /\ home.unsignedItems =
             Ids(Filter(family.unsigned, LAMBDA t : t.status = "Not Started"))
        /\ family.reviews = <<>> <=> home.review = 1
        /\ Of("workflow review") = <<>> =>
             /\ intel.reviews = Reverse(family.reviews)
             /\ narrative.review = "flagged" <=>
                  family.reviews # <<>> /\ ~ReviewPassed(family.reviews[1])
        /\ home.recentItems \subseteq Ids(feed)
        /\ SumOver(DOMAIN ByDay(feed, "all", 50), LAMBDA d : Len(ByDay(feed, "all", 50)[d]))
             = intel.completed
        /\ Len(intel.signed) = CategoryCount(feed, "docusign") + Len(Of("audit docusign"))
        /\ SumOver({"compliance", "docusign", "meeting", "audit", "task"},
                   LAMBDA c : CategoryCount(feed, c)) = CategoryCount(feed, "all")
        /\ family.quality = AtLeast0(DataQuality(tasks, h)
                                       - (IF h.mail /\ ~opened THEN 10 ELSE 0)
                                       - (IF noEmail THEN 15 ELSE 0))

\* The screens of the practice agree with each other and with those of a household.
ScreensAgree == ListsAgree /\ PagesAgree

\* Every check of the program's own that a household fails comes with a plan, one
\* that ends with the firm's own staff.
FailuresHavePlans ==
  At("scan") =>
    \A c \in RunComplianceChecks(input.household, input.firm) :
      c.status = "fail" /\ c.id \notin {d.id : d \in input.firm.customs} =>
        RemediationOf(c) # <<>> /\ Last(RemediationOf(c)) = "ops"

\* A report that is shown accounts for every household listed, scanned or skipped,
\* or says that the scan was cancelled; those that need most attention come first;
\* and the scan of one household, its type left open, fails none the report passed.
ReportAccounts ==
  At("batch") /\ Shows(input.page) = "report" =>
    LET r == input.page.results
    IN  /\ input.page.cancelled \/ Len(r) + input.page.skipped = Len(input.households)
        /\ \A i, j \in DOMAIN r : i < j => ~NeedsMore(r[j], r[i])
        /\ \A hh \in Range(input.households) :
             hh.id \in {c.household : c \in Range(Clean(input.page))} =>
               FailedBy(RunComplianceChecks([text |-> hh.text, type |-> "unknown",
                                             olderThanAYear |-> hh.olderThanAYear], NoFirm)) = {}

\* A compliance review leaves nothing out, of one household or of the book: no household
\* of the report, and no failure without the steps that would repair it.
ReviewsAccount == ReportAccounts /\ FailuresHavePlans

\* An imported family is reported as failed only if a client lacks a name or an address, the
\* importer may not make households, or Salesforce refused.  Reported as done, its household
\* has a client for each one sent that Salesforce took, those refused being dropped without
\* notice: two of the rows of the last name, or the only one; and one row twice, the other
\* lost, exactly when a spouse comes first with no primary, or the primary second with no
\* spouse and none before.  It fails the check for the Form CRS, and else just those whose
\* records were refused.
ImportIsReported ==
  At("import") => Reported(input.rows, input.role, input.failing, input.refused)

\* A run of the wizard that makes its household has all its requests taken, whatever
\* the number of accounts and the length of the names, save the beneficiaries' when an
\* account's do not fit a text, and the funding when what is typed of a source does not.
RunIsTaken == At("wizard") => TakenWhole(input.opening)

\* What a scan finds missing for a household the wizard makes: always the check of
\* the clients' identity, which only an onboarding records, for another household;
\* the Form CRS exactly if the paperwork was not recorded; and nothing else as long
\* as the workflow's tasks are there, which nobody has done.
ScanFollowsRecords == At("wizard") => ScannedAsRecorded(input.opening, input.failing)
=============================================================================
