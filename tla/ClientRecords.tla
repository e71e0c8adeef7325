------------------------------ MODULE ClientRecords ------------------------------
(***************************************************************************)
(* The records a household is made with: the families of an imported file  *)
(* (app/onboard/OnboardScreen.tsx), the requests the import and the wizard *)
(* (app/flow/useFlowState.ts) send for a household, and the tasks the      *)
(* handlers (api/salesforce/handlers) write for those that are taken.      *)
(* A task's text is the set of the compliance keywords that occur in it.   *)
(***************************************************************************)
EXTENDS RequestValidation, AccountPaperwork, ComplianceEngine

Nobody == [row |-> 0]

(***************************************************************************)
(* parseCSVFamilies: a row is [row, lastName, role, email], the email its  *)
(* length; rows with the same last name are one family of at most two.     *)
(***************************************************************************)
FirstWithRole(members, role, otherwise) ==
  Find(members, LAMBDA r : r.role = role, otherwise)
SecondOf(members) == IF Len(members) > 1 THEN members[2] ELSE Nobody
MutFamily(members) ==
  [p1 |-> FirstWithRole(members, "primary", members[1]), p2 |-> SecondOf(members)]
Family(members) ==
  [p1 |-> FirstWithRole(members, "primary", members[1]),
   p2 |-> FirstWithRole(members, "spouse", SecondOf(members))]
Groups(rows) ==
  [name \in {r.lastName : r \in Range(rows)} |->
     Filter(rows, LAMBDA r : r.lastName = name)]
Families(rows) == [name \in DOMAIN Groups(rows) |-> Family(Groups(rows)[name])]
Members(f) == IF f.p2 = Nobody THEN <<f.p1>> ELSE <<f.p1, f.p2>>

(***************************************************************************)
(* The texts of the tasks.                                                 *)
(***************************************************************************)
\* The tasks the new-client workflow files for a new household, to be done.
WorkflowText == {"privacy", "docusign", "docu", "kyc", "suitability", "completeness",
                 "investment objective", "risk", "moneylink"}
CompletenessText(labels) == {"completeness"} \union labels
KycLabels == {"kyc", "risk"}
ReviewLabels == {"identity verified", "gov id", "trusted contact", "suitability"}
FundingText(fundings) == {"pte"} \union (IF "Rollover" \in fundings THEN {"rollover"} ELSE {})
MoneyLinkText == {"moneylink"}
\* "Advisor reviewed at" and "CC: AdviceOne Ops" have "adv" in them.
BeneficiariesText == {"beneficiar", "adv"}
OpeningLabels(setupACH) == {"beneficiar"} \union (IF setupACH THEN {"ach"} ELSE {})
DocusignConfigText == {"docusign", "docu"}
SendDocusignText == {"docusign", "docu", "adv"}

\* The keywords in the name of a document, and in a list of them.
DocumentText(c, doc) ==
  CASE doc = "crs" -> {"form crs", "client relationship summary"}
    [] doc = "addendum" -> {"adv", "advisory"}
    [] doc = "beneficiary" -> {"beneficiar"}
    [] doc = "rollover" -> {"rollover"}
    [] doc = "pte" -> {"pte"}
    [] doc = "ach" -> IF c = "schwab" THEN {"moneylink"}
                      ELSE IF c = "fidelity" THEN {} ELSE {"ach"}
    [] OTHER -> {}
MutPaperworkText(c, documents) == {"docu"}
PaperworkText(c, documents) == {"docu"} \union UNION {DocumentText(c, doc) : doc \in documents}

(***************************************************************************)
(* A batch import: each family on its own, whatever became of the others.  *)
(* "failing" are the calls Salesforce refuses, "refused" the places of the *)
(* clients it does not take of a call it does: the handler drops those and *)
(* still answers success.  A client listed is listed in the household the  *)
(* answer names; what a repeated call, or one that fails late, has made    *)
(* besides is HouseholdCreation's.  The recording of the checks is tried   *)
(* and its answer not looked at.                                           *)
(***************************************************************************)
\* A last name of the file is four letters, or missing; first name and phone are there.
LastName(r) == IF r.lastName = "Unknown" THEN 0 ELSE 4
ImportConfirm(name, f, advisor) ==
  [action |-> "confirmIntent",
   data |-> [familyName |-> 4, assignedAdvisor |-> advisor, accounts |-> <<>>,
             members |-> [i \in DOMAIN Members(f) |->
               [firstName |-> 3, lastName |-> LastName(Members(f)[i]),
                email |-> Members(f)[i].email, phone |-> 10]]]]
ImportChecks(n) ==
  [action |-> "recordCompleteness",
   data |-> [householdId |-> TRUE, familyName |-> 4, checks |-> [i \in 1..n |-> 40]]]

\* The clients the answer lists: those of the request, in its order, that Salesforce took.
Created(members, refused) ==
  LET places == DOMAIN members \ refused IN Arranged(members, places, Ascending(places))

RunFamily(name, f, role, failing, refused) ==
  LET made(step, r) == step \notin failing /\ Accepts(role, r)
  IN  IF ~made("confirmIntent", ImportConfirm(name, f, 11))
        THEN [status |-> "error", contacts |-> <<>>, text |-> {}]
        ELSE [status |-> "done", contacts |-> Created(Members(f), refused),
              text |-> (IF "workflow" \in failing THEN {} ELSE WorkflowText)
                \union (IF made("kyc", ImportChecks(Len(Members(f))))
                          THEN CompletenessText(KycLabels) ELSE {})
                \union (IF made("review", ImportChecks(5))
                          THEN CompletenessText(ReviewLabels) ELSE {})]
RunBatch(rows, role, failing, refused) ==
  [name \in DOMAIN Families(rows) |->
     RunFamily(name, Families(rows)[name], role, failing, refused)]

(***************************************************************************)
(* The wizard's run: an opening is [custodian, accounts, benes, name,      *)
(* source, ach], where benes are how many each account has, name is the    *)
(* length of each client's name and source of what is typed of the money's *)
(* source, its amount and account number, which nothing limits.  18 letters*)
(* are in the longest name of an account type.                             *)
(***************************************************************************)
OwnerLength(o, a) == IF a.owner = "both" THEN 2 * o.name + 3 ELSE o.name
AccountLabel(o, a) == OwnerLength(o, a) + 3 + 18

\* "Name (Spouse) — 50% Primary", joined by "; ".
BeneficiaryText(o, a) ==
  IF a.type \in JTWROS \union {"Community Property"} THEN 19
  ELSE IF o.benes = 0 THEN 4 ELSE o.benes * (o.name + 25) - 2

\* "In-kind TOA — ~$ acct#" with what is typed of the amount and the number.
FundingDetail(o) == 22 + o.source

ForAccounts(o, Each(_)) == [i \in DOMAIN o.accounts |-> Each(o.accounts[i])]
Funded(o) == {i \in DOMAIN o.accounts : o.accounts[i].funding # "None"}

\* The requests of executeGen, each with what is in the text of the task it leaves.
ForHousehold == [householdId |-> TRUE, familyName |-> 8]
Request(action, data, text) ==
  [action |-> action, data |-> Over(data, ForHousehold), text |-> text]
Client == [firstName |-> 5, lastName |-> 8, email |-> 12, phone |-> 10]

ConfirmOpening(o) ==
  Request("confirmIntent",
    [assignedAdvisor |-> 0, members |-> <<Client, Client>>,
     accounts |-> ForAccounts(o, LAMBDA a : [type |-> 18, owner |-> OwnerLength(o, a)])],
    {})

FundingRequest(o) ==
  Request("recordFunding",
    [fundingDetails |-> [i \in Funded(o) |->
       [account |-> AccountLabel(o, o.accounts[i]), detail |-> FundingDetail(o)]]],
    FundingText({a.funding : a \in Range(o.accounts)}))

MoneyLinkRequest ==
  Request("recordMoneyLink", [bankName |-> 10, lastFour |-> 4, routingLastFour |-> 4],
          MoneyLinkText)

BeneficiariesRequest(o) ==
  Request("recordBeneficiaries",
    [designations |-> ForAccounts(o, LAMBDA a :
       [account |-> AccountLabel(o, a), beneficiary |-> BeneficiaryText(o, a)])],
    BeneficiariesText)

CompletenessRequest(o) ==
  Request("recordCompleteness", [checks |-> <<20, 20, 20>>],
          CompletenessText(OpeningLabels(o.ach)))

PaperworkRequest(o) ==
  Request("recordPaperwork",
    [envelopes |-> ForAccounts(o, LAMBDA a :
       [name |-> AccountLabel(o, a) + 9, documents |-> [doc \in DocsFor(a, o.ach) |-> 20]])],
    PaperworkText(o.custodian, UNION {DocsFor(a, o.ach) : a \in Range(o.accounts)}))

DocusignConfigRequest(o) ==
  Request("recordDocusignConfig",
    [config |-> ForAccounts(o, LAMBDA a :
       [envelope |-> AccountLabel(o, a) + 11,
        recipients |-> IF a.owner = "both" THEN 2 * o.name + 12 ELSE o.name + 9])],
    DocusignConfigText)

SendRequest(o) ==
  Request("sendDocusign",
    [envelopes |-> ForAccounts(o, LAMBDA a :
       [name |-> AccountLabel(o, a), signers |-> SignerNames(a), emailSubject |-> 44])],
    SendDocusignText)

\* Their order (PaperworkRun) makes no difference to what is recorded.
OpeningRequests(o) ==
  {ConfirmOpening(o), BeneficiariesRequest(o), CompletenessRequest(o), PaperworkRequest(o),
   DocusignConfigRequest(o), SendRequest(o)}
    \union (IF Funded(o) = {} THEN {} ELSE {FundingRequest(o)})
    \union (IF o.ach THEN {MoneyLinkRequest} ELSE {})

\* What the route refuses of a set of requests, and the text of the household's tasks once the run is over.
\* The run stops only if the household is not made.
Refused(role, requests) ==
  {r.action : r \in {q \in requests : ~Accepts(role, q)}}
OpeningText(o, role, failing) ==
  LET requests == OpeningRequests(o)
      lost == Refused(role, requests) \union failing
  IN  IF "confirmIntent" \in lost THEN {}
      ELSE (IF "workflow" \in failing THEN {} ELSE WorkflowText)
             \union UNION {r.text : r \in {q \in requests : q.action \notin lost}}

(***************************************************************************)
(* What has to be true of an import's records.                             *)
(***************************************************************************)
\* One client takes both places of the family, as the first spouse and as the first of
\* the name, or as the first primary and as the second of the name.
Overlap(g) ==
  \/ g[1].role = "spouse" /\ \A i \in DOMAIN g : g[i].role # "primary"
  \/ /\ Len(g) > 1 /\ g[1].role # "primary" /\ g[2].role = "primary"
     /\ \A i \in DOMAIN g : g[i].role # "spouse"
\* The places of the clients sent for the rows of a name.
Sent(g) == IF Len(g) = 1 /\ ~Overlap(g) THEN 1..1 ELSE 1..2

\* The checks a family fails, by the records of it that were refused: the three records
\* have the words of the others' checks between them.
Missed(failing) ==
  {"form-crs"}
    \union (IF "review" \in failing THEN {"identity-verified"} ELSE {})
    \union (IF "workflow" \in failing THEN {"signatures"} ELSE {})
    \union (IF {"workflow", "kyc", "review"} \subseteq failing
              THEN {"kyc-profile", "suitability-profile", "completeness-check"} ELSE {})

\* A family reported as failed lacks a name or an address, may not be made, or was refused.
\* One reported as done has a client for each place Salesforce did not refuse, each of its
\* rows, the two the same exactly if they overlap; and fails what was not recorded of it.
MadeAsReported(g, f, role, failing, refused) ==
  /\ f.status = "error" =>
       \/ \E r \in Range(g) : r.email = 0 \/ LastName(r) = 0
       \/ role = "advisor" \/ "confirmIntent" \in failing
  /\ f.status = "done" =>
       /\ Len(f.contacts) = Cardinality(Sent(g) \ refused)
       /\ Range(f.contacts) \subseteq Range(g)
       /\ \A i, j \in DOMAIN f.contacts :
            i # j => (f.contacts[i] = f.contacts[j] <=> Overlap(g))
       /\ FailedBy(RunComplianceChecks([text |-> f.text, type |-> "unknown",
                                        olderThanAYear |-> FALSE],
                                       [keywords |-> <<>>, customs |-> {}])) = Missed(failing)
Reported(rows, role, failing, refused) ==
  LET result == RunBatch(rows, role, failing, refused)
  IN  \A name \in DOMAIN Groups(rows) :
        MadeAsReported(Groups(rows)[name], result[name], role, failing, refused)

(***************************************************************************)
(* What has to be true of an opening's records.                            *)
(***************************************************************************)
\* A run that makes its household has all its requests taken, save the beneficiaries' when
\* an account's do not fit a text, and the funding when what is typed of a source does not.
TakenWhole(o) ==
  LET refused == Refused("operations", OpeningRequests(o))
      tooMany == \E a \in Range(o.accounts) : BeneficiaryText(o, a) > MaxText
      tooLong == Funded(o) # {} /\ FundingDetail(o) > MaxText
  IN  "confirmIntent" \notin refused =>
        refused = (IF tooMany THEN {"recordBeneficiaries"} ELSE {})
                    \union (IF tooLong THEN {"recordFunding"} ELSE {})

\* What a scan finds missing for a household made: always the check of the clients'
\* identity, the Form CRS exactly if the paperwork was not recorded, and nothing else
\* as long as the workflow's tasks are there.
ScannedAsRecorded(o, failing) ==
  LET text == OpeningText(o, "operations", failing)
      failed == FailedBy(RunComplianceChecks([text |-> text, type |-> "individual",
                                              olderThanAYear |-> FALSE],
                                             [keywords |-> <<>>, customs |-> {}]))
  IN  text # {} =>
        /\ "identity-verified" \in failed
        /\ "form-crs" \in failed <=> "recordPaperwork" \in failing
        /\ "workflow" \notin failing => failed \subseteq {"identity-verified", "form-crs"}
=============================================================================
