---------------------------- MODULE RequestValidation ----------------------------
(***************************************************************************)
(* Which requests the Salesforce route lets through to its handlers: the   *)
(* roles of ACTION_ROLES (api/salesforce/route.ts) and the validators of   *)
(* lib/sf-validation.ts.  A text of a request is its length, an identifier *)
(* whether it is one of Salesforce's, and a list a function of its places, *)
(* of which there may be gaps.                                             *)
(***************************************************************************)
EXTENDS Naturals, FiniteSets, Sequences, SequencesExt

Roles == {"advisor", "operations", "principal"}

\* ACTION_ROLES: everybody reads and records reviews, operations does everything
\* but meeting notes, an advisor writes nothing but them.
Reads == {"searchContacts", "searchHouseholds", "getHouseholdDetail", "queryTasks",
          "queryFinancialAccounts"}
MayRequest(role, action) ==
  \/ action \in Reads \union {"recordComplianceReview"}
  \/ role = "principal"
  \/ role = "operations" /\ action # "recordMeetingNote"
  \/ role = "advisor" /\ action = "recordMeetingNote"

\* requireString, optionalString and requireArray, with their default limits.
RequiredText(length, limit) == length \in 1..limit
OptionalText(length, limit) == length <= limit
RequiredList(list, limit) == Cardinality(DOMAIN list) <= limit
MaxText == 500
MaxList == 100

ValidConfirmIntent(d) ==
  /\ RequiredText(d.familyName, MaxText) /\ OptionalText(d.assignedAdvisor, MaxText)
  /\ RequiredList(d.accounts, 20) /\ RequiredList(d.members, 50)
  /\ \A a \in Range(d.accounts) : RequiredText(a.type, MaxText) /\ RequiredText(a.owner, MaxText)
  /\ \A m \in Range(d.members) : \A field \in {"firstName", "lastName", "email", "phone"} :
       RequiredText(m[field], MaxText)

ValidRecordFunding(d) ==
  /\ d.householdId /\ RequiredText(d.familyName, MaxText)
  /\ RequiredList(d.fundingDetails, MaxList)
  /\ \A f \in Range(d.fundingDetails) :
       RequiredText(f.account, MaxText) /\ RequiredText(f.detail, MaxText)

ValidRecordMoneyLink(d) ==
  /\ d.householdId /\ RequiredText(d.bankName, MaxText)
  /\ RequiredText(d.lastFour, 4) /\ RequiredText(d.routingLastFour, 4)

ValidRecordBeneficiaries(d) ==
  /\ d.householdId /\ RequiredText(d.familyName, MaxText)
  /\ RequiredList(d.designations, MaxList)
  /\ \A x \in Range(d.designations) :
       RequiredText(x.account, MaxText) /\ RequiredText(x.beneficiary, MaxText)

ValidRecordCompleteness(d) ==
  d.householdId /\ RequiredText(d.familyName, MaxText) /\ RequiredList(d.checks, MaxList)

MutValidRecordPaperwork(d) ==
  /\ d.householdId /\ RequiredList(d.envelopes, 19)
  /\ \A e \in Range(d.envelopes) :
       RequiredText(e.name, MaxText) /\ RequiredList(e.documents, MaxList)
ValidRecordPaperwork(d) ==
  /\ d.householdId /\ RequiredList(d.envelopes, 25)
  /\ \A e \in Range(d.envelopes) :
       RequiredText(e.name, MaxText) /\ RequiredList(e.documents, MaxList)

ValidRecordDocusignConfig(d) ==
  /\ d.householdId /\ RequiredText(d.familyName, MaxText) /\ RequiredList(d.config, MaxList)
  /\ \A c \in Range(d.config) :
       RequiredText(c.envelope, MaxText) /\ RequiredText(c.recipients, MaxText)

ValidSendDocusign(d) ==
  /\ d.householdId /\ RequiredList(d.envelopes, 25)
  /\ \A e \in Range(d.envelopes) :
       /\ RequiredText(e.name, MaxText) /\ RequiredText(e.emailSubject, MaxText)
       /\ RequiredList(e.signers, MaxList)

\* The route hands a request of a role to its handler, which validates it first.
Accepts(role, r) ==
  /\ MayRequest(role, r.action)
  /\ r.action = "confirmIntent" => ValidConfirmIntent(r.data)
  /\ r.action = "recordFunding" => ValidRecordFunding(r.data)
  /\ r.action = "recordMoneyLink" => ValidRecordMoneyLink(r.data)
  /\ r.action = "recordBeneficiaries" => ValidRecordBeneficiaries(r.data)
  /\ r.action = "recordCompleteness" => ValidRecordCompleteness(r.data)
  /\ r.action = "recordPaperwork" => ValidRecordPaperwork(r.data)
  /\ r.action = "recordDocusignConfig" => ValidRecordDocusignConfig(r.data)
  /\ r.action = "sendDocusign" => ValidSendDocusign(r.data)
=============================================================================
