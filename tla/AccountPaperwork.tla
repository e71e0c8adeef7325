---------------------------- MODULE AccountPaperwork ----------------------------
(***************************************************************************)
(* What the account-opening wizard prints for an account, on which client's*)
(* data and for whose signature: docsFor of lib/format.ts, the review page *)
(* of app/flow/FlowScreen.tsx, the envelopes executeGen builds             *)
(* (app/flow/useFlowState.ts) and the generators of api/docusign/route.ts, *)
(* against the custodians' rules.  These are functions of an opening; the  *)
(* wizard that builds one is AccountOpening, the pipeline that sends the   *)
(* envelopes PaperworkRun.                                                 *)
(*                                                                         *)
(* A document is its kind, a client is "p1" or "p2", an account is         *)
(* [type, owner, funding] with owner "p1", "p2" or "both".                 *)
(***************************************************************************)
EXTENDS CustodianRules, FiniteSets, SequencesExt

IndivTypes == {"IRA", "Roth IRA", "Individual", "Individual TOD", "SEP IRA", "SIMPLE IRA",
               "401(k)", "529 Plan"}
JointTypes == {"JTWROS", "JTWROS TOD", "Joint TIC", "Community Property"}
Fundings == {"Rollover", "In-kind TOA", "Cash TOA", "New Money", "None"}
Custodians == {"schwab", "fidelity", "pershing", "altus"}

TOD == {"Individual TOD", "JTWROS TOD"}
JTWROS == {"JTWROS", "JTWROS TOD"}
IsTransfer(a) == a.funding \in {"In-kind TOA", "Cash TOA"}

MutDocsFor(a, setupACH) ==
  {"application", "crs", "addendum"}
    \union (IF a.type \notin TOD \union JTWROS \union {"Community Property", "IRA"}
              THEN {"beneficiary"} ELSE {})
    \union (IF setupACH THEN {"ach"} ELSE {})
    \union (IF a.funding = "Rollover" THEN {"rollover", "pte"} ELSE {})
    \union (IF IsTransfer(a) THEN {"transfer", "loa"} ELSE {})

DocsFor(a, setupACH) ==
  {"application", "crs", "addendum"}
    \union (IF a.type \notin TOD \union JTWROS \union {"Community Property"}
              THEN {"beneficiary"} ELSE {})
    \union (IF setupACH THEN {"ach"} ELSE {})
    \union (IF a.funding = "Rollover" THEN {"rollover", "pte"} ELSE {})
    \union (IF IsTransfer(a) THEN {"transfer", "loa"} ELSE {})

\* The words of a document's name the generators look for.  The transfer form
\* and the ACH form have the custodian's own name (transferForm, achLabel).
Words(c, doc) ==
  CASE doc = "application" -> {"account application"}
    [] doc = "crs" -> {"form crs"}
    [] doc = "addendum" -> {"advisory", "addendum"}
    [] doc = "beneficiary" -> {"beneficiary"}
    [] doc = "rollover" -> {"rollover recommendation"}
    [] doc = "pte" -> {"pte", "prohibited transaction"}
    [] doc = "loa" -> {"letter of authorization", "loa"}
    [] doc = "transfer" -> IF c = "pershing" THEN {} ELSE {"transfer of assets"}
    [] doc = "ach" -> IF c = "schwab" THEN {"moneylink"}
                      ELSE IF c = "fidelity" THEN {} ELSE {"ach"}

\* DOC_GENERATORS: the words an entry matches and the form it prints.
Generators ==
  <<[words |-> {"account application"}, form |-> "application"],
    [words |-> {"form crs"}, form |-> "crs"],
    [words |-> {"beneficiary"}, form |-> "beneficiary"],
    [words |-> {"rollover recommendation"}, form |-> "rollover"],
    [words |-> {"transfer of assets", "toa form"}, form |-> "transfer"],
    [words |-> {"ach", "moneylink"}, form |-> "ach"],
    [words |-> {"letter of authorization", "loa"}, form |-> "loa"],
    [words |-> {"pte", "prohibited transaction"}, form |-> "pte"],
    [words |-> {"advisory", "addendum"}, form |-> "addendum"]>>

\* A document no entry matches is printed as a page that only asks for a signature.
FormOf(c, doc) ==
  Find(Generators, LAMBDA g : g.words \intersect Words(c, doc) # {}, [form |-> "generic"]).form

\* genAccountApp, genFormCRS, genBeneForm, genRolloverRec, genTOAForm, genACHForm
\* and genGenericDoc: the client whose data the form is filled in with, if any,
\* and whether it lists the beneficiaries.
FillInApplication(client) == [about |-> {client}, lists |-> FALSE]
FillInFormCRS(client) == [about |-> {client}, lists |-> FALSE]
FillInBeneficiaries == [about |-> {}, lists |-> TRUE]
FillInRollover(client) == [about |-> {client}, lists |-> FALSE]
FillInTransfer(client) == [about |-> {client}, lists |-> FALSE]
FillInACH(client) == [about |-> {client}, lists |-> FALSE]
FillInGeneric == [about |-> {}, lists |-> FALSE]

FillIn(form, client) ==
  CASE form = "application" -> FillInApplication(client)
    [] form = "crs" -> FillInFormCRS(client)
    [] form = "beneficiary" -> FillInBeneficiaries
    [] form = "rollover" -> FillInRollover(client)
    [] form = "transfer" -> FillInTransfer(client)
    [] form = "ach" -> FillInACH(client)
    [] form \in {"loa", "pte", "addendum", "generic"} -> FillInGeneric

\* The signers executeGen names for an account and the addresses it gives: the
\* address typed on the review page or the first client's own comes first, and
\* an empty one is left out.
SignerNames(a) == IF a.owner = "both" THEN <<"p1", "p2">> ELSE <<a.owner>>
SignerEmails(a, p2Email) ==
  IF a.owner = "both" /\ p2Email THEN <<"p1", "p2">> ELSE <<"p1">>

\* buildEnvelope: env.client is the first client, whoever owns the account, and
\* the recipients are the addresses, each with the name at the same place.
MutEnvelope(c, a, setupACH, p2Email) ==
  [documents |-> {[name |-> doc, form |-> FormOf(c, doc),
                   data |-> FillIn(FormOf(c, doc), "p2")] : doc \in DocsFor(a, setupACH)},
   recipients |-> [i \in DOMAIN SignerEmails(a, p2Email) |->
                     [name |-> SignerNames(a)[i], email |-> SignerEmails(a, p2Email)[i]]]]
Envelope(c, a, setupACH, p2Email) ==
  [documents |-> {[name |-> doc, form |-> FormOf(c, doc),
                   data |-> FillIn(FormOf(c, doc), "p1")] : doc \in DocsFor(a, setupACH)},
   recipients |-> [i \in DOMAIN SignerEmails(a, p2Email) |->
                     [name |-> SignerNames(a)[i], email |-> SignerEmails(a, p2Email)[i]]]]

\* RULES_TYPE_MAP: the wizard's account types that have rules.
TypesWithRules ==
  {"Individual", "Individual TOD", "IRA", "Roth IRA", "SEP IRA", "Rollover IRA", "JTWROS",
   "JTWROS TOD", "Joint TIC", "Community Property", "Trust"}
RulesType ==
  [type \in TypesWithRules |->
     CASE type \in {"Individual", "Individual TOD"} -> "Individual Brokerage"
       [] type = "IRA" -> "Traditional IRA"
       [] type \in {"JTWROS", "JTWROS TOD", "Community Property"} -> "JTWROS"
       [] type \in {"Roth IRA", "SEP IRA", "Rollover IRA", "Joint TIC", "Trust"} -> type]

\* The checklist of the review page: the documents, how many rejection risks it
\* calls prevented, and whether it warns that no beneficiary is designated.
Checklist(c, a, setupACH, benes) ==
  LET ruled == a.type \in DOMAIN RulesType
  IN  [docs |-> DocsFor(a, setupACH),
       prevented |-> IF ruled THEN Len(NIGORisks(c, RulesType[a.type])) ELSE 0,
       warned |-> /\ ruled
                  /\ HasRules(c, RulesType[a.type])
                  /\ RulesFor(c, RulesType[a.type]).beneficiary
                  /\ benes = 0]

\* The beneficiaries page: an account with survivorship rights offers no form.
CanAddBeneficiary(a) == a.type \notin JTWROS \union {"Community Property"}

\* What the choices made in the wizard are in the rules' terms.
Contexts(a, setupACH) ==
  (IF setupACH THEN {[funding_method |-> "ACH"]} ELSE {})
    \union (IF a.funding = "Rollover" THEN {[funding_method |-> "Rollover"]} ELSE {})
    \union (IF IsTransfer(a) THEN {[funding_method |-> "Transfer"]} ELSE {})
    \union {[funding_method |-> a.funding]}

(***************************************************************************)
(* recommendAccounts: what the selection page recommends for a profile     *)
(* [income, joint (married), selfEmployed, estate, rollover, family].      *)
(***************************************************************************)
Rec(type, priority) == [type |-> type, priority |-> priority]
Recommended(c, p) ==
  LET roth == IncomeEligibility(c, "Roth IRA", p.income, p.joint)
      all ==
        <<Rec("Individual", 5)>>
        \o (IF roth = "over" THEN <<>>
            ELSE IF p.income > 0 /\ p.income < 200000 THEN <<Rec("Roth IRA", 1)>>
            ELSE IF roth = "phasing out" THEN <<Rec("Roth IRA", 3)>> ELSE <<>>)
        \o (IF p.income > 0 THEN <<Rec("IRA", IF p.rollover THEN 1 ELSE 3)>> ELSE <<>>)
        \o (IF p.selfEmployed THEN <<Rec("SEP IRA", 1)>> ELSE <<>>)
        \o (IF p.estate THEN <<Rec("Individual TOD", 4)>> ELSE <<>>)
        \o (IF p.family THEN <<Rec("529 Plan", 6)>> ELSE <<>>)
      byPriority == Sorted(all, LAMBDA r, s : r.priority < s.priority)
  IN  SubSeq(byPriority, 1, IF Len(all) < 3 THEN Len(all) ELSE 3)
=============================================================================
