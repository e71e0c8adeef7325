----------------------------- MODULE SchemaDiscovery -----------------------------
(***************************************************************************)
(* Schema discovery (lib/schema-discovery.ts): the metadata calls that make*)
(* a bundle of an organisation, any of which Salesforce may refuse, and the*)
(* heuristic classification of the bundle into a mapping.                  *)
(*                                                                         *)
(* A name or label stands for what the patterns recognise in it: a field is*)
(* "advisor", "aum", "rollup", "tier", "status", "primary" or its own name,*)
(* a Type value is "Household" or one that does not contain the word.      *)
(* Confidences are percentages.  Counts are the facts that they are        *)
(* positive.  An organisation has one active household record type or none,*)
(* and its custom objects have no advisor, asset, tier or status field.    *)
(***************************************************************************)
EXTENDS Integers, Sequences, FiniteSets, SequencesExt

None == "none"

(* MANAGED_PACKAGE_PREFIXES: the objects of the platforms it knows.          *)
Packages == <<[platform |-> "Practifi", household |-> "cloupra__Household__c",
               junction |-> "cloupra__Client_Group_Member__c"],
              [platform |-> "XLR8", household |-> "XLR8__Client_Group__c",
               junction |-> "XLR8__Client_Group_Member__c"],
              [platform |-> "Wealthbox Sync", household |-> "wealthbox__Household__c",
               junction |-> None]>>
ObjectsOf(p) == {p.household, p.junction} \ {None}
PackageObjects == UNION {ObjectsOf(Packages[i]) : i \in DOMAIN Packages}

(* The custom objects of an organisation that RIA_CONCEPT_PATTERNS pick out. *)
CustomObjects == {"family__c", "family_member__c", "portfolio__c", "compliance_review__c",
                  "prospect__c"}
HouseholdLike == {"family__c", "family_member__c"} \union (PackageObjects \ {None})

\* What an object's lookup fields refer to.
RefersTo(o) ==
  CASE o = "family_member__c" -> {"Contact", "family__c"}
    [] o = "cloupra__Client_Group_Member__c" -> {"Contact", "cloupra__Household__c"}
    [] o = "XLR8__Client_Group_Member__c" -> {"Contact", "XLR8__Client_Group__c"}
    [] o = "portfolio__c" -> {"Account"}
    [] OTHER -> {}

(***************************************************************************)
(* Discovery.  A refused describe gives null and a refused count or query  *)
(* gives nothing; only the describe of an object that is not there and one *)
(* that is refused look the same.                                          *)
(***************************************************************************)
Calls == {"catalog", "account", "contact", "financial account", "package", "custom",
          "counts", "types", "hierarchy"}

\* fetchObjectCatalog
Catalog(org, refused) == IF "catalog" \in refused THEN {} ELSE org.objects

\* fetchObjectDescribe of Account, and detectPersonAccounts on what it gives.
NoAccount == [described |-> FALSE, rt |-> None, rtId |-> None, types |-> {}, fields |-> {},
              hidden |-> {}, person |-> FALSE]
DescribeAccount(org, refused) ==
  IF "account" \in refused THEN NoAccount
  ELSE [described |-> TRUE, rt |-> org.rt, rtId |-> org.rtId, types |-> org.types,
        fields |-> org.fields, hidden |-> org.hidden, person |-> org.person]

\* identifyCandidateObjects and the describes of the candidates, which come in this
\* order: custom objects as in the catalog, then the objects of the known packages.
CandidateOrder == <<"family__c", "family_member__c", "portfolio__c", "compliance_review__c",
                    "prospect__c", "cloupra__Household__c", "cloupra__Client_Group_Member__c",
                    "XLR8__Client_Group__c", "XLR8__Client_Group_Member__c",
                    "wealthbox__Household__c">>
Candidates(catalog, refused) ==
  catalog \intersect ((IF "custom" \in refused THEN {} ELSE CustomObjects)
                        \union (IF "package" \in refused THEN {} ELSE PackageObjects))

\* fetchRecordCounts: a refused count is zero.
Counts(org, refused, fsc) ==
  IF "counts" \in refused THEN [financial |-> FALSE, opportunities |-> FALSE, tasks |-> FALSE]
  ELSE [financial |-> fsc /\ org.counts.financial, opportunities |-> org.counts.opportunities,
        tasks |-> org.counts.tasks]

\* discoverOrg
DiscoverOrg(org, refused) ==
  LET catalog == Catalog(org, refused)
      fsc == "FinServ__FinancialAccount__c" \in catalog
      account == DescribeAccount(org, refused)
  IN  [catalog |-> catalog,
       account |-> account,
       contact |-> [described |-> "contact" \notin refused, links |-> org.links,
                    primary |-> "primary" \in org.fields, hidden |-> "email" \in org.hidden],
       financial |-> [described |-> fsc /\ "financial account" \notin refused,
                      fields |-> org.financial],
       packages |-> {p \in Range(Packages) : ObjectsOf(p) \intersect catalog # {}},
       candidates |-> Candidates(catalog, refused),
       automation |-> org.automation,
       counts |-> Counts(org, refused, fsc),
       dataTypes |-> IF "types" \in refused THEN {} ELSE org.dataTypes,
       hierarchy |-> account.described /\ "hierarchy" \notin refused /\ org.hierarchy,
       required |-> org.required]

(***************************************************************************)
(* The field finders: each answers the field it looks for, or None.        *)
(***************************************************************************)
FindField(fields, f) == IF f \in fields THEN f ELSE None
AdvisorField(a) == IF ~a.described THEN None
                   ELSE IF "advisor" \in a.fields THEN "advisor" ELSE "OwnerId"
AumField(a) == IF "aum" \in a.fields THEN "aum" ELSE FindField(a.fields, "rollup")
TierField(a) == FindField(a.fields, "tier")
StatusField(a) == FindField(a.fields, "status")

\* The first object of the sequence that is in S.
FirstIn(seq, S) ==
  LET hits == {i \in DOMAIN seq : seq[i] \in S} IN IF hits = {} THEN None ELSE seq[Min(hits)]

(***************************************************************************)
(* Classification.                                                         *)
(***************************************************************************)
OnAccount(b, rt, rtId, field, value, conf) ==
  [object |-> "Account", rt |-> rt, rtId |-> rtId, field |-> field, value |-> value,
   advisor |-> AdvisorField(b.account), aum |-> AumField(b.account),
   tier |-> TierField(b.account), status |-> StatusField(b.account),
   hierarchy |-> b.hierarchy, conf |-> conf]
OnCustomObject(o, conf) ==
  [object |-> o, rt |-> None, rtId |-> None, field |-> None, value |-> None,
   advisor |-> None, aum |-> None, tier |-> None, status |-> None,
   hierarchy |-> FALSE, conf |-> conf]

\* The first package, in the table's order, whose household object was described.
PackageHousehold(b) ==
  FirstIn([i \in DOMAIN Packages |-> Packages[i].household],
          {p.household : p \in b.packages} \intersect b.catalog \intersect b.candidates)
CustomHousehold(b) == FirstIn(CandidateOrder, b.candidates \intersect HouseholdLike)

MutDetectHousehold(b) ==
  IF PackageHousehold(b) # None THEN OnCustomObject(PackageHousehold(b), 95)
  ELSE IF "Household" \in b.account.types THEN OnAccount(b, None, None, "Type", "Household", 85)
  ELSE IF "Household" \in b.dataTypes THEN OnAccount(b, None, None, "Type", "Household", 90)
  ELSE IF CustomHousehold(b) # None THEN OnCustomObject(CustomHousehold(b), 65)
  ELSE OnAccount(b, None, None, None, None, 40)

DetectHousehold(b) ==
  IF PackageHousehold(b) # None THEN OnCustomObject(PackageHousehold(b), 95)
  ELSE IF b.account.rt # None THEN OnAccount(b, b.account.rt, b.account.rtId, None, None, 95)
  ELSE IF "Household" \in b.account.types THEN OnAccount(b, None, None, "Type", "Household", 85)
  ELSE IF "Household" \in b.dataTypes THEN OnAccount(b, None, None, "Type", "Household", 90)
  ELSE IF CustomHousehold(b) # None THEN OnCustomObject(CustomHousehold(b), 65)
  ELSE OnAccount(b, None, None, None, None, 40)

\* The package's own junction first, then any object that refers to both sides.
JunctionObject(b, household) ==
  LET links == {o \in b.candidates : {"Contact", household} \subseteq RefersTo(o)}
      own == FirstIn([i \in DOMAIN Packages |-> Packages[i].junction],
                     links \intersect
                       {p.junction : p \in {q \in b.packages : q.household = household}})
  IN  IF own # None THEN own
      ELSE IF household = "Account" THEN None
      ELSE FirstIn(CandidateOrder, links \ {household})

DetectContact(b, household) ==
  IF ~b.contact.described
  THEN [lookup |-> "AccountId", primary |-> FALSE, junction |-> None, conf |-> 50]
  ELSE LET lookup == IF household # "Account" /\ household \in b.contact.links
                     THEN household ELSE "AccountId"
           junction == JunctionObject(b, household)
       IN  [lookup |-> lookup, primary |-> b.contact.primary, junction |-> junction,
            conf |-> IF junction # None THEN 80 ELSE IF lookup = "AccountId" THEN 90 ELSE 75]

DetectFinancialAccount(b) ==
  IF b.financial.described
  THEN [object |-> "FinServ__FinancialAccount__c",
        balance |-> FindField(b.financial.fields, "balance"),
        lookup |-> FindField(b.financial.fields, "owner"),
        conf |-> IF {"balance", "owner"} \subseteq b.financial.fields THEN 90 ELSE 60]
  ELSE IF "portfolio__c" \in b.candidates
  THEN [object |-> "portfolio__c", balance |-> FindField(b.financial.fields, "balance"),
        lookup |-> "owner", conf |-> 55]
  ELSE [object |-> None, balance |-> None, lookup |-> None, conf |-> 90]

DetectAum(b, fa) ==
  IF fa.object # None /\ fa.balance # None /\ b.counts.financial
  THEN [source |-> "financial_account_rollup", object |-> fa.object, field |-> fa.balance,
        conf |-> 90]
  ELSE IF "rollup" \in b.account.fields
  THEN [source |-> "account_field", object |-> "Account", field |-> "rollup", conf |-> 90]
  ELSE IF AumField(b.account) # None
  THEN [source |-> "account_field", object |-> "Account", field |-> AumField(b.account),
        conf |-> 75]
  ELSE [source |-> "not_found", object |-> None, field |-> None, conf |-> 80]

DetectComplianceReview(b) ==
  IF "compliance_review__c" \in b.candidates THEN "custom_object"
  ELSE IF b.counts.tasks THEN "task_pattern" ELSE "not_tracked"

DetectPipeline(b) ==
  IF b.counts.opportunities THEN "opportunity"
  ELSE IF "prospect__c" \in b.candidates THEN "custom_object"
  ELSE IF "Opportunity" \in b.catalog THEN "opportunity" ELSE "none"

\* assessAutomationRisks
RiskLevel(automation) ==
  IF automation.flows >= 5 \/ automation.triggers >= 3 THEN "high"
  ELSE IF automation.flows >= 2 \/ automation.triggers >= 1 THEN "medium" ELSE "low"

\* detectRequiredFieldGaps: required fields of a described object Min does not fill in.
KnownFields == [Account |-> {"Name", "Description", "Type", "RecordTypeId", "OwnerId"},
                Contact |-> {"FirstName", "LastName", "Email", "Phone", "AccountId"}]
FieldGaps(b) ==
  {gap \in b.required :
     /\ gap[1] = "Account" => b.account.described
     /\ gap[1] = "Contact" => b.contact.described
     /\ gap[2] \notin KnownFields[gap[1]]}

\* checkFieldLevelSecurity: the fields of the mapping that cannot be read.
HiddenFields(b, household, aum) ==
  (IF aum.object = "Account" /\ aum.field \in b.account.fields \intersect b.account.hidden
     THEN {aum.field} ELSE {})
    \union (IF household.object = "Account"
                 /\ household.advisor \in b.account.fields \intersect b.account.hidden
              THEN {household.advisor} ELSE {})
    \union (IF b.contact.described /\ b.contact.hidden THEN {"email"} ELSE {})

\* detectAllHouseholdPatterns: every pattern that matches, with the filter it
\* stands for: a field of Account and its value, or none.
NoFilter == <<None, None>>
HouseholdPatterns(b) ==
  {[type |-> "managed_package", object |-> p.household, filter |-> NoFilter] :
     p \in {q \in b.packages : q.household \in b.catalog}}
    \union {[type |-> "recordType", object |-> "Account", filter |-> <<"RecordType", r>>] :
              r \in {b.account.rt} \ {None}}
    \union {[type |-> "typePicklist", object |-> "Account", filter |-> <<"Type", t>>] :
              t \in b.account.types \intersect {"Household"}}
    \union {[type |-> "dataTypeValue", object |-> "Account", filter |-> <<"Type", t>>] :
              t \in (b.dataTypes \intersect {"Household"}) \ b.account.types}
    \union {[type |-> "customObject", object |-> o, filter |-> NoFilter] :
              o \in {CustomHousehold(b)} \ {None}}

\* The average of four confidences, rounded.
Overall(h, c, fa, aum) == (h.conf + c.conf + fa.conf + aum.conf + 2) \div 4

\* classifyOrgHeuristic
Classify(b) ==
  LET household == DetectHousehold(b)
      contact == DetectContact(b, household.object)
      fa == DetectFinancialAccount(b)
      aum == DetectAum(b, fa)
  IN  [household |-> household, contact |-> contact, financial |-> fa, aum |-> aum,
       compliance |-> DetectComplianceReview(b), pipeline |-> DetectPipeline(b),
       risk |-> RiskLevel(b.automation), platforms |-> {p.platform : p \in b.packages},
       patterns |-> HouseholdPatterns(b), hybrid |-> Cardinality(HouseholdPatterns(b)) > 1,
       gaps |-> FieldGaps(b), fls |-> HiddenFields(b, household, aum),
       conf |-> Overall(household, contact, fa, aum)]

\* isLowConfidence: below this the user is asked instead.
IsLowConfidence(m) == m.conf < 70 \/ m.household.conf < 60
=============================================================================
