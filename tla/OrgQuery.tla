-------------------------------- MODULE OrgQuery --------------------------------
(***************************************************************************)
(* What the queries do with a mapping (lib/org-query.ts), and the mapping  *)
(* made of the user's answers when discovery is not sure                   *)
(* (lib/manual-mapping.ts).  A filter is the set of <<field, value>> pairs *)
(* any of which a record must have; the empty filter lets all through.     *)
(* NoMapping stands for a process that has none: the demo defaults apply.  *)
(***************************************************************************)
EXTENDS SchemaDiscovery

NoMapping == [household |-> [object |-> None]]

HouseholdObject(m) == IF m = NoMapping THEN "Account" ELSE m.household.object

\* Patterns on Account with a filter; two of them make a hybrid filter, which
\* comes before anything the household of the mapping says.
AccountFilters(m) ==
  {p.filter : p \in {q \in m.patterns :
                       q.filter # NoFilter /\ q.type \notin {"customObject", "managed_package"}}}
MutHouseholdFilter(m) ==
  IF m # NoMapping /\ Cardinality(AccountFilters(m)) > 1 THEN AccountFilters(m)
  ELSE IF m # NoMapping /\ m.household.rt # None THEN {<<"RecordType", m.household.rt>>}
  ELSE {<<"Type", "Household">>}
HouseholdFilter(m) ==
  IF m = NoMapping THEN {<<"Type", "Household">>}
  ELSE IF Cardinality(AccountFilters(m)) > 1 THEN AccountFilters(m)
  ELSE IF m.household.rt # None THEN {<<"RecordType", m.household.rt>>}
  ELSE IF m.household.field # None /\ m.household.value # None
       THEN {<<m.household.field, m.household.value>>}
  ELSE {}

HouseholdTypeValue(m) ==
  IF m = NoMapping THEN "Household"
  ELSE IF m.household.field = "Type" THEN m.household.value ELSE None
HouseholdRecordTypeId(m) == IF m = NoMapping THEN None ELSE m.household.rtId
ContactHouseholdLookup(m) == IF m = NoMapping THEN "AccountId" ELSE m.contact.lookup
OrgAdvisorField(m) ==
  IF m = NoMapping \/ m.household.advisor = None THEN "OwnerId" ELSE m.household.advisor
HasBlockingFieldGaps(m) == m # NoMapping /\ m.gaps # {}

\* newHouseholdFields, on the object HouseholdObject(m): the Type the new record
\* has, and the record type when its id, which is what is sent, is known.
NewHousehold(m) ==
  [object |-> HouseholdObject(m),
   has |-> (IF HouseholdTypeValue(m) = None THEN {} ELSE {<<"Type", HouseholdTypeValue(m)>>})
           \union (IF HouseholdRecordTypeId(m) = None THEN {}
                   ELSE {<<"RecordType", m.household.rt>>})]

\* listHouseholds and searchHouseholds: whether a record is among the households.
Lists(m, record) ==
  /\ record.object = HouseholdObject(m)
  /\ HouseholdFilter(m) = {} \/ HouseholdFilter(m) \intersect record.has # {}

(***************************************************************************)
(* buildMappingChoices: what the user can choose from.  The choices are    *)
(* <<kind, value>>; their order on the page is left out.                   *)
(***************************************************************************)
HouseholdChoices(b) ==
  {<<"recordType", r>> : r \in {b.account.rt} \ {None}}
    \union {<<"typePicklist", t>> : t \in b.account.types \union b.dataTypes}
    \union {<<"customObject", o>> : o \in b.candidates}
    \union {<<"allAccounts", None>>}
AdvisorChoices(b) == {"OwnerId"} \union (b.account.fields \intersect {"advisor"})
AumChoices(b) == {None} \union (b.account.fields \intersect {"aum", "rollup"})

\* The bundle as the manual route rebuilds it from the summary discovery stored: no
\* catalog, packages, automation or describe but that of Account, whose fields have
\* lost whether they are custom, required or readable, and of the candidates the names.
Stored(b) ==
  LET kept == (IF b.account.described THEN {"OwnerId"} ELSE {})
                \union (b.account.fields \intersect {"rollup"})
  IN  [b EXCEPT !.catalog = {}, !.packages = {}, !.hierarchy = FALSE, !.required = {},
                !.automation = [flows |-> 0, triggers |-> 0],
                !.account = [b.account EXCEPT !.described = TRUE, !.fields = kept, !.hidden = kept],
                !.contact = [b.contact EXCEPT !.described = FALSE],
                !.financial = [described |-> FALSE, fields |-> {}]]

\* applyManualMapping: the household, the advisor field and the assets are
\* replaced by the answers; the rest is what classification says.
ManualHousehold(base, b, choice) ==
  LET rest == [base EXCEPT !.conf = 100]
      On(object, rt, rtId, field, value) ==
        [rest EXCEPT !.object = object, !.rt = rt, !.rtId = rtId, !.field = field,
                     !.value = value]
  IN  CASE choice[1] = "recordType" ->
             On("Account", choice[2], IF b.account.rt = choice[2] THEN b.account.rtId ELSE None,
                None, None)
        [] choice[1] = "typePicklist" -> On("Account", None, None, "Type", choice[2])
        [] choice[1] = "customObject" -> On(choice[2], None, None, None, None)
        [] choice[1] = "allAccounts" -> On("Account", None, None, None, None)

ApplyManual(b, choice, advisor, aumField) ==
  LET base == Classify(Stored(b))
      household == [ManualHousehold(base.household, Stored(b), choice) EXCEPT
                      !.advisor = advisor, !.aum = None]
      aum == IF aumField = None
             THEN [source |-> "not_found", object |-> None, field |-> None, conf |-> 100]
             ELSE [source |-> "account_field", object |-> household.object, field |-> aumField,
                   conf |-> 100]
  IN  [base EXCEPT !.household = household, !.aum = aum, !.financial.lookup = None,
                   !.conf = Overall(household, base.contact, base.financial, aum)]

(***************************************************************************)
(* What has to be true of an organisation's mapping.                       *)
(***************************************************************************)
\* A household made under a mapping is among the households listed under it, unless
\* the filters of two patterns on accounts come before the mapping.
FindsItsOwn(m) == Cardinality(AccountFilters(m)) < 2 => Lists(m, NewHousehold(m))

\* What is picked as the household object is one of the patterns, and discovery falls
\* back on all accounts, and asks the user, exactly when there is no pattern.
PicksAPattern(m) ==
  LET fallback == m.household.conf = 40
  IN  /\ fallback <=> m.patterns = {}
      /\ fallback => IsLowConfidence(m)
      /\ ~fallback => m.household.object \in {p.object : p \in m.patterns}
=============================================================================
