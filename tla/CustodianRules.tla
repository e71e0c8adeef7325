----------------------------- MODULE CustodianRules -----------------------------
(***************************************************************************)
(* What each custodian asks of an account opening: the rules of            *)
(* lib/custodian-rules.ts.  A document is named by its kind, whatever the  *)
(* custodian calls its form; reasons, impacts, preventions, contribution   *)
(* limits and signing times are text nobody computes with and are left     *)
(* out.  A conditional document is the field, the value and the document   *)
(* that value asks for.  A risk is its name and how often it occurs.       *)
(***************************************************************************)
EXTENDS Naturals, Sequences, Lists

Most == 0
Common == 1
Occasional == 2

Basic == {"application", "crs", "addendum"}
WhenBrokerage ==
  {<<"funding_method", "ACH", "ach">>, <<"funding_method", "Transfer", "transfer">>,
   <<"funding_method", "Transfer", "loa">>}
WhenRetirement ==
  {<<"funding_method", "Rollover", "rollover">>, <<"funding_method", "Rollover", "pte">>,
   <<"funding_method", "Transfer", "transfer">>, <<"funding_method", "ACH", "ach">>}

SchwabIndividual ==
  [signers |-> 1, beneficiary |-> FALSE, docs |-> Basic,
   when |-> WhenBrokerage,
   risks |-> <<<<"employment", Common>>, <<"unsigned", Occasional>>>>]

SchwabJTWROS ==
  [signers |-> 2, beneficiary |-> FALSE, docs |-> Basic,
   when |-> WhenBrokerage,
   risks |-> <<<<"one owner signed", Most>>, <<"addresses", Common>>, <<"second ssn", Common>>>>]

SchwabTIC ==
  [signers |-> 2, beneficiary |-> TRUE, docs |-> Basic \union {"beneficiary"},
   when |-> WhenBrokerage,
   risks |-> <<<<"beneficiary", Most>>, <<"one owner signed", Most>>, <<"addresses", Common>>,
               <<"second ssn", Common>>, <<"percentages", Occasional>>>>]

SchwabTraditionalIRA ==
  [signers |-> 1, beneficiary |-> TRUE, docs |-> Basic \union {"beneficiary"},
   when |-> WhenRetirement,
   risks |-> <<<<"beneficiary", Most>>, <<"withholding", Common>>, <<"unsigned", Occasional>>>>]

SchwabRothIRA ==
  [signers |-> 1, beneficiary |-> TRUE, docs |-> Basic \union {"beneficiary"},
   when |-> WhenRetirement,
   risks |-> <<<<"beneficiary", Most>>, <<"withholding", Common>>,
               <<"income eligibility", Common>>, <<"unsigned", Occasional>>>>]

SchwabRolloverIRA ==
  [signers |-> 1, beneficiary |-> TRUE, docs |-> Basic \union {"beneficiary", "rollover", "pte"},
   when |-> {<<"funding_method", "Transfer", "transfer">>},
   risks |-> <<<<"rollover recommendation", Most>>, <<"beneficiary", Common>>,
               <<"60 days", Occasional>>>>]

SchwabSEPIRA ==
  [signers |-> 1, beneficiary |-> TRUE, docs |-> Basic \union {"sep plan", "beneficiary"},
   when |-> {},
   risks |-> <<<<"sep plan", Most>>, <<"beneficiary", Common>>, <<"contribution", Occasional>>>>]

SchwabTrust ==
  [signers |-> 1, beneficiary |-> FALSE, docs |-> Basic \union {"trust certification"},
   when |-> {<<"trust_certification_sufficient", "No", "trust document">>},
   risks |-> <<<<"certification", Most>>, <<"trustee", Common>>, <<"ein", Common>>>>]

FidelityIndividual ==
  [signers |-> 1, beneficiary |-> FALSE, docs |-> Basic \union {"customer agreement"},
   when |-> WhenBrokerage,
   risks |-> <<<<"employment", Common>>, <<"agreement", Common>>, <<"unsigned", Occasional>>>>]

FidelityJTWROS ==
  [signers |-> 2, beneficiary |-> FALSE, docs |-> Basic \union {"customer agreement"},
   when |-> WhenBrokerage,
   risks |-> <<<<"one owner signed", Most>>, <<"addresses", Common>>, <<"second ssn", Common>>,
               <<"second agreement", Occasional>>>>]

FidelityTIC ==
  [signers |-> 2, beneficiary |-> TRUE, docs |-> Basic \union {"beneficiary", "customer agreement"},
   when |-> WhenBrokerage,
   risks |-> <<<<"beneficiary", Most>>, <<"one owner signed", Most>>, <<"addresses", Common>>,
               <<"percentages", Occasional>>>>]

FidelityTraditionalIRA ==
  [signers |-> 1, beneficiary |-> TRUE, docs |-> Basic \union {"beneficiary", "customer agreement"},
   when |-> WhenRetirement,
   risks |-> <<<<"beneficiary", Most>>, <<"withholding", Common>>,
               <<"spousal consent beneficiary", Common>>, <<"unsigned", Occasional>>>>]

FidelityRothIRA ==
  [signers |-> 1, beneficiary |-> TRUE, docs |-> Basic \union {"beneficiary", "customer agreement"},
   when |-> WhenRetirement,
   risks |-> <<<<"beneficiary", Most>>, <<"income eligibility", Common>>,
               <<"withholding", Common>>, <<"unsigned", Occasional>>>>]

FidelityRolloverIRA ==
  [signers |-> 1, beneficiary |-> TRUE, docs |-> Basic \union {"beneficiary", "rollover", "pte", "customer agreement"},
   when |-> {<<"funding_method", "Transfer", "transfer">>},
   risks |-> <<<<"rollover recommendation", Most>>, <<"beneficiary", Common>>,
               <<"60 days", Occasional>>, <<"plan id", Occasional>>>>]

FidelitySEPIRA ==
  [signers |-> 1, beneficiary |-> TRUE, docs |-> Basic \union {"sep plan", "beneficiary", "customer agreement"},
   when |-> {},
   risks |-> <<<<"sep plan", Most>>, <<"beneficiary", Common>>, <<"contribution", Occasional>>>>]

FidelityTrust ==
  [signers |-> 1, beneficiary |-> FALSE, docs |-> Basic \union {"trust certification", "customer agreement"},
   when |-> {<<"trust_certification_sufficient", "No", "trust document">>, <<"trust_certification_stale", "Yes", "trustee affidavit">>},
   risks |-> <<<<"certification", Most>>, <<"trustee", Common>>, <<"ein", Common>>,
               <<"stale certification", Occasional>>>>]

PershingIndividual ==
  [signers |-> 1, beneficiary |-> FALSE, docs |-> Basic,
   when |-> WhenBrokerage,
   risks |-> <<<<"employment", Common>>, <<"acat number", Common>>, <<"unsigned", Occasional>>>>]

PershingJTWROS ==
  [signers |-> 2, beneficiary |-> FALSE, docs |-> Basic,
   when |-> WhenBrokerage,
   risks |-> <<<<"one owner signed", Most>>, <<"addresses", Common>>, <<"second ssn", Common>>>>]

PershingTIC ==
  [signers |-> 2, beneficiary |-> TRUE, docs |-> Basic \union {"beneficiary"},
   when |-> WhenBrokerage,
   risks |-> <<<<"beneficiary", Most>>, <<"one owner signed", Most>>, <<"addresses", Common>>,
               <<"percentages", Occasional>>>>]

PershingTraditionalIRA ==
  [signers |-> 1, beneficiary |-> TRUE, docs |-> Basic \union {"custodial agreement", "beneficiary"},
   when |-> WhenRetirement,
   risks |-> <<<<"beneficiary", Most>>, <<"withholding", Common>>,
               <<"custodial agreement", Common>>, <<"unsigned", Occasional>>>>]

PershingRothIRA ==
  [signers |-> 1, beneficiary |-> TRUE, docs |-> Basic \union {"custodial agreement", "beneficiary"},
   when |-> WhenRetirement,
   risks |-> <<<<"beneficiary", Most>>, <<"income eligibility", Common>>,
               <<"withholding", Common>>, <<"unsigned", Occasional>>>>]

PershingRolloverIRA ==
  [signers |-> 1, beneficiary |-> TRUE, docs |-> Basic \union {"custodial agreement", "beneficiary", "rollover", "pte"},
   when |-> {<<"funding_method", "Transfer", "transfer">>},
   risks |-> <<<<"rollover recommendation", Most>>, <<"beneficiary", Common>>,
               <<"60 days", Occasional>>, <<"dtc number", Occasional>>>>]

PershingSEPIRA ==
  [signers |-> 1, beneficiary |-> TRUE, docs |-> Basic \union {"sep plan", "custodial agreement", "beneficiary"},
   when |-> {},
   risks |-> <<<<"sep plan", Most>>, <<"beneficiary", Common>>, <<"contribution", Occasional>>>>]

PershingTrust ==
  [signers |-> 1, beneficiary |-> FALSE, docs |-> Basic \union {"trust certification"},
   when |-> {<<"trust_certification_sufficient", "No", "trust document">>, <<"trust_entity_type", "Corporate", "corporate resolution">>},
   risks |-> <<<<"certification", Most>>, <<"trustee", Common>>, <<"ein", Common>>,
               <<"corporate resolution", Occasional>>>>]

\* RULES_REGISTRY: three custodians, eight account types each.
RuledTypes == {"Individual Brokerage", "JTWROS", "Joint TIC", "Traditional IRA", "Roth IRA",
               "Rollover IRA", "SEP IRA", "Trust"}
Registry ==
  [schwab |-> [type \in RuledTypes |->
     CASE type = "Individual Brokerage" -> SchwabIndividual
       [] type = "JTWROS" -> SchwabJTWROS
       [] type = "Joint TIC" -> SchwabTIC
       [] type = "Traditional IRA" -> SchwabTraditionalIRA
       [] type = "Roth IRA" -> SchwabRothIRA
       [] type = "Rollover IRA" -> SchwabRolloverIRA
       [] type = "SEP IRA" -> SchwabSEPIRA
       [] type = "Trust" -> SchwabTrust],
   fidelity |-> [type \in RuledTypes |->
     CASE type = "Individual Brokerage" -> FidelityIndividual
       [] type = "JTWROS" -> FidelityJTWROS
       [] type = "Joint TIC" -> FidelityTIC
       [] type = "Traditional IRA" -> FidelityTraditionalIRA
       [] type = "Roth IRA" -> FidelityRothIRA
       [] type = "Rollover IRA" -> FidelityRolloverIRA
       [] type = "SEP IRA" -> FidelitySEPIRA
       [] type = "Trust" -> FidelityTrust],
   pershing |-> [type \in RuledTypes |->
     CASE type = "Individual Brokerage" -> PershingIndividual
       [] type = "JTWROS" -> PershingJTWROS
       [] type = "Joint TIC" -> PershingTIC
       [] type = "Traditional IRA" -> PershingTraditionalIRA
       [] type = "Roth IRA" -> PershingRothIRA
       [] type = "Rollover IRA" -> PershingRolloverIRA
       [] type = "SEP IRA" -> PershingSEPIRA
       [] type = "Trust" -> PershingTrust]]

HasRules(c, type) == c \in DOMAIN Registry /\ type \in DOMAIN Registry[c]
RulesFor(c, type) == Registry[c][type]

\* The documents an opening needs; context maps a field to the value chosen.
RequiredDocuments(c, type, context) ==
  IF ~HasRules(c, type) THEN {}
  ELSE RulesFor(c, type).docs
         \union {w[3] : w \in {v \in RulesFor(c, type).when :
                                 v[1] \in DOMAIN context /\ context[v[1]] = v[2]}}

\* The risks in the order of their frequency.
NIGORisks(c, type) ==
  IF HasRules(c, type) THEN Sorted(RulesFor(c, type).risks, LAMBDA r, s : r[2] < s[2]) ELSE <<>>

\* incomeEligibility: only the Roth IRA has one, the same at every custodian.
RothLimit(joint) == IF joint THEN [start |-> 230000, max |-> 240000]
                             ELSE [start |-> 146000, max |-> 161000]
IncomeEligibility(c, type, income, joint) ==
  IF ~HasRules(c, type) \/ type # "Roth IRA" THEN "none"
  ELSE IF income > RothLimit(joint).max THEN "over"
  ELSE IF income >= RothLimit(joint).start THEN "phasing out" ELSE "eligible"
=============================================================================
