----------------------------- MODULE ComplianceEngine -----------------------------
(***************************************************************************)
(* The compliance scan of a household (lib/compliance-engine.ts).          *)
(* A check passes when one of its keywords occurs in the subject or the    *)
(* description of any task of the household, whatever the task says and    *)
(* whether it is done.  A text is the set of the keywords that occur in it.*)
(* A check's result is its identifier and "pass", "warn" or "fail".        *)
(***************************************************************************)
EXTENDS Naturals, FiniteSets, TLC

\* f, and g where f says nothing: @@ of TLC, which the prover does not know.
Over(f, g) ==
  [x \in DOMAIN f \union DOMAIN g |-> IF x \in DOMAIN f THEN f[x] ELSE g[x]]

\* DEFAULT_KEYWORD_MAP
KeywordChecks ==
  {"kyc-profile", "trusted-contact", "identity-verified", "suitability-profile",
   "pte-trigger", "pte-compliance", "form-crs", "adv-delivery", "privacy-notice",
   "beneficiary-designation", "signatures", "ach-authorization", "completeness-check",
   "trust-certification", "trustee-verification", "trust-agreement",
   "authorized-signers", "erisa-compliance", "entity-resolution", "rmd-tracking"}
DefaultKeywords ==
  [id \in KeywordChecks |->
     CASE id = "kyc-profile" -> {"kyc", "suitability"}
       [] id = "trusted-contact" -> {"trusted contact"}
       [] id = "identity-verified" -> {"identity verified", "gov id"}
       [] id = "suitability-profile" -> {"risk", "investment objective", "suitability"}
       [] id = "pte-trigger" -> {"rollover", "pte"}
       [] id = "pte-compliance" -> {"pte"}
       [] id = "form-crs" -> {"form crs", "client relationship summary"}
       [] id = "adv-delivery" -> {"adv", "advisory", "brochure"}
       [] id = "privacy-notice" -> {"privacy"}
       [] id = "beneficiary-designation" -> {"beneficiar"}
       [] id = "signatures" -> {"docusign", "docu"}
       [] id = "ach-authorization" -> {"moneylink", "ach"}
       [] id = "completeness-check" -> {"completeness"}
       [] id = "trust-certification" -> {"trust certification", "trust cert"}
       [] id = "trustee-verification" -> {"trustee", "trust verification"}
       [] id = "trust-agreement" -> {"trust agreement", "trust document"}
       [] id = "authorized-signers" -> {"authorized signer", "auth signer"}
       [] id = "erisa-compliance" -> {"erisa", "plan document"}
       [] id = "entity-resolution" -> {"entity resolution", "corporate resolution", "llc agreement"}
       [] id = "rmd-tracking" -> {"rmd", "required minimum"}]

AccountTypes == {"individual", "trust", "entity", "retirement", "joint", "unknown"}

\* getEffectiveKeywordMap: a firm's own keywords for a check replace the defaults.
EffectiveKeywords(overrides) == Over(overrides, DefaultKeywords)

\* hasCheck
Has(map, id, text) == id \in DOMAIN map /\ map[id] \intersect text # {}
Check(map, id, text, missing) ==
  [id |-> id, status |-> IF Has(map, id, text) THEN "pass" ELSE missing]

IdentityChecks(map, text) ==
  {Check(map, "kyc-profile", text, "fail"), Check(map, "trusted-contact", text, "warn"),
   Check(map, "identity-verified", text, "fail")}

\* The rollover check only when a rollover is mentioned.
SuitabilityChecks(map, text) ==
  {Check(map, "suitability-profile", text, "fail")}
    \union (IF Has(map, "pte-trigger", text)
              THEN {Check(map, "pte-compliance", text, "warn")} ELSE {})

DocumentChecks(map, text) ==
  {Check(map, "form-crs", text, "fail"), Check(map, "adv-delivery", text, "warn"),
   Check(map, "privacy-notice", text, "warn")}

AccountChecks(map, text) ==
  {Check(map, "beneficiary-designation", text, "warn"), Check(map, "signatures", text, "fail")}
    \union (IF Has(map, "ach-authorization", text)
              THEN {Check(map, "ach-authorization", text, "warn")} ELSE {})

RegulatoryChecks(map, text, olderThanAYear) ==
  {Check(map, "completeness-check", text, "fail")}
    \union (IF olderThanAYear THEN {[id |-> "annual-review", status |-> "warn"]} ELSE {})

AccountTypeChecks(map, text, type) ==
  CASE type = "trust" ->
         {Check(map, "trust-certification", text, "fail"),
          Check(map, "trustee-verification", text, "warn"),
          Check(map, "trust-agreement", text, "warn")}
    [] type = "entity" ->
         {Check(map, "authorized-signers", text, "fail"),
          Check(map, "erisa-compliance", text, "warn"),
          Check(map, "entity-resolution", text, "fail")}
    [] type = "retirement" ->
         (IF Has(map, "pte-trigger", text) THEN {}
          ELSE {Check(map, "pte-compliance", text, "warn")})
           \union {Check(map, "rmd-tracking", text, "warn")}
    [] OTHER -> {}

\* A custom check is [id, keyword, missing].
CustomChecks(customs, text) ==
  {[id |-> c.id, status |-> IF c.keyword \in text THEN "pass" ELSE c.missing] : c \in customs}

\* runComplianceChecks of a household [text, type, olderThanAYear] under a firm's
\* configuration [keywords, customs].
RunComplianceChecks(hh, firm) ==
  LET map == EffectiveKeywords(firm.keywords)
  IN  IdentityChecks(map, hh.text) \union SuitabilityChecks(map, hh.text)
        \union DocumentChecks(map, hh.text) \union AccountChecks(map, hh.text)
        \union RegulatoryChecks(map, hh.text, hh.olderThanAYear)
        \union AccountTypeChecks(map, hh.text, hh.type)
        \union CustomChecks(firm.customs, hh.text)

FailedBy(checks) == {c.id : c \in {d \in checks : d.status = "fail"}}

(***************************************************************************)
(* REMEDIATION_TEMPLATES: who takes the steps of each plan, in order, and  *)
(* the results it is attached to.                                          *)
(***************************************************************************)
Remediation(id) ==
  CASE id = "kyc-profile" -> <<"advisor", "advisor", "ops">>
    [] id = "trusted-contact" -> <<"ops", "client", "ops">>
    [] id \in {"identity-verified", "trust-certification", "entity-resolution"} ->
         <<"advisor", "client", "ops">>
    [] id = "suitability-profile" -> <<"ops", "client", "advisor", "ops">>
    [] id = "pte-compliance" -> <<"advisor", "ops", "client", "ops">>
    [] id \in {"form-crs", "adv-delivery"} -> <<"ops", "ops", "ops">>
    [] id = "privacy-notice" -> <<"ops", "ops">>
    [] id = "beneficiary-designation" -> <<"ops", "ops", "client", "ops", "custodian">>
    [] id = "signatures" -> <<"ops", "ops", "client", "ops">>
    [] id = "completeness-check" -> <<"ops", "advisor", "ops">>
    [] id = "authorized-signers" -> <<"advisor", "ops", "ops">>
    [] OTHER -> <<>>
RemediationOf(c) == IF c.status \in {"fail", "warn"} THEN Remediation(c.id) ELSE <<>>
=============================================================================
