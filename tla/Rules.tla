------------------------------- MODULE Rules -------------------------------
(***************************************************************************)
(* The rule catalogue, its evaluation and the verdict the worker draws     *)
(* from it (packages/shared/python/securedox_shared/rules.py and           *)
(* apps/worker/worker/rules/runner.py).  Pure operators: no state.         *)
(*                                                                         *)
(* A value is known by the checks its stripped text does not meet, which   *)
(* is all that a rule can find out about it.  Confidences are hundredths.  *)
(***************************************************************************)
EXTENDS DocumentStatus, Integers, FiniteSets

Checks == {"min_length", "max_length", "pattern", "is_date", "not_in_future"}

NoValue == [kind |-> "none", misses |-> {}]
Blank == [kind |-> "blank", misses |-> {}]
Text(misses) == [kind |-> "text", misses |-> misses]

FieldValues == {NoValue, Blank} \union {Text(misses) : misses \in SUBSET Checks}

Severities == {"CRITICAL", "HIGH", "MEDIUM", "LOW"}

(* FieldRule; rule identifiers are numbered within their document type, presence
   stands for the flag required. *)
Rule(id, field, severity, presence, checks) ==
  [id |-> id, field |-> field, severity |-> severity, presence |-> presence,
   checks |-> checks]

LoanRules ==
  {Rule(1, "applicant_name", "CRITICAL", "required", {"min_length", "max_length"}),
   Rule(2, "ssn", "CRITICAL", "required", {"pattern"}),
   Rule(3, "loan_amount", "HIGH", "required", {"pattern"}),
   Rule(4, "application_date", "MEDIUM", "required", {"pattern", "is_date", "not_in_future"}),
   Rule(5, "employer", "LOW", "optional", {"max_length"})}

InsuranceRules ==
  {Rule(1, "policy_number", "CRITICAL", "required", {"pattern"}),
   Rule(2, "insured_name", "CRITICAL", "required", {"min_length", "max_length"}),
   Rule(3, "effective_date", "HIGH", "required", {"pattern", "is_date"}),
   Rule(4, "claim_amount", "MEDIUM", "optional", {"pattern"})}

MedicalRules ==
  {Rule(1, "patient_mrn", "CRITICAL", "required", {"pattern"}),
   Rule(2, "patient_name", "CRITICAL", "required", {"min_length", "max_length"}),
   Rule(3, "date_of_service", "HIGH", "required", {"pattern", "is_date", "not_in_future"}),
   Rule(4, "provider_npi", "HIGH", "required", {"pattern"})}

OnboardingRules ==
  {Rule(1, "full_name", "CRITICAL", "required", {"min_length", "max_length"}),
   Rule(2, "start_date", "HIGH", "required", {"pattern", "is_date"}),
   Rule(3, "email", "HIGH", "required", {"pattern"}),
   Rule(4, "id_document_number", "MEDIUM", "required", {"min_length", "max_length"})}

RuleCatalogue ==
  [LOAN |-> LoanRules, INSURANCE |-> InsuranceRules, MEDICAL |-> MedicalRules,
   ONBOARDING |-> OnboardingRules]

DocumentTypes == {"LOAN", "INSURANCE", "MEDICAL", "ONBOARDING"}

RulesOf(type) == RuleCatalogue[type]
FieldsOf(type) == {rule.field : rule \in RulesOf(type)}
RuleIds(type) == {rule.id : rule \in RulesOf(type)}

-----------------------------------------------------------------------------
(* The order in which _first_problem looks at a value. *)
CheckRank ==
  [min_length |-> 1, max_length |-> 2, pattern |-> 3, is_date |-> 4, not_in_future |-> 5]

FirstProblem(rule, value) ==
  LET missed == rule.checks \intersect value.misses
  IN IF missed = {} THEN "OK"
     ELSE CHOOSE c \in missed : \A d \in missed : CheckRank[c] <= CheckRank[d]

(* values.get(rule.field_name), stripped: blank text counts as no value. *)
ValueFor(rule, values) ==
  IF rule.field \in DOMAIN values THEN values[rule.field] ELSE NoValue

Message(rule, value) ==
  IF value.kind = "text" THEN FirstProblem(rule, value)
  ELSE IF rule.presence = "required" THEN "required" ELSE "Optional field absent"

(* RuleOutcome: what the rule says of one value. *)
Outcome(rule, value) ==
  [rule |-> rule.id, field |-> rule.field, severity |-> rule.severity,
   message |-> Message(rule, value),
   passed |-> IF value.kind = "text" THEN FirstProblem(rule, value) = "OK"
              ELSE rule.presence = "optional"]

(* evaluate: one outcome per rule of the catalogue. *)
Evaluate(type, values) == {Outcome(rule, ValueFor(rule, values)) : rule \in RulesOf(type)}

Blocks(outcome) == ~outcome.passed /\ outcome.severity \in {"HIGH", "CRITICAL"}
Blocking(outcomes) == {o \in outcomes : Blocks(o)}
IsAccepted(outcomes) == Blocking(outcomes) = {}

-----------------------------------------------------------------------------
(* Mutant of LowConfidence: a value exactly at the threshold counts as doubtful. *)
ThresholdIsDoubtful(outcomes, confidences, threshold) ==
  {f \in DOMAIN confidences :
     /\ \E o \in outcomes : o.field = f /\ o.passed
     /\ 0 < confidences[f]
     /\ confidences[f] <= threshold}

(* _low_confidence_fields: passing fields whose confidence is under the
   threshold, but not exactly 0, the confidence of a field not found. *)
LowConfidence(outcomes, confidences, threshold) ==
  {f \in DOMAIN confidences :
     /\ \E o \in outcomes : o.field = f /\ o.passed
     /\ 0 < confidences[f]
     /\ confidences[f] < threshold}

(* _explain: the three most severe blocking failures, and how many more. *)
SeverityRank == [CRITICAL |-> 0, HIGH |-> 1, MEDIUM |-> 2, LOW |-> 3]

Before(f, g) ==
  \/ SeverityRank[f.severity] < SeverityRank[g.severity]
  \/ f.severity = g.severity /\ f.rule < g.rule

NoReason == [text |-> "none", shown |-> {}, more |-> 0]
ManualReview == [text |-> "manual review", shown |-> {}, more |-> 0]
OcrFailed == [text |-> "ocr failed", shown |-> {}, more |-> 0]

(* Mutant of Explain: sorted the other way around. *)
ExplainMildest(outcomes) ==
  LET blocking == Blocking(outcomes)
      shown == {f \in blocking : Cardinality({g \in blocking : Before(f, g)}) < 3}
  IN [text |-> "rules", shown |-> {f.rule : f \in shown},
      more |-> Cardinality(blocking) - Cardinality(shown)]

Explain(outcomes) ==
  LET blocking == Blocking(outcomes)
      shown == {f \in blocking : Cardinality({g \in blocking : Before(g, f)}) < 3}
  IN [text |-> "rules", shown |-> {f.rule : f \in shown},
      more |-> Cardinality(blocking) - Cardinality(shown)]

(* RuleRunner.run: what becomes of the document, and why. *)
VerdictOn(outcomes, low) ==
  IF ~IsAccepted(outcomes) THEN "REJECTED"
  ELSE IF low # {} THEN "REVIEW_REQUIRED" ELSE "VALIDATED"

ReasonFor(outcomes, low) ==
  IF ~IsAccepted(outcomes) THEN Explain(outcomes)
  ELSE IF low # {} THEN ManualReview ELSE NoReason

(* outcome_rows: the row payload of each outcome, by rule. *)
RowStatus(outcome) ==
  IF outcome.passed THEN "PASS" ELSE IF Blocks(outcome) THEN "FAIL" ELSE "WARN"

Row(outcome) ==
  [field |-> outcome.field, status |-> RowStatus(outcome), severity |-> outcome.severity,
   message |-> outcome.message, blocking |-> Blocks(outcome)]

OutcomeRows(outcomes) ==
  [id \in {o.rule : o \in outcomes} |-> Row(CHOOSE o \in outcomes : o.rule = id)]
=============================================================================
