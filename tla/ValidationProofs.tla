-------------------------- MODULE ValidationProofs --------------------------
(***************************************************************************)
(* What is stored of a document agrees with its verdict unless sessions    *)
(* overlapped, for every answer of every adapter, any threshold and any    *)
(* number of deliveries, copies at work at a time and requests.            *)
(***************************************************************************)
EXTENDS Validation, FiniteSetTheorems, TLAPS

(* A cell with an original is one a reviewer has typed into. *)
OriginalsAreManual == \A f \in DOMAIN fields : fields[f].original # NoValue => fields[f].manual

(* Nothing takes that mark away, so a session or a request that has loaded a
   corrected cell finds it corrected still. *)
MarksStay ==
  /\ \A r \in Readers : \A f \in DOMAIN base[r].fields :
       base[r].fields[f].original # NoValue => fields[f].manual
  /\ \A q \in Requests : \A f \in DOMAIN view[q].fields :
       /\ view[q].fields[f] \in Cell
       /\ view[q].fields[f].manual => fields[f].manual

(* A session that no outcome has overtaken holds rows that are out of date only
   in what reviewers have typed. *)
IsCurrent(r) ==
  /\ base[r].results = results
  /\ base[r].reason = reason
  /\ DOMAIN base[r].fields = DOMAIN fields
  /\ \A f \in DOMAIN fields : base[r].fields[f].confidence = fields[f].confidence

SessionsAreCurrent == \A r \in Readers : at[r] # "idle" /\ ~overtaken[r] => IsCurrent(r)

(* Rows are never deleted: what was complete when a request saw a verdict is so
   when it submits it. *)
Complete == DOMAIN results = RuleIds(type) /\ FieldsOf(type) \subseteq DOMAIN fields

SeenVerdictsAreComplete == \A q \in Requests : view[q].status \in Verdicts => Complete

(* Doubtful values alone send a document to review, and the reason says so. *)
ReviewHasReason == Whole /\ status = "REVIEW_REQUIRED" => reason = ManualReview

(* What is said of a verdict nobody has torn. *)
Agrees ==
  /\ ReviewHasReason
  /\ RowsTellVerdict
  /\ ReasonIsWorst
  /\ ReasonOutlivesOnlyReview
  /\ Threshold <= 80 => ReviewShowsWhy

VerdictInv ==
  /\ TypeOK
  /\ OriginalsAreManual
  /\ MarksStay
  /\ SessionsAreCurrent
  /\ SeenVerdictsAreComplete
  /\ VerdictIsComplete
  /\ Agrees

-----------------------------------------------------------------------------
(* Rules of a type have identifiers of their own. *)
LEMMA RuleIdsAreUnique ==
  ASSUME NEW t \in DocumentTypes, NEW rule \in RulesOf(t), NEW other \in RulesOf(t),
         rule.id = other.id
  PROVE  rule = other
<1>1. CASE t = "LOAN"
  <2>1. rule \in LoanRules /\ other \in LoanRules
    BY <1>1 DEF RulesOf, RuleCatalogue
  <2> QED BY <2>1 DEF LoanRules, Rule
<1>2. CASE t = "INSURANCE"
  <2>1. rule \in InsuranceRules /\ other \in InsuranceRules
    BY <1>2 DEF RulesOf, RuleCatalogue
  <2> QED BY <2>1 DEF InsuranceRules, Rule
<1>3. CASE t = "MEDICAL"
  <2>1. rule \in MedicalRules /\ other \in MedicalRules
    BY <1>3 DEF RulesOf, RuleCatalogue
  <2> QED BY <2>1 DEF MedicalRules, Rule
<1>4. CASE t = "ONBOARDING"
  <2>1. rule \in OnboardingRules /\ other \in OnboardingRules
    BY <1>4 DEF RulesOf, RuleCatalogue
  <2> QED BY <2>1 DEF OnboardingRules, Rule
<1> QED BY <1>1, <1>2, <1>3, <1>4 DEF DocumentTypes

(* The stored row of a rule is the row of its own outcome. *)
LEMMA RowsAreOutcomes ==
  ASSUME NEW t \in DocumentTypes, NEW values
  PROVE  LET rows == OutcomeRows(Evaluate(t, values))
         IN /\ DOMAIN rows = RuleIds(t)
            /\ \A rule \in RulesOf(t) : rows[rule.id] = Row(Outcome(rule, ValueFor(rule, values)))
<1> DEFINE outcomes == Evaluate(t, values)
           Of(rule) == Outcome(rule, ValueFor(rule, values))
<1>1. outcomes = {Of(rule) : rule \in RulesOf(t)}
  BY DEF Evaluate
<1>2. \A rule \in RulesOf(t) : Of(rule).rule = rule.id
  BY DEF Outcome
<1>3. {o.rule : o \in outcomes} = RuleIds(t)
  BY <1>1, <1>2 DEF RuleIds
<1>4. ASSUME NEW rule \in RulesOf(t)
      PROVE  (CHOOSE o \in outcomes : o.rule = rule.id) = Of(rule)
  <2>1. \A o \in outcomes : o.rule = rule.id => o = Of(rule)
    BY <1>1, <1>2, RuleIdsAreUnique
  <2>2. Of(rule) \in outcomes /\ Of(rule).rule = rule.id
    BY <1>1, <1>2
  <2> HIDE DEF Of, outcomes
  <2> QED BY <2>1, <2>2
<1>5. \A rule \in RulesOf(t) : rule.id \in RuleIds(t)
  BY DEF RuleIds
<1> QED BY <1>3, <1>4, <1>5 DEF OutcomeRows

(* A document is accepted exactly if no stored row blocks. *)
LEMMA BlockingRows ==
  ASSUME NEW t \in DocumentTypes, NEW values
  PROVE  LET outcomes == Evaluate(t, values)
             rows == OutcomeRows(outcomes)
         IN ~IsAccepted(outcomes) <=> \E id \in RuleIds(t) : rows[id].blocking
<1> DEFINE Of(rule) == Outcome(rule, ValueFor(rule, values))
           rows == OutcomeRows(Evaluate(t, values))
<1>1. ~IsAccepted(Evaluate(t, values)) <=> \E rule \in RulesOf(t) : Blocks(Of(rule))
  BY DEF IsAccepted, Blocking, Evaluate
<1>2. \A rule \in RulesOf(t) : rows[rule.id] = Row(Of(rule))
  BY RowsAreOutcomes
<1>3. \A rule \in RulesOf(t) : Row(Of(rule)).blocking = Blocks(Of(rule))
  BY DEF Row
<1>4. (\E id \in RuleIds(t) : rows[id].blocking) <=> \E rule \in RulesOf(t) : rows[rule.id].blocking
  BY DEF RuleIds
<1> HIDE DEF Of, rows
<1>5. (\E rule \in RulesOf(t) : rows[rule.id].blocking) <=> \E rule \in RulesOf(t) : Blocks(Of(rule))
  BY <1>2, <1>3
<1> QED BY <1>1, <1>4, <1>5 DEF rows

(* Every outcome has a small identifier of its own. *)
LEMMA OutcomesAreTold ==
  ASSUME NEW t \in DocumentTypes, NEW values, NEW f \in Evaluate(t, values)
  PROVE  /\ f.rule \in 1..5
         /\ \A g \in Evaluate(t, values) : f.rule = g.rule => f = g
<1>1. PICK rule \in RulesOf(t) : f = Outcome(rule, ValueFor(rule, values))
  BY DEF Evaluate
<1>2. rule.id \in 1..5
  <2>1. rule \in LoanRules \union InsuranceRules \union MedicalRules \union OnboardingRules
    BY DEF RulesOf, RuleCatalogue, DocumentTypes
  <2> QED BY <2>1 DEF LoanRules, InsuranceRules, MedicalRules, OnboardingRules, Rule
<1>3. ASSUME NEW g \in Evaluate(t, values), f.rule = g.rule
      PROVE  f = g
  <2>1. PICK other \in RulesOf(t) : g = Outcome(other, ValueFor(other, values))
    BY DEF Evaluate
  <2>2. rule.id = other.id
    BY <1>1, <1>3, <2>1 DEF Outcome
  <2>3. rule = other
    BY <2>2, RuleIdsAreUnique
  <2> QED BY <1>1, <2>1, <2>3
<1> QED BY <1>1, <1>2, <1>3 DEF Outcome

(* Sets of outcomes are as large as the sets of their identifiers. *)
LEMMA IdsCountOutcomes ==
  ASSUME NEW t \in DocumentTypes, NEW values, NEW some \in SUBSET Evaluate(t, values)
  PROVE  LET ids == {f.rule : f \in some}
         IN IsFiniteSet(some) /\ IsFiniteSet(ids) /\ Cardinality(ids) = Cardinality(some)
<1> DEFINE ids == {f.rule : f \in some}
           naming == [f \in some |-> f.rule]
<1>1. \A f, g \in some : f.rule \in 1..5 /\ (f.rule = g.rule => f = g)
  BY OutcomesAreTold
<1>2. IsFiniteSet(ids)
  <2>1. 1 \in Int /\ 5 \in Int
    OBVIOUS
  <2>2. IsFiniteSet(1..5)
    BY <2>1, FS_Interval
  <2>3. ids \in SUBSET (1..5)
    BY <1>1
  <2> QED BY <2>2, <2>3, FS_Subset
<1>3. naming \in [some -> ids]
  OBVIOUS
<1>4. \A f, g \in some : naming[f] = naming[g] => f = g
  BY <1>1
<1>5. \A id \in ids : \E f \in some : naming[f] = id
  OBVIOUS
<1> HIDE DEF ids, naming
<1>6. naming \in Injection(some, ids) /\ naming \in Surjection(some, ids)
  BY <1>3, <1>4, <1>5 DEF Injection, IsInjective, Surjection
<1>7. IsFiniteSet(some) /\ Cardinality(ids) = Cardinality(some)
  <2>1. IsFiniteSet(some) /\ (Cardinality(some) = Cardinality(ids) <=> naming \in Surjection(some, ids))
    BY <1>2, <1>6, FS_Injection
  <2> QED BY <1>6, <2>1
<1> QED BY <1>2, <1>7 DEF ids

(* Among outcomes that block there is one that no other comes before. *)
LEMMA OneLeads ==
  ASSUME NEW some, some # {},
         \A f \in some : f.rule \in 1..5 /\ f.severity \in {"HIGH", "CRITICAL"}
  PROVE  \E f \in some : \A g \in some : ~Before(g, f)
<1>1. ASSUME NEW ids \in SUBSET (1..5), ids # {}
      PROVE  \E n \in ids : \A m \in ids : n <= m
  <2>1. CASE 1 \in ids
    BY <1>1, <2>1
  <2>2. CASE 1 \notin ids /\ 2 \in ids
    BY <1>1, <2>2
  <2>3. CASE 1 \notin ids /\ 2 \notin ids /\ 3 \in ids
    BY <1>1, <2>3
  <2>4. CASE 1 \notin ids /\ 2 \notin ids /\ 3 \notin ids /\ 4 \in ids
    BY <1>1, <2>4
  <2>5. CASE 1 \notin ids /\ 2 \notin ids /\ 3 \notin ids /\ 4 \notin ids
    <3>1. \A m \in ids : m = 5
      BY <1>1, <2>5
    <3>2. PICK n \in ids : TRUE
      BY <1>1
    <3>3. n = 5
      BY <3>1
    <3>4. \A m \in ids : n <= m
      BY <3>1, <3>3
    <3> QED BY <3>4
  <2> QED BY <2>1, <2>2, <2>3, <2>4, <2>5
<1>2. ASSUME NEW worst \in {"HIGH", "CRITICAL"}, \E f \in some : f.severity = worst,
             \A g \in some : SeverityRank[worst] <= SeverityRank[g.severity]
      PROVE  \E f \in some : \A g \in some : ~Before(g, f)
  <2> DEFINE ids == {f.rule : f \in {g \in some : g.severity = worst}}
  <2>1. ids \in SUBSET (1..5) /\ ids # {}
    BY <1>2
  <2>2. PICK n \in ids : \A m \in ids : n <= m
    BY <1>1, <2>1
  <2>3. PICK f \in some : f.severity = worst /\ f.rule = n
    OBVIOUS
  <2>4. ASSUME NEW g \in some, Before(g, f) PROVE FALSE
    <3>1. SeverityRank[worst] <= SeverityRank[g.severity]
      BY <1>2
    <3>2. SeverityRank[worst] \in Int /\ SeverityRank[g.severity] \in Int
      BY DEF SeverityRank
    <3>3. g.severity = f.severity /\ g.rule < f.rule
      BY <2>3, <2>4, <3>1, <3>2 DEF Before
    <3>4. g.rule \in ids
      BY <2>3, <3>3
    <3>5. f.rule <= g.rule
      BY <2>2, <2>3, <3>4
    <3>6. f.rule \in 1..5 /\ g.rule \in 1..5
      OBVIOUS
    <3> QED BY <3>3, <3>5, <3>6
  <2> QED BY <2>4
<1>3. CASE \E f \in some : f.severity = "CRITICAL"
  <2>1. \A g \in some : SeverityRank["CRITICAL"] <= SeverityRank[g.severity]
    BY DEF SeverityRank
  <2> QED BY <1>2, <1>3, <2>1
<1>4. CASE \A f \in some : f.severity = "HIGH"
  <2>1. \A g \in some : SeverityRank["HIGH"] <= SeverityRank[g.severity]
    BY <1>4 DEF SeverityRank
  <2> QED BY <1>2, <1>4, <2>1
<1> QED BY <1>3, <1>4

(* What _explain tells of outcomes some of which block: at least one of those,
   all of them counted, and the more severe ones first. *)
LEMMA ExplainLeadsWithWorst ==
  ASSUME NEW t \in DocumentTypes, NEW values, ~IsAccepted(Evaluate(t, values))
  PROVE  LET blocking == Blocking(Evaluate(t, values))
             reported == Explain(Evaluate(t, values))
             ids == {f.rule : f \in blocking}
         IN /\ reported.shown # {} /\ reported.shown \subseteq ids
            /\ Cardinality(reported.shown) + reported.more = Cardinality(ids)
            /\ \A f, g \in blocking :
                 f.rule \in reported.shown /\ g.rule \notin reported.shown =>
                   SeverityRank[f.severity] <= SeverityRank[g.severity]
<1> DEFINE blocking == Blocking(Evaluate(t, values))
           ids == {f.rule : f \in blocking}
           Worse(f) == {g \in blocking : Before(g, f)}
           shown == {f \in blocking : Cardinality(Worse(f)) < 3}
           told == {f.rule : f \in shown}
           reported == Explain(Evaluate(t, values))
<1>1. /\ blocking \in SUBSET Evaluate(t, values) /\ blocking # {}
      /\ \A f \in blocking : f.severity \in {"HIGH", "CRITICAL"}
  BY DEF Blocking, Blocks, IsAccepted
<1>2. \A f, g \in blocking : f.rule \in 1..5 /\ (f.rule = g.rule => f = g)
  BY <1>1, OutcomesAreTold
<1>3. reported.shown = told /\ reported.more = Cardinality(blocking) - Cardinality(shown)
  BY DEF Explain
<1> HIDE DEF blocking, reported
<1>4. IsFiniteSet(blocking) /\ IsFiniteSet(ids) /\ Cardinality(ids) = Cardinality(blocking)
  BY <1>1, IdsCountOutcomes
<1>5. Cardinality(told) = Cardinality(shown) /\ IsFiniteSet(shown)
  <2>1. shown \in SUBSET Evaluate(t, values)
    BY <1>1
  <2> HIDE DEF shown
  <2> QED BY <2>1, IdsCountOutcomes
<1>6. \A f \in blocking : IsFiniteSet(Worse(f)) /\ Cardinality(Worse(f)) \in Nat
  <2> SUFFICES ASSUME NEW f \in blocking
               PROVE  IsFiniteSet(Worse(f)) /\ Cardinality(Worse(f)) \in Nat
    OBVIOUS
  <2>1. Worse(f) \in SUBSET blocking
    OBVIOUS
  <2> HIDE DEF Worse
  <2> QED BY <1>4, <2>1, FS_Subset, FS_CardinalityType
<1>7. told # {}
  <2>1. PICK f \in blocking : \A g \in blocking : ~Before(g, f)
    BY <1>1, <1>2, OneLeads
  <2>2. Worse(f) = {}
    BY <2>1
  <2>3. Cardinality(Worse(f)) = 0
    BY <2>2, FS_EmptySet
  <2>4. Cardinality(Worse(f)) < 3
    BY <2>3
  <2>5. f \in shown
    BY <2>4
  <2> QED BY <2>5
<1>8. told \subseteq ids
  OBVIOUS
<1>9. Cardinality(told) + (Cardinality(blocking) - Cardinality(shown)) = Cardinality(ids)
  <2>1. Cardinality(blocking) \in Nat /\ Cardinality(shown) \in Nat
    BY <1>4, <1>5, FS_CardinalityType
  <2> QED BY <1>4, <1>5, <2>1
<1>10. ASSUME NEW f \in blocking, NEW g \in blocking, f.rule \in told, g.rule \notin told
       PROVE  SeverityRank[f.severity] <= SeverityRank[g.severity]
  <2>1. SUFFICES ASSUME ~(SeverityRank[f.severity] <= SeverityRank[g.severity]) PROVE FALSE
    OBVIOUS
  <2>2. f \in shown /\ g \notin shown
    BY <1>2, <1>10
  <2>3. f.severity = "HIGH" /\ g.severity = "CRITICAL"
    BY <1>1, <2>1 DEF SeverityRank
  <2>4. \A h \in blocking : Before(h, g) => Before(h, f)
    BY <1>1, <2>3 DEF Before, SeverityRank
  <2>5. Worse(g) \in SUBSET Worse(f)
    BY <2>4
  <2>6. Cardinality(Worse(f)) < 3 /\ ~(Cardinality(Worse(g)) < 3)
    BY <2>2
  <2> HIDE DEF Worse
  <2>7. Cardinality(Worse(g)) <= Cardinality(Worse(f))
    BY <1>6, <2>5, FS_Subset
  <2> QED BY <1>6, <2>6, <2>7
<1> HIDE DEF told, ids, shown
<1>11. /\ reported.shown # {} /\ reported.shown \subseteq ids
       /\ Cardinality(reported.shown) + reported.more = Cardinality(ids)
       /\ \A f, g \in blocking :
            f.rule \in reported.shown /\ g.rule \notin reported.shown =>
              SeverityRank[f.severity] <= SeverityRank[g.severity]
  BY <1>3, <1>7, <1>8, <1>9, <1>10
<1> QED BY <1>11 DEF reported, ids, blocking

(* Every adapter fills in every field of the catalogue, with a confidence. *)
LEMMA ReadingsAreComplete ==
  ASSUME NEW p \in Providers, NEW t \in DocumentTypes, NEW given, MayBeGiven(p, given),
         Extract(p, t, given).kind = "reading"
  PROVE  LET outcome == Extract(p, t, given)
         IN /\ FieldsOf(t) \subseteq DOMAIN outcome.values
            /\ DOMAIN outcome.confidences = DOMAIN outcome.values
            /\ \A f \in DOMAIN outcome.values : outcome.values[f] \in FieldValues
<1>1. NoValue \in FieldValues /\ Text({}) \in FieldValues
  BY DEF FieldValues
<1>2. Permanent.kind # "reading" /\ Transient.kind # "reading" /\ Unexpected.kind # "reading"
  BY DEF Permanent, Transient, Unexpected
<1>3. CASE p = "mock"
  <2>1. Extract(p, t, given) = MockExtract(t, given)
    BY <1>3 DEF Extract
  <2>2. CASE given.form = "fixture"
    <3>1. MockExtract(t, given) = Backfilled(t, given.entries)
      BY <2>2 DEF MockExtract, Unreadable
    <3>2. IsSource(given.entries)
      BY <1>3, <2>2 DEF MayBeGiven, Unreadable
    <3> QED BY <1>1, <2>1, <3>1, <3>2 DEF Backfilled, Reading, IsSource
  <2>3. CASE given.form = "plain"
    <3> DEFINE entries == [f \in DOMAIN given.entries |-> Synthesised(given.entries[f])]
    <3>1. MockExtract(t, given) = Backfilled(t, entries)
      BY <2>3 DEF MockExtract, Unreadable
    <3>2. \A f \in DOMAIN entries : entries[f].value \in FieldValues
      BY <1>1, <1>3, <2>3 DEF MayBeGiven, Unreadable, IsPage, Synthesised, DefaultValue, Given
    <3> HIDE DEF entries
    <3> QED BY <1>1, <2>1, <3>1, <3>2 DEF Backfilled, Reading
  <2>4. CASE given.form \in {"empty", "unbalanced", "invalid JSON", "ill-typed"}
    BY <1>2, <2>1, <2>4 DEF MockExtract, Unreadable
  <2> QED BY <1>3, <2>2, <2>3, <2>4 DEF MayBeGiven, Unreadable
<1>4. CASE p = "vendor"
  <2>1. Extract(p, t, given) = VendorExtract(t, given)
    BY <1>4 DEF Extract
  <2>2. CASE given.form = "fields"
    <3>1. IsSource(given.entries)
      BY <1>4, <2>2 DEF MayBeGiven
    <3> QED BY <1>1, <2>1, <2>2, <3>1 DEF VendorExtract, Reading, VendorValue, IsSource
  <2>3. CASE given.form # "fields"
    BY <1>2, <1>4, <2>1, <2>3 DEF MayBeGiven, VendorExtract
  <2> QED BY <2>2, <2>3
<1>5. CASE p = "tesseract"
  <2>1. Extract(p, t, given) = TesseractExtract(t, given)
    BY <1>5 DEF Extract
  <2>2. CASE given.form = "words"
    <3>1. IsSource(given.entries)
      BY <1>5, <2>2 DEF MayBeGiven
    <3> QED BY <1>1, <2>1, <2>2, <3>1 DEF TesseractExtract, Reading, VendorValue, IsSource
  <2>3. CASE given.form # "words"
    BY <1>2, <1>5, <2>1, <2>3 DEF MayBeGiven, TesseractExtract
  <2> QED BY <2>2, <2>3
<1> QED BY <1>3, <1>4, <1>5 DEF Providers

-----------------------------------------------------------------------------
(* Nothing is stored at first. *)
LEMMA InitVerdictInv == ValidationAssumption /\ Init => VerdictInv
<1> SUFFICES ASSUME ValidationAssumption, Init PROVE VerdictInv
  OBVIOUS
<1>1. DOMAIN << >> = {} /\ MaxLoads \in Nat
  BY DEF ValidationAssumption
<1>2. ~Decided
  BY DEF Init, Decided, Verdicts
<1>3. TypeOK
  <2>1. /\ at \in [Readers -> {"idle", "loaded", "reading"}] /\ overtaken \in [Readers -> BOOLEAN]
        /\ asked \in [Requests -> {"new", "open", "done"}]
    BY DEF Init
  <2>2. /\ DOMAIN base = Readers /\ DOMAIN view = Requests
        /\ \A r \in Readers : base[r] = NoRows
        /\ \A q \in Requests : view[q] = NoView
    BY DEF Init
  <2>3. /\ NoRows.status = "QUEUED" /\ NoRows.results = << >> /\ NoRows.fields = << >>
        /\ NoView.status = "QUEUED" /\ NoView.fields = << >>
    BY DEF NoRows, NoView
  <2>4. /\ type \in DocumentTypes /\ provider \in Providers
        /\ status = "QUEUED" /\ reason.text = "none" /\ results = << >> /\ fields = << >>
        /\ submitted = FALSE /\ torn = FALSE /\ loads = 0
    BY DEF Init, NoReason
  <2>5. DOMAIN results \subseteq RuleIds(type) /\ \A f \in DOMAIN fields : fields[f] \in Cell
    BY <1>1, <2>4
  <2>6. \A r \in Readers : /\ base[r].status \in Committable
                          /\ DOMAIN base[r].fields \subseteq DOMAIN fields
                          /\ DOMAIN base[r].results \subseteq DOMAIN results
    BY <1>1, <2>2, <2>3 DEF Committable
  <2>7. \A q \in Requests : /\ view[q].status \in Committable
                           /\ DOMAIN view[q].fields \subseteq DOMAIN fields
    BY <1>1, <2>2, <2>3 DEF Committable
  <2>8. loads \in 0..MaxLoads /\ status \in Committable
    BY <1>1, <2>4 DEF Committable
  <2> QED BY <2>1, <2>2, <2>4, <2>5, <2>6, <2>7, <2>8 DEF TypeOK
<1>4. OriginalsAreManual /\ MarksStay /\ SessionsAreCurrent
  BY <1>1 DEF Init, OriginalsAreManual, MarksStay, SessionsAreCurrent, NoRows, NoView
<1>5. SeenVerdictsAreComplete
  BY DEF Init, SeenVerdictsAreComplete, NoView, Verdicts
<1> QED
  BY <1>2, <1>3, <1>4, <1>5 DEF VerdictInv, VerdictIsComplete, Agrees, Whole, ReviewHasReason,
     RowsTellVerdict, ReasonIsWorst, ReasonOutlivesOnlyReview, ReviewShowsWhy

(* Steps that leave the stored rows alone keep what they say. *)
LEMMA AgreesStays ==
  ASSUME Agrees, VerdictIsComplete, UNCHANGED <<type, row, submitted, torn>>
  PROVE  Agrees' /\ VerdictIsComplete'
BY DEF Agrees, VerdictIsComplete, row, Whole, Decided, ReviewHasReason, RowsTellVerdict, ReasonIsWorst,
   ReasonOutlivesOnlyReview, ReviewShowsWhy

(* A delivery loads the rows as they are. *)
LEMMA LoadStep ==
  ASSUME ValidationAssumption, VerdictInv, NEW r \in Readers, Load(r) PROVE VerdictInv'
<1>1. /\ at' = [at EXCEPT ![r] = "loaded"] /\ overtaken' = [overtaken EXCEPT ![r] = FALSE]
      /\ base' = [base EXCEPT ![r] = [status |-> status, reason |-> reason, results |-> results,
                                     fields |-> fields]]
      /\ loads' = loads + 1 /\ loads < MaxLoads
      /\ UNCHANGED <<type, provider, status, reason, results, fields, asked, view, submitted, torn>>
  BY DEF Load, row, requests
<1>2. loads' \in 0..MaxLoads
  <2>1. MaxLoads \in Nat /\ loads \in 0..MaxLoads
    BY DEF ValidationAssumption, VerdictInv, TypeOK
  <2> QED BY <1>1, <2>1
<1>3. /\ DOMAIN base' = Readers
      /\ \A q \in Readers :
           IF q = r THEN base'[q].status = status /\ base'[q].reason = reason
                         /\ base'[q].results = results /\ base'[q].fields = fields
           ELSE base'[q] = base[q] /\ at'[q] = at[q] /\ overtaken'[q] = overtaken[q]
  BY <1>1 DEF VerdictInv, TypeOK
<1>4. TypeOK'
  BY <1>1, <1>2, <1>3 DEF VerdictInv, TypeOK
<1>5. OriginalsAreManual' /\ MarksStay' /\ SessionsAreCurrent'
  BY <1>1, <1>3 DEF VerdictInv, OriginalsAreManual, MarksStay, SessionsAreCurrent, IsCurrent
<1>6. SeenVerdictsAreComplete'
  BY <1>1 DEF VerdictInv, SeenVerdictsAreComplete, Complete
<1>7. Agrees' /\ VerdictIsComplete'
  BY <1>1, AgreesStays DEF VerdictInv, row
<1> QED BY <1>4, <1>5, <1>6, <1>7 DEF VerdictInv

(* It starts to read: an unfinished document has no verdict. *)
LEMMA BeginStep ==
  ASSUME VerdictInv, NEW r \in Readers, Begin(r) PROVE VerdictInv'
<1>1. /\ status' = status \/ status' = "EXTRACTING"
      /\ at' = [at EXCEPT ![r] = "reading"] /\ at[r] = "loaded"
      /\ UNCHANGED <<type, provider, reason, results, fields, base, overtaken, asked, view,
                     submitted, loads, torn>>
  BY DEF Begin, Written, requests
<1>2. TypeOK'
  BY <1>1 DEF VerdictInv, TypeOK, Committable
<1>3. OriginalsAreManual' /\ MarksStay' /\ SessionsAreCurrent' /\ SeenVerdictsAreComplete'
  BY <1>1 DEF VerdictInv, TypeOK, OriginalsAreManual, MarksStay, SessionsAreCurrent, IsCurrent,
     SeenVerdictsAreComplete, Complete
<1>4. Agrees' /\ VerdictIsComplete'
  <2>1. CASE status' = status
    BY <1>1, <2>1, AgreesStays DEF VerdictInv, row
  <2>2. CASE status' = "EXTRACTING"
    <3>1. ~Decided'
      BY <2>2 DEF Decided, Verdicts
    <3> QED
      BY <3>1 DEF Agrees, VerdictIsComplete, Whole, ReviewHasReason, RowsTellVerdict, ReasonIsWorst,
         ReasonOutlivesOnlyReview, ReviewShowsWhy
  <2> QED BY <1>1, <2>1, <2>2
<1> QED BY <1>2, <1>3, <1>4 DEF VerdictInv

(* A session that ends leaves a reader without rows; the others keep theirs. *)
LEMMA Closing ==
  ASSUME VerdictInv, NEW r \in Readers, Close(r)
  PROVE  /\ at' \in [Readers -> {"idle", "loaded", "reading"}] /\ DOMAIN base' = Readers
         /\ at'[r] = "idle" /\ base'[r] = NoRows
         /\ base'[r].status = "QUEUED" /\ DOMAIN base'[r].results = {} /\ DOMAIN base'[r].fields = {}
         /\ \A q \in Readers \ {r} : at'[q] = at[q] /\ base'[q] = base[q]
<1>1. DOMAIN << >> = {}
  OBVIOUS
<1> QED BY <1>1 DEF Close, VerdictInv, TypeOK, NoRows

(* The delivery ends without an outcome: only its session is gone. *)
LEMMA GiveUpStep ==
  ASSUME VerdictInv, NEW r \in Readers, GiveUp(r) PROVE VerdictInv'
<1>1. /\ Close(r) /\ overtaken' = [overtaken EXCEPT ![r] = FALSE]
      /\ UNCHANGED <<type, provider, status, reason, results, fields, asked, view, submitted, loads,
                     torn>>
  BY DEF GiveUp, row, requests
<1>2. /\ at' \in [Readers -> {"idle", "loaded", "reading"}] /\ DOMAIN base' = Readers
      /\ at'[r] = "idle" /\ base'[r].status = "QUEUED"
      /\ DOMAIN base'[r].results = {} /\ DOMAIN base'[r].fields = {}
      /\ \A q \in Readers \ {r} : at'[q] = at[q] /\ base'[q] = base[q]
  BY <1>1, Closing
<1>3. \A q \in Readers \ {r} : overtaken'[q] = overtaken[q]
  BY <1>1 DEF VerdictInv, TypeOK
<1>4. TypeOK'
  BY <1>1, <1>2 DEF VerdictInv, TypeOK, Committable
<1>5. OriginalsAreManual' /\ MarksStay' /\ SessionsAreCurrent' /\ SeenVerdictsAreComplete'
  BY <1>1, <1>2, <1>3 DEF VerdictInv, OriginalsAreManual, MarksStay, SessionsAreCurrent, IsCurrent,
     SeenVerdictsAreComplete, Complete
<1>6. Agrees' /\ VerdictIsComplete'
  BY <1>1, AgreesStays DEF VerdictInv, row
<1> QED BY <1>4, <1>5, <1>6 DEF VerdictInv

(* The adapter gave up for good: FAILED is no verdict. *)
LEMMA FailStep ==
  ASSUME VerdictInv, NEW r \in Readers, NEW answer, Fail(r, answer) PROVE VerdictInv'
<1>1. /\ Close(r) /\ overtaken' = [q \in Readers |-> q # r /\ at[q] # "idle"]
      /\ status' = "FAILED" /\ reason' = Written(reason, base[r].reason, OcrFailed)
      /\ UNCHANGED <<type, provider, results, fields, asked, view, submitted, loads, torn>>
  BY DEF Fail, CloseOvertaking, requests
<1>2. /\ at' \in [Readers -> {"idle", "loaded", "reading"}] /\ DOMAIN base' = Readers
      /\ at'[r] = "idle" /\ base'[r].status = "QUEUED"
      /\ DOMAIN base'[r].results = {} /\ DOMAIN base'[r].fields = {}
      /\ \A q \in Readers \ {r} : at'[q] = at[q] /\ base'[q] = base[q]
  BY <1>1, Closing
<1>3. reason'.text \in {"none", "manual review", "ocr failed", "rules"}
  BY <1>1 DEF Written, OcrFailed, VerdictInv, TypeOK
<1>4. overtaken' \in [Readers -> BOOLEAN]
  BY <1>1
<1>5. TypeOK'
  BY <1>1, <1>2, <1>3, <1>4 DEF VerdictInv, TypeOK, Committable
<1>6. OriginalsAreManual' /\ MarksStay' /\ SessionsAreCurrent' /\ SeenVerdictsAreComplete'
  BY <1>1, <1>2 DEF VerdictInv, OriginalsAreManual, MarksStay, SessionsAreCurrent, IsCurrent,
     SeenVerdictsAreComplete, Complete
<1>7. ~Decided'
  BY <1>1 DEF Decided, Verdicts
<1> QED
  BY <1>5, <1>6, <1>7 DEF VerdictInv, Agrees, VerdictIsComplete, Whole, ReviewHasReason,
     RowsTellVerdict, ReasonIsWorst, ReasonOutlivesOnlyReview, ReviewShowsWhy

(* A request loads the document as it is. *)
LEMMA OpenStep ==
  ASSUME VerdictInv, NEW q \in Requests, Open(q) PROVE VerdictInv'
<1>1. /\ asked' = [asked EXCEPT ![q] = "open"]
      /\ view' = [view EXCEPT ![q] = [status |-> status, fields |-> fields, submitted |-> submitted]]
      /\ UNCHANGED <<type, provider, status, reason, results, fields, at, base, overtaken, submitted,
                     loads, torn>>
  BY DEF Open, row, readers
<1>2. /\ DOMAIN view' = Requests
      /\ \A p \in Requests : IF p = q THEN view'[p].status = status /\ view'[p].fields = fields
                             ELSE view'[p] = view[p]
  BY <1>1 DEF VerdictInv, TypeOK
<1>3. TypeOK'
  BY <1>1, <1>2 DEF VerdictInv, TypeOK
<1>4. OriginalsAreManual' /\ MarksStay' /\ SessionsAreCurrent'
  BY <1>1, <1>2 DEF VerdictInv, TypeOK, OriginalsAreManual, MarksStay, SessionsAreCurrent, IsCurrent
<1>5. SeenVerdictsAreComplete'
  BY <1>1, <1>2 DEF VerdictInv, SeenVerdictsAreComplete, Complete, VerdictIsComplete, Decided
<1>6. Agrees' /\ VerdictIsComplete'
  BY <1>1, AgreesStays DEF VerdictInv, row
<1> QED BY <1>3, <1>4, <1>5, <1>6 DEF VerdictInv

(* A correction marks its cell and leaves every confidence. *)
LEMMA CorrectStep ==
  ASSUME ValidationAssumption, VerdictInv,
         NEW q \in Requests, NEW f \in DOMAIN fields, NEW v \in Typed, Correct(q, f, v)
  PROVE  VerdictInv'
<1>1. /\ asked' = [asked EXCEPT ![q] = "done"] /\ view' = [view EXCEPT ![q] = NoView]
      /\ f \in DOMAIN view[q].fields
      /\ fields' = [fields EXCEPT ![f] = Corrected(fields[f], view[q].fields[f], v)]
      /\ UNCHANGED <<type, provider, status, reason, results, at, base, overtaken, submitted, loads,
                     torn>>
  BY DEF Correct, Done, readers
<1>2. /\ v \in FieldValues /\ fields[f] \in Cell /\ view[q].fields[f] \in Cell
      /\ view[q].fields[f].manual => fields[f].manual
  BY <1>1 DEF ValidationAssumption, VerdictInv, TypeOK, MarksStay
<1>3. /\ DOMAIN fields' = DOMAIN fields
      /\ \A g \in DOMAIN fields : g # f => fields'[g] = fields[g]
      /\ fields'[f].manual = TRUE
      /\ fields'[f].confidence = fields[f].confidence
      /\ fields'[f] \in Cell
  <2> DEFINE object == view[q].fields[f]
             original == IF object.original = NoValue THEN object.value ELSE object.original
             value_ == Written(fields[f].value, object.value, v)
             original_ == Written(fields[f].original, object.original, original)
             manual_ == Written(fields[f].manual, object.manual, TRUE)
  <2>1. fields'[f] = [fields[f] EXCEPT !.value = value_, !.original = original_, !.manual = manual_]
    BY <1>1 DEF Corrected
  <2>2. value_ \in FieldValues /\ original_ \in FieldValues
    BY <1>2 DEF Written, Cell
  <2>3. manual_ = TRUE
    <3>1. object.manual \in BOOLEAN /\ fields[f].manual \in BOOLEAN
      BY <1>2 DEF Cell
    <3> QED BY <1>2, <3>1 DEF Written
  <2> HIDE DEF value_, original_, manual_
  <2>4. /\ fields'[f].manual = TRUE /\ fields'[f].confidence = fields[f].confidence
        /\ fields'[f] \in Cell
    BY <1>2, <2>1, <2>2, <2>3 DEF Cell
  <2> QED BY <1>1, <2>4
<1>4. /\ asked' \in [Requests -> {"new", "open", "done"}] /\ DOMAIN view' = Requests
      /\ view'[q].status = "QUEUED" /\ DOMAIN view'[q].fields = {}
      /\ \A p \in Requests \ {q} : view'[p] = view[p]
  <2>1. DOMAIN << >> = {}
    OBVIOUS
  <2> QED BY <1>1, <2>1 DEF NoView, VerdictInv, TypeOK
<1>5. TypeOK'
  BY <1>1, <1>3, <1>4 DEF VerdictInv, TypeOK, Committable
<1>6. OriginalsAreManual'
  BY <1>1, <1>3 DEF VerdictInv, OriginalsAreManual
<1>7. MarksStay'
  BY <1>1, <1>3, <1>4 DEF VerdictInv, TypeOK, MarksStay
<1>8. SessionsAreCurrent'
  BY <1>1, <1>3 DEF VerdictInv, SessionsAreCurrent, IsCurrent
<1>9. SeenVerdictsAreComplete' /\ VerdictIsComplete'
  BY <1>1, <1>3, <1>4 DEF VerdictInv, SeenVerdictsAreComplete, Complete, VerdictIsComplete, Decided,
     Verdicts
<1>10. /\ RowsTellVerdict' /\ ReasonIsWorst' /\ ReviewHasReason' /\ ReasonOutlivesOnlyReview'
  BY <1>1 DEF VerdictInv, Agrees, RowsTellVerdict, ReasonIsWorst, ReviewHasReason,
     ReasonOutlivesOnlyReview, Whole, Decided
<1>11. ReviewShowsWhy'
  BY <1>1, <1>3 DEF ReviewShowsWhy
<1> QED BY <1>5, <1>6, <1>7, <1>8, <1>9, <1>10, <1>11 DEF VerdictInv, Agrees

(* A submission takes a document out of review and leaves its reason; if the
   document has left review otherwise, the verdict is torn. *)
LEMMA SubmitStep ==
  ASSUME VerdictInv, NEW q \in Requests, Submit(q) PROVE VerdictInv'
<1> DEFINE seen == view[q].status
<1>1. /\ seen \in Verdicts /\ submitted' = TRUE
      /\ status' = IF seen = "REVIEW_REQUIRED" THEN "VALIDATED" ELSE status
      /\ torn' = (torn \/ (seen = "REVIEW_REQUIRED" /\ status \notin {"REVIEW_REQUIRED", "VALIDATED"}))
      /\ asked' = [asked EXCEPT ![q] = "done"] /\ view' = [view EXCEPT ![q] = NoView]
      /\ UNCHANGED <<type, provider, reason, results, fields, at, base, overtaken, loads>>
  BY DEF Submit, Done, readers, Written, StatusOnSubmit
<1>2. /\ asked' \in [Requests -> {"new", "open", "done"}] /\ DOMAIN view' = Requests
      /\ view'[q].status = "QUEUED" /\ DOMAIN view'[q].fields = {}
      /\ \A p \in Requests \ {q} : view'[p] = view[p]
  <2>1. DOMAIN << >> = {}
    OBVIOUS
  <2> QED BY <1>1, <2>1 DEF NoView, VerdictInv, TypeOK
<1>3. TypeOK'
  BY <1>1, <1>2 DEF VerdictInv, TypeOK, Committable, Verdicts
<1>4. OriginalsAreManual' /\ MarksStay' /\ SessionsAreCurrent'
  BY <1>1, <1>2 DEF VerdictInv, OriginalsAreManual, MarksStay, SessionsAreCurrent, IsCurrent
<1>5. SeenVerdictsAreComplete' /\ VerdictIsComplete'
  BY <1>1, <1>2 DEF VerdictInv, SeenVerdictsAreComplete, Complete, VerdictIsComplete, Verdicts
<1>6. Agrees'
  <2>1. CASE seen # "REVIEW_REQUIRED"
    BY <1>1, <2>1 DEF VerdictInv, Agrees, ReviewHasReason, RowsTellVerdict, ReasonIsWorst,
       ReasonOutlivesOnlyReview, ReviewShowsWhy, Whole, Decided
  <2>2. CASE seen = "REVIEW_REQUIRED"
    <3>1. status' = "VALIDATED"
      BY <1>1, <2>2
    <3>2. SUFFICES ASSUME ~torn' PROVE Agrees'
      BY <3>1 DEF Agrees, ReviewHasReason, RowsTellVerdict, ReasonIsWorst, ReasonOutlivesOnlyReview,
         ReviewShowsWhy, Whole
    <3>3. ~torn /\ status \in {"REVIEW_REQUIRED", "VALIDATED"} /\ Whole
      BY <1>1, <2>2, <3>2 DEF Whole, Decided, Verdicts
    <3> QED
      BY <1>1, <3>1, <3>3 DEF VerdictInv, Agrees, ReviewHasReason, RowsTellVerdict, ReasonIsWorst,
         ReasonOutlivesOnlyReview, ReviewShowsWhy
  <2> QED BY <2>1, <2>2
<1> QED BY <1>3, <1>4, <1>5, <1>6 DEF VerdictInv

-----------------------------------------------------------------------------
(* A cell that is stored for a reading: of its type, a reviewer's only if it was
   one before, and otherwise with the confidence of the reading, provided the
   session has not been overtaken. *)
LEMMA StoredCell ==
  ASSUME VerdictInv, NEW r \in Readers, at[r] # "idle", NEW outcome, NEW rows,
         NEW f \in DOMAIN outcome.values, outcome.values[f] \in FieldValues,
         Insertable(base[r], outcome, rows), Storable(Persisted(base[r], outcome))
  PROVE  LET cell == Persisted(base[r], outcome)[f]
         IN /\ cell \in Cell
            /\ f \in DOMAIN fields => cell.manual = fields[f].manual /\ cell.original = fields[f].original
            /\ f \notin DOMAIN fields => cell.original = NoValue
            /\ overtaken[r] \/ cell.manual \/ cell.confidence = outcome.confidences[f]
<1> DEFINE loaded == base[r].fields
           cell == Persisted(base[r], outcome)[f]
           value == outcome.values[f]
           confidence == outcome.confidences[f]
<1>1. cell = IF f \in DOMAIN loaded THEN Reread(fields[f], loaded[f], value, confidence)
             ELSE NewCell(value, confidence)
  BY DEF Persisted
<1>2. cell.confidence \in 0..100
  BY DEF Storable, Persisted
<1>3. NoValue \in FieldValues
  BY DEF FieldValues
<1>4. CASE f \notin DOMAIN loaded
  <2>1. cell = NewCell(value, confidence)
    BY <1>1, <1>4
  <2>2. confidence \in 0..100
    BY <1>2, <2>1 DEF NewCell
  <2>3. f \notin DOMAIN fields
    BY <1>4 DEF Insertable
  <2>4. cell \in Cell /\ cell.original = NoValue /\ cell.confidence = confidence
    BY <1>3, <2>1, <2>2 DEF NewCell, Cell
  <2> QED BY <2>3, <2>4
<1>5. CASE f \in DOMAIN loaded
  <2>1. /\ f \in DOMAIN fields /\ fields[f] \in Cell
        /\ loaded[f].original # NoValue => fields[f].manual
        /\ overtaken[r] \/ loaded[f].confidence = fields[f].confidence
    BY <1>5 DEF VerdictInv, TypeOK, MarksStay, SessionsAreCurrent, IsCurrent
  <2>2. CASE loaded[f].original # NoValue
    <3>1. cell = fields[f]
      BY <1>1, <1>5, <2>2 DEF Reread
    <3> QED BY <2>1, <2>2, <3>1
  <2>3. CASE loaded[f].original = NoValue
    <3> DEFINE typed == Written(fields[f].value, loaded[f].value, value)
               sure == Written(fields[f].confidence, loaded[f].confidence, confidence)
    <3>1. cell = [fields[f] EXCEPT !.value = typed, !.confidence = sure]
      BY <1>1, <1>5, <2>3 DEF Reread
    <3>2. typed \in FieldValues
      BY <2>1 DEF Written, Cell
    <3>3. overtaken[r] \/ sure = confidence
      BY <2>1 DEF Written
    <3> HIDE DEF typed, sure
    <3>4. /\ cell.manual = fields[f].manual /\ cell.original = fields[f].original
          /\ cell.confidence = sure
      BY <2>1, <3>1 DEF Cell
    <3>5. sure \in 0..100
      BY <1>2, <3>4
    <3>6. cell \in Cell
      BY <2>1, <3>1, <3>2, <3>5 DEF Cell
    <3> QED BY <2>1, <3>3, <3>4, <3>6
  <2> QED BY <2>2, <2>3
<1> QED BY <1>4, <1>5

(* A verdict nobody has torn: results, status and reason come from one reading. *)
LEMMA JudgedAlone ==
  ASSUME ValidationAssumption, VerdictInv, NEW r \in Readers, NEW answer \in Answers(provider, type),
         Judge(r, answer), ~overtaken[r]
  PROVE  Agrees'
<1> DEFINE outcome == Extract(provider, type, answer)
           outcomes == Evaluate(type, outcome.values)
           low == LowConfidence(outcomes, outcome.confidences, Threshold)
           rows == OutcomeRows(outcomes)
           cells == Persisted(base[r], outcome)
<1>1. /\ at[r] = "reading" /\ outcome.kind = "reading"
      /\ Insertable(base[r], outcome, rows) /\ Storable(cells)
      /\ fields' = cells /\ results' = Upserted(base[r], rows)
      /\ status' = VerdictOn(outcomes, low)
      /\ reason' = Written(reason, base[r].reason, ReasonFor(outcomes, low))
      /\ UNCHANGED type
  BY DEF Judge
<1>2. provider \in Providers /\ type \in DocumentTypes
  BY DEF VerdictInv, TypeOK
<1>3. MayBeGiven(provider, answer)
  BY <1>2 DEF ValidationAssumption
<1>4. /\ DOMAIN outcome.confidences = DOMAIN outcome.values
      /\ \A f \in DOMAIN outcome.values : outcome.values[f] \in FieldValues
  BY <1>1, <1>2, <1>3, ReadingsAreComplete
<1>5. /\ DOMAIN rows = RuleIds(type)
      /\ \A rule \in RulesOf(type) :
           rows[rule.id] = Row(Outcome(rule, ValueFor(rule, outcome.values)))
  BY <1>2, RowsAreOutcomes
<1>6. ~IsAccepted(outcomes) <=> \E id \in RuleIds(type) : rows[id].blocking
  BY <1>2, BlockingRows
<1> HIDE DEF outcome
<1>7. \A f \in DOMAIN outcome.values :
        cells[f] \in Cell /\ (cells[f].manual \/ cells[f].confidence = outcome.confidences[f])
  BY <1>1, <1>4, StoredCell
<1>8. DOMAIN outcome.values \subseteq DOMAIN cells
  BY DEF Persisted
<1>9. base[r].results = results /\ base[r].reason = reason
  BY <1>1 DEF VerdictInv, SessionsAreCurrent, IsCurrent
<1>10. reason' = ReasonFor(outcomes, low)
  BY <1>1, <1>9 DEF Written
<1>11. DOMAIN results' = RuleIds(type) /\ \A id \in RuleIds(type) : results'[id] = rows[id]
  <2>1. DOMAIN results \subseteq RuleIds(type)
    BY DEF VerdictInv, TypeOK
  <2>2. \A rule \in RulesOf(type) : \A old : Revalidated(old, old, rows[rule.id]) = rows[rule.id]
    <3>1. SUFFICES ASSUME NEW rule \in RulesOf(type), NEW old
                   PROVE  Revalidated(old, old, rows[rule.id]) = rows[rule.id]
      OBVIOUS
    <3> DEFINE new == rows[rule.id]
    <3>2. PICK o : new = Row(o)
      BY <1>5
    <3> HIDE DEF new
    <3>3. Revalidated(old, old, new) =
            [new EXCEPT !.status = new.status, !.message = new.message, !.blocking = new.blocking]
      BY DEF Revalidated, Written
    <3>4. Revalidated(old, old, new) = new
      BY <3>2, <3>3 DEF Row
    <3> QED BY <3>4 DEF new
  <2> HIDE DEF rows
  <2>3. \A id \in RuleIds(type) : \A old : Revalidated(old, old, rows[id]) = rows[id]
    BY <2>2 DEF RuleIds
  <2> QED BY <1>1, <1>5, <1>9, <2>1, <2>3 DEF Upserted
<1>12. /\ status' \in Verdicts
       /\ status' = "REJECTED" <=> ~IsAccepted(outcomes)
       /\ status' = "REVIEW_REQUIRED" => low # {} /\ reason' = ManualReview
       /\ status' = "VALIDATED" => reason' = NoReason
       /\ status' = "REJECTED" => reason' = Explain(outcomes)
  <2> HIDE DEF outcomes, low
  <2> QED BY <1>1, <1>10 DEF VerdictOn, ReasonFor, Verdicts
<1> HIDE DEF outcomes, rows, cells
<1>13. ReviewHasReason' /\ ReasonOutlivesOnlyReview'
  BY <1>12 DEF ReviewHasReason, ReasonOutlivesOnlyReview
<1>14. RowsTellVerdict'
  BY <1>1, <1>6, <1>11, <1>12 DEF RowsTellVerdict
<1>15. Threshold <= 80 => ReviewShowsWhy'
  <2>1. SUFFICES ASSUME Threshold <= 80, status' = "REVIEW_REQUIRED"
                 PROVE  \E f \in DOMAIN cells : Flagged(cells[f]) \/ cells[f].manual
    BY <1>1 DEF ReviewShowsWhy
  <2>2. PICK f \in low : TRUE
    BY <1>12, <2>1
  <2>3. f \in DOMAIN outcome.values /\ outcome.confidences[f] < Threshold
    BY <1>4 DEF LowConfidence
  <2>4. cells[f].manual \/ cells[f].confidence = outcome.confidences[f]
    BY <1>7, <2>3
  <2>5. cells[f].confidence \in 0..100
    BY <1>7, <2>3 DEF Cell
  <2>6. Threshold \in 0..100
    BY DEF ValidationAssumption
  <2>7. cells[f].manual \/ cells[f].confidence < 80
    BY <2>1, <2>3, <2>4, <2>5, <2>6
  <2> QED BY <1>8, <2>3, <2>7 DEF Flagged
<1>16. ReasonIsWorst'
  <2>1. SUFFICES ASSUME status' = "REJECTED" PROVE ReasonIsWorst'
    BY DEF ReasonIsWorst
  <2> DEFINE blocking == Blocking(outcomes)
             ids == {f.rule : f \in blocking}
  <2>2. /\ reason'.shown # {} /\ reason'.shown \subseteq ids
        /\ Cardinality(reason'.shown) + reason'.more = Cardinality(ids)
        /\ \A f, g \in blocking :
             f.rule \in reason'.shown /\ g.rule \notin reason'.shown =>
               SeverityRank[f.severity] <= SeverityRank[g.severity]
    BY <1>2, <1>12, <2>1, ExplainLeadsWithWorst DEF outcomes
  <2>3. \A f \in outcomes : f.rule \in RuleIds(type) /\ results'[f.rule] = Row(f)
    <3>1. SUFFICES ASSUME NEW f \in outcomes
                   PROVE  f.rule \in RuleIds(type) /\ results'[f.rule] = Row(f)
      OBVIOUS
    <3>2. PICK rule \in RulesOf(type) : f = Outcome(rule, ValueFor(rule, outcome.values))
      BY DEF Evaluate, outcomes
    <3>3. f.rule = rule.id
      BY <3>2 DEF Outcome
    <3> QED BY <1>5, <1>11, <3>2, <3>3 DEF RuleIds
  <2>4. \A id \in RuleIds(type) : \E f \in outcomes : f.rule = id
    <3>1. SUFFICES ASSUME NEW rule \in RulesOf(type)
                   PROVE  \E f \in outcomes : f.rule = rule.id
      BY DEF RuleIds
    <3> DEFINE f == Outcome(rule, ValueFor(rule, outcome.values))
    <3>2. f \in outcomes
      BY DEF Evaluate, outcomes
    <3>3. f.rule = rule.id
      BY DEF Outcome
    <3> HIDE DEF f
    <3> QED BY <3>2, <3>3
  <2>5. \A f \in outcomes : /\ Row(f).blocking <=> f \in blocking
                           /\ Row(f).severity = f.severity
    BY DEF Row, Blocking
  <2>6. blocking \subseteq outcomes
    BY DEF Blocking
  <2> HIDE DEF blocking
  <2>7. {id \in DOMAIN results' : results'[id].blocking} = ids
    <3>1. ASSUME NEW id \in RuleIds(type), results'[id].blocking PROVE id \in ids
      <4>1. PICK f \in outcomes : f.rule = id
        BY <2>4
      <4> QED BY <2>3, <2>5, <3>1, <4>1
    <3>2. ASSUME NEW f \in blocking
          PROVE  f.rule \in RuleIds(type) /\ results'[f.rule].blocking
      BY <2>3, <2>5, <2>6
    <3> QED BY <1>11, <3>1, <3>2
  <2>8. \A f \in blocking : results'[f.rule].severity = f.severity
    BY <2>3, <2>5, <2>6
  <2>9. \A shown \in reason'.shown, other \in ids \ reason'.shown :
          SeverityRank[results'[shown].severity] <= SeverityRank[results'[other].severity]
    <3>1. SUFFICES ASSUME NEW f \in blocking, NEW g \in blocking,
                          f.rule \in reason'.shown, g.rule \notin reason'.shown
                   PROVE  SeverityRank[results'[f.rule].severity]
                            <= SeverityRank[results'[g.rule].severity]
      BY <2>2
    <3> QED BY <2>2, <2>8, <3>1
  <2> HIDE DEF ids
  <2> QED BY <2>2, <2>7, <2>9 DEF ReasonIsWorst
<1> QED BY <1>13, <1>14, <1>15, <1>16 DEF Agrees

(* The verdict: a result for every rule and a row for every field, whatever other
   sessions have stored; one that was overtaken tears it. *)
LEMMA JudgeStep ==
  ASSUME ValidationAssumption, VerdictInv, NEW r \in Readers, NEW answer \in Answers(provider, type),
         Judge(r, answer)
  PROVE  VerdictInv'
<1> DEFINE outcome == Extract(provider, type, answer)
           outcomes == Evaluate(type, outcome.values)
           low == LowConfidence(outcomes, outcome.confidences, Threshold)
           rows == OutcomeRows(outcomes)
           cells == Persisted(base[r], outcome)
<1>1. /\ at[r] = "reading" /\ outcome.kind = "reading"
      /\ Insertable(base[r], outcome, rows) /\ Storable(cells)
      /\ fields' = cells /\ results' = Upserted(base[r], rows)
      /\ status' = VerdictOn(outcomes, low)
      /\ reason' = Written(reason, base[r].reason, ReasonFor(outcomes, low))
      /\ torn' = overtaken[r]
      /\ Close(r) /\ overtaken' = [q \in Readers |-> q # r /\ at[q] # "idle"]
      /\ UNCHANGED <<type, provider, asked, view, submitted, loads>>
  BY DEF Judge, CloseOvertaking, requests
<1>2. provider \in Providers /\ type \in DocumentTypes
  BY DEF VerdictInv, TypeOK
<1>3. MayBeGiven(provider, answer)
  BY <1>2 DEF ValidationAssumption
<1>4. /\ FieldsOf(type) \subseteq DOMAIN outcome.values
      /\ \A f \in DOMAIN outcome.values : outcome.values[f] \in FieldValues
  BY <1>1, <1>2, <1>3, ReadingsAreComplete
<1>5. DOMAIN rows = RuleIds(type)
  BY <1>2, RowsAreOutcomes
<1> HIDE DEF outcome
<1>6. \A f \in DOMAIN outcome.values :
        /\ cells[f] \in Cell
        /\ f \in DOMAIN fields =>
             cells[f].manual = fields[f].manual /\ cells[f].original = fields[f].original
        /\ f \notin DOMAIN fields => cells[f].original = NoValue
  BY <1>1, <1>4, StoredCell
<1>7. /\ DOMAIN cells = DOMAIN fields \union DOMAIN outcome.values
      /\ \A f \in DOMAIN cells : f \notin DOMAIN outcome.values => cells[f] = fields[f]
  BY DEF Persisted
<1>8. DOMAIN results' = RuleIds(type)
  <2>1. DOMAIN results \subseteq RuleIds(type)
    BY DEF VerdictInv, TypeOK
  <2> HIDE DEF rows
  <2> QED BY <1>1, <1>5, <2>1 DEF Upserted
<1>9. status' \in Verdicts /\ reason'.text \in {"none", "manual review", "ocr failed", "rules"}
  <2>1. reason.text \in {"none", "manual review", "ocr failed", "rules"}
    BY DEF VerdictInv, TypeOK
  <2> HIDE DEF outcomes, low
  <2> QED BY <1>1, <2>1 DEF VerdictOn, ReasonFor, Written, Verdicts, ManualReview, NoReason, Explain
<1>10. /\ at' \in [Readers -> {"idle", "loaded", "reading"}] /\ DOMAIN base' = Readers
       /\ at'[r] = "idle" /\ base'[r].status = "QUEUED"
       /\ DOMAIN base'[r].results = {} /\ DOMAIN base'[r].fields = {}
       /\ \A q \in Readers \ {r} : at'[q] = at[q] /\ base'[q] = base[q]
  BY <1>1, Closing
<1> HIDE DEF outcomes, rows, cells
<1>11. /\ DOMAIN fields \subseteq DOMAIN fields' /\ DOMAIN results \subseteq DOMAIN results'
       /\ \A f \in DOMAIN fields : fields'[f].manual = fields[f].manual
       /\ \A f \in DOMAIN fields' : fields'[f] \in Cell
  BY <1>1, <1>6, <1>7, <1>8 DEF VerdictInv, TypeOK
<1>12. TypeOK'
  <2>1. torn' \in BOOLEAN /\ overtaken' \in [Readers -> BOOLEAN] /\ status' \in Committable
    BY <1>1, <1>9 DEF VerdictInv, TypeOK, Committable
  <2>2. \A q \in Readers : /\ base'[q].status \in Committable
                          /\ DOMAIN base'[q].fields \subseteq DOMAIN fields'
                          /\ DOMAIN base'[q].results \subseteq DOMAIN results'
    BY <1>10, <1>11 DEF VerdictInv, TypeOK, Committable
  <2>3. \A q \in Requests : /\ view'[q].status \in Committable
                           /\ DOMAIN view'[q].fields \subseteq DOMAIN fields'
    BY <1>1, <1>11 DEF VerdictInv, TypeOK
  <2>4. /\ UNCHANGED <<type, provider, asked, view, submitted, loads>>
        /\ at' \in [Readers -> {"idle", "loaded", "reading"}] /\ DOMAIN base' = Readers
    BY <1>1, <1>10
  <2> QED BY <1>8, <1>9, <1>11, <2>1, <2>2, <2>3, <2>4 DEF VerdictInv, TypeOK
<1>13. OriginalsAreManual'
  BY <1>1, <1>6, <1>7 DEF VerdictInv, OriginalsAreManual
<1>14. MarksStay'
  <2>1. /\ \A q \in Readers : DOMAIN base[q].fields \subseteq DOMAIN fields
        /\ \A q \in Requests : DOMAIN view[q].fields \subseteq DOMAIN fields /\ view'[q] = view[q]
    BY <1>1 DEF VerdictInv, TypeOK
  <2> QED BY <1>10, <1>11, <2>1 DEF VerdictInv, MarksStay
<1>15. SessionsAreCurrent'
  <2>1. \A q \in Readers : at'[q] # "idle" => overtaken'[q]
    BY <1>1, <1>10
  <2> QED BY <2>1 DEF SessionsAreCurrent
<1>16. SeenVerdictsAreComplete' /\ VerdictIsComplete'
  <2>1. Complete'
    BY <1>1, <1>4, <1>7, <1>8 DEF Complete
  <2> QED BY <2>1 DEF SeenVerdictsAreComplete, VerdictIsComplete, Complete
<1>17. Agrees'
  <2>1. CASE overtaken[r]
    BY <1>1, <2>1 DEF Agrees, ReviewHasReason, RowsTellVerdict, ReasonIsWorst,
       ReasonOutlivesOnlyReview, ReviewShowsWhy, Whole
  <2>2. CASE ~overtaken[r]
    BY <2>2, JudgedAlone
  <2> QED BY <2>1, <2>2
<1> QED BY <1>12, <1>13, <1>14, <1>15, <1>16, <1>17 DEF VerdictInv

-----------------------------------------------------------------------------
(* A step that changes nothing. *)
LEMMA IdleStep ==
  ASSUME VerdictInv, UNCHANGED vars PROVE VerdictInv'
<1>1. UNCHANGED <<type, provider, status, reason, results, fields, at, base, overtaken, asked, view,
                  submitted, loads, torn>>
  BY DEF vars, row, readers, requests
<1>2. TypeOK'
  BY <1>1 DEF VerdictInv, TypeOK
<1>3. OriginalsAreManual' /\ MarksStay' /\ SessionsAreCurrent' /\ SeenVerdictsAreComplete'
  BY <1>1 DEF VerdictInv, OriginalsAreManual, MarksStay, SessionsAreCurrent, IsCurrent,
     SeenVerdictsAreComplete, Complete
<1>4. Agrees' /\ VerdictIsComplete'
  BY <1>1, AgreesStays DEF VerdictInv, row
<1> QED BY <1>2, <1>3, <1>4 DEF VerdictInv

(* What the results below rest on, for every source of answers, any threshold and
   any number of deliveries, copies at work at a time and requests. *)
THEOREM VerdictInductive == Spec => []VerdictInv
<1>1. VerdictInv /\ [Next]_vars => VerdictInv'
  <2> SUFFICES ASSUME VerdictInv, [Next]_vars PROVE VerdictInv'
    OBVIOUS
  <2>1. ASSUME NEW r \in Readers, NEW answer \in Answers(provider, type), Judge(r, answer)
        PROVE  VerdictInv'
    BY <2>1, ValidationAssumption, JudgeStep
  <2>2. ASSUME NEW r \in Readers, NEW answer \in Answers(provider, type), Fail(r, answer)
        PROVE  VerdictInv'
    BY <2>2, FailStep
  <2>3. ASSUME NEW r \in Readers, Load(r) \/ Begin(r) \/ GiveUp(r) PROVE VerdictInv'
    BY <2>3, ValidationAssumption, LoadStep, BeginStep, GiveUpStep
  <2>4. ASSUME NEW q \in Requests, NEW f \in DOMAIN fields, NEW v \in Typed, Correct(q, f, v)
        PROVE  VerdictInv'
    BY <2>4, ValidationAssumption, CorrectStep
  <2>5. ASSUME NEW q \in Requests, Open(q) \/ Submit(q) PROVE VerdictInv'
    BY <2>5, OpenStep, SubmitStep
  <2> QED
    BY <2>1, <2>2, <2>3, <2>4, <2>5, IdleStep DEF Next
<1> QED BY <1>1, InitVerdictInv, ValidationAssumption, PTL DEF Spec

(* Every variable of the verdict keeps its type; no confidence out of range is
   ever stored. *)
THEOREM VerdictTypeCorrect == Spec => []TypeOK
<1>1. VerdictInv => TypeOK
  BY DEF VerdictInv
<1> QED BY <1>1, VerdictInductive, PTL

(* A verdict has a result for every rule and a row for every field, however many
   copies stored theirs. *)
THEOREM VerdictsAreComplete == Spec => []VerdictIsComplete
<1>1. VerdictInv => VerdictIsComplete
  BY DEF VerdictInv
<1> QED BY <1>1, VerdictInductive, PTL

(* Stored results and status tell one story, unless an outcome or a submission
   was committed over rows its session had not seen. *)
THEOREM ResultsTellVerdict == Spec => []RowsTellVerdict
<1>1. VerdictInv => RowsTellVerdict
  BY DEF VerdictInv, Agrees
<1> QED BY <1>1, VerdictInductive, PTL

(* Under the same condition the reason of a rejection leads with the worst of the
   stored failures and counts the rest. *)
THEOREM ReasonsLeadWithWorst == Spec => []ReasonIsWorst
<1>1. VerdictInv => ReasonIsWorst
  BY DEF VerdictInv, Agrees
<1> QED BY <1>1, VerdictInductive, PTL

(* Under the same condition a worker whose threshold is no higher than the API's
   sends nothing to review without a field the API flags or a reviewer's mark. *)
THEOREM ReviewIsExplained == ASSUME Threshold <= 80 PROVE Spec => []ReviewShowsWhy
<1>1. VerdictInv => ReviewShowsWhy
  BY DEF VerdictInv, Agrees
<1> QED BY <1>1, VerdictInductive, PTL

(* Under the same condition only a submission leaves a validated document with a
   rejection reason. *)
THEOREM ReasonsAreReviews == Spec => []ReasonOutlivesOnlyReview
<1>1. VerdictInv => ReasonOutlivesOnlyReview
  BY DEF VerdictInv, Agrees
<1> QED BY <1>1, VerdictInductive, PTL
=============================================================================
