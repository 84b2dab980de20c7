--------------------------- MODULE ReadinessProofs ---------------------------
(***************************************************************************)
(* The scorecard and the two gates: the inductive invariant of             *)
(* ReleaseReadiness and its safety properties, for all thresholds, counts  *)
(* and measurements, and for every number of odd files.                    *)
(***************************************************************************)
EXTENDS ReleaseReadiness, FiniteSetTheorems, TLAPS

(* Every file holds what its writer can leave. *)
FilesOK ==
  /\ files = [f \in Evidence |-> files[f]]
  /\ \A f \in Evidence \ {"flake"} : files[f] \in Contents(f)
  /\ files["flake"] \in {Absent, Blank, Garbled} \/ files["flake"].rate \in Nat

(* The rate of the summary, if it was made from the report that is there. *)
ComputedRate ==
  IF E2e.total = 0 THEN 0 ELSE Tenths(files["playwrightE2e"].retries, E2e.total)

SummaryIsCurrent ==
  summed => files["playwrightE2e"] \notin {Blank, Garbled} /\ files["flake"] = Rate(ComputedRate)

Scorecard ==
  [decision |-> IF Blockers = {} THEN "GO" ELSE "NO-GO", blockers |-> Blockers,
   warnings |-> Warnings, gates |-> GateCounts(Blockers)]

PolicyVerdict ==
  IF \E f \in Trivys : files[f] \in {Blank, Garbled} THEN "thrown"
  ELSE IF PolicyHolds THEN "passed" ELSE "failed"

(* A verdict is kept only as long as the files are those it was passed on. *)
VerdictsAreCurrent ==
  /\ report # None => report = Scorecard
  /\ policy # None => policy = PolicyVerdict

IInv == FilesOK /\ summed \in BOOLEAN /\ SummaryIsCurrent /\ VerdictsAreCurrent

-----------------------------------------------------------------------------
LEMMA E2eFiles == Good("playwrightE2e") = Suite(50, 0, 0) /\ Bad("playwrightE2e") = Counts
  BY DEF Good, Bad, JUnits, Sarifs, Trivys, Sboms

(* An end-to-end report that can be read has counted. *)
LEMMA E2eCounts ==
  ASSUME FilesOK, IsRead("playwrightE2e")
  PROVE  LET e2e == files["playwrightE2e"]
         IN e2e.total \in Nat /\ e2e.failed \in Nat /\ e2e.retries \in Nat /\ E2e.total = e2e.total
<1> DEFINE e2e == files["playwrightE2e"]
<1>1. e2e \in {Suite(50, 0, 0)} \union Counts
  BY E2eFiles DEF FilesOK, Evidence, Contents, IsRead
<1>2. e2e.total \in Nat /\ e2e.failed \in Nat /\ e2e.retries \in Nat
  BY <1>1, ReadinessAssumption DEF Suite
<1>3. E2e.total = e2e.total
  BY DEF E2e, ReadPlaywright, Summary
<1> QED BY <1>2, <1>3

(* What a rounded rate tells of the exact one. *)
LEMMA TenthsRound ==
  ASSUME NEW some \in Nat, NEW all \in Nat, all > 0, NEW limit \in Nat
  PROVE  /\ Tenths(some, all) \in Nat
         /\ Tenths(some, all) > limit => 1000 * some > limit * all
         /\ 1000 * some > (limit + 1) * all => Tenths(some, all) > limit
<1> DEFINE n == 2000 * some + all
           d == 2 * all
           q == n \div d
<1>1. n \in Nat /\ d \in Nat /\ d > 0
  OBVIOUS
<1> HIDE DEF n, d
<1>2. q \in Nat /\ d * q <= n /\ n < d * (q + 1)
  BY <1>1
<1> HIDE DEF q
<1>3. ASSUME q > limit PROVE 1000 * some > limit * all
  <2>1. PICK k \in Nat : q = limit + 1 + k
    <3>1. q - limit - 1 \in Nat /\ q = limit + 1 + (q - limit - 1)
      BY <1>2, <1>3
    <3> QED BY <3>1
  <2>2. d * q = 2 * (limit * all) + 2 * all + 2 * (all * k)
    BY <2>1 DEF d
  <2>3. limit * all \in Nat /\ all * k \in Nat
    OBVIOUS
  <2>4. 2 * (limit * all) + 2 * all + 2 * (all * k) <= 2000 * some + all
    BY <1>2, <2>2 DEF n
  <2> QED BY <2>3, <2>4
<1>4. ASSUME 1000 * some > (limit + 1) * all PROVE q > limit
  <2>1. SUFFICES ASSUME q <= limit PROVE FALSE
    BY <1>2
  <2>2. PICK k \in Nat : limit = q + k
    <3>1. limit - q \in Nat /\ limit = q + (limit - q)
      BY <1>2, <2>1
    <3> QED BY <3>1
  <2>3. (limit + 1) * all = all * (q + 1) + all * k
    BY <1>2, <2>2
  <2>4. d * (q + 1) = 2 * (all * (q + 1))
    BY <1>2 DEF d
  <2>5. all * k \in Nat /\ all * (q + 1) \in Nat
    BY <1>2
  <2>6. 1000 * some > all * (q + 1) + all * k
    BY <1>4, <2>3
  <2>7. 2000 * some + all < 2 * (all * (q + 1))
    BY <1>2, <2>4 DEF n
  <2> QED BY <2>5, <2>6, <2>7
<1>5. Tenths(some, all) = q
  BY DEF Tenths, q, n, d
<1> QED BY <1>2, <1>3, <1>4, <1>5

(* The same of the rate of a summary, which is 0 if there are no results. *)
LEMMA RateTells ==
  ASSUME NEW some \in Nat, NEW all \in Nat, NEW limit \in Nat,
         NEW rate, rate = IF all = 0 THEN 0 ELSE Tenths(some, all)
  PROVE  /\ rate > limit => 1000 * some > limit * all
         /\ all > 0 /\ 1000 * some > (limit + 1) * all => rate > limit
<1>1. CASE all = 0
  <2>1. rate = 0 /\ ~(0 > limit)
    BY <1>1
  <2> QED BY <1>1, <2>1
<1>2. CASE all # 0
  <2>1. rate = Tenths(some, all) /\ all > 0
    BY <1>2
  <2> QED BY <2>1, TenthsRound
<1> QED BY <1>1, <1>2

LEMMA ComputedRateIsNat ==
  ASSUME FilesOK, files["playwrightE2e"] \notin {Blank, Garbled}
  PROVE  ComputedRate \in Nat
<1>1. CASE files["playwrightE2e"] = Absent
  <2>1. E2e.total = 0
    BY <1>1 DEF E2e, ReadPlaywright, IsRead, Missing
  <2> QED BY <2>1 DEF ComputedRate
<1>2. CASE IsRead("playwrightE2e")
  <2>1. E2e.total \in Nat /\ files["playwrightE2e"].retries \in Nat
    BY <1>2, E2eCounts
  <2>2. CASE E2e.total = 0
    BY <2>2 DEF ComputedRate
  <2>3. CASE E2e.total > 0
    BY <2>1, <2>3, TenthsRound DEF ComputedRate
  <2> QED BY <2>1, <2>2, <2>3
<1> QED BY <1>1, <1>2 DEF IsRead

-----------------------------------------------------------------------------
LEMMA IInvInit == Init => IInv
<1> SUFFICES ASSUME Init PROVE IInv
  OBVIOUS
<1>1. files = [f \in Evidence |-> Good(f)]
  BY DEF Init
<1>2. files["flake"] = Rate(0)
  BY <1>1 DEF Evidence, Good, JUnits, Sarifs, Trivys, Sboms
<1>3. FilesOK
  BY <1>1, <1>2 DEF FilesOK, Contents, Evidence, Rate
<1> QED
  BY <1>3 DEF Init, IInv, SummaryIsCurrent, VerdictsAreCurrent

LEMMA PublishStep ==
  ASSUME IInv, NEW f \in Evidence, NEW content \in Contents(f), Publish(f, content)
  PROVE  IInv'
<1>1. /\ files' = [files EXCEPT ![f] = content] /\ files = [g \in Evidence |-> files[g]]
      /\ summed' = (summed /\ f \notin {"playwrightE2e", "flake"})
      /\ report' = None /\ policy' = None
  BY DEF Publish, Unjudged, IInv, FilesOK
<1>2. FilesOK'
  <2>1. files' = [g \in Evidence |-> files'[g]] /\ \A g \in Evidence \ {f} : files'[g] = files[g]
    BY <1>1
  <2>2. files'[f] = content
    BY <1>1
  <2>3. f = "flake" => content \in {Absent, Blank, Garbled} \/ content.rate \in Nat
    <3>1. Good("flake") = Rate(0) /\ Bad("flake") = {}
      BY DEF Good, Bad, JUnits, Sarifs, Trivys, Sboms
    <3> QED BY <3>1 DEF Contents, Rate
  <2> QED BY <2>1, <2>2, <2>3 DEF IInv, FilesOK, Contents, Evidence
<1>3. SummaryIsCurrent'
  <2>1. SUFFICES ASSUME summed, f \notin {"playwrightE2e", "flake"} PROVE SummaryIsCurrent'
    BY <1>1 DEF SummaryIsCurrent
  <2>2. files'["playwrightE2e"] = files["playwrightE2e"] /\ files'["flake"] = files["flake"]
    BY <1>1, <2>1 DEF Evidence
  <2>3. ComputedRate' = ComputedRate
    BY <2>2 DEF ComputedRate, E2e, ReadPlaywright, IsRead
  <2> QED BY <2>1, <2>2, <2>3 DEF IInv, SummaryIsCurrent
<1> QED
  BY <1>1, <1>2, <1>3 DEF IInv, VerdictsAreCurrent

LEMMA CheckFlakeStep == IInv /\ CheckFlake => IInv'
<1> SUFFICES ASSUME IInv, CheckFlake PROVE IInv'
  OBVIOUS
<1>1. /\ files' = [files EXCEPT !["flake"] = Rate(ComputedRate)] /\ files = [g \in Evidence |-> files[g]]
      /\ files["playwrightE2e"] \notin {Blank, Garbled}
      /\ summed' = TRUE /\ report' = None /\ policy' = None
  BY DEF CheckFlake, ComputedRate, Unjudged, IInv, FilesOK
<1>2. ComputedRate \in Nat
  BY <1>1, ComputedRateIsNat DEF IInv
<1>3. /\ files'["flake"] = Rate(ComputedRate) /\ files' = [g \in Evidence |-> files'[g]]
      /\ \A g \in Evidence \ {"flake"} : files'[g] = files[g]
  BY <1>1 DEF Evidence
<1>4. FilesOK'
  BY <1>2, <1>3 DEF IInv, FilesOK, Contents, Rate
<1>5. SummaryIsCurrent'
  <2>1. files'["playwrightE2e"] = files["playwrightE2e"]
    BY <1>3 DEF Evidence
  <2>2. ComputedRate' = ComputedRate
    BY <2>1 DEF ComputedRate, E2e, ReadPlaywright, IsRead
  <2> QED BY <1>1, <1>3, <2>1, <2>2 DEF SummaryIsCurrent
<1> QED
  BY <1>1, <1>4, <1>5 DEF IInv, VerdictsAreCurrent

(* What is judged depends on the files alone. *)
LEMMA SameReads ==
  ASSUME files' = files
  PROVE  /\ UNCHANGED <<Api, E2e, Ocr, CriticalTotal, CriticalFailed, AuditSequence>>
         /\ UNCHANGED <<P95Upload, ErrorRate, OcrP95, OcrStatus, FlakeRate, Unapproved>>
         /\ \A f : /\ IsThere(f)' <=> IsThere(f)
                  /\ ReadJUnit(f)' = ReadJUnit(f)
                  /\ \A levels : HasResults(f, levels)' <=> HasResults(f, levels)
         /\ \A spec : SpecStatus(spec)' = SpecStatus(spec)
<1>1. \A f : /\ IsThere(f)' <=> IsThere(f)
             /\ IsRead(f)' <=> IsRead(f)
  BY DEF IsThere, IsRead
<1>2. \A f : /\ ReadPlaywright(f)' = ReadPlaywright(f)
             /\ ReadJUnit(f)' = ReadJUnit(f)
  BY <1>1 DEF ReadPlaywright, ReadJUnit
<1>3. UNCHANGED <<Api, E2e, Ocr>>
  BY <1>2 DEF Api, E2e, Ocr
<1>4. UNCHANGED <<CriticalTotal, CriticalFailed, AuditSequence>>
  BY <1>1, <1>3 DEF CriticalTotal, CriticalFailed, AuditSequence
<1>5. UNCHANGED <<P95Upload, ErrorRate, OcrP95, OcrStatus, FlakeRate, Unapproved>>
  BY <1>1 DEF P95Upload, ErrorRate, OcrP95, OcrStatus, FlakeRate, Unapproved
<1>6. \A f, levels : HasResults(f, levels)' <=> HasResults(f, levels)
  BY <1>1 DEF HasResults
<1>7. \A spec : SpecStatus(spec)' = SpecStatus(spec)
  BY <1>1 DEF SpecStatus
<1> QED
  BY <1>1, <1>2, <1>3, <1>4, <1>5, <1>6, <1>7

LEMMA SameVerdicts ==
  ASSUME files' = files
  PROVE  Scorecard' = Scorecard /\ PolicyVerdict' = PolicyVerdict
<1>1. SbomGenerated' <=> SbomGenerated
  BY SameReads DEF SbomGenerated
<1>2. ASSUME NEW blocker \in AllBlockers PROVE Applies(blocker)' <=> Applies(blocker)
  <2>1. /\ SpecStatus("authorization-idor")' = SpecStatus("authorization-idor")
        /\ SpecStatus("upload-validation")' = SpecStatus("upload-validation")
        /\ SpecStatus("log-redaction")' = SpecStatus("log-redaction")
        /\ ReadJUnit("junitContract")' = ReadJUnit("junitContract")
        /\ ReadJUnit("junitDb")' = ReadJUnit("junitDb")
    BY SameReads
  <2>2. /\ IsThere("gitleaks")' <=> IsThere("gitleaks")
        /\ IsThere("semgrep")' <=> IsThere("semgrep")
        /\ IsThere("trivyFs")' <=> IsThere("trivyFs")
        /\ IsThere("trivyImages")' <=> IsThere("trivyImages")
    BY SameReads
  <2>3. /\ UNCHANGED <<Api, E2e, Ocr, CriticalTotal, CriticalFailed, AuditSequence>>
        /\ UNCHANGED <<P95Upload, ErrorRate, OcrP95, OcrStatus, FlakeRate, Unapproved>>
    BY SameReads
  <2>4. PassRateTooLow' <=> PassRateTooLow
    BY SameReads DEF PassRateTooLow
  <2>5. CASE blocker \in SecurityBlockers
    <3>1. CASE blocker \in {"idor", "upload validation", "no secret scan", "no sast", "sbom"}
      BY <1>1, <2>1, <2>2, <3>1 DEF Applies
    <3>2. CASE blocker = "secrets"
      BY <3>2, SameReads DEF Applies
    <3>3. CASE blocker = "sast"
      BY <3>3, SameReads DEF Applies
    <3>4. CASE blocker = "dependencies"
      BY <3>4, SameReads DEF Applies
    <3>5. CASE blocker = "containers"
      BY <3>5, SameReads DEF Applies
    <3> QED
      BY <2>5, <3>1, <3>2, <3>3, <3>4, <3>5 DEF SecurityBlockers
  <2>6. CASE blocker \in ReliabilityBlockers
    BY <2>3, <2>6 DEF Applies, ReliabilityBlockers
  <2>7. CASE blocker \in DataBlockers \union GeneratedBlockers
    BY <2>1, <2>3, <2>7 DEF Applies, DataBlockers, GeneratedBlockers
  <2>8. CASE blocker \in QualityBlockers
    BY <2>1, <2>2, <2>3, <2>4, <2>8 DEF Applies, QualityBlockers
  <2> QED
    BY <2>5, <2>6, <2>7, <2>8 DEF AllBlockers
<1>3. Blockers' = Blockers
  BY <1>2 DEF Blockers
<1>4. Warnings' = Warnings
  <2>1. ReadJUnit("junitSecurity")' = ReadJUnit("junitSecurity")
    BY SameReads
  <2>2. UNCHANGED <<P95Upload, OcrStatus, FlakeRate>>
    BY SameReads
  <2> QED
    BY <2>1, <2>2 DEF Warnings
<1>5. PolicyHolds' <=> PolicyHolds
  BY SameReads DEF PolicyHolds
<1> QED
  BY <1>3, <1>4, <1>5 DEF Scorecard, GateCounts, PolicyVerdict

LEMMA IInvNext == IInv /\ [Next]_vars => IInv'
<1> SUFFICES ASSUME IInv, [Next]_vars PROVE IInv'
  OBVIOUS
<1>1. ASSUME files' = files,
             report' = report \/ report' = Scorecard,
             policy' = policy \/ policy' = PolicyVerdict,
             summed' = summed
      PROVE  IInv'
  <2>1. Scorecard' = Scorecard /\ PolicyVerdict' = PolicyVerdict
    BY <1>1, SameVerdicts
  <2> QED
    BY <1>1, <2>1, SameReads DEF IInv, FilesOK, SummaryIsCurrent, ComputedRate, VerdictsAreCurrent
<1>2. CASE Decide
  BY <1>1, <1>2 DEF Decide, Scorecard
<1>3. CASE SecurityGate
  BY <1>1, <1>3 DEF SecurityGate, PolicyVerdict
<1>4. CASE UNCHANGED vars
  BY <1>1, <1>4 DEF vars
<1> QED
  BY <1>2, <1>3, <1>4, PublishStep, CheckFlakeStep DEF Next

-----------------------------------------------------------------------------
LEMMA FiniteFour ==
  ASSUME NEW a, NEW b, NEW c, NEW d
  PROVE  IsFiniteSet({a, b, c, d})
<1>1. IsFiniteSet({a} \union {b}) /\ IsFiniteSet({c} \union {d})
  BY FS_Singleton, FS_Union
<1>2. IsFiniteSet(({a} \union {b}) \union ({c} \union {d}))
  BY <1>1, FS_Union
<1>3. {a, b, c, d} = ({a} \union {b}) \union ({c} \union {d})
  OBVIOUS
<1> QED
  BY <1>2, <1>3

LEMMA BlockersFinite == IsFiniteSet(AllBlockers)
<1> DEFINE A == {"idor", "upload validation", "no secret scan", "no sast"}
           B == {"secrets", "sast", "dependencies", "containers"}
           C == {"sbom", "ocr", "p95", "error rate"}
           D == {"ocr p95", "ocr quality", "db", "audit"}
           E == {"generated tests", "critical path failed", "critical path missing",
                 "critical path rate"}
           F == {"contract", "log leakage", "log redaction missing", "no filesystem scan"}
           G == {"no image scan", "flake rate", "flake rate", "flake rate"}
<1>1. IsFiniteSet(A) /\ IsFiniteSet(B) /\ IsFiniteSet(C) /\ IsFiniteSet(D)
      /\ IsFiniteSet(E) /\ IsFiniteSet(F) /\ IsFiniteSet(G)
  BY FiniteFour
<1>2. AllBlockers = ((A \union B) \union (C \union D)) \union ((E \union F) \union G)
  BY DEF AllBlockers, SecurityBlockers, ReliabilityBlockers, DataBlockers,
     GeneratedBlockers, QualityBlockers
<1> HIDE DEF A, B, C, D, E, F, G
<1>3. IsFiniteSet(A \union B) /\ IsFiniteSet(C \union D) /\ IsFiniteSet(E \union F)
  BY <1>1, FS_Union
<1>4. IsFiniteSet((A \union B) \union (C \union D)) /\ IsFiniteSet((E \union F) \union G)
  BY <1>1, <1>3, FS_Union
<1> QED
  BY <1>2, <1>4, FS_Union

(* Every gate the report names has a blocker, and no more than there are. *)
LEMMA CountsAreBounded ==
  ASSUME NEW gate \in {GateOf(b) : b \in Blockers}
  PROVE  Cardinality({b \in Blockers : GateOf(b) = gate}) \in 1..Cardinality(Blockers)
<1> DEFINE counted == {b \in Blockers : GateOf(b) = gate}
<1>1. IsFiniteSet(Blockers)
  BY BlockersFinite, FS_Subset DEF Blockers
<1>2. counted \in SUBSET Blockers /\ counted # {}
  OBVIOUS
<1> HIDE DEF counted
<1>3. IsFiniteSet(counted) /\ Cardinality(counted) <= Cardinality(Blockers)
  BY <1>1, <1>2, FS_Subset
<1>4. Cardinality(counted) \in Nat /\ Cardinality(Blockers) \in Nat
  BY <1>1, <1>3, FS_CardinalityType
<1>5. Cardinality(counted) # 0
  BY <1>2, <1>3, FS_EmptySet
<1>6. Cardinality(counted) \in 1..Cardinality(Blockers)
  BY <1>3, <1>4, <1>5
<1> QED
  BY <1>6 DEF counted

LEMMA GatesKnown == \A b \in Blockers : GateOf(b) \in Gates
<1> SUFFICES ASSUME NEW b \in AllBlockers PROVE GateOf(b) \in Gates
  BY DEF Blockers
<1> QED
  BY DEF AllBlockers, GateOf, Gates

LEMMA TypeFollows == IInv => TypeOK
<1> SUFFICES ASSUME IInv PROVE TypeOK
  OBVIOUS
<1>1. policy \in {None, "passed", "failed", "thrown"}
  BY DEF IInv, VerdictsAreCurrent, PolicyVerdict
<1>2. ASSUME report # None
      PROVE  /\ report.decision \in {"GO", "NO-GO"}
             /\ report.warnings \subseteq Evidence
             /\ DOMAIN report.gates \subseteq Gates
             /\ \A gate \in DOMAIN report.gates :
                  report.gates[gate] \in 1..Cardinality(report.blockers)
  <2>1. /\ report.decision \in {"GO", "NO-GO"}
        /\ report.blockers = Blockers
        /\ report.warnings = Warnings
        /\ report.gates = GateCounts(Blockers)
    BY <1>2 DEF IInv, VerdictsAreCurrent, Scorecard
  <2>2. Warnings \subseteq Evidence
    BY DEF Warnings, Evidence, JUnits
  <2>3. DOMAIN GateCounts(Blockers) \subseteq Gates
    BY GatesKnown DEF GateCounts
  <2>4. \A gate \in DOMAIN GateCounts(Blockers) :
          GateCounts(Blockers)[gate] \in 1..Cardinality(Blockers)
    BY CountsAreBounded DEF GateCounts
  <2> QED
    BY <2>1, <2>2, <2>3, <2>4
<1> QED
  BY <1>1, <1>2 DEF TypeOK, IInv, FilesOK

-----------------------------------------------------------------------------
(* What the report says, once there is one. *)
LEMMA ReportIsCurrent ==
  ASSUME IInv, report # None
  PROVE  report.blockers = Blockers
  BY DEF IInv, VerdictsAreCurrent, Scorecard

LEMMA Blocks ==
  ASSUME IInv, report # None, NEW blocker \in AllBlockers, Applies(blocker),
         blocker # "upload validation"
  PROVE  Reasons # {}
  BY ReportIsCurrent DEF Blockers, Reasons

LEMMA SuitesBlock ==
  ASSUME IInv, report # None, NEW f \in (JUnits \ {"junitSecurity"}) \union {"playwrightE2e"},
         IsRead(f), files[f].failed > 0
  PROVE  Reasons # {}
<1>1. ReadPlaywright(f).status = "failed"
  BY DEF ReadPlaywright, Summary
<1>2. ReadJUnit(f) = ReadPlaywright(f)
  BY DEF ReadJUnit, IsRead
<1>3. CASE f \in {"junitApi", "playwrightE2e"}
  BY <1>1, <1>2, <1>3, Blocks DEF Applies, AllBlockers, QualityBlockers, Api, E2e
<1>4. CASE f = "junitOcr"
  BY <1>1, <1>2, <1>4, Blocks DEF Applies, AllBlockers, ReliabilityBlockers, Ocr
<1>5. CASE f = "junitContract"
  BY <1>1, <1>2, <1>5, Blocks DEF Applies, AllBlockers, QualityBlockers
<1>6. CASE f = "junitDb"
  BY <1>1, <1>2, <1>6, Blocks DEF Applies, AllBlockers, DataBlockers
<1> QED
  BY <1>3, <1>4, <1>5, <1>6 DEF JUnits

LEMMA AbsenceHasReason ==
  ASSUME IInv, report # None, NEW f \in Required, ~IsThere(f)
  PROVE  Reasons # {}
<1>1. ~IsRead(f) /\ files[f] # Garbled
  BY DEF IsThere, IsRead, Absent, Blank, Garbled
<1>2. CASE f = "junitContract"
  <2>1. Applies("contract")
    BY <1>1, <1>2 DEF Applies, ReadJUnit, ReadPlaywright, Missing
  <2> QED
    BY <2>1, Blocks DEF AllBlockers, QualityBlockers
<1>3. CASE f = "junitOcr"
  <2>1. Applies("ocr")
    BY <1>1, <1>3 DEF Applies, Ocr, ReadJUnit, ReadPlaywright, Missing
  <2> QED
    BY <2>1, Blocks DEF AllBlockers, ReliabilityBlockers
<1>4. CASE f = "playwrightSecurity"
  <2>1. Applies("idor")
    BY <1>1, <1>4 DEF Applies, SpecStatus
  <2> QED
    BY <2>1, Blocks DEF AllBlockers, SecurityBlockers
<1>5. CASE f = "gitleaks"
  <2>1. Applies("no secret scan")
    BY <1>5 DEF Applies
  <2> QED
    BY <2>1, Blocks DEF AllBlockers, SecurityBlockers
<1>6. CASE f = "semgrep"
  <2>1. Applies("no sast")
    BY <1>6 DEF Applies
  <2> QED
    BY <2>1, Blocks DEF AllBlockers, SecurityBlockers
<1>7. CASE f = "trivyFs"
  <2>1. Applies("no filesystem scan")
    BY <1>7 DEF Applies
  <2> QED
    BY <2>1, Blocks DEF AllBlockers, QualityBlockers
<1>8. CASE f = "trivyImages"
  <2>1. Applies("no image scan")
    BY <1>8 DEF Applies
  <2> QED
    BY <2>1, Blocks DEF AllBlockers, QualityBlockers
<1>9. CASE f \in Sboms
  <2>1. Applies("sbom")
    BY <1>9 DEF Applies, SbomGenerated
  <2> QED
    BY <2>1, Blocks DEF AllBlockers, SecurityBlockers
<1> QED
  BY <1>2, <1>3, <1>4, <1>5, <1>6, <1>7, <1>8, <1>9 DEF Required, Sarifs, Trivys

(* Without one of its blockers but for findings the policy holds, and a policy that
   does not hold has one. *)
LEMMA PolicyAgrees == PolicyHolds <=> Blockers \intersect PolicyBlockers \subseteq FindingBlockers
<1> DEFINE others == {"no secret scan", "no sast", "no filesystem scan", "no image scan",
                      "dependencies", "containers", "sbom"}
<1>1. Blockers \intersect PolicyBlockers \subseteq FindingBlockers <=>
        \A blocker \in others : ~Applies(blocker)
  BY DEF Blockers, AllBlockers, SecurityBlockers, QualityBlockers, PolicyBlockers, FindingBlockers
<1>2. /\ Applies("no secret scan") <=> ~IsThere("gitleaks")
      /\ Applies("no sast") <=> ~IsThere("semgrep")
      /\ Applies("no filesystem scan") <=> ~IsThere("trivyFs")
      /\ Applies("no image scan") <=> ~IsThere("trivyImages")
  BY DEF Applies
<1>3. Applies("dependencies") <=> HasResults("trivyFs", {"CRITICAL"})
  BY DEF Applies
<1>4. Applies("containers") <=> HasResults("trivyImages", {"CRITICAL"})
  BY DEF Applies
<1>5. Applies("sbom") <=> ~\A f \in Sboms : IsThere(f)
  BY DEF Applies, SbomGenerated
<1> QED
  BY <1>1, <1>2, <1>3, <1>4, <1>5 DEF PolicyHolds, Sarifs, Trivys

(* Whatever a report that failed says, some blocker says it too. *)
LEMMA FailureHasReason ==
  ASSUME IInv, report # None, NEW f \in Evidence \ Unheeded, SaysFailed(f), ~AlwaysBlocked(f)
  PROVE  Reasons # {}
<1> USE DEF IInv
<1>1. IsRead(f)
  BY DEF SaysFailed
<1>2. f # "flake" => files[f] \in {Good(f)} \union Bad(f)
  BY <1>1 DEF FilesOK, Contents, IsRead
<1>3. CASE f \in (JUnits \ {"junitSecurity"}) \union {"playwrightE2e"}
  <2>1. files[f].failed > 0
    BY <1>3 DEF SaysFailed, JUnits, Sarifs, Trivys, Sboms
  <2> QED
    BY <1>1, <1>3, <2>1, SuitesBlock
<1>4. f # "junitSecurity"
  BY DEF Unheeded
<1>5. CASE f = "playwrightSecurity"
  <2>1. PICK spec \in Specs \ {LastSpec} : files[f].outcomes[spec] = "failed"
    BY <1>5 DEF AlwaysBlocked
  <2>2. SpecStatus(spec) = "failed"
    BY <1>1, <1>5, <2>1 DEF SpecStatus
  <2>3. CASE spec = "authorization-idor"
    <3>1. Applies("idor")
      BY <2>2, <2>3 DEF Applies
    <3> QED
      BY <3>1, Blocks DEF AllBlockers, SecurityBlockers
  <2>4. CASE spec = "log-redaction"
    <3>1. Applies("log leakage")
      BY <2>2, <2>4 DEF Applies
    <3> QED
      BY <3>1, Blocks DEF AllBlockers, QualityBlockers
  <2> QED
    BY <2>3, <2>4 DEF Specs, LastSpec
<1>6. CASE f = "gitleaks"
  <2>1. files[f].level # "none"
    BY <1>6 DEF SaysFailed, JUnits, Sarifs, Trivys, Sboms
  <2>2. Good(f) = Findings("none") /\ Bad(f) = {Findings("warning"), Findings("error")}
    BY <1>6 DEF Good, Bad, JUnits, Sarifs, Trivys, Sboms
  <2>3. files[f].level \in {"warning", "error"}
    BY <1>2, <1>6, <2>1, <2>2 DEF Findings
  <2>4. Applies("secrets")
    BY <1>1, <1>6, <2>3 DEF Applies, HasResults
  <2> QED
    BY <2>4, Blocks DEF AllBlockers, SecurityBlockers
<1>7. CASE f = "semgrep"
  <2>1. files[f].level = "error"
    BY <1>7 DEF SaysFailed, JUnits, Sarifs, Trivys, Sboms
  <2>2. Applies("sast")
    BY <1>1, <1>7, <2>1 DEF Applies, HasResults
  <2> QED
    BY <2>2, Blocks DEF AllBlockers, SecurityBlockers
<1>8. CASE f \in Trivys
  <2>1. files[f].level = "CRITICAL"
    BY <1>8 DEF SaysFailed, JUnits, Sarifs, Trivys, Sboms
  <2>2. HasResults(f, {"CRITICAL"})
    BY <1>1, <2>1 DEF HasResults
  <2>3. Applies("dependencies") \/ Applies("containers")
    BY <1>8, <2>2 DEF Applies, Trivys
  <2> QED
    BY <2>3, Blocks DEF AllBlockers, SecurityBlockers
<1>9. CASE f \in Sboms
  BY <1>9 DEF SaysFailed, JUnits, Sarifs, Trivys, Sboms
<1>10. CASE f = "performance"
  <2>1. Over(files[f].p95, MaxP95LatencyMs) \/ Over(files[f].errors, MaxErrorRate)
    BY <1>10 DEF SaysFailed, JUnits, Sarifs, Trivys, Sboms
  <2>2. \/ Exceeds(P95Upload, MaxP95LatencyMs)
        \/ Exceeds(ErrorRate, MaxErrorRate)
    BY <1>1, <1>10, <2>1, ReadinessAssumption DEF Exceeds, Over, P95Upload, ErrorRate
  <2>3. Applies("p95") \/ Applies("error rate")
    BY <2>2 DEF Applies
  <2> QED
    BY <2>3, Blocks DEF AllBlockers, ReliabilityBlockers
<1>11. CASE f = "ocrQuality"
  <2>1. Over(files[f].p95, MaxOcrP95LatencyMs) \/ files[f].status = "failed"
    BY <1>11 DEF SaysFailed, JUnits, Sarifs, Trivys, Sboms
  <2>2. Exceeds(OcrP95, MaxOcrP95LatencyMs) \/ OcrStatus = "failed"
    BY <1>1, <1>11, <2>1, ReadinessAssumption DEF Exceeds, Over, OcrP95, OcrStatus
  <2>3. Applies("ocr p95") \/ Applies("ocr quality")
    BY <2>2 DEF Applies
  <2> QED
    BY <2>3, Blocks DEF AllBlockers, ReliabilityBlockers
<1>12. CASE f = "flake"
  <2>1. files[f].rate > MaxFlakeRate
    BY <1>12 DEF SaysFailed, JUnits, Sarifs, Trivys, Sboms
  <2>2. files[f].rate \in Nat
    BY <1>1, <1>12 DEF FilesOK, IsRead
  <2>3. Exceeds(FlakeRate, MaxFlakeRate)
    BY <1>1, <1>12, <2>1, <2>2, ReadinessAssumption DEF Exceeds, FlakeRate
  <2>4. Applies("flake rate")
    BY <2>3 DEF Applies
  <2> QED
    BY <2>4, Blocks DEF AllBlockers, QualityBlockers
<1>13. CASE f = "audit"
  <2>1. files[f].actions # Audited
    BY <1>13 DEF SaysFailed, JUnits, Sarifs, Trivys, Sboms
  <2>2. Good(f) = Audit(Audited) /\ Bad(f) = {Audit(actions) : actions \in SUBSET Audited}
    BY <1>13 DEF Good, Bad, JUnits, Sarifs, Trivys, Sboms
  <2>3. files[f].actions \in SUBSET Audited
    BY <1>2, <1>13, <2>2 DEF Audit
  <2>4. AuditSequence # "passed"
    BY <1>1, <1>13, <2>1, <2>3 DEF AuditSequence
  <2>5. Applies("audit")
    BY <2>4 DEF Applies
  <2> QED
    BY <2>5, Blocks DEF AllBlockers, DataBlockers
<1>14. CASE f = "generatedTests"
  <2>1. files[f].unapproved > 0
    BY <1>14 DEF SaysFailed, JUnits, Sarifs, Trivys, Sboms
  <2>2. Applies("generated tests")
    BY <1>1, <1>14, <2>1 DEF Applies, Unapproved
  <2> QED
    BY <2>2, Blocks DEF AllBlockers, GeneratedBlockers
<1> QED
  BY <1>3, <1>4, <1>5, <1>6, <1>7, <1>8, <1>9, <1>10, <1>11, <1>12, <1>13, <1>14
  DEF Evidence, JUnits, Sarifs, Trivys, Sboms

-----------------------------------------------------------------------------
(* What the results below rest on: files hold what their writers leave, and the
   summary and both verdicts are those of the files that are there, or are not
   spoken of; for all thresholds, counts and measurements. *)
THEOREM ReadinessInductive == Spec => []IInv
  BY IInvInit, IInvNext, PTL DEF Spec

(* Files hold what their writers leave, and the counts of release-readiness.prom
   name known gates and stay within the number of blockers. *)
THEOREM ReadinessTypeCorrect == Spec => []TypeOK
  BY ReadinessInductive, TypeFollows, PTL

(* A failure that some report tells of, the Python security suite aside, blocks
   the release, whatever else is missing or cannot be parsed. *)
THEOREM FailuresBlock == Spec => []FailureBlocks
<1>1. IInv => FailureBlocks
  BY FailureHasReason DEF FailureBlocks
<1> QED
  BY <1>1, ReadinessInductive, PTL

(* So does the absence of each file that is required by itself. *)
THEOREM AbsencesBlock == Spec => []AbsenceBlocks
<1>1. IInv => AbsenceBlocks
  BY AbsenceHasReason DEF AbsenceBlocks
<1> QED
  BY <1>1, ReadinessInductive, PTL

(* Where the policy gate fails the scorecard blocks; where it passes, the scorecard
   blocks at most for findings in the SARIF files. *)
THEOREM GatesTellOneStory == Spec => []GatesAgree
<1>1. IInv => GatesAgree
  <2> SUFFICES ASSUME IInv, report # None
               PROVE  /\ policy = "failed" => Blockers \intersect PolicyBlockers # {}
                      /\ policy = "passed" =>
                           Blockers \intersect PolicyBlockers \subseteq FindingBlockers
    BY ReportIsCurrent DEF GatesAgree
  <2>1. policy \in {"passed", "failed"} => policy = PolicyVerdict
    BY ReadinessAssumption DEF IInv, VerdictsAreCurrent
  <2>2. policy \in {"passed", "failed"} => policy = IF PolicyHolds THEN "passed" ELSE "failed"
    BY <2>1 DEF PolicyVerdict
  <2> QED
    BY <2>2, PolicyAgrees
<1> QED
  BY <1>1, ReadinessInductive, PTL

(* A summary that was made from the report that is there blocks for flakiness only
   above the limit, and always above it by more than what is rounded away. *)
THEOREM FlakeBlocksAreReal == Spec => []FlakeBlockIsReal
<1>1. IInv => FlakeBlockIsReal
  <2> DEFINE e2e == files["playwrightE2e"]
             flaky == "flake rate" \in Blockers
             isOver == 1000 * e2e.retries > MaxFlakeRate * e2e.total
             isFarOver == e2e.total > 0 /\ 1000 * e2e.retries > (MaxFlakeRate + 1) * e2e.total
  <2> SUFFICES ASSUME IInv, report # None, summed
               PROVE  /\ flaky => IsRead("playwrightE2e") /\ isOver
                      /\ IsRead("playwrightE2e") /\ isFarOver => flaky
    BY ReportIsCurrent DEF FlakeBlockIsReal
  <2>1. files["flake"] = Rate(ComputedRate) /\ e2e \notin {Blank, Garbled} /\ MaxFlakeRate \in Nat
    BY ReadinessAssumption DEF IInv, SummaryIsCurrent
  <2>2. ComputedRate \in Nat
    BY <2>1, ComputedRateIsNat DEF IInv
  <2>3. FlakeRate = ComputedRate
    BY <2>1 DEF FlakeRate, IsRead, Rate, Absent, Blank, Garbled
  <2>4. flaky <=> ComputedRate > MaxFlakeRate
    <3>1. "flake rate" \in Blockers <=> Exceeds(FlakeRate, MaxFlakeRate)
      BY DEF Blockers, Applies, AllBlockers, QualityBlockers
    <3> QED BY <2>2, <2>3, <3>1, ReadinessAssumption DEF Exceeds
  <2>5. ASSUME ~IsRead("playwrightE2e") PROVE ~flaky
    <3>1. E2e.total = 0
      BY <2>5 DEF E2e, ReadPlaywright, Missing
    <3>2. ComputedRate = 0
      BY <3>1 DEF ComputedRate
    <3>3. ~(0 > MaxFlakeRate)
      BY <2>1
    <3> HIDE DEF flaky
    <3> QED BY <2>4, <3>2, <3>3
  <2>6. ASSUME IsRead("playwrightE2e")
        PROVE  (flaky => isOver) /\ (isFarOver => flaky)
    <3> DEFINE some == e2e.retries
               all == e2e.total
    <3>1. all \in Nat /\ some \in Nat /\ E2e.total = all
      BY <2>6, E2eCounts DEF IInv
    <3>2. ComputedRate = IF all = 0 THEN 0 ELSE Tenths(some, all)
      BY <3>1 DEF ComputedRate
    <3>3. /\ isOver <=> 1000 * some > MaxFlakeRate * all
          /\ isFarOver <=> all > 0 /\ 1000 * some > (MaxFlakeRate + 1) * all
      OBVIOUS
    <3> HIDE DEF some, all, e2e, flaky, isOver, isFarOver
    <3>4. /\ ComputedRate > MaxFlakeRate => isOver
          /\ isFarOver => ComputedRate > MaxFlakeRate
      BY <2>1, <3>1, <3>2, <3>3, RateTells
    <3> QED BY <2>4, <3>4
  <2> HIDE DEF flaky, isOver, isFarOver
  <2> QED BY <2>5, <2>6
<1> QED
  BY <1>1, ReadinessInductive, PTL

(* As written, the scorecard never says GO, whatever the files hold: the last spec
   file of the security suite is missing or taken for failed (specStatus). *)
THEOREM NeverGo == Spec => [](report # None => report.decision = "NO-GO")
<1>1. IInv => (report # None => report.decision = "NO-GO")
  <2> SUFFICES ASSUME IInv, report # None PROVE report.decision = "NO-GO"
    OBVIOUS
  <2>1. SpecStatus("upload-validation") # "passed"
    BY DEF SpecStatus, LastSpec
  <2>2. "upload validation" \in Blockers
    BY <2>1 DEF Blockers, Applies, AllBlockers, SecurityBlockers
  <2>3. report = Scorecard
    BY DEF IInv, VerdictsAreCurrent
  <2> QED BY <2>2, <2>3 DEF Scorecard
<1> QED
  BY <1>1, ReadinessInductive, PTL
=============================================================================
