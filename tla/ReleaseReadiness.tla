-------------------------- MODULE ReleaseReadiness --------------------------
(***************************************************************************)
(* The release scorecard (scripts/release-readiness.ts), the security      *)
(* policy gate (scripts/security-release-gate.ts) and the flake summary    *)
(* (scripts/check-flake-rate.ts) over the report files that suites and     *)
(* scanners leave behind.  Nothing tells the scripts which of them ran, or *)
(* when: each file may be absent, blank, cut off or hold a report, and     *)
(* suites, summary and gates are run again in any order.                   *)
(***************************************************************************)
EXTENDS Integers, FiniteSets

CONSTANTS
  MaxFlakeRate,          \* in tenths of a per cent
  MaxP95LatencyMs, MaxOcrP95LatencyMs, MaxErrorRate, MinCriticalPathPassRate,
  Counts,                \* what suites may have counted
  Measured(_),           \* Measured(limit): what may have been measured against it
  MaxOdd,                \* bound on the files that are not as a good run leaves them
  None                   \* JavaScript's null: neither a number nor a verdict

Suite(total, failed, retries) ==
  [form |-> "suite", total |-> total, failed |-> failed, retries |-> retries]

ASSUME ReadinessAssumption ==
  /\ {MaxFlakeRate, MaxP95LatencyMs, MaxOcrP95LatencyMs, MaxErrorRate, MaxOdd} \subseteq Nat
  /\ MinCriticalPathPassRate \in 0..100
  /\ None \notin Nat /\ None \notin {"passed", "failed", "thrown"}
  /\ \A s \in Counts : /\ s = Suite(s.total, s.failed, s.retries)
                       /\ s.total \in Nat /\ s.failed \in Nat /\ s.retries \in Nat
  /\ \A limit \in {MaxP95LatencyMs, MaxOcrP95LatencyMs, MaxErrorRate} :
       Measured(limit) \subseteq Nat \union {None}

JUnits == {"junitApi", "junitDb", "junitSecurity", "junitOcr", "junitContract"}
Sarifs == {"gitleaks", "semgrep"}
Trivys == {"trivyFs", "trivyImages"}
Sboms == {"sbomCycloneDx", "sbomSpdx"}

Evidence ==
  JUnits \union Sarifs \union Trivys \union Sboms
  \union {"playwrightE2e", "playwrightSecurity", "performance", "ocrQuality", "flake",
          "audit", "generatedTests"}

(* What a file may hold. *)
Absent == [form |-> "absent"]
Blank == [form |-> "blank"]
Garbled == [form |-> "garbled"]
Findings(level) == [form |-> "findings", level |-> level]
Audit(actions) == [form |-> "audit", actions |-> actions]
Rate(rate) == [form |-> "rate", rate |-> rate]
Load(p95, errors) == [form |-> "load", p95 |-> p95, errors |-> errors]
Quality(p95, status) == [form |-> "quality", p95 |-> p95, status |-> status]
Manifest(unapproved) == [form |-> "manifest", unapproved |-> unapproved]
Inventory == [form |-> "inventory"]

(* The spec files the scorecard names, and the file the suite ends with: reports
   list the files in their order, statistics come last. *)
Specs == {"authorization-idor", "log-redaction", "upload-validation"}
LastSpec == "upload-validation"
SpecReport(outcomes) == [form |-> "specs", outcomes |-> outcomes]

Audited == {"DOCUMENT_UPLOADED", "DOCUMENT_SUBMITTED"}

Good(f) ==
  CASE f \in JUnits \union {"playwrightE2e"} -> Suite(50, 0, 0)
    [] f = "playwrightSecurity" -> SpecReport([spec \in Specs |-> "passed"])
    [] f \in Sarifs \union Trivys -> Findings("none")
    [] f \in Sboms -> Inventory
    [] f = "performance" -> Load(MaxP95LatencyMs, MaxErrorRate)
    [] f = "ocrQuality" -> Quality(MaxOcrP95LatencyMs, "passed")
    [] f = "flake" -> Rate(0)
    [] f = "audit" -> Audit(Audited)
    [] f = "generatedTests" -> Manifest(0)

Bad(f) ==
  CASE f \in JUnits -> {Suite(s.total, s.failed, 0) : s \in Counts}
    [] f = "playwrightE2e" -> Counts
    [] f = "playwrightSecurity" ->
         {SpecReport([spec \in Specs |-> IF spec = odd THEN outcome ELSE "passed"]) :
            odd \in Specs, outcome \in {"failed", "not there"}}
    [] f \in Sarifs -> {Findings("warning"), Findings("error")}
    [] f \in Trivys -> {Findings("HIGH"), Findings("CRITICAL")}
    [] f \in Sboms -> {}
    [] f = "performance" ->
         {Load(p95, errors) : p95 \in Measured(MaxP95LatencyMs), errors \in Measured(MaxErrorRate)}
    [] f = "ocrQuality" ->
         {Quality(p95, status) :
            p95 \in Measured(MaxOcrP95LatencyMs), status \in {"passed", "failed"}}
    [] f = "flake" -> {}   \* check-flake-rate.ts writes it
    [] f = "audit" -> {Audit(actions) : actions \in SUBSET Audited}
    [] f = "generatedTests" -> {Manifest(1)}

Contents(f) == {Absent, Blank, Garbled, Good(f)} \union Bad(f)

VARIABLES
  files,    \* what each file holds
  summed,   \* history: the flake summary was made from the report that is there
  report,   \* what release-readiness.json and .prom say of the files as they
            \* are, None if they were written for others or not yet
  policy    \* how the security gate ended on the files as they are, None if it
            \* has not run on them

vars == <<files, summed, report, policy>>

(* existsAndNonEmpty, and a text that can be parsed. *)
IsThere(f) == files[f] \notin {Absent, Blank}
IsRead(f) == files[f] \notin {Absent, Blank, Garbled}

-----------------------------------------------------------------------------
(* readJUnit: a file without the attributes is a suite of no tests that passed. *)
Missing == [status |-> "missing", total |-> 0, failed |-> 0]
Summary(total, failed) ==
  [status |-> IF failed > 0 THEN "failed" ELSE "passed", total |-> total, failed |-> failed]

ReadPlaywright(f) == IF IsRead(f) THEN Summary(files[f].total, files[f].failed) ELSE Missing

ReadJUnit(f) == IF files[f] = Garbled THEN Summary(0, 0) ELSE ReadPlaywright(f)

Api == ReadJUnit("junitApi")
E2e == ReadPlaywright("playwrightE2e")
Ocr == ReadJUnit("junitOcr")

CriticalTotal == Api.total + E2e.total + Ocr.total
CriticalFailed == Api.failed + E2e.failed + Ocr.failed

(* Not so if there were no tests: the rate is null. *)
PassRateTooLow ==
  (CriticalTotal - CriticalFailed) * 100 < MinCriticalPathPassRate * CriticalTotal

(* specStatus: the text from one title to the next is searched for the name and
   for a failure.  The text of the last spec runs to the end of the report,
   through its statistics and their key "unexpected". *)
SpecStatus(spec) ==
  IF ~IsRead("playwrightSecurity") THEN "missing"
  ELSE LET outcome == files["playwrightSecurity"].outcomes[spec]
       IN IF outcome = "not there" THEN "missing"
          ELSE IF outcome = "failed" \/ spec = LastSpec THEN "failed" ELSE "passed"

(* countSarifResults and countTrivyCriticals: a file that cannot be read counts
   no findings. *)
HasResults(f, levels) == IsRead(f) /\ files[f].level \in levels

(* Mutant of SbomGenerated: either of the two is enough. *)
SomeSbom == \E f \in Sboms : IsThere(f)

SbomGenerated == \A f \in Sboms : IsThere(f)

(* Without api-smoke.json, the audit trail counts as checked if the API suite
   left a file. *)
AuditSequence ==
  IF IsRead("audit") THEN IF Audited \subseteq files["audit"].actions THEN "passed" ELSE "failed"
  ELSE IF Api.status = "missing" THEN "missing" ELSE "passed"

(* readPerformance, readOcrQuality, readFlakeRate: null if not told. *)
P95Upload == IF IsRead("performance") THEN files["performance"].p95 ELSE None
ErrorRate == IF IsRead("performance") THEN files["performance"].errors ELSE None
OcrP95 == IF IsRead("ocrQuality") THEN files["ocrQuality"].p95 ELSE None
OcrStatus == IF IsRead("ocrQuality") THEN files["ocrQuality"].status ELSE "missing"
FlakeRate == IF IsRead("flake") THEN files["flake"].rate ELSE None
Unapproved == IF IsRead("generatedTests") THEN files["generatedTests"].unapproved ELSE 0

(* Mutant of Exceeds: one more than the limit still passes. *)
FarExceeds(value, limit) == value # None /\ value > limit + 1

Exceeds(value, limit) == value # None /\ value > limit

-----------------------------------------------------------------------------
(* The blockers, by the gate that classifyBlocker finds for their text. *)
SecurityBlockers ==
  {"idor", "upload validation", "no secret scan", "no sast", "secrets", "sast",
   "dependencies", "containers", "sbom"}
ReliabilityBlockers == {"ocr", "p95", "error rate", "ocr p95", "ocr quality"}
DataBlockers == {"db", "audit"}
GeneratedBlockers == {"generated tests"}
QualityBlockers ==
  {"critical path failed", "critical path missing", "critical path rate", "contract",
   "log leakage", "log redaction missing", "no filesystem scan", "no image scan",
   "flake rate"}

AllBlockers ==
  SecurityBlockers \union ReliabilityBlockers \union DataBlockers
  \union GeneratedBlockers \union QualityBlockers

GateOf(blocker) ==
  CASE blocker \in SecurityBlockers -> "security"
    [] blocker \in ReliabilityBlockers -> "reliability"
    [] blocker \in DataBlockers -> "data_integrity"
    [] blocker \in GeneratedBlockers -> "ai_generated_tests"
    [] blocker \in QualityBlockers -> "quality"

(* When each of them applies. *)
Applies(blocker) ==
  \/ blocker = "critical path failed" /\ "failed" \in {Api.status, E2e.status}
  \/ blocker = "critical path missing" /\ CriticalTotal = 0
  \/ blocker = "critical path rate" /\ PassRateTooLow
  \/ blocker = "contract" /\ ReadJUnit("junitContract").status # "passed"
  \/ blocker = "ocr" /\ Ocr.status # "passed"
  \/ blocker = "idor" /\ SpecStatus("authorization-idor") # "passed"
  \/ blocker = "upload validation" /\ SpecStatus("upload-validation") # "passed"
  \/ blocker = "log leakage" /\ SpecStatus("log-redaction") = "failed"
  \/ blocker = "log redaction missing" /\ SpecStatus("log-redaction") = "missing"
  \/ blocker = "no secret scan" /\ ~IsThere("gitleaks")
  \/ blocker = "no sast" /\ ~IsThere("semgrep")
  \/ blocker = "no filesystem scan" /\ ~IsThere("trivyFs")
  \/ blocker = "no image scan" /\ ~IsThere("trivyImages")
  \/ blocker = "secrets" /\ HasResults("gitleaks", {"warning", "error"})
  \/ blocker = "sast" /\ HasResults("semgrep", {"error"})
  \/ blocker = "dependencies" /\ HasResults("trivyFs", {"CRITICAL"})
  \/ blocker = "containers" /\ HasResults("trivyImages", {"CRITICAL"})
  \/ blocker = "sbom" /\ ~SbomGenerated
  \/ blocker = "p95" /\ Exceeds(P95Upload, MaxP95LatencyMs)
  \/ blocker = "error rate" /\ Exceeds(ErrorRate, MaxErrorRate)
  \/ blocker = "flake rate" /\ Exceeds(FlakeRate, MaxFlakeRate)
  \/ blocker = "ocr p95" /\ Exceeds(OcrP95, MaxOcrP95LatencyMs)
  \/ blocker = "ocr quality" /\ OcrStatus = "failed"
  \/ blocker = "db" /\ ReadJUnit("junitDb").status = "failed"
  \/ blocker = "audit" /\ AuditSequence # "passed"
  \/ blocker = "generated tests" /\ Unapproved > 0

Blockers == {blocker \in AllBlockers : Applies(blocker)}

Warnings ==
  {f \in {"junitSecurity", "performance", "ocrQuality", "flake"} :
     CASE f = "junitSecurity" -> ReadJUnit(f).status = "missing"
       [] f = "performance" -> P95Upload = None
       [] f = "ocrQuality" -> OcrStatus = "missing"
       [] f = "flake" -> FlakeRate = None}

Gates == {"quality", "security", "reliability", "data_integrity", "ai_generated_tests"}

(* Mutant of GateCounts: a gate's count starts at one. *)
GateCountsFromOne(blockers) ==
  [gate \in {GateOf(b) : b \in blockers} |->
     1 + Cardinality({b \in blockers : GateOf(b) = gate})]

(* release_gate_failures_total has an entry for the gates that failed only. *)
GateCounts(blockers) ==
  [gate \in {GateOf(b) : b \in blockers} |->
     Cardinality({b \in blockers : GateOf(b) = gate})]

-----------------------------------------------------------------------------
Init ==
  /\ files = [f \in Evidence |-> Good(f)]
  /\ summed = FALSE
  /\ report = None
  /\ policy = None

(* Nobody has judged the files as they are now. *)
Unjudged == report' = None /\ policy' = None

Odd == {f \in Evidence \ {"flake"} : files[f] # Good(f)}

(* A suite or a scanner runs, for the first time or again, or its file is lost. *)
Publish(f, content) ==
  /\ content # files[f]
  /\ Cardinality((Odd \ {f}) \union {g \in {f} : content # Good(f)}) <= MaxOdd
  /\ files' = [files EXCEPT ![f] = content]
  /\ summed' = (summed /\ f \notin {"playwrightE2e", "flake"})
  /\ Unjudged

(* toFixed(1) of a percentage, in tenths. *)
Tenths(some, all) == (2000 * some + all) \div (2 * all)

(* Mutant of CheckFlake: a suite that left no results is a flaky one. *)
CheckFlakeUnguarded ==
  LET e2e == files["playwrightE2e"]
  IN /\ e2e \notin {Blank, Garbled}
     /\ files' = [files EXCEPT !["flake"] =
          Rate(IF E2e.total = 0 THEN 1000 ELSE Tenths(e2e.retries, E2e.total))]
     /\ summed' = TRUE
     /\ Unjudged

(* check-flake-rate.ts: retried results over all results, 0 if there are none; a
   report that is there and cannot be parsed ends it. *)
CheckFlake ==
  LET e2e == files["playwrightE2e"]
  IN /\ e2e \notin {Blank, Garbled}
     /\ files' = [files EXCEPT !["flake"] =
          Rate(IF E2e.total = 0 THEN 0 ELSE Tenths(e2e.retries, E2e.total))]
     /\ summed' = TRUE
     /\ Unjudged

(* Either gate says the same again on the same files. *)
Decide ==
  /\ report = None
  /\ report' = [decision |-> IF Blockers = {} THEN "GO" ELSE "NO-GO", blockers |-> Blockers,
                warnings |-> Warnings, gates |-> GateCounts(Blockers)]
  /\ UNCHANGED <<files, summed, policy>>

(* Mutant of PolicyHolds: critical findings of the images are not looked at. *)
PolicyHoldsForSource ==
  /\ \A f \in Sarifs \union Trivys \union Sboms : IsThere(f)
  /\ ~HasResults("trivyFs", {"CRITICAL"})

(* security-release-gate.ts: the files are there, the SARIF ones unopened. *)
PolicyHolds ==
  /\ \A f \in Sarifs \union Trivys \union Sboms : IsThere(f)
  /\ \A f \in Trivys : ~HasResults(f, {"CRITICAL"})

(* A Trivy report that exists and cannot be parsed ends it, a blank one too. *)
SecurityGate ==
  /\ policy = None
  /\ policy' = IF \E f \in Trivys : files[f] \in {Blank, Garbled} THEN "thrown"
               ELSE IF PolicyHolds THEN "passed" ELSE "failed"
  /\ UNCHANGED <<files, summed, report>>

Next ==
  \/ \E f \in Evidence : \E content \in Contents(f) : Publish(f, content)
  \/ CheckFlake
  \/ Decide
  \/ SecurityGate

Spec == Init /\ [][Next]_vars

-----------------------------------------------------------------------------
(* Every file holds what its writer can leave; a report counts no gate it does
   not know and none more often than there are blockers. *)
TypeOK ==
  /\ \A f \in Evidence \ {"flake"} : files[f] \in Contents(f)
  /\ files["flake"] \in {Absent, Blank, Garbled} \/ files["flake"].rate \in Nat
  /\ summed \in BOOLEAN
  /\ policy \in {None, "passed", "failed", "thrown"}
  /\ report # None =>
       /\ report.decision \in {"GO", "NO-GO"}
       /\ report.warnings \subseteq Evidence
       /\ DOMAIN report.gates \subseteq Gates
       /\ \A gate \in DOMAIN report.gates : report.gates[gate] \in 1..Cardinality(report.blockers)

Over(value, limit) == value \in Nat /\ value > limit

(* A report that says by itself that something failed or, of a measurement, that
   it missed its limit; for SAST that is an ERROR (security-release-gates.md; the
   policy file names WARNING too). *)
SaysFailed(f) ==
  /\ IsRead(f)
  /\ CASE f \in JUnits \union {"playwrightE2e"} -> files[f].failed > 0
       [] f = "playwrightSecurity" -> \E spec \in Specs : files[f].outcomes[spec] = "failed"
       [] f = "gitleaks" -> files[f].level # "none"
       [] f = "semgrep" -> files[f].level = "error"
       [] f \in Trivys -> files[f].level = "CRITICAL"
       [] f \in Sboms -> FALSE
       [] f = "performance" ->
            Over(files[f].p95, MaxP95LatencyMs) \/ Over(files[f].errors, MaxErrorRate)
       [] f = "ocrQuality" -> Over(files[f].p95, MaxOcrP95LatencyMs) \/ files[f].status = "failed"
       [] f = "flake" -> files[f].rate > MaxFlakeRate
       [] f = "audit" -> files[f].actions # Audited
       [] f = "generatedTests" -> files[f].unapproved > 0

(* The Python security suite may fail without any blocker: the scorecard asks
   only whether its file is there, and then warns. *)
Unheeded == {"junitSecurity"}

(* What is blocked whenever there is a report is not to the point: the last spec
   file is taken for failed, whatever it says. *)
Reasons == report.blockers \ {"upload validation"}
AlwaysBlocked(f) ==
  f = "playwrightSecurity" /\ \A spec \in Specs \ {LastSpec} : files[f].outcomes[spec] # "failed"

(* Whatever else is missing, cut off or good, and whatever the file itself is
   summed up with: a failure that some report tells of, the Python security suite
   aside, has a blocker to show. *)
FailureBlocks ==
  report # None /\ (\E f \in Evidence \ Unheeded : SaysFailed(f) /\ ~AlwaysBlocked(f)) =>
    Reasons # {}

(* The evidence without which the scorecard blocks, alone or with other files
   missing: contract and OCR suites, the security specs, each scan, each SBOM
   (release-gates.md; its "critical path" and "audit" evidence are not among
   them, since one suite's results stand in for another's).  A blank file is no
   evidence either; one that was cut off is. *)
Required ==
  {"junitContract", "junitOcr", "playwrightSecurity"} \union Sarifs \union Trivys \union Sboms

AbsenceBlocks == report # None /\ (\E f \in Required : ~IsThere(f)) => Reasons # {}

(* The blockers about what release-security-policy.yml lists. *)
FindingBlockers == {"secrets", "sast"}
PolicyBlockers ==
  {"no secret scan", "no sast", "no filesystem scan", "no image scan", "dependencies",
   "containers", "sbom"} \union FindingBlockers

(* The two gates are separate programs over the same scans.  Where the policy gate
   fails, the scorecard blocks too; where it passes, the scorecard blocks at most
   for findings in the SARIF files, which the policy gate never opens although the
   policy it stands for fails on them. *)
GatesAgree ==
  report # None =>
    /\ policy = "failed" => report.blockers \intersect PolicyBlockers # {}
    /\ policy = "passed" => report.blockers \intersect PolicyBlockers \subseteq FindingBlockers

(* As long as the summary was made from the end-to-end report that is there, a
   release is blocked for flakiness only if that report exceeds the limit, and is
   blocked if it exceeds it by more than the tenth of a per cent that is rounded
   away.  A summary that is older than the report may do otherwise. *)
FlakeBlockIsReal ==
  report # None /\ summed =>
    LET e2e == files["playwrightE2e"]
    IN /\ "flake rate" \in report.blockers =>
            IsRead("playwrightE2e") /\ 1000 * e2e.retries > MaxFlakeRate * e2e.total
       /\ IsRead("playwrightE2e") /\ e2e.total > 0
            /\ 1000 * e2e.retries > (MaxFlakeRate + 1) * e2e.total =>
            "flake rate" \in report.blockers
=============================================================================
