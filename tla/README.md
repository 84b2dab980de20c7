# SecureDox: a TLA+ model of document intake, validation and review

SecureDox takes regulated documents in over an HTTP API, stores their bytes,
queues a job per document, and has workers extract fields by OCR, validate them
against rules and commit a verdict that reviewers act on through a web client; a
scorecard decides from test and scan reports whether a release may go out. This
directory holds TLA+ modules of these parts, TLC configurations that check them on small
instances, and TLAPS proofs of the main safety results for every value of the
constants. All paths below are relative to the repository root.

## 1. Inventory

| Component | State it keeps | Operations | Talks to |
|---|---|---|---|
| Upload intake (`apps/api/app/services/intake.py`, `queue.py`, `storage.py`, `db/session.py`) | one transaction per request; the new object; the new row and its two audit entries | gate, duplicate lookup, put, insert, enqueue, commit or roll back | PostgreSQL, object store, redis |
| Status vocabulary (`packages/shared/.../enums.py`) | none | `is_terminal`, `can_transition` | everybody |
| Consumer loop (`apps/worker/worker/main.py`) | stop flag; one job per consumer; detached backoff tasks | pop, parse, handle, retry, requeue, dead-letter, stop | redis |
| Processor (`apps/worker/worker/processor.py`) | one session per job with the rows it loaded | load, verify digest, extract (first commit), validate (second commit), terminate | PostgreSQL, object store, OCR |
| Rules (`packages/shared/.../rules.py`, `apps/worker/worker/rules/runner.py`) | none | `evaluate`, confidence overlay, verdict, reason | processor |
| Review (`apps/api/app/api/v1/documents.py`) | one transaction per request | correct a field, review, submit | PostgreSQL |
| Listing (`apps/api/app/services/documents.py`) | the client's cursor | keyset page | PostgreSQL |
| OCR adapters (`apps/worker/worker/ocr/`) | none | `extract`, permanent or transient error | vendor, subprocess |
| Release gates (`scripts/release-readiness.ts`, `security-release-gate.ts`, `check-flake-rate.ts`) | evidence files, report | derive, block, warn, decide | file system |
| Web client (`apps/web/src/main.tsx`) | token, list, selected document, detail, inputs, busy flag | sign in, refresh, select, upload, correct, submit | API |
| Authentication (`apps/api/app/core/security.py`, `api/deps.py`, `api/v1/auth.py`) | none (the token carries it) | login, principal of a token, role check per route | every route |

Around these are error rendering and configuration, metrics and traces,
migrations, seed data, deployment files and test tooling; they keep no protocol
state and are not modelled.

**How the parts meet.** API and workers never call each other. They share the
`documents` and `audit_logs` tables, the object store, and two redis lists: the
intake queue (RPUSH/BLPOP) and the dead-letter list. No transaction spans two
of these. Several API and several worker replicas run at once (`infra/k8s` asks
for two of each), and each worker process runs several consumer coroutines.

**What is hard.** A job is visible before the row it names; BLPOP removes a
message before it is processed; retries sleep in memory; redis errors while
requeueing are suppressed; a document is committed twice around a long OCR call
while copies of its job may be in other slots; the transition table refuses a
step one error path needs. Rules judge what OCR read while reviewers correct
what is stored; pages of a listing are separate transactions over rows that
become visible out of order; the client's loads overlap and outlive the sign-in
they were made under; the release scripts take a report that cannot be read for
one without findings. `PROJECT.json` lists each hazard at its line.

**What makes each part correct.** Intake: bytes before message, one row per
content, row and trail appear together. Worker: no job vanishes silently, the
retry budget is a bound, shutdown drains. Processor: every commit is a legal
transition, the trail tells the status, a finished document is not processed again.
Review: one submission, no edits after it, the OCR original is kept. Rules and
adapters: stored fields, results, status and reason tell one story, and a doubtful value goes to review. Listing: no row skipped or repeated, none
of another tenant. Release gates: what a report says against a release blocks
it, and the gates agree. Web client: what is shown belongs to what is selected,
writes go where they were meant to, the buttons come back.

## 2. Modules

| Module | Models | Kind |
|---|---|---|
| `DocumentStatus` | statuses, terminal set, transition table, audit actions | operators |
| `IntakeStore` | committed rows, trail, objects, the two lists; corruption at rest; an operator's replay | shared state |
| `Intake` | one upload request, step by step | component |
| `Worker` | worker processes, their slots and backoff tasks, the processor's steps | component |
| `Pipeline` | both over the shared store; fairness; the properties | composition |
| `Lifecycle` | what readers of the status column are promised, with one copy of a document's job and with several | abstract specification |
| `Review` | correct, review and submit requests on one processed document, and another extraction of it | component |
| `Rules` | the rule catalogue, its evaluation, the confidence overlay, verdict, reason, result rows | operators |
| `OcrAdapters` | what each adapter returns or raises for what it is given | operators |
| `Validation` | one document's fields, results, status and reason, from reading to submission, with sessions that overlap | component, over both |
| `Listing` | a client paging through a tenant's documents while others change them | component |
| `Access` | login, principals, roles per route | operators |
| `WebClient` | the screen, its handlers with their calls, and the API's answers | component, over `Access` |
| `ReleaseReadiness` | evidence files, scorecard, security gate, flake summary | component |
| `PipelineInv`, `ReviewInv` | the inductive strengthenings | invariants |
| `PipelineProofs`, `PipelineSafetyProofs`, `PipelineOrderProofs`, `ReviewProofs`, `ValidationProofs`, `ListingProofs`, `WebClientProofs`, `ReadinessProofs` | proofs (the last four with their strengthenings) | theorems |
| `MCPipeline`, `MCReview`, `MCValidation`, `MCListing`, `MCWebClient`, `MCReadiness` + `.cfg` | instances | model checking |

**From code to state.** `status[u]` and `audit[u]` are what a new transaction
would read; uncommitted writes of a request or of a job's session are in
`req[u]`, or in `seen`/`seenResults` of the slot (`seen[s]` is the in-memory
`document.status`, `seenResults[s]` whether the load brought rows to update). A
document is named by the upload that creates it, because intake draws a fresh
uuid per accepted upload. `queue` is a sequence, as BLPOP order matters; `dlq`
is a set, since nothing in the code reads its order. A message is its document,
its attempt number and a `copy` tag that only tells replays apart. `lost` is a
history variable: it records documents of which a job vanished, and no guard
reads it.

**From code to actions.** One action per stretch between two awaits whose
effect another process can see. `CheckDuplicate` to `CommitUpload` are the
awaits of `accept` and the commit of `get_session`, which runs after the
handler. `InsertRow` waits while another open transaction holds the same key of
the unique index, as PostgreSQL does, and errs when that one committed.
`Load` to `CommitVerdict` are the steps of `process`; `StartExtraction` and
`CommitVerdict` (or `Terminate`) are its two commits. Metrics, log
lines and `rejection_reason` are left out. `Terminate` keeps the branch in which
`_advance` raises. `UniqueViolation` is the flush that fails when a twin inserted
the same fields or results. `ScheduleRetry` and `Requeue` are the two halves of
the detached task. `Exit` is the end of `run()`, at which `asyncio.run` cancels
what still sleeps.

`Review` stands beside the pipeline: requests on different documents share
nothing, so it follows one document from its verdict on. `cells[f]` is the
committed `extracted_fields` row, reduced to `value`, `original_value` and
whether `source` is MANUAL. A request loads rows into its session (`seen`,
`base`), changes its objects (`mine`) and collects audit entries (`pending`);
`Flush` is the rule by which SQLAlchemy turns that into an UPDATE: only columns
that differ from what was loaded, and no version check. The duplicate check of
`submit` is a query of its own, so it is a step of its own
(`LookForSubmission`), after the load and before the commit. `EditField` is one
pass through `_apply_field_correction`; `correct_field` repeats that code and
makes one pass. `Reopen`, `Reload` and `Reextract` are what the rest of the
document sees of copies of its job: the EXTRACTING commit of a slot that loaded
the row before the verdict, the load of the next attempt, and its final commit.
Every field a document type has is extracted each time (a missing one as None),
so the set of rows does not change. `reading`, `readings`, `late` and `overtaken`
are history variables.

`Validation` fills in what `Worker` leaves open, which verdict the second commit
writes. It follows one document of any type, read by any adapter. The
catalogue is written out in full (`RuleCatalogue`), but a value is reduced to
what a rule can find out about it: the checks it misses; confidences are
hundredths, so that the ends of the overlay's interval can be hit exactly.
Each reader is a session of a worker with a copy of the job: `Load` brings the rows
into `base[r]`, `Begin` and `Judge` (or `Fail`) are the two commits of
`_extract`, `GiveUp` is every way in which the session is rolled back. Readers
overlap freely; how copies come about is the subject of `Worker`. `Written` is the
UPDATE of a session: an attribute is written if it differs from what was loaded,
whatever the row has become. `Reread` and `Revalidated` apply it to fields and
results, and `Insertable` is the pair of unique constraints on rows the session
takes for new. `Judge` is one action, as fields, results, verdict and reason are
flushed into one transaction; `Storable` is the check constraint that may fail
it. `Open`, `Correct` and `Submit` are the routes of `Review`, reduced to the
load and the commit, so that a request may commit over rows it has not seen.
`overtaken` and `torn` are history variables: `torn` says that the last
verdict, or a submission after it, was committed over rows its session had not
seen.

`Listing` keeps, per document, whether its insert is absent, open or there, and
`created_at` as PostgreSQL sets it: at the start of the transaction. `walk` is a
listing: filter and cursor are all a client has between two pages. `ReadPage`
is `list_page` with its extra row that tells whether there is more. `times`
and `owed` are history variables.

`WebClient` has one slot in `calls` per handler under way, with the call it
waits for and the token of the closure it was made in. A handler is cut at its
awaits: `ListAnswered` goes on to the preferred document or the first,
`UploadAnswered` and `SubmitAnswered` go on into `refresh`, `SaveAnswered` into
`loadDetail`. `ServeWrite` is the API carrying a write out; the answer is a
step of its own and may be lost (`CallFails`). `RunEffect` is the effect on the
token. The role and tenant of the sign-in form are read anew by each handler,
so they are parameters (`form`, `asAdmin`).

`ReleaseReadiness` has one variable per thing the scripts read or write:
`files`, `report`, `policy`. A file is absent, blank (it exists and is empty),
garbled (cut off) or holds a report, reduced to what the scripts look for in it;
the scripts tell absent from blank in different ways. `Applies` lists every
`blockOn` and `GateOf` the gate `classifyBlocker` finds for its text. `Publish` is a
suite or a scanner that runs, the first time or again, or a file that is lost;
`CheckFlake`, `Decide` and `SecurityGate` are the scripts, in any order and as often
as one likes. What a gate said is kept until a file changes. `summed` is a history
variable: the flake summary was made from the end-to-end report that is there.

**Faults** are a constant set, so each run says which it admits: `api` (a
request fails or dies after the gate), `redis` (a call fails or its reply is
lost), `infra` (database or store fails under the worker), `corrupt` (bytes
change at rest), `poison` (the queue starts with a payload nobody can parse).
Transient OCR errors and unexpected exceptions are always possible. Stops and
crashes are bounded by `MaxOutages`, replays by `MaxReplays`.

Operators named after a modelled definition with a comment starting "Mutant of"
are plausible bugs of that code. No specification uses them; each is the
substitute under which some property was seen to fail.

## 3. Runs

Deadlock is checked in `listing`, `desk` and `readiness`, where somebody can always
go on. In the others the system comes to rest: with all requests answered and all
jobs finished or lost, with the bounds on deliveries reached.

| Run | Question | Bounds |
|---|---|---|
| `MCPipeline_safety` | do rows, objects, messages and trail stay consistent under every fault? | 3 uploads (two of the same bytes, one malformed), 2 processes of 1 slot, 2 attempts, 1 outage, 1 replay, all faults; 1.1 million states |
| `MCPipeline_redelivery` | what may copies of a job do to the row, what do they cost, does the trail stay truthful, does a queued document settle, does a stop drain? | 1 document, 2 slots of 1 process, 3 attempts, 3 replays, 1 outage, `infra` and `corrupt`, fair; 109 thousand states |
| `MCPipeline_early` | violated: a QUEUED row always has a job | no fault at all |
| `MCPipeline_crash` | violated: a started document keeps a job | 1 outage |
| `MCPipeline_corrupt` | violated: corrupt bytes are not retried | `corrupt` |
| `MCReview_review` | do overlapping corrections keep each other, the original and the trail, through another extraction too; is a late submission refused; which submission leaves the table? | 2 requests of any kind, 2 fields, 2 values, 2 corrections per review, 1 more extraction; 5.2 million states up to symmetry |
| `MCReview_double` | violated: one submission per document | 2 requests |
| `MCValidation_verdicts` | do fields, results, status and reason tell one story, whatever was read and whoever overlapped? | every document type and adapter; sources good, empty, without confidences, or with one entry odd in value or confidence (0, 0.79, 0.80, 1.20); 2 copies at work at a time, 4 deliveries, 2 requests; 526 thousand states up to symmetry |
| `MCValidation_doubt` | violated: a doubtful value goes to review | one delivery of a scanned page |
| `MCListing_listing` | does a walk repeat, skip or leak a row? | 4 documents, 2 tenants, pages of 2, 2 instants, 2 statuses and 1 change of one; 940 thousand states |
| `MCWebClient_desk` | where do late and lost answers leave the screen and its writes? | 2 tenants, an admin and an uploader, 2 documents (one yet to be uploaded), 2 handlers under way; 200 thousand states |
| `MCReadiness_readiness` | can a failure or missing evidence pass, where do the gates differ, does a flake summary block rightly? | the default thresholds, 18 files of which any 2, beside the flake summary, are absent, blank, garbled or bad in any way; 141 thousand states |

Why these bounds are enough to be interesting: two uploads of one content are
what the unique index arbitrates; two slots are what a race needs, and putting
them in two processes lets one die while the other works; two attempts make a
first and a last one, at a limit equal to the contract's, and the redelivery run
has one in between; two live
copies of a job need two replays, because an operator can only replay what was
parked, and a third replay lets a copy start after the other two collided.
`MCPipeline_redelivery` has no redis fault, so until its one outage `Accounted`
allows a started document no loss at all; its replays are what makes two copies
overlap, so that a stale one commits over a finished document.
`AttemptLimit` stands for the contract's 10 (`messages.py:36`) and `MaxRetries`
for `worker_max_retries`. In `Review` every hazard is between a session's load
and its commit, so two requests give each interleaving; two fields tell a
column-wise update from one that writes everything back; a second value makes a
correction differ from the reading. `SubmissionTellsStatus` is stated up to the
moment a copy of the job touches the document again, `NoCorrectionLost` up to its
commit; the other properties of `Review` go through it. In `Validation` two copies overlap in every way, a third and
a fourth delivery come before, between or after them, and two requests are what
tells a stale submission from a current one; one odd entry suffices to reach each
verdict through each field, while an empty source fails all rules at once, more
than the three a reason shows; 0.79 and 0.80 sit on the two sides of the
threshold, 0 is "not found", 1.20 is what only the check constraint or the
vendor's clamp stops. In `Listing` four rows need two pages, and two instants
put several rows at one time, so that the cursor's id decides. In `WebClient`
two handlers overlap in every order, and a third tenant or role would only
repeat what the other one does. In `ReleaseReadiness` each mask needs at most
two files (one that fails, one that hides it); the flake summary comes on top of
them, and is made before or after a suite runs again. The retries are just within
the limit, within it once rounded, above it, and of the only test.

**What the violated runs show** (details and quotations in `PROJECT.json`):

1. *Enqueue before commit.* The API pushes the job inside its transaction
   (`intake.py:225`, `session.py:70`). A worker that is faster than the commit
   finds no row, takes that for "a stale message after a database restore" and
   drops the job. The row then appears as QUEUED and nothing will process it.
   No fault is needed.
2. *Corrupt bytes.* The digest check calls `_terminate(QUARANTINED)`, which the
   table does not allow from QUEUED or EXTRACTING; the RuntimeError makes the
   consumer retry and finally park the job. `QUARANTINED` is never committed.
3. *Crash.* Delivery is at most once: BLPOP leaves no copy behind, and sleeping
   retries are in memory only, so even an orderly stop loses those.
4. *Doubt.* The overlay flags `0.0 < confidence < threshold` (`runner.py:103`).
   Tesseract's adapter searches the text of all words, averages the confidence
   of those it trusts and reports 0.0 if there are none (`tesseract.py:76-77`), so
   the page it trusts least passes for "not found" with its values in place, and
   the document is VALIDATED.
5. *Double submission.* The check for an earlier event and the insert are not
   atomic; two reviewers are both told their submission was recorded.

**What the models do as the code does**, though a comment or a document says
otherwise or a reader may not expect it. Each is part of a passing run, and the
properties are stated so as to allow it:

* Exhausted retries park the message and leave the row unfinished
  (`main.py:182`; `processor.py:15` says "FAILED"). `Settles` asks for a parked
  job, not for a status.
* A slot that loaded a row before another copy's verdict commits EXTRACTING, or a
  verdict of its own, over it (`processor.py:156`; `main.py:3-4` says
  idempotent, `enums.py:54` that no row ever violates the table). That takes two
  replays. `Lifecycle` has the action for it (`Overwrite`, once `contended`),
  `FollowsLifecycle` says which commits it covers, and `FinishedMovesByTwins` that
  nothing else moves a finished document: no copy that loads it afterwards, and
  none at all before the second replay.
* `original_value` is None both for "never corrected" and for "OCR found
  nothing", so a second correction of an empty field takes the first for the
  original (`documents.py:253`, against `:199`). `OriginalIsReading` speaks of
  fields OCR has read.
* A correction committed, or sent, while another extraction waits for OCR may lose
  its value to the new reading (`processor.py:212`, against the comment at
  `:211`), and so may one of a field OCR had found nothing in.
  `ReextractionKeepsCorrections` names these cases; in them too the field stays
  marked and the entry stays in the trail.
* A submission moves the status it has loaded, with no version check
  (`documents.py:351`). If a copy of the job has moved the document meanwhile, its
  VALIDATED lands on EXTRACTING or on a new verdict, REJECTED included
  (`enums.py:54-56` says the API enforces the table). `FollowsTable` allows
  exactly these, and in `Validation` they count as `torn`.
* Copies that overlap write only what differs from the rows they loaded
  (`processor.py:240-243`), so results of one may end up under status and reason of
  another; a stale submission leaves a rules reason on a VALIDATED document.
  `RowsTellVerdict`, `ReasonIsWorst`, `ReviewShowsWhy` and
  `ReasonOutlivesOnlyReview` therefore speak of documents that are not `torn`
  (`Whole`); `VerdictIsComplete` holds in any case. A session that judges the document
  as it is makes it whole again.
* `ValidationVerdict.needs_human_review` (`runner.py:41-43`) is never true: it asks
  for a VALIDATED document with low confidences, and `run` answers
  REVIEW_REQUIRED for those.
* The worker's threshold comes from its settings, the API's flag from a constant
  0.80 (`schemas/document.py:74`): `ReviewShowsWhy` holds up to that value.
* The scorecard looks for a failure in the text from one spec's name to the next;
  behind the last, `upload-validation`, come the reporter's statistics with their
  key `unexpected`, so that spec counts as failed whenever there is a security
  report (`release-readiness.ts:275-289`). Without a report it is missing, which
  blocks as well, so the decision is never GO: `NeverGo` proves that for every
  content of the files. The properties leave this blocker out (`Reasons`), as it would
  hide every other answer.
* Other evidence the scorecard waves through: a scan that was cut off has no
  findings and is there, so it counts as clean (a blank one does not), a garbled
  JUnit file is a passed suite of no tests, skipped tests have passed, a missing
  `api-smoke.json` counts as an audited trail if the API suite left a file, API
  and end-to-end results may both be missing if the OCR suite has tests (the
  critical path sums them), a missing database suite neither blocks nor warns.
* A failing Python security suite blocks nothing: its status is only looked at for
  being missing (`release-readiness.ts:181`; `release-gates.md:33` says security
  failures block). `FailureBlocks` excepts it by name (`Unheeded`). Semgrep warnings do
  not block either, although `release-security-policy.yml:10-12` lists them.
* The policy gate never opens the SARIF files: a leaked secret or a SAST finding
  passes it (`release-security-policy.yml:7,10-12` and
  `security-release-gates.md:9-10` say otherwise). `GatesAgree` allows this one
  difference and no other. It throws on a blank or garbled Trivy report, where the
  scorecard blocks on the blank one and passes the garbled one.
* The flake summary outlives the report it was made from. If the suite runs again
  without `check:flake`, a clean rerun is blocked by the old summary, or a flaky one
  passes with it; `FlakeBlockIsReal` speaks of a current one (`summed`). The rate is
  rounded to a tenth of a per cent, so 2.04% passes a limit of 2; and the total leaves
  out tests that passed on a retry, so a run of nothing but those has rate 0
  (`check-flake-rate.ts:12-16`). `release-gates.yml` never runs `check:flake`.
* In the client, submitting ends with a message of its own over that of a failed
  refresh (`main.tsx:286-287`); saving one field reloads all inputs (`:268`); after
  a change of tenant, selection and detail stay until the next load. None
  of it lets a write go astray: `WritesAreTheCallers`.

**Fairness.** Weak fairness on each request's own steps, on each slot's own
steps, on `Pop` by *some* slot, and on each process's timers, exit and restart.
The event loop runs every ready coroutine and fires every timer; redis hands
the head to one of the blocked clients and promises none in particular; adapter
and database calls have time limits (`ocr_timeout_seconds`,
`statement_timeout`), so an awaited call answers; the deployments restart ended
processes. There is no fairness on faults, crashes, stop requests or the
operator. `Settles` counts a lost job as an outcome: it says that nothing
hangs, and the violated runs say where jobs are lost. In `WebClient`, weak
fairness on each handler's *next answer or failure*: a browser settles every
fetch, one way or the other, and nothing says which. There is none on the
user and none on the effect; `BusyEnds` needs neither.

## 4. Proofs

TLAPS proves, for all values of the constants that satisfy `StoreAssumption`,
`IntakeAssumption` and `WorkerAssumption` (any number of replays and all faults
included):

* `TypeCorrect`: `[]TypeOK`;
* `Inductive`: `[]IInv`, and from it `JobsPointAtBlobs` (`[]JobHasBlob`),
  `ContentHasOneRow` (`[]OneRowPerContent`), `JobsParse` (`[]OwnJobsParse`) and
  `NothingElseLosesJobs` (`[]Accounted`);
* `TrailInductive`: `[]TrailInv`, and from it `OutcomesAreAudited`
  (`[]OutcomeIsAudited`);
* `CopyInductive`: `[]CopyInv`, and `OrderInductive`: `[]OrderInv`, from which
  `TrailTellsStatus` (`[]AuditTellsStatus`);
* `WorkInductive`: `[]WorkInv`, and from it `WorkIsBounded` (`[]BoundedWork`);
* `PipelineFollowsLifecycle`: `Spec => FollowsLifecycle`, the refinement of
  `Lifecycle` under `phase <- status, contended <- replays > 1`;
* `OnlyTwinsMoveFinished`: `Spec => FinishedMovesByTwins`.

For `Review`, under `ReviewAssumption` and for any number of requests, fields
and corrections: `ReviewInductive` (`[]IInv` of `ReviewInv`), and from it every
property its passing run checks: `ReviewTypeCorrect`, `OriginalsAreReadings`,
`CorrectionsAreKept`, `LateSubmissionsAreRefused`, `SubmissionsTellStatus`,
`ReviewersFollowTable` and `CorrectionsOutliveReextraction`.

For `Validation`, under `ValidationAssumption` (any set of answers an adapter
may be given, any threshold, any number of readers, deliveries and requests):
`VerdictInductive`, and from it `VerdictTypeCorrect`, `VerdictsAreComplete`,
`ResultsTellVerdict`, `ReasonsLeadWithWorst`, `ReasonsAreReviews`, and
`ReviewIsExplained` for `Threshold <= 80`. For `Listing`, under `ListingAssumption`: `WalkInvariant`, and
from it `ListingTypeCorrect`, `ListingIsTenants`, `ListingNeverRepeats`,
`ListingNeverSkips`. For `WebClient`, under `WebClientAssumption` and for any
number of handlers at once: `ClientInvariant`, and from it `ClientTypeCorrect`,
`WritesStayWithTheCaller`, `BusyIsAccountedFor`, `LoadsSettle`. For
`ReleaseReadiness`, under `ReadinessAssumption` (any thresholds, counts and
measurements, any number of odd files): `ReadinessInductive`, and from it
`ReadinessTypeCorrect`, `FailuresBlock`, `AbsencesBlock`, `GatesTellOneStory`,
`FlakeBlocksAreReal` and `NeverGo`.

**The argument.** None of the properties is inductive alone. `Accounted` speaks
of committed rows, but the job of a row is pushed and can be dropped before the
commit, so `PendingAccounted` starts the promise at the push;
`RowsFollowRequests` ties a visible row to an accepted request, which is what
makes a dropped job of an uncommitted row land in `lost`; `StoredBeforeQueued`
carries `JobHasBlob` over the push; `Budgeted` bounds attempts by the retry
limit so that the increment stays in the contract; `SlotsHoldRows` and
`DownIsIdle` say what a slot past its load, and a dead process, may hold.
`OutagesAreCounted` and `StartedAccounted` say that a document
a worker has started on keeps a job while no redis call fails and no process
ends. `PipelineProofs` proves one lemma, `Flow`, that every step satisfies: each
job after the step existed before or has a source (an earlier attempt of the same
copy, the request that just pushed it, a replayed letter); each job before it
leaves a job of its document behind, belongs to a finished document, or is
recorded in `lost`, which without a disruption happens only while there is no
row. The invariants follow from `Flow` without looking at actions again.

`CopyInv` is about where jobs are. A copy of a document's job is in one place
(`Sole`), a copy other than the first exists only if the first is parked
(`JobsFollowRequests`), a parked one has used its budget up
(`LettersExhausted`). Since no code trims the dead-letter list, the original
stays parked after its first replay; so up to the second replay the live jobs of
a document are of one copy (`OneCopy`), the slot that holds it is the only writer
of the row, and its in-memory status is the committed one (`OrderInv`). Every
commit is then an arrow of the table, and appends the entry that closes it. After
the second replay nothing is assumed of the committed status: `TwinsOverwrite`
needs only that a slot past its load saw QUEUED or EXTRACTING, that the table
allows what it commits from there, and that a document a slot works on is not
QUEUED again (`SlotsHoldRows`), which is `Overwrite`.

`TrailInv` adds to `OutcomeIsAudited` that a slot that waits for OCR has its
EXTRACTION_STARTED in the trail: rows are only ever moved to an end by such a
slot, and trails only grow.

`WorkInv` is a potential argument. Counting entries of a trail alone cannot be
inductive; the invariant adds what is still to come. `FutureStarts(u)` are the
pairs of copy and attempt that may still start an extraction, `LiveCopies(u)` the
copies that may still commit a verdict. A step that appends EXTRACTION_STARTED
takes its own pair out, a verdict takes its copy out, a retry moves a job to a
higher attempt and adds nothing, and a replay of an exhausted letter adds one
pair and one copy while it counts `replays` up. So the sums never exceed
`Budget + replays`, and 1 or `replays`.

In `Review` the strengthening is about stale sessions. `Genuine` says what a
row, or a copy of one, may look like relative to OCR's readings; requests and the
other extraction hold genuine rows, and MANUAL is never taken back, so a
session can only be behind, not wrong: what `Flush` leaves of two genuine rows is
genuine (`FlushGenuine`). `EditsAreLogged` ties the difference between an object
and its loaded row to the entries the commit will append, which
`NoCorrectionLost` needs over the commit, and `Kept` says what of it survives the
extraction. `MovesOnce` and `NotOvertaken` say by which single move a session's
status can be behind the committed one.

`Validation`: no session can be trusted to know the rows, so `VerdictInv` says what
it does know. A session that no outcome has overtaken has the results, the reason
and the confidences of the committed rows (`SessionsAreCurrent`), and is behind in
what reviewers typed at most; when it commits, what it leaves unwritten is
what it would have written, and the document is whole. Rows are never deleted,
so what was complete when a request saw a verdict is complete when it submits
(`SeenVerdictsAreComplete`), and a reviewer's mark is never taken back
(`OriginalsAreManual`, `MarksStay`), which is why a field without a flag is a
corrected one. The rest of the weight is in the lemmas on the pure operators:
`RuleIdsAreUnique` and `RowsAreOutcomes` (each rule
of the catalogue has one row, and it is that rule's outcome), `BlockingRows` (a
row blocks exactly if the verdict is a rejection), `ReadingsAreComplete` (whatever
an adapter is given, its reading has a value of the right kind for every field of
the catalogue) and `ExplainLeadsWithWorst` (a reason shows at least one blocking
outcome, counts all others, and none it leaves out is more severe than one it
shows: what comes before a CRITICAL outcome also comes before a HIGH one).

`Listing`: `WalkInv` adds two facts. `SeenOnce`: what the walk returned is not
after the cursor in the page order, hence not in `Remaining` again. `OwedStill`:
an owed document not yet returned is still in `Remaining` while the walk
goes on. `PageIsNewest` says that nothing newer than a page's last row is left
out of the page, which needs the order on (time, id) to be total: with the time
alone it is false.

`WebClient`: `ClientInv` adds that the inputs belong to the document whose detail
is shown (`InputsAreTheDetails`), that each handler waits for a call it can
wait for, and `LoadIsComing`: where selection and detail differ, a load of a
detail is on its way, or a call failed. That is what is left of
`MismatchIsExplained` while handlers are under way.

`ReleaseReadiness`: `FilesOK` says that each file holds what its writer can leave.
`SummaryIsCurrent` ties two files together: as long as `summed` holds, the summary
is the rounded rate of the end-to-end report that is there; `TenthsRound` is the
arithmetic from a rounded rate back to the exact one. `VerdictsAreCurrent` says
that a report is the `Scorecard`, and a policy the `PolicyVerdict`, of the files as
they are, because whatever changes a file takes both back. What is left are facts
about these operators for every content of the files: each kind of evidence has a
lemma that leads from what a file says, or from its absence, to the blocker that
shows it.

**Only model-checked:** liveness (`Settles`, `Drains`, `BusyEnds`), which is outside
the prover's reach. Every invariant and every other action or refinement property
of the passing runs is a theorem; the runs show that their hypotheses are met and
that plausible mistakes in the code break them.

## 5. Not modelled

Gate details and metrics (data the properties above do not distinguish); the text
of values, patterns and dates beyond which checks it misses; a commit that
succeeds while its acknowledgement is lost; `worker_job_timeout_seconds`, which no
code reads; an operator's FAILED-to-QUEUED transition, which the table names and
no code performs; `mark_processed`, which no code calls; the S3 backend; the
adapters' text matching, HTTP and health probes; token signatures, expiry and
claims; in `Review`, PII flags, reasons, notes and the masking of answers; in
`WebClient`, edits in the inputs, messages and the contents of the admin pane; in
`ReleaseReadiness`, the layout of the written report. Observability, error
rendering, configuration, migrations, seed data, deployment and test tooling
have no module: they keep no state that other parts read back, or only
configure those that do. `PROJECT.json` has the reason for each.

Two hazards have no property because no statement of the code decides them: a
correction after the submission, and rules that judge a reading although a
corrected value is stored (the properties of `Validation` speak of the reading
a verdict was drawn from). Unsaved edits lost by a reload are below the model of
the client.

## 6. Plan

1. Lost commit acknowledgements in `Intake` and `Worker`.
2. `Validation` as the verdict of `Worker`'s `CommitVerdict`, by a refinement from
   a pipeline that carries fields.
