------------------------------ MODULE Pipeline ------------------------------
(***************************************************************************)
(* The processing path end to end: upload requests and worker slots over   *)
(* the shared store.                                                       *)
(***************************************************************************)
EXTENDS Intake, Worker, SequencesExt

vars == <<storeVars, req, workerVars>>

Init == StoreInit /\ IntakeInit /\ WorkerInit

(* A request never touches a worker's state, nor a worker a request's. *)
ApiNext ==
  /\ \E u \in Uploads : RequestStep(u) \/ RequestFault(u)
  /\ UNCHANGED workerVars

WorkerNext ==
  /\ \/ \E s \in Slots : Pop(s) \/ StopPolling(s) \/ SlotStep(s) \/ SlotFault(s)
     \/ \E w \in Workers : ProcessStep(w) \/ ProcessFault(w)
  /\ UNCHANGED req

EnvironmentNext ==
  /\ \/ \E u \in Uploads : Corrupt(u)
     \/ \E letter \in dlq : Replay(letter)
  /\ UNCHANGED <<req, workerVars>>

Next == ApiNext \/ WorkerNext \/ EnvironmentNext

Spec == Init /\ [][Next]_vars

(* The event loops schedule every ready coroutine and every timer; BLPOP
   hands the head to some waiting slot; OCR answers or times out. *)
Fairness ==
  /\ \A u \in Uploads : WF_vars(RequestStep(u) /\ UNCHANGED workerVars)
  /\ WF_vars((\E s \in Slots : Pop(s)) /\ UNCHANGED req)
  /\ \A s \in Slots :
       WF_vars((SlotStep(s) \/ StopPolling(s)) /\ UNCHANGED req)
  /\ \A w \in Workers : WF_vars(ProcessStep(w) /\ UNCHANGED req)

FairSpec == Spec /\ Fairness

-----------------------------------------------------------------------------
TypeOK ==
  /\ status \in [Uploads -> Statuses \union {"none"}]
  /\ audit \in [Uploads -> Seq(AuditActions)]
  /\ blob \in [Uploads -> {"absent", "intact", "corrupt"}]
  /\ queue \in Seq(Payloads)
  /\ dlq \subseteq Payloads
  /\ lost \subseteq Uploads \union {NoUpload}
  /\ replays \in 0..MaxReplays
  /\ req \in [Uploads -> ReqStates]
  /\ worker \in [Workers -> {"up", "stopping", "down"}]
  /\ pc \in [Slots -> SlotStates]
  /\ job \in [Slots -> Payloads]
  /\ seen \in [Slots -> Statuses \union {"none"}]
  /\ seenResults \in [Slots -> BOOLEAN]
  /\ backoff \in [Workers -> SUBSET IntakeJob]
  /\ outages \in 0..MaxOutages
  /\ \A s \in Slots : pc[s] \in Busy => job[s] \in IntakeJob

(* The jobs in the system, by where they are. *)
QueuedJobs == {queue[i] : i \in 1..Len(queue)} \ {Poison}

HeldJobs == {job[s] : s \in {t \in Slots : pc[t] \in Busy}}

SleepingJobs == UNION {backoff[w] : w \in Workers}

ParkedJobs == dlq \ {Poison}

LiveJobs == QueuedJobs \union HeldJobs \union SleepingJobs

Carried(u) == \E j \in LiveJobs \union ParkedJobs : j.doc = u

-----------------------------------------------------------------------------
(* A job never points at bytes that were not stored: the object exists before
   the message does, through every retry, replay and rollback
   (intake.py:140-142 and its module comment). *)
JobHasBlob == \A j \in LiveJobs \union ParkedJobs : blob[j.doc] # "absent"

(* One row per content of a tenant, however the requests race: the lookup, the
   unique index and the open transactions together (intake.py:125,
   document.py:51). *)
OneRowPerContent ==
  \A u, v \in Uploads :
    /\ SameContent(u, v)
    /\ status[u] # "none" \/ req[u] \in Flushed
    /\ status[v] # "none" \/ req[v] \in Flushed
    => u = v

(* The worker never parks one of the system's own jobs as a poison message: the
   attempt number a retry writes stays inside the contract the next pop
   validates, although model_copy does not validate it (main.py:194,
   messages.py:36). *)
OwnJobsParse == \A j \in LiveJobs \union ParkedJobs : Parses(j)

(* What can take a job away from a document whose row is there: a redis call
   that fails, a process that ends. *)
Disrupted == "redis" \in Faults \/ outages > 0

(* A committed document that is not finished has a job on its way to it or
   parked for the operator, unless a job of it disappeared in one of the ways
   `lost` records.  A job dropped before its row was committed strands the row
   as QUEUED; once a worker has started on a document, only a redis call that
   fails or a process that ends can take its last job away, however many copies
   of the job race (main.py:3-19, processor.py:77-91). *)
Accounted ==
  \A u \in Uploads :
    status[u] \in {"QUEUED", "EXTRACTING"} =>
      \/ Carried(u)
      \/ u \in lost /\ (status[u] = "QUEUED" \/ Disrupted)

(* The trail entry that a commit to each status ends with. *)
ClosingEntry ==
  [t \in {"QUEUED", "EXTRACTING", "FAILED", "QUARANTINED"} \union Verdicts |->
     CASE t = "QUEUED"      -> "DOCUMENT_QUEUED"
       [] t = "EXTRACTING"  -> "EXTRACTION_STARTED"
       [] t = "FAILED"      -> "PROCESSING_FAILED"
       [] t = "QUARANTINED" -> "DOCUMENT_QUARANTINED"
       [] t = "REJECTED"    -> "DOCUMENT_REJECTED"
       [] OTHER             -> "VALIDATION_COMPLETED"]

(* The audit trail and the row never disagree: a reader of the two always finds
   the trail closed by the entry of the status the row has, whatever was rolled
   back on the way (session.py:63-65).  Two copies of a job at once break it, which takes
   two replays, so it is stated up to the second one. *)
AuditTellsStatus ==
  replays <= 1 =>
    \A u \in Uploads :
      IF status[u] = "none"
      THEN audit[u] = << >>
      ELSE audit[u] # << >> /\ Last(audit[u]) = ClosingEntry[status[u]]

(* How often an entry occurs in a trail. *)
Entries(u, entry) == {i \in 1..Len(audit[u]) : audit[u][i] = entry}

(* The retry budget bounds the work spent on one document: an extraction starts
   at most worker_max_retries times (once if that is 0), a replayed dead letter
   buys one more attempt and not a fresh budget, and each copy of a job commits
   at most one verdict, the original none once it was parked (main.py:182,
   processor.py:83 and 239-245). *)
BoundedWork ==
  \A u \in Uploads :
    /\ Cardinality(Entries(u, "EXTRACTION_STARTED"))
         <= replays + (IF MaxRetries = 0 THEN 1 ELSE MaxRetries)
    /\ Cardinality(Entries(u, "VALIDATION_COMPLETED"))
         <= IF replays = 0 THEN 1 ELSE replays

(* An outcome never appears without its story, even when copies of a job race:
   whoever finds a document rejected, failed or validated finds the entry that
   says so, and the extraction that led to it, in the trail (session.py:63-65,
   processor.py:251-274 and 318-331). *)
OutcomeIsAudited ==
  \A u \in Uploads : IsTerminal(status[u]) =>
    LET last == ClosingEntry[status[u]]
    IN  \E i, k \in 1..Len(audit[u]) :
          i < k /\ audit[u][i] = "EXTRACTION_STARTED" /\ audit[u][k] = last

-----------------------------------------------------------------------------
(* Every commit is a step of the published transition table (enums.py:54-75),
   taken from the committed status; once two messages were put back, copies of a
   job overlap and a commit may take it from QUEUED or EXTRACTING as its session
   had loaded them, over a document that has moved on (processor.py:83 looks
   once, before OCR).  Nothing else is ever written: no verdict on a document
   that is QUEUED, no QUARANTINED, no way back to QUEUED. *)
Contract ==
  INSTANCE Lifecycle WITH Documents <- Uploads, phase <- status, contended <- replays > 1

FollowsLifecycle == Contract!LifecycleSpec

(* A finished document is moved only by a copy of its job that has loaded it
   before it was finished, and only once two messages were put back: "delivery
   is at-least-once, so DocumentProcessor is written to be idempotent"
   (main.py:3-4) holds up to the second replay and for every copy that loads the
   document afterwards. *)
FinishedMovesByTwins ==
  [][\A u \in Uploads : IsTerminal(status[u]) /\ status'[u] # status[u] =>
       /\ replays > 1
       /\ \E s \in Slots :
            /\ Doc(s) = u /\ pc[s] \in {"verified", "extracting"}
            /\ ~IsTerminal(seen[s])
            /\ pc'[s] # pc[s]]_vars

(* A document that was queued is eventually finished or parked for an operator.
   The only ways around it are a job popped before its row was committed, which
   leaves it QUEUED, and a job that a process or a redis call took with it
   (main.py:8-15). *)
Settles ==
  \A u \in Uploads :
    status[u] \in {"QUEUED", "EXTRACTING"}
      ~> \/ IsTerminal(status[u])
         \/ \E j \in ParkedJobs : j.doc = u
         \/ u \in lost /\ (status[u] = "QUEUED" \/ Disrupted)

(* "Shutdown drains": a process asked to stop finishes the jobs in flight and
   goes down by itself (main.py:17-19). *)
Drains == \A w \in Workers : worker[w] = "stopping" ~> worker[w] # "stopping"

-----------------------------------------------------------------------------
(* What the sources say and the code does not do. *)

(* "The alternative - at-most-once - would mean a crashed worker silently drops
   a regulated document" (main.py:3-6): once a worker has started on a document,
   a job of it survives until the document is finished. *)
NoStrandedExtraction ==
  \A u \in Uploads : status[u] = "EXTRACTING" => Carried(u)

(* "The row is gone but the job survived - a stale message after a database
   restore" is the only way processor.py:77-81 accounts for a missing row; the
   row may as well be not committed yet. *)
NoQueuedRowWithoutJob ==
  \A u \in Uploads : status[u] = "QUEUED" => Carried(u)

(* "Integrity failure -> QUARANTINED, terminal, no retry"
   (processor.py:10-12): a job is never retried over corrupt bytes. *)
CorruptIsNotRetried ==
  \A s \in Slots :
    pc[s] = "failed" => blob[Doc(s)] # "corrupt" \/ seen[s] = "none"
=============================================================================
