------------------------------- MODULE Worker -------------------------------
(***************************************************************************)
(* The worker processes: Worker._consume and its helpers, and              *)
(* DocumentProcessor.process.  A slot is one consumer coroutine; slots of  *)
(* one process share its event loop, its stop flag and its detached        *)
(* backoff tasks, and die with it.  One action per step between two awaits *)
(* whose effect another process can see.                                   *)
(***************************************************************************)
EXTENDS IntakeStore

CONSTANTS
  Workers,      \* the worker processes
  Slots,        \* their consumer coroutines
  Home,         \* Home[s]: the process slot s runs in
  MaxRetries,   \* settings.worker_max_retries
  MaxOutages    \* bound on stop requests and crashes over all processes

ASSUME WorkerAssumption ==
  /\ Home \in [Slots -> Workers]
  /\ MaxRetries \in 0..AttemptLimit   \* both limits are 10 in the code
  /\ MaxOutages \in Nat

VARIABLES
  worker,       \* worker[w]: "up", "stopping" (drains) or "down"
  pc,           \* pc[s]: where slot s is
  job,          \* job[s]: the payload slot s holds
  seen,         \* seen[s]: document.status as the slot's session has it
  seenResults,  \* seenResults[s]: the load found fields and results to update
  backoff,      \* backoff[w]: the jobs asleep in _requeue_after tasks of w
  outages       \* how many stops and crashes there have been

workerVars == <<worker, pc, job, seen, seenResults, backoff, outages>>

-----------------------------------------------------------------------------
SlotStates == {"polling", "poison", "popped", "loaded", "verified",
               "extracting", "failed", "exited"}

(* Slots that hold a job parsed from the queue. *)
Busy == {"popped", "loaded", "verified", "extracting", "failed"}

WorkerInit ==
  /\ worker = [w \in Workers |-> "up"]
  /\ pc = [s \in Slots |-> "polling"]
  /\ job = [s \in Slots |-> Poison]
  /\ seen = [s \in Slots |-> "none"]
  /\ seenResults = [s \in Slots |-> FALSE]
  /\ backoff = [w \in Workers |-> {}]
  /\ outages = 0

Doc(s) == job[s].doc

(* The consumer's loop condition: a slot looks at the stop flag only between
   two jobs. *)
Idle(s) == IF worker[Home[s]] = "stopping" THEN "exited" ELSE "polling"

(* The slot lets go of its payload and its session, whose uncommitted writes
   are rolled back. *)
Release(s) ==
  /\ pc' = [pc EXCEPT ![s] = Idle(s)]
  /\ job' = [job EXCEPT ![s] = Poison]
  /\ seen' = [seen EXCEPT ![s] = "none"]
  /\ seenResults' = [seenResults EXCEPT ![s] = FALSE]

At(s, state) == pc' = [pc EXCEPT ![s] = state]

-----------------------------------------------------------------------------
(* Mutant of Pop: the payload is used without being validated. *)
PopUnparsed(s) ==
  /\ pc[s] = "polling"
  /\ queue # << >>
  /\ queue' = Tail(queue)
  /\ job' = [job EXCEPT ![s] = Head(queue)]
  /\ At(s, "popped")
  /\ UNCHANGED <<status, audit, blob, dlq, lost, replays,
                 worker, seen, seenResults, backoff, outages>>

(* BLPOP takes the head off the list for good; then _parse. *)
Pop(s) ==
  /\ pc[s] = "polling"
  /\ queue # << >>
  /\ queue' = Tail(queue)
  /\ job' = [job EXCEPT ![s] = Head(queue)]
  /\ At(s, IF Parses(Head(queue)) THEN "popped" ELSE "poison")
  /\ UNCHANGED <<status, audit, blob, dlq, lost, replays,
                 worker, seen, seenResults, backoff, outages>>

(* redis popped the head but its reply did not arrive: _pop answers None. *)
PopReplyLost(s) ==
  /\ "redis" \in Faults
  /\ pc[s] = "polling"
  /\ queue # << >>
  /\ queue' = Tail(queue)
  /\ lost' = lost \union {Head(queue).doc}
  /\ UNCHANGED <<status, audit, blob, dlq, replays>>
  /\ UNCHANGED workerVars

(* _dead_letter on an unparseable payload. *)
ParkPoison(s) ==
  /\ pc[s] = "poison"
  /\ Release(s)
  /\ dlq' = dlq \union {job[s]}
  /\ UNCHANGED <<status, audit, blob, queue, lost, replays, worker, backoff, outages>>

(* Mutant of DropMissing: a document that an earlier attempt has started on is
   not looked for. *)
DropUnqueued(s) ==
  /\ pc[s] = "popped"
  /\ status[Doc(s)] \in {"none", "EXTRACTING"}
  /\ Release(s)
  /\ lost' = lost \union {Doc(s)}
  /\ UNCHANGED <<status, audit, blob, queue, dlq, replays, worker, backoff, outages>>

(* _load finds no row, or a finished one: the job is dropped. *)
DropMissing(s) ==
  /\ pc[s] = "popped"
  /\ status[Doc(s)] = "none"
  /\ Release(s)
  /\ lost' = lost \union {Doc(s)}
  /\ UNCHANGED <<status, audit, blob, queue, dlq, replays, worker, backoff, outages>>

SkipFinished(s) ==
  /\ pc[s] = "popped"
  /\ IsTerminal(status[Doc(s)])
  /\ Release(s)
  /\ UNCHANGED storeVars
  /\ UNCHANGED <<worker, backoff, outages>>

(* _load: the row and, by selectin loading, its fields and results. *)
Load(s) ==
  /\ pc[s] = "popped"
  /\ status[Doc(s)] # "none"
  /\ ~IsTerminal(status[Doc(s)])
  /\ At(s, "loaded")
  /\ seen' = [seen EXCEPT ![s] = status[Doc(s)]]
  /\ seenResults' = [seenResults EXCEPT ![s] = HasResults(Doc(s))]
  /\ UNCHANGED storeVars
  /\ UNCHANGED <<worker, job, backoff, outages>>

(* Mutant of Advances: the worker does not ask can_transition. *)
AdvancesUnchecked(s, target) == TRUE

(* _advance: staying put is allowed, an illegal transition raises. *)
Advances(s, target) == seen[s] = target \/ CanTransition(seen[s], target)

(* The UPDATE a session emits: the status column only if _advance moved it. *)
StatusAfter(s, target) ==
  IF seen[s] = target THEN status ELSE [status EXCEPT ![Doc(s)] = target]

AuditAfter(s, entries) == [audit EXCEPT ![Doc(s)] = @ \o entries]

(* _terminate: commit the status, the reason and the audit entry, unless
   _advance raises RuntimeError, which the consumer treats like any failure. *)
Terminate(s, target, entry) ==
  IF Advances(s, target)
  THEN /\ status' = StatusAfter(s, target)
       /\ audit' = AuditAfter(s, <<entry>>)
       /\ Release(s)
       /\ UNCHANGED <<blob, queue, dlq, lost, replays, worker, backoff, outages>>
  ELSE /\ At(s, "failed")
       /\ UNCHANGED storeVars
       /\ UNCHANGED <<worker, job, seen, seenResults, backoff, outages>>

(* _fetch_and_verify: the digest of the stored bytes is the recorded one. *)
Verify(s) ==
  /\ pc[s] = "loaded"
  /\ blob[Doc(s)] = "intact"
  /\ At(s, "verified")
  /\ UNCHANGED storeVars
  /\ UNCHANGED <<worker, job, seen, seenResults, backoff, outages>>

(* The digests differ: IntegrityError, so _terminate(QUARANTINED). *)
FailIntegrity(s) ==
  /\ pc[s] = "loaded"
  /\ blob[Doc(s)] = "corrupt"
  /\ Terminate(s, "QUARANTINED", "DOCUMENT_QUARANTINED")

(* _extract up to its commit: EXTRACTING becomes visible, then OCR runs. *)
StartExtraction(s) ==
  /\ pc[s] = "verified"
  /\ Advances(s, "EXTRACTING")
  /\ status' = StatusAfter(s, "EXTRACTING")
  /\ audit' = AuditAfter(s, <<"EXTRACTION_STARTED">>)
  /\ seen' = [seen EXCEPT ![s] = "EXTRACTING"]
  /\ At(s, "extracting")
  /\ UNCHANGED <<blob, queue, dlq, lost, replays>>
  /\ UNCHANGED <<worker, job, seenResults, backoff, outages>>

(* An OcrError that is permanent. *)
RejectedByOcr(s) ==
  /\ pc[s] = "extracting"
  /\ Terminate(s, "FAILED", "PROCESSING_FAILED")

(* Mutant of CommitVerdict: a rejection is committed without its audit entry. *)
CommitVerdictSilently(s) ==
  /\ pc[s] = "extracting"
  /\ seenResults[s] = HasResults(Doc(s))
  /\ \E verdict \in Verdicts : status' = [status EXCEPT ![Doc(s)] = verdict]
  /\ audit' = AuditAfter(s, <<"EXTRACTION_COMPLETED", "VALIDATION_COMPLETED">>)
  /\ Release(s)
  /\ UNCHANGED <<blob, queue, dlq, lost, replays, worker, backoff, outages>>

(* OCR answers: persist the fields, validate, and commit the verdict.  Fields
   and results the load did not find are inserted, so a twin job that has
   committed them meanwhile makes the flush raise. *)
CommitVerdict(s) ==
  /\ pc[s] = "extracting"
  /\ seenResults[s] = HasResults(Doc(s))
  /\ \E verdict \in Verdicts :
       /\ status' = [status EXCEPT ![Doc(s)] = verdict]
       /\ audit' = AuditAfter(s,
            <<"EXTRACTION_COMPLETED", "VALIDATION_COMPLETED">>
            \o (IF verdict = "REJECTED" THEN <<"DOCUMENT_REJECTED">> ELSE << >>))
  /\ Release(s)
  /\ UNCHANGED <<blob, queue, dlq, lost, replays, worker, backoff, outages>>

UniqueViolation(s) ==
  /\ pc[s] = "extracting"
  /\ seenResults[s] # HasResults(Doc(s))
  /\ At(s, "failed")
  /\ UNCHANGED storeVars
  /\ UNCHANGED <<worker, job, seen, seenResults, backoff, outages>>

(* A transient OcrError, or any exception out of the adapter. *)
OcrFails(s) ==
  /\ pc[s] = "extracting"
  /\ At(s, "failed")
  /\ UNCHANGED storeVars
  /\ UNCHANGED <<worker, job, seen, seenResults, backoff, outages>>

(* The database or the object store fails under a step of process(); a
   missing object is such a failure too (StorageError). *)
InfraFails(s) ==
  /\ pc[s] \in {"popped", "loaded", "verified", "extracting"}
  /\ "infra" \in Faults \/ (pc[s] = "loaded" /\ blob[Doc(s)] = "absent")
  /\ At(s, "failed")
  /\ UNCHANGED storeVars
  /\ UNCHANGED <<worker, job, seen, seenResults, backoff, outages>>

-----------------------------------------------------------------------------
(* Mutant of Exhausted: the limit is off by one. *)
ExhaustedLate(s) == job[s].attempt > MaxRetries

Exhausted(s) == job[s].attempt >= MaxRetries

(* Mutant of ScheduleRetry: the attempt number is not counted up. *)
ScheduleRetryUncounted(s) ==
  /\ pc[s] = "failed"
  /\ ~Exhausted(s)
  /\ Release(s)
  /\ backoff' = [backoff EXCEPT ![Home[s]] = @ \union {job[s]}]
  /\ UNCHANGED storeVars
  /\ UNCHANGED <<worker, outages>>

(* Mutant of ScheduleRetry: the task that would push the job is never made. *)
ScheduleRetryForgotten(s) ==
  /\ pc[s] = "failed"
  /\ ~Exhausted(s)
  /\ Release(s)
  /\ UNCHANGED storeVars
  /\ UNCHANGED <<worker, backoff, outages>>

(* Mutant of ScheduleRetry: the job is pushed at once and again after the
   backoff. *)
ScheduleRetryTwice(s) ==
  /\ pc[s] = "failed"
  /\ ~Exhausted(s)
  /\ Release(s)
  /\ LET retry == [job[s] EXCEPT !.attempt = @ + 1]
     IN /\ queue' = Append(queue, retry)
        /\ backoff' = [backoff EXCEPT ![Home[s]] = @ \union {retry}]
  /\ UNCHANGED <<status, audit, blob, dlq, lost, replays, worker, outages>>

(* _retry with budget left: a detached task sleeps, the slot moves on. *)
ScheduleRetry(s) ==
  /\ pc[s] = "failed"
  /\ ~Exhausted(s)
  /\ Release(s)
  /\ backoff' = [backoff EXCEPT ![Home[s]] =
                   @ \union {[job[s] EXCEPT !.attempt = @ + 1]}]
  /\ UNCHANGED storeVars
  /\ UNCHANGED <<worker, outages>>

(* Mutant of Park: an exhausted job is logged and let go. *)
ParkNowhere(s) ==
  /\ pc[s] = "failed"
  /\ Exhausted(s)
  /\ Release(s)
  /\ UNCHANGED storeVars
  /\ UNCHANGED <<worker, backoff, outages>>

(* _retry with the budget spent: _dead_letter.  The row is left as it is. *)
Park(s) ==
  /\ pc[s] = "failed"
  /\ Exhausted(s)
  /\ Release(s)
  /\ dlq' = dlq \union {job[s]}
  /\ UNCHANGED <<status, audit, blob, queue, lost, replays, worker, backoff, outages>>

(* _dead_letter suppresses the exception of its RPUSH. *)
ParkSuppressed(s) ==
  /\ "redis" \in Faults
  /\ \/ pc[s] = "poison"
     \/ pc[s] = "failed" /\ Exhausted(s)
  /\ Release(s)
  /\ lost' = lost \union {Doc(s)}
  /\ UNCHANGED <<status, audit, blob, queue, dlq, replays, worker, backoff, outages>>

(* A backoff task wakes and pushes its job. *)
Requeue(w, sleeper) ==
  /\ queue' = Append(queue, sleeper)
  /\ backoff' = [backoff EXCEPT ![w] = @ \ {sleeper}]
  /\ UNCHANGED <<status, audit, blob, dlq, lost, replays>>
  /\ UNCHANGED <<worker, pc, job, seen, seenResults, outages>>

(* _requeue_after suppresses the exception of its RPUSH. *)
RequeueSuppressed(w, sleeper) ==
  /\ "redis" \in Faults
  /\ lost' = lost \union {sleeper.doc}
  /\ backoff' = [backoff EXCEPT ![w] = @ \ {sleeper}]
  /\ UNCHANGED <<status, audit, blob, queue, dlq, replays>>
  /\ UNCHANGED <<worker, pc, job, seen, seenResults, outages>>

-----------------------------------------------------------------------------
SlotsOf(w) == {s \in Slots : Home[s] = w}

(* SIGTERM or SIGINT: request_stop. *)
RequestStop(w) ==
  /\ outages < MaxOutages
  /\ worker[w] = "up"
  /\ worker' = [worker EXCEPT ![w] = "stopping"]
  /\ outages' = outages + 1
  /\ UNCHANGED storeVars
  /\ UNCHANGED <<pc, job, seen, seenResults, backoff>>

(* Mutant of StopPolling: a BLPOP without timeout sees the stop flag only when
   a payload wakes it. *)
StopPollingUnbounded(s) ==
  /\ pc[s] = "polling"
  /\ worker[Home[s]] = "stopping"
  /\ queue # << >>
  /\ At(s, "exited")
  /\ UNCHANGED storeVars
  /\ UNCHANGED <<worker, job, seen, seenResults, backoff, outages>>

(* The bounded BLPOP times out and the consumer sees the stop flag. *)
StopPolling(s) ==
  /\ pc[s] = "polling"
  /\ worker[Home[s]] = "stopping"
  /\ At(s, "exited")
  /\ UNCHANGED storeVars
  /\ UNCHANGED <<worker, job, seen, seenResults, backoff, outages>>

(* Every consumer has returned: run() ends, and asyncio.run cancels the
   backoff tasks that are still asleep. *)
Exit(w) ==
  /\ worker[w] = "stopping"
  /\ \A s \in SlotsOf(w) : pc[s] = "exited"
  /\ worker' = [worker EXCEPT ![w] = "down"]
  /\ backoff' = [backoff EXCEPT ![w] = {}]
  /\ lost' = lost \union {sleeper.doc : sleeper \in backoff[w]}
  /\ UNCHANGED <<status, audit, blob, queue, dlq, replays>>
  /\ UNCHANGED <<pc, job, seen, seenResults, outages>>

(* The process dies: held payloads, open transactions and backoff tasks go. *)
Crash(w) ==
  /\ outages < MaxOutages
  /\ worker[w] # "down"
  /\ worker' = [worker EXCEPT ![w] = "down"]
  /\ outages' = outages + 1
  /\ pc' = [s \in Slots |-> IF Home[s] = w THEN "exited" ELSE pc[s]]
  /\ job' = [s \in Slots |-> IF Home[s] = w THEN Poison ELSE job[s]]
  /\ seen' = [s \in Slots |-> IF Home[s] = w THEN "none" ELSE seen[s]]
  /\ seenResults' = [s \in Slots |-> Home[s] # w /\ seenResults[s]]
  /\ backoff' = [backoff EXCEPT ![w] = {}]
  /\ lost' = lost \union {Doc(s) : s \in SlotsOf(w)}
                  \union {sleeper.doc : sleeper \in backoff[w]}
  /\ UNCHANGED <<status, audit, blob, queue, dlq, replays>>

(* The orchestrator starts the process again. *)
Restart(w) ==
  /\ worker[w] = "down"
  /\ worker' = [worker EXCEPT ![w] = "up"]
  /\ pc' = [s \in Slots |-> IF Home[s] = w THEN "polling" ELSE pc[s]]
  /\ UNCHANGED storeVars
  /\ UNCHANGED <<job, seen, seenResults, backoff, outages>>

-----------------------------------------------------------------------------
(* What a slot does of its own accord, once it has a payload. *)
SlotStep(s) ==
  \/ ParkPoison(s)
  \/ DropMissing(s)
  \/ SkipFinished(s)
  \/ Load(s)
  \/ Verify(s)
  \/ FailIntegrity(s)
  \/ StartExtraction(s)
  \/ RejectedByOcr(s)
  \/ CommitVerdict(s)
  \/ UniqueViolation(s)
  \/ OcrFails(s)
  \/ ScheduleRetry(s)
  \/ Park(s)

SlotFault(s) == PopReplyLost(s) \/ InfraFails(s) \/ ParkSuppressed(s)

ProcessStep(w) ==
  \/ \E sleeper \in backoff[w] : Requeue(w, sleeper)
  \/ Exit(w)
  \/ Restart(w)

ProcessFault(w) ==
  \/ \E sleeper \in backoff[w] : RequeueSuppressed(w, sleeper)
  \/ RequestStop(w)
  \/ Crash(w)
=============================================================================
