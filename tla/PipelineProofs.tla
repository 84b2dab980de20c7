--------------------------- MODULE PipelineProofs ---------------------------
(***************************************************************************)
(* Every variable of the pipeline keeps its type, and what one step may do *)
(* to the jobs in the system (Flow), which the other proofs rest on.       *)
(***************************************************************************)
EXTENDS PipelineInv, TLAPS, SequenceTheorems

(* Step by step: the initial state, requests, slots, processes, environment. *)
LEMMA TypeInit == Init => TypeOK
<1> SUFFICES ASSUME Init PROVE TypeOK
  OBVIOUS
<1>1. Poison \in Payloads /\ 0 \in 0..MaxReplays /\ 0 \in 0..MaxOutages
  BY StoreAssumption, WorkerAssumption DEF Payloads
<1>2. <<Poison>> \in Seq(Payloads)
  BY <1>1
<1>3. queue \in Seq(Payloads)
  <2>1. queue = << >> \/ queue = <<Poison>>
    BY DEF Init, StoreInit
  <2>2. << >> \in Seq(Payloads)
    OBVIOUS
  <2> QED
    BY <1>2, <2>1, <2>2
<1>4. audit \in [Uploads -> Seq(AuditActions)]
  BY DEF Init, StoreInit
<1> QED
  BY <1>1, <1>3, <1>4
  DEF Init, StoreInit, IntakeInit, WorkerInit, TypeOK, ReqStates, SlotStates, Busy

LEMMA TypeApi == TypeOK /\ ApiNext => TypeOK'
<1> SUFFICES ASSUME TypeOK, NEW u \in Uploads,
                    RequestStep(u) \/ RequestFault(u), UNCHANGED workerVars
             PROVE  TypeOK'
  BY DEF ApiNext
<1> USE DEF TypeOK, Goto, storeVars, workerVars, ReqStates, InFlight, Flushed
<1>1. NewJob(u) \in Payloads
  BY StoreAssumption DEF NewJob, Payloads, IntakeJob
<1>2. CASE RefuseAtGate(u)
  BY <1>2 DEF RefuseAtGate
<1>3. CASE CheckDuplicate(u)
  BY <1>3 DEF CheckDuplicate
<1>4. CASE PutBlob(u)
  BY <1>4 DEF PutBlob
<1>5. CASE InsertRow(u)
  BY <1>5 DEF InsertRow
<1>6. CASE Enqueue(u)
  BY <1>1, <1>6 DEF Enqueue
<1>7. CASE CommitUpload(u)
  <2>1. <<"DOCUMENT_UPLOADED", "DOCUMENT_QUEUED">> \in Seq(AuditActions)
    BY DEF AuditActions
  <2>2. audit' \in [Uploads -> Seq(AuditActions)]
    BY <1>7, <2>1 DEF CommitUpload
  <2> QED BY <1>7, <2>2 DEF CommitUpload, Statuses
<1>8. CASE EnqueueReplyLost(u)
  BY <1>1, <1>8 DEF EnqueueReplyLost
<1>9. CASE RollBack(u)
  BY <1>9 DEF RollBack
<1> QED
  BY <1>2, <1>3, <1>4, <1>5, <1>6, <1>7, <1>8, <1>9 DEF RequestStep, RequestFault

LEMMA ReleaseType ==
  ASSUME TypeOK, NEW s \in Slots, Release(s)
  PROVE  /\ pc' \in [Slots -> SlotStates]
         /\ job' \in [Slots -> Payloads]
         /\ seen' \in [Slots -> Statuses \union {"none"}]
         /\ seenResults' \in [Slots -> BOOLEAN]
         /\ \A t \in Slots : pc'[t] \in Busy => job'[t] \in IntakeJob
  BY DEF TypeOK, Release, Idle, SlotStates, Payloads, Busy

LEMMA DocType ==
  ASSUME TypeOK, NEW s \in Slots
  PROVE  Doc(s) \in Uploads \union {NoUpload}
  BY DEF TypeOK, Doc, Payloads, IntakeJob, Poison

LEMMA AuditType ==
  ASSUME TypeOK, NEW s \in Slots, NEW entries \in Seq(AuditActions)
  PROVE  AuditAfter(s, entries) \in [Uploads -> Seq(AuditActions)]
<1>1. \A u \in Uploads : audit[u] \o entries \in Seq(AuditActions)
  BY ConcatProperties DEF TypeOK
<1> QED
  BY <1>1 DEF TypeOK, AuditAfter

LEMMA TerminateType ==
  ASSUME TypeOK, NEW s \in Slots, pc[s] \in Busy, NEW target \in Statuses,
         NEW entry \in AuditActions, Terminate(s, target, entry), UNCHANGED req
  PROVE  TypeOK'
<1>1. CASE Advances(s, target)
  <2>1. <<entry>> \in Seq(AuditActions)
    OBVIOUS
  <2>2. audit' \in [Uploads -> Seq(AuditActions)]
    BY <1>1, <2>1, AuditType DEF Terminate
  <2>3. Release(s)
    BY <1>1 DEF Terminate
  <2> QED
    BY <1>1, <2>2, <2>3, ReleaseType DEF Terminate, TypeOK, StatusAfter
<1>2. CASE ~Advances(s, target)
  BY <1>2 DEF Terminate, TypeOK, At, SlotStates, storeVars, Busy
<1> QED
  BY <1>1, <1>2

LEMMA TypeSlot ==
  ASSUME TypeOK, NEW s \in Slots,
         Pop(s) \/ StopPolling(s) \/ SlotStep(s) \/ SlotFault(s), UNCHANGED req
  PROVE  TypeOK'
<1> USE DEF TypeOK, storeVars, workerVars, Busy
<1>1. CASE Pop(s)
  <2>1. Head(queue) \in Payloads /\ Tail(queue) \in Seq(Payloads)
    BY <1>1 DEF Pop
  <2>2. Parses(Head(queue)) => Head(queue) \in IntakeJob
    BY <2>1 DEF Payloads, Parses
  <2> QED
    BY <1>1, <2>1, <2>2 DEF Pop, At, SlotStates
<1>2. CASE StopPolling(s)
  BY <1>2 DEF StopPolling, At, SlotStates
<1>3. CASE ParkPoison(s)
  BY <1>3, ReleaseType DEF ParkPoison
<1>4. CASE DropMissing(s)
  BY <1>4, ReleaseType, DocType DEF DropMissing
<1>5. CASE SkipFinished(s)
  BY <1>5, ReleaseType DEF SkipFinished
<1>6. CASE Load(s)
  <2>1. HasResults(Doc(s)) \in BOOLEAN
    BY DEF HasResults
  <2>2. seenResults' \in [Slots -> BOOLEAN]
    BY <1>6, <2>1 DEF Load
  <2>3. seen' \in [Slots -> Statuses \union {"none"}]
    BY <1>6 DEF Load, Doc, Payloads, IntakeJob
  <2> QED
    BY <1>6, <2>2, <2>3 DEF Load, At, SlotStates
<1>7. CASE Verify(s)
  BY <1>7 DEF Verify, At, SlotStates
<1>8. CASE FailIntegrity(s)
  BY <1>8, TerminateType DEF FailIntegrity, Statuses, AuditActions
<1>9. CASE StartExtraction(s)
  <2>1. <<"EXTRACTION_STARTED">> \in Seq(AuditActions)
    BY DEF AuditActions
  <2>2. audit' \in [Uploads -> Seq(AuditActions)]
    BY <1>9, <2>1, AuditType DEF StartExtraction
  <2> QED
    BY <1>9, <2>2 DEF StartExtraction, StatusAfter, At, SlotStates, Statuses
<1>10. CASE RejectedByOcr(s)
  BY <1>10, TerminateType DEF RejectedByOcr, Statuses, AuditActions
<1>11. CASE CommitVerdict(s)
  <2>1. PICK verdict \in Verdicts :
          /\ status' = [status EXCEPT ![Doc(s)] = verdict]
          /\ audit' = AuditAfter(s,
               <<"EXTRACTION_COMPLETED", "VALIDATION_COMPLETED">>
               \o (IF verdict = "REJECTED" THEN <<"DOCUMENT_REJECTED">> ELSE << >>))
    BY <1>11 DEF CommitVerdict
  <2>2. <<"EXTRACTION_COMPLETED", "VALIDATION_COMPLETED">>
        \o (IF verdict = "REJECTED" THEN <<"DOCUMENT_REJECTED">> ELSE << >>)
        \in Seq(AuditActions)
    <3>1. <<"EXTRACTION_COMPLETED", "VALIDATION_COMPLETED">> \in Seq(AuditActions)
      BY DEF AuditActions
    <3>2. <<"DOCUMENT_REJECTED">> \in Seq(AuditActions) /\ << >> \in Seq(AuditActions)
      BY DEF AuditActions
    <3> QED
      BY <3>1, <3>2, ConcatProperties
  <2>3. audit' \in [Uploads -> Seq(AuditActions)]
    BY <2>1, <2>2, AuditType
  <2>4. status' \in [Uploads -> Statuses \union {"none"}]
    BY <2>1 DEF Verdicts, Statuses
  <2> QED
    BY <1>11, <2>3, <2>4, ReleaseType DEF CommitVerdict
<1>12. CASE UniqueViolation(s)
  BY <1>12 DEF UniqueViolation, At, SlotStates
<1>13. CASE OcrFails(s)
  BY <1>13 DEF OcrFails, At, SlotStates
<1>14. CASE ScheduleRetry(s)
  <2>1. [job[s] EXCEPT !.attempt = @ + 1] \in IntakeJob
    <3>1. job[s] \in IntakeJob /\ job[s].attempt + 1 \in Nat
      BY <1>14 DEF ScheduleRetry, IntakeJob
    <3> QED
      BY <3>1 DEF IntakeJob
  <2> QED
    BY <1>14, <2>1, ReleaseType DEF ScheduleRetry
<1>15. CASE Park(s)
  BY <1>15, ReleaseType DEF Park
<1>16. CASE PopReplyLost(s)
  BY <1>16 DEF PopReplyLost, Payloads, IntakeJob, Poison
<1>17. CASE InfraFails(s)
  BY <1>17 DEF InfraFails, At, SlotStates
<1>18. CASE ParkSuppressed(s)
  BY <1>18, ReleaseType, DocType DEF ParkSuppressed
<1> QED
  BY <1>1, <1>2, <1>3, <1>4, <1>5, <1>6, <1>7, <1>8, <1>9, <1>10, <1>11, <1>12,
     <1>13, <1>14, <1>15, <1>16, <1>17, <1>18 DEF SlotStep, SlotFault

LEMMA TypeProcess ==
  ASSUME TypeOK, NEW w \in Workers, ProcessStep(w) \/ ProcessFault(w), UNCHANGED req
  PROVE  TypeOK'
<1> USE DEF TypeOK, storeVars, workerVars, Busy
<1>1. ASSUME NEW sleeper \in backoff[w], Requeue(w, sleeper)
      PROVE  TypeOK'
  BY <1>1 DEF Requeue, Payloads
<1>2. ASSUME NEW sleeper \in backoff[w], RequeueSuppressed(w, sleeper)
      PROVE  TypeOK'
  BY <1>2 DEF RequeueSuppressed, IntakeJob
<1>3. CASE Exit(w)
  BY <1>3 DEF Exit, IntakeJob
<1>4. CASE Restart(w)
  BY <1>4 DEF Restart, SlotStates
<1>5. CASE RequestStop(w)
  BY <1>5, WorkerAssumption DEF RequestStop
<1>6. CASE Crash(w)
  <2>1. lost' \subseteq Uploads \union {NoUpload}
    <3>1. {Doc(s) : s \in SlotsOf(w)} \subseteq Uploads \union {NoUpload}
      BY DocType DEF SlotsOf
    <3>2. {sleeper.doc : sleeper \in backoff[w]} \subseteq Uploads
      BY DEF IntakeJob
    <3> QED
      BY <1>6, <3>1, <3>2 DEF Crash
  <2>2. seenResults' \in [Slots -> BOOLEAN]
    BY <1>6 DEF Crash
  <2>3. outages' \in 0..MaxOutages
    BY <1>6, WorkerAssumption DEF Crash
  <2> QED
    BY <1>6, <2>1, <2>2, <2>3 DEF Crash, SlotStates, Payloads
<1> QED
  BY <1>1, <1>2, <1>3, <1>4, <1>5, <1>6 DEF ProcessStep, ProcessFault

LEMMA TypeEnvironment == TypeOK /\ EnvironmentNext => TypeOK'
<1> USE DEF TypeOK, workerVars
<1>1. ASSUME TypeOK, NEW u \in Uploads, Corrupt(u), UNCHANGED <<req, workerVars>>
      PROVE  TypeOK'
  BY <1>1 DEF Corrupt
<1>2. ASSUME TypeOK, NEW letter \in dlq, Replay(letter), UNCHANGED <<req, workerVars>>
      PROVE  TypeOK'
  <2>1. letter \in IntakeJob
    BY <1>2 DEF Replay, Payloads
  <2>2. replays + 1 \in 0..MaxReplays
    BY <1>2, StoreAssumption DEF Replay
  <2>3. [letter EXCEPT !.copy = replays + 1] \in Payloads
    BY <2>1, <2>2 DEF IntakeJob, Payloads
  <2> QED
    BY <1>2, <2>2, <2>3 DEF Replay
<1> QED
  BY <1>1, <1>2 DEF EnvironmentNext

LEMMA TypeNext == TypeOK /\ [Next]_vars => TypeOK'
<1> SUFFICES ASSUME TypeOK, [Next]_vars PROVE TypeOK'
  OBVIOUS
<1>1. CASE ApiNext
  BY <1>1, TypeApi
<1>2. CASE WorkerNext
  BY <1>2, TypeSlot, TypeProcess DEF WorkerNext
<1>3. CASE EnvironmentNext
  BY <1>3, TypeEnvironment
<1>4. CASE UNCHANGED vars
  BY <1>4 DEF vars, storeVars, workerVars, TypeOK
<1> QED
  BY <1>1, <1>2, <1>3, <1>4 DEF Next

(* Every variable keeps its type, and a slot past the parse holds a parsed job:
   Worker._parse lets nothing else through. *)
THEOREM TypeCorrect == Spec => []TypeOK
<1> QED
  BY TypeInit, TypeNext, PTL DEF Spec

-----------------------------------------------------------------------------
(***************************************************************************)
(* What becomes of jobs.  The lemmas of the first part say, place by place *)
(* and action by action, which jobs a step brings into the system and what *)
(* happens to the ones it takes out.                                       *)
(***************************************************************************)

LEMMA QueueAppend ==
  ASSUME TypeOK, NEW m \in Payloads, queue' = Append(queue, m)
  PROVE  QueuedJobs' = QueuedJobs \union ({m} \ {Poison})
<1>1. /\ Len(queue') = Len(queue) + 1
      /\ \A i \in 1..Len(queue') : queue'[i] = IF i <= Len(queue) THEN queue[i] ELSE m
      /\ Len(queue) \in Nat
  BY DEF TypeOK
<1> QED
  BY <1>1 DEF QueuedJobs

LEMMA QueueTail ==
  ASSUME TypeOK, queue # << >>, queue' = Tail(queue)
  PROVE  /\ QueuedJobs' \subseteq QueuedJobs
         /\ QueuedJobs \subseteq QueuedJobs' \union {Head(queue)}
         /\ Head(queue) \in Payloads
         /\ Head(queue) # Poison => Head(queue) \in QueuedJobs
<1>1. /\ Len(queue) \in Nat \ {0}
      /\ Len(queue') = Len(queue) - 1
      /\ \A i \in 1..Len(queue') : queue'[i] = queue[i + 1]
      /\ Head(queue) = queue[1]
      /\ Head(queue) \in Payloads
  BY HeadTailProperties DEF TypeOK
<1>2. \A i \in 1..Len(queue') : i + 1 \in 1..Len(queue)
  BY <1>1
<1>3. \A i \in 2..Len(queue) : i - 1 \in 1..Len(queue') /\ queue'[i - 1] = queue[i]
  BY <1>1
<1>4. 1..Len(queue) = {1} \union 2..Len(queue)
  BY <1>1
<1> QED
  BY <1>1, <1>2, <1>3, <1>4 DEF QueuedJobs

LEMMA HeldStep ==
  ASSUME TypeOK, NEW s \in Slots, pc[s] \in Busy, NEW state \in Busy,
         At(s, state), job' = job
  PROVE  HeldJobs' = HeldJobs
<1>1. \A t \in Slots : pc'[t] \in Busy <=> pc[t] \in Busy
  BY DEF TypeOK, At
<1> QED
  BY <1>1 DEF HeldJobs

LEMMA HeldRelease ==
  ASSUME TypeOK, NEW s \in Slots, Release(s)
  PROVE  /\ HeldJobs' \subseteq HeldJobs
         /\ HeldJobs \subseteq HeldJobs' \union {job[s]}
         /\ pc[s] \notin Busy => HeldJobs' = HeldJobs
<1>1. Idle(s) \notin Busy
  BY DEF Idle, Busy
<1>2. \A t \in Slots : /\ t # s => pc'[t] = pc[t] /\ job'[t] = job[t]
                       /\ pc'[s] \notin Busy
  BY <1>1 DEF TypeOK, Release
<1> QED
  BY <1>2 DEF HeldJobs

LEMMA HeldSame ==
  ASSUME UNCHANGED <<pc, job>>
  PROVE  HeldJobs' = HeldJobs
  BY DEF HeldJobs

LEMMA JobsTyped ==
  ASSUME TypeOK
  PROVE  /\ QueuedJobs \subseteq IntakeJob
         /\ HeldJobs \subseteq IntakeJob
         /\ SleepingJobs \subseteq IntakeJob
         /\ ParkedJobs \subseteq IntakeJob
         /\ AllJobs \subseteq IntakeJob
         /\ \A j \in AllJobs : j.doc \in Uploads
<1>1. QueuedJobs \subseteq IntakeJob
  BY DEF TypeOK, QueuedJobs, Payloads
<1>2. HeldJobs \subseteq IntakeJob
  BY DEF TypeOK, HeldJobs
<1>3. SleepingJobs \subseteq IntakeJob
  BY DEF TypeOK, SleepingJobs
<1>4. ParkedJobs \subseteq IntakeJob
  BY DEF TypeOK, ParkedJobs, Payloads
<1>5. AllJobs \subseteq IntakeJob
  BY <1>1, <1>2, <1>3, <1>4 DEF AllJobs, LiveJobs
<1> QED
  BY <1>1, <1>2, <1>3, <1>4, <1>5 DEF IntakeJob

(* Where a job that a step brings in comes from: an earlier attempt of the same
   copy, the request that just pushed it, or a letter the operator replayed. *)
Source(j) ==
  \/ \E k \in AllJobs : SameCopy(k, j)
  \/ /\ j.copy = 0
     /\ req[j.doc] = "inserted" /\ req'[j.doc] \in {"enqueued", "errored"}
  \/ /\ j.copy = replays + 1 /\ replays' = replays + 1
     /\ \E letter \in ParkedJobs : letter.doc = j.doc

(* What a step may do to the jobs: one it brings in is within the retry budget,
   points at stored bytes, and has a source; one it takes out leaves another job
   of its document behind, belongs to a finished document, or is recorded as
   lost, which without a disruption happens only while there is no row. *)
Flow ==
  /\ \A j \in AllJobs' :
       \/ j \in AllJobs
       \/ /\ j.attempt \in 1..Budget
          /\ blob[j.doc] # "absent"
          /\ Source(j)
  /\ \A j \in AllJobs :
       \/ \E k \in AllJobs' : k.doc = j.doc
       \/ j.doc \in lost' /\ (status[j.doc] = "none" \/ Disrupted')
       \/ IsTerminal(status'[j.doc])

LEMMA SameJobsFlow ==
  ASSUME AllJobs' = AllJobs
  PROVE  Flow
  BY DEF Flow

LEMMA FlowApi == IInv /\ ApiNext => Flow
<1> SUFFICES ASSUME IInv, NEW u \in Uploads,
                    RequestStep(u) \/ RequestFault(u), UNCHANGED workerVars
             PROVE  Flow
  BY DEF ApiNext
<1>1. HeldJobs' = HeldJobs /\ SleepingJobs' = SleepingJobs
  BY DEF workerVars, HeldJobs, SleepingJobs
<1>2. CASE UNCHANGED <<queue, dlq>>
  BY <1>1, <1>2, SameJobsFlow DEF AllJobs, LiveJobs, QueuedJobs, ParkedJobs
<1>3. CASE Enqueue(u) \/ EnqueueReplyLost(u)
  <2>1. NewJob(u) \in Payloads /\ NewJob(u).doc = u /\ NewJob(u).attempt = 1
       /\ NewJob(u).copy = 0
    BY StoreAssumption DEF NewJob, Payloads, IntakeJob
  <2>2. /\ queue' = Append(queue, NewJob(u))
        /\ req[u] = "inserted"
        /\ req'[u] \in {"enqueued", "errored"}
        /\ dlq' = dlq
    BY <1>3 DEF Enqueue, EnqueueReplyLost, Goto, IInv, TypeOK
  <2>3. QueuedJobs' = QueuedJobs \union ({NewJob(u)} \ {Poison})
    BY <2>1, <2>2, QueueAppend DEF IInv
  <2>4. blob[u] # "absent"
    BY <2>2 DEF IInv, StoredBeforeQueued, Flushed
  <2>5. 1 \in 1..Budget
    BY WorkerAssumption, StoreAssumption DEF Budget
  <2>6. Source(NewJob(u))
    BY <2>1, <2>2 DEF Source
  <2> QED
    BY <1>1, <2>1, <2>2, <2>3, <2>4, <2>5, <2>6 DEF Flow, AllJobs, LiveJobs, ParkedJobs
<1> QED
  BY <1>2, <1>3 DEF RequestStep, RequestFault, RefuseAtGate, CheckDuplicate, PutBlob,
     InsertRow, CommitUpload, RollBack, storeVars

(* A slot that releases a job and changes nothing else a job can be in. *)
LEMMA ReleaseFlow ==
  ASSUME TypeOK, NEW s \in Slots, Release(s), UNCHANGED <<queue, dlq, backoff>>,
         \/ Doc(s) \in lost' /\ (status[Doc(s)] = "none" \/ Disrupted')
         \/ IsTerminal(status'[Doc(s)])
  PROVE  Flow
<1>1. UNCHANGED <<QueuedJobs, SleepingJobs, ParkedJobs>>
  BY DEF QueuedJobs, SleepingJobs, ParkedJobs
<1> QED
  BY <1>1, HeldRelease DEF Flow, AllJobs, LiveJobs, Doc

(* A slot that stays busy with its job. *)
LEMMA StayFlow ==
  ASSUME TypeOK, NEW s \in Slots, pc[s] \in Busy, NEW state \in Busy,
         At(s, state), UNCHANGED <<job, queue, dlq, backoff>>
  PROVE  AllJobs' = AllJobs /\ Flow
<1>1. UNCHANGED <<QueuedJobs, SleepingJobs, ParkedJobs>>
  BY DEF QueuedJobs, SleepingJobs, ParkedJobs
<1>2. AllJobs' = AllJobs
  BY <1>1, HeldStep DEF AllJobs, LiveJobs
<1> QED
  BY <1>2, SameJobsFlow

LEMMA TerminateFlow ==
  ASSUME IInv, NEW s \in Slots, pc[s] \in {"loaded", "extracting"},
         NEW target \in {"FAILED", "QUARANTINED"}, NEW entry,
         Terminate(s, target, entry)
  PROVE  Flow
<1>1. CASE Advances(s, target)
  <2>1. seen[s] # target
    BY DEF IInv, SlotsHoldRows
  <2>2. Doc(s) \in Uploads
    BY DEF IInv, TypeOK, Busy, Doc, IntakeJob
  <2>3. IsTerminal(status'[Doc(s)])
    BY <1>1, <2>1, <2>2 DEF Terminate, StatusAfter, IInv, TypeOK, IsTerminal,
       TerminalStatuses
  <2> QED
    BY <1>1, <2>3, ReleaseFlow DEF Terminate, IInv
<1>2. CASE ~Advances(s, target)
  BY <1>2, StayFlow DEF Terminate, IInv, storeVars, Busy
<1> QED
  BY <1>1, <1>2

LEMMA PopJobs ==
  ASSUME IInv, NEW s \in Slots, Pop(s)
  PROVE  /\ AllJobs' = AllJobs
         /\ Parses(Head(queue)) <=> Head(queue) # Poison
<1>1. /\ QueuedJobs' \subseteq QueuedJobs
      /\ QueuedJobs \subseteq QueuedJobs' \union {Head(queue)}
      /\ Head(queue) \in Payloads
      /\ Head(queue) # Poison => Head(queue) \in QueuedJobs
  BY QueueTail DEF IInv, Pop
<1>2. UNCHANGED <<SleepingJobs, ParkedJobs>>
  BY DEF Pop, SleepingJobs, ParkedJobs
<1>3. Head(queue) # Poison => Head(queue).attempt \in 1..Budget
  BY <1>1 DEF IInv, Budgeted, AllJobs, LiveJobs
<1>4. 1..Budget \subseteq 1..AttemptLimit
  BY StoreAssumption, WorkerAssumption DEF Budget
<1>5. Parses(Head(queue)) <=> Head(queue) # Poison
  BY <1>3, <1>4 DEF Parses
<1>6. \A t \in Slots : t # s => pc'[t] = pc[t] /\ job'[t] = job[t]
  BY DEF Pop, At, IInv, TypeOK
<1>7. job'[s] = Head(queue) /\ pc[s] = "polling"
      /\ pc'[s] = IF Parses(Head(queue)) THEN "popped" ELSE "poison"
  BY DEF Pop, At, IInv, TypeOK
<1>8. CASE Head(queue) = Poison
  <2>1. HeldJobs' = HeldJobs
    BY <1>5, <1>6, <1>7, <1>8 DEF HeldJobs, Busy
  <2>2. QueuedJobs' = QueuedJobs
    BY <1>1, <1>8 DEF QueuedJobs
  <2> QED
    BY <1>2, <1>5, <2>1, <2>2 DEF AllJobs, LiveJobs
<1>9. CASE Head(queue) # Poison
  <2>1. HeldJobs' = HeldJobs \union {Head(queue)}
    BY <1>5, <1>6, <1>7, <1>9 DEF HeldJobs, Busy
  <2> QED
    BY <1>1, <1>2, <1>5, <1>9, <2>1 DEF AllJobs, LiveJobs
<1> QED
  BY <1>8, <1>9

LEMMA FlowSlot ==
  ASSUME IInv, NEW s \in Slots,
         Pop(s) \/ StopPolling(s) \/ SlotStep(s) \/ SlotFault(s)
  PROVE  Flow
<1> USE DEF IInv
<1>1. CASE Pop(s)
  BY <1>1, PopJobs, SameJobsFlow
<1>2. CASE StopPolling(s)
  <2>1. HeldJobs' = HeldJobs
    BY <1>2 DEF StopPolling, At, TypeOK, HeldJobs, Busy
  <2>2. UNCHANGED <<QueuedJobs, SleepingJobs, ParkedJobs>>
    BY <1>2 DEF StopPolling, storeVars, QueuedJobs, SleepingJobs, ParkedJobs
  <2> QED
    BY <2>1, <2>2, SameJobsFlow DEF AllJobs, LiveJobs
<1>3. CASE ParkPoison(s)
  <2>1. HeldJobs' = HeldJobs
    BY <1>3, HeldRelease DEF ParkPoison, Busy
  <2>2. job[s] = Poison
    BY <1>3 DEF ParkPoison, SlotsHoldRows
  <2>3. UNCHANGED <<QueuedJobs, SleepingJobs, ParkedJobs>>
    BY <1>3, <2>2 DEF ParkPoison, QueuedJobs, SleepingJobs, ParkedJobs
  <2> QED
    BY <2>1, <2>3, SameJobsFlow DEF AllJobs, LiveJobs
<1>4. CASE DropMissing(s)
  BY <1>4, ReleaseFlow DEF DropMissing
<1>5. CASE SkipFinished(s)
  BY <1>5, ReleaseFlow DEF SkipFinished, storeVars
<1>6. CASE Load(s)
  BY <1>6, StayFlow DEF Load, storeVars, Busy
<1>7. CASE Verify(s)
  BY <1>7, StayFlow DEF Verify, storeVars, Busy
<1>8. CASE FailIntegrity(s)
  BY <1>8, TerminateFlow DEF FailIntegrity
<1>9. CASE StartExtraction(s)
  BY <1>9, StayFlow DEF StartExtraction, Busy
<1>10. CASE RejectedByOcr(s)
  BY <1>10, TerminateFlow DEF RejectedByOcr
<1>11. CASE CommitVerdict(s)
  <2>1. Doc(s) \in Uploads
    BY <1>11 DEF CommitVerdict, TypeOK, Busy, Doc, IntakeJob
  <2>2. IsTerminal(status'[Doc(s)])
    BY <1>11, <2>1 DEF CommitVerdict, Verdicts, IsTerminal, TerminalStatuses, TypeOK
  <2> QED
    BY <1>11, <2>2, ReleaseFlow DEF CommitVerdict
<1>12. CASE UniqueViolation(s)
  BY <1>12, StayFlow DEF UniqueViolation, storeVars, Busy
<1>13. CASE OcrFails(s)
  BY <1>13, StayFlow DEF OcrFails, storeVars, Busy
<1>14. CASE ScheduleRetry(s)
  <2> DEFINE retried == [job[s] EXCEPT !.attempt = @ + 1]
  <2>1. job[s] \in IntakeJob /\ job[s] \in AllJobs
    BY <1>14 DEF ScheduleRetry, TypeOK, Busy, AllJobs, LiveJobs, HeldJobs
  <2>2. /\ retried.doc = job[s].doc /\ retried.copy = job[s].copy
        /\ retried.attempt = job[s].attempt + 1
    BY <2>1 DEF IntakeJob
  <2>3. retried.attempt \in 1..Budget
    BY <1>14, <2>1, <2>2, WorkerAssumption, StoreAssumption
    DEF ScheduleRetry, Exhausted, IntakeJob, Budgeted, Budget
  <2>4. blob[retried.doc] # "absent"
    BY <2>1, <2>2 DEF JobHasBlob, AllJobs
  <2>5. SleepingJobs' = SleepingJobs \union {retried}
    BY <1>14, WorkerAssumption DEF ScheduleRetry, TypeOK, SleepingJobs
  <2>6. UNCHANGED <<QueuedJobs, ParkedJobs>>
    BY <1>14 DEF ScheduleRetry, storeVars, QueuedJobs, ParkedJobs
  <2>7. HeldJobs' \subseteq HeldJobs /\ HeldJobs \subseteq HeldJobs' \union {job[s]}
    BY <1>14, HeldRelease DEF ScheduleRetry
  <2> HIDE DEF retried
  <2>8. Source(retried)
    BY <2>1, <2>2 DEF Source, SameCopy
  <2> QED
    BY <2>1, <2>2, <2>3, <2>4, <2>5, <2>6, <2>7, <2>8 DEF Flow, AllJobs, LiveJobs
<1>15. CASE Park(s)
  <2>1. job[s] # Poison
    BY <1>15, StoreAssumption DEF Park, TypeOK, Busy, IntakeJob, Poison
  <2>2. ParkedJobs' = ParkedJobs \union {job[s]} /\ job[s] \in HeldJobs
    BY <1>15, <2>1 DEF Park, ParkedJobs, HeldJobs, Busy
  <2>3. UNCHANGED <<QueuedJobs, SleepingJobs>>
    BY <1>15 DEF Park, QueuedJobs, SleepingJobs
  <2>4. HeldJobs' \subseteq HeldJobs /\ HeldJobs \subseteq HeldJobs' \union {job[s]}
    BY <1>15, HeldRelease DEF Park
  <2> QED
    BY <2>2, <2>3, <2>4, SameJobsFlow DEF AllJobs, LiveJobs
<1>16. CASE PopReplyLost(s)
  <2>1. /\ QueuedJobs' \subseteq QueuedJobs
        /\ QueuedJobs \subseteq QueuedJobs' \union {Head(queue)}
    BY <1>16, QueueTail DEF PopReplyLost
  <2>2. UNCHANGED <<HeldJobs, SleepingJobs, ParkedJobs>>
    BY <1>16 DEF PopReplyLost, workerVars, HeldJobs, SleepingJobs, ParkedJobs
  <2>3. Head(queue).doc \in lost' /\ Disrupted'
    BY <1>16 DEF PopReplyLost, Disrupted
  <2> QED
    BY <2>1, <2>2, <2>3 DEF Flow, AllJobs, LiveJobs
<1>17. CASE InfraFails(s)
  BY <1>17, StayFlow DEF InfraFails, storeVars, Busy
<1>18. CASE ParkSuppressed(s)
  BY <1>18, ReleaseFlow DEF ParkSuppressed, Disrupted
<1> QED
  BY <1>1, <1>2, <1>3, <1>4, <1>5, <1>6, <1>7, <1>8, <1>9, <1>10, <1>11, <1>12,
     <1>13, <1>14, <1>15, <1>16, <1>17, <1>18 DEF SlotStep, SlotFault

LEMMA FlowProcess ==
  ASSUME IInv, NEW w \in Workers, ProcessStep(w) \/ ProcessFault(w)
  PROVE  Flow
<1> USE DEF IInv
<1>1. ASSUME NEW sleeper \in backoff[w], Requeue(w, sleeper)
      PROVE  Flow
  <2>1. sleeper \in IntakeJob /\ sleeper # Poison /\ sleeper \in SleepingJobs
    BY StoreAssumption DEF TypeOK, IntakeJob, Poison, SleepingJobs
  <2>2. QueuedJobs' = QueuedJobs \union {sleeper}
    BY <1>1, <2>1, QueueAppend DEF Requeue, Payloads
  <2>3. /\ SleepingJobs' \subseteq SleepingJobs
        /\ SleepingJobs \subseteq SleepingJobs' \union {sleeper}
    BY <1>1 DEF Requeue, TypeOK, SleepingJobs
  <2>4. UNCHANGED <<HeldJobs, ParkedJobs>>
    BY <1>1 DEF Requeue, HeldJobs, ParkedJobs
  <2> QED
    BY <2>1, <2>2, <2>3, <2>4, SameJobsFlow DEF AllJobs, LiveJobs
<1>2. ASSUME NEW sleeper \in backoff[w], RequeueSuppressed(w, sleeper)
      PROVE  Flow
  <2>1. /\ SleepingJobs' \subseteq SleepingJobs
        /\ SleepingJobs \subseteq SleepingJobs' \union {sleeper}
    BY <1>2 DEF RequeueSuppressed, TypeOK, SleepingJobs
  <2>2. UNCHANGED <<QueuedJobs, HeldJobs, ParkedJobs>>
    BY <1>2 DEF RequeueSuppressed, QueuedJobs, HeldJobs, ParkedJobs
  <2> QED
    BY <1>2, <2>1, <2>2 DEF RequeueSuppressed, Disrupted, Flow, AllJobs, LiveJobs
<1>3. ASSUME NEW gone, gone \subseteq HeldJobs, HeldJobs' \subseteq HeldJobs,
             HeldJobs \subseteq HeldJobs' \union gone, \A j \in gone : j.doc \in lost',
             backoff' = [backoff EXCEPT ![w] = {}],
             {sleeper.doc : sleeper \in backoff[w]} \subseteq lost',
             Disrupted', UNCHANGED <<queue, dlq>>
      PROVE  Flow
  <2>1. /\ SleepingJobs' \subseteq SleepingJobs
        /\ SleepingJobs \subseteq SleepingJobs' \union backoff[w]
    BY <1>3 DEF TypeOK, SleepingJobs
  <2>2. \A j \in backoff[w] : j.doc \in lost'
    BY <1>3
  <2>3. UNCHANGED <<QueuedJobs, ParkedJobs>>
    BY <1>3 DEF QueuedJobs, ParkedJobs
  <2> QED
    BY <1>3, <2>1, <2>2, <2>3 DEF Flow, AllJobs, LiveJobs
<1>4. CASE Exit(w)
  <2> DEFINE none == {}
  <2>1. HeldJobs' = HeldJobs
    BY <1>4, HeldSame DEF Exit
  <2>2. /\ none \subseteq HeldJobs
        /\ HeldJobs' \subseteq HeldJobs
        /\ HeldJobs \subseteq HeldJobs' \union none
        /\ \A j \in none : j.doc \in lost'
    BY <2>1
  <2>3. {sleeper.doc : sleeper \in backoff[w]} \subseteq lost'
    BY <1>4 DEF Exit
  <2>4. backoff' = [backoff EXCEPT ![w] = {}] /\ UNCHANGED <<queue, dlq>>
    BY <1>4 DEF Exit
  <2>5. Disrupted'
    BY <1>4 DEF Exit, Disrupted, OutagesAreCounted
  <2> HIDE DEF none
  <2> QED
    BY <2>2, <2>3, <2>4, <2>5, <1>3
<1>5. CASE Crash(w)
  <2> DEFINE gone == {job[s] : s \in {t \in SlotsOf(w) : pc[t] \in Busy}}
  <2>1. \A t \in Slots : IF Home[t] = w THEN pc'[t] \notin Busy
                         ELSE pc'[t] = pc[t] /\ job'[t] = job[t]
    BY <1>5 DEF Crash, Busy
  <2>2. gone \subseteq HeldJobs /\ HeldJobs' \subseteq HeldJobs
        /\ HeldJobs \subseteq HeldJobs' \union gone
    BY <2>1 DEF HeldJobs, SlotsOf
  <2>3. \A j \in gone : j.doc \in lost'
    BY <1>5 DEF Crash, Doc
  <2>4. {sleeper.doc : sleeper \in backoff[w]} \subseteq lost'
    BY <1>5 DEF Crash
  <2>5. Disrupted'
    BY <1>5 DEF Crash, Disrupted, TypeOK
  <2> HIDE DEF gone
  <2> QED
    BY <1>5, <2>2, <2>3, <2>4, <2>5, <1>3 DEF Crash
<1>6. CASE Restart(w)
  <2>1. \A t \in Slots : /\ pc[t] \in Busy <=> pc'[t] \in Busy
                         /\ job'[t] = job[t]
    BY <1>6 DEF Restart, DownIsIdle, SlotsOf, TypeOK, Busy
  <2>2. HeldJobs' = HeldJobs
    BY <2>1 DEF HeldJobs
  <2>3. UNCHANGED <<QueuedJobs, SleepingJobs, ParkedJobs>>
    BY <1>6 DEF Restart, storeVars, QueuedJobs, SleepingJobs, ParkedJobs
  <2> QED
    BY <2>2, <2>3, SameJobsFlow DEF AllJobs, LiveJobs
<1>7. CASE RequestStop(w)
  <2>1. UNCHANGED <<QueuedJobs, HeldJobs, SleepingJobs, ParkedJobs>>
    BY <1>7 DEF RequestStop, storeVars, QueuedJobs, HeldJobs, SleepingJobs, ParkedJobs
  <2> QED
    BY <2>1, SameJobsFlow DEF AllJobs, LiveJobs
<1> QED
  BY <1>1, <1>2, <1>4, <1>5, <1>6, <1>7 DEF ProcessStep, ProcessFault

LEMMA FlowEnvironment == IInv /\ EnvironmentNext => Flow
<1> USE DEF IInv, workerVars
<1>1. ASSUME IInv, NEW u \in Uploads, Corrupt(u), UNCHANGED <<req, workerVars>>
      PROVE  Flow
  <2>1. UNCHANGED <<QueuedJobs, HeldJobs, SleepingJobs, ParkedJobs>>
    BY <1>1 DEF Corrupt, QueuedJobs, HeldJobs, SleepingJobs, ParkedJobs
  <2> QED
    BY <2>1, SameJobsFlow DEF AllJobs, LiveJobs
<1>2. ASSUME IInv, NEW letter \in dlq, Replay(letter), UNCHANGED <<req, workerVars>>
      PROVE  Flow
  <2> DEFINE copied == [letter EXCEPT !.copy = replays + 1]
  <2>1. letter \in IntakeJob /\ letter \in AllJobs
    BY <1>2, JobsTyped DEF Replay, AllJobs, ParkedJobs
  <2>2. replays + 1 \in 0..MaxReplays
    BY <1>2, StoreAssumption DEF Replay, TypeOK
  <2>3. /\ copied \in Payloads
        /\ copied.doc = letter.doc
        /\ copied.attempt = letter.attempt
        /\ copied.copy = replays + 1
    BY <2>1, <2>2 DEF IntakeJob, Payloads
  <2>4. copied.attempt \in 1..Budget /\ blob[copied.doc] # "absent"
    BY <1>2, <2>1, <2>3 DEF Budgeted, JobHasBlob, AllJobs
  <2> HIDE DEF copied
  <2>5. QueuedJobs' = QueuedJobs \union ({copied} \ {Poison})
    BY <1>2, <2>3, QueueAppend DEF Replay, copied
  <2>6. UNCHANGED <<HeldJobs, SleepingJobs, ParkedJobs>>
    BY <1>2 DEF Replay, HeldJobs, SleepingJobs, ParkedJobs
  <2>7. Source(copied)
    BY <1>2, <2>3 DEF Source, Replay, ParkedJobs
  <2> QED
    BY <2>1, <2>3, <2>4, <2>5, <2>6, <2>7 DEF Flow, AllJobs, LiveJobs
<1> QED
  BY <1>1, <1>2 DEF EnvironmentNext

LEMMA FlowNext == IInv /\ [Next]_vars => Flow
<1> SUFFICES ASSUME IInv, [Next]_vars PROVE Flow
  OBVIOUS
<1>1. CASE UNCHANGED vars
  <2>1. UNCHANGED <<QueuedJobs, HeldJobs, SleepingJobs, ParkedJobs>>
    BY <1>1 DEF vars, storeVars, workerVars, QueuedJobs, HeldJobs, SleepingJobs, ParkedJobs
  <2> QED
    BY <2>1, SameJobsFlow DEF AllJobs, LiveJobs
<1>2. CASE WorkerNext
  BY <1>2, FlowSlot, FlowProcess DEF WorkerNext
<1> QED
  BY <1>1, <1>2, FlowApi, FlowEnvironment DEF Next
=============================================================================
