------------------------- MODULE PipelineOrderProofs -------------------------
(***************************************************************************)
(* A copy of a job is in one place at a time, however often letters are    *)
(* replayed, and the work on a document stays within its budget.  Up to    *)
(* the second replay a document has one live job, so the slot that works   *)
(* on it is alone and commits along the published transition table; after  *)
(* it, commits follow the table from statuses that are still unfinished in *)
(* the slot's session.                                                     *)
(***************************************************************************)
EXTENDS PipelineSafetyProofs, FiniteSetTheorems

LEMMA OrderInit == Init => OrderInv
<1> SUFFICES ASSUME Init PROVE OrderInv
  OBVIOUS
<1>1. queue = << >> \/ queue = <<Poison>>
  BY DEF Init, StoreInit
<1>2. QueuedJobs = {} /\ QueueSole
  BY <1>1 DEF QueuedJobs, QueueSole
<1>3. HeldJobs = {} /\ SleepingJobs = {} /\ ParkedJobs = {}
  BY DEF Init, StoreInit, WorkerInit, HeldJobs, SleepingJobs, ParkedJobs, Busy
<1> QED
  BY <1>2, <1>3 DEF Init, WorkerInit, OrderInv, CopyInv, Sole, SlotSole, SleepSole,
     PlacesApart, Apart, JobsFollowRequests, LettersExhausted, SessionIsCurrent, AllJobs,
     LiveJobs, Busy

-----------------------------------------------------------------------------
(* Jobs that only disappear, or stay, keep their places apart. *)
LEMMA SoleShrinks ==
  ASSUME TypeOK, Sole,
         queue' = queue \/ (queue # << >> /\ queue' = Tail(queue)),
         \A s \in Slots : pc'[s] \in Busy => pc[s] \in Busy /\ job'[s] = job[s],
         \A w \in Workers : backoff'[w] \subseteq backoff[w],
         ParkedJobs' \subseteq ParkedJobs
  PROVE  Sole'
<1>1. QueueSole'
  <2>1. CASE queue' = queue
    BY <2>1 DEF Sole, QueueSole
  <2>2. CASE queue # << >> /\ queue' = Tail(queue)
    <3>1. /\ Len(queue) \in Nat
          /\ Len(queue') = Len(queue) - 1
          /\ \A i \in 1..Len(queue') : queue'[i] = queue[i + 1] /\ i + 1 \in 1..Len(queue)
      BY <2>2, HeadTailProperties DEF TypeOK
    <3> QED
      BY <3>1 DEF Sole, QueueSole
  <2> QED
    BY <2>1, <2>2
<1>2. SlotSole'
  BY DEF Sole, SlotSole, Doc
<1>3. SleepSole'
  BY DEF Sole, SleepSole
<1>4. QueuedJobs' \subseteq QueuedJobs
  BY QueueTail DEF QueuedJobs
<1>5. HeldJobs' \subseteq HeldJobs
  BY DEF HeldJobs
<1>6. SleepingJobs' \subseteq SleepingJobs
  BY DEF SleepingJobs
<1> QED
  BY <1>1, <1>2, <1>3, <1>4, <1>5, <1>6 DEF Sole, PlacesApart, Apart

LEMMA SoleStays ==
  ASSUME TypeOK, Sole, UNCHANGED <<queue, dlq, backoff, pc, job>>
  PROVE  Sole'
  BY SoleShrinks DEF ParkedJobs

(* A job that joins the queue must be the only one of its copy. *)
LEMMA SoleAppend ==
  ASSUME TypeOK, Sole, NEW m \in IntakeJob, queue' = Append(queue, m),
         \A j \in QueuedJobs : ~SameCopy(j, m),
         Apart({m}, HeldJobs'), Apart({m}, SleepingJobs'), Apart({m}, ParkedJobs'),
         HeldJobs' = HeldJobs, UNCHANGED <<pc, job, dlq>>,
         \A w \in Workers : backoff'[w] \subseteq backoff[w]
  PROVE  Sole'
<1>1. /\ Len(queue') = Len(queue) + 1
      /\ \A i \in 1..Len(queue') : queue'[i] = IF i <= Len(queue) THEN queue[i] ELSE m
      /\ Len(queue) \in Nat
  BY DEF TypeOK, Payloads
<1>2. m # Poison /\ m.doc # NoUpload /\ Poison.doc = NoUpload
  BY StoreAssumption DEF IntakeJob, Poison
<1>3. \A i \in 1..Len(queue) : ~SameCopy(queue[i], m) /\ ~SameCopy(m, queue[i])
  BY <1>2 DEF QueuedJobs, SameCopy
<1>4. QueueSole'
  BY <1>1, <1>3 DEF Sole, QueueSole
<1>5. QueuedJobs' = QueuedJobs \union {m}
  BY <1>2, QueueAppend DEF Payloads
<1>6. SleepingJobs' \subseteq SleepingJobs /\ ParkedJobs' = ParkedJobs
  BY DEF SleepingJobs, ParkedJobs
<1>7. SlotSole' /\ SleepSole'
  BY DEF Sole, SlotSole, SleepSole, Doc
<1> QED
  BY <1>4, <1>5, <1>6, <1>7 DEF Sole, PlacesApart, Apart

(* The head of the queue moves to the slot that popped it. *)
LEMMA SolePop ==
  ASSUME IInv, Sole, NEW s \in Slots, Pop(s)
  PROVE  Sole'
<1> USE DEF IInv
<1>1. /\ Len(queue) \in Nat \ {0}
      /\ Len(queue') = Len(queue) - 1
      /\ \A i \in 1..Len(queue') : queue'[i] = queue[i + 1] /\ i + 1 \in 1..Len(queue)
      /\ Head(queue) = queue[1] /\ Head(queue) \in Payloads
  BY HeadTailProperties DEF Pop, TypeOK
<1>2. /\ QueuedJobs' \subseteq QueuedJobs
      /\ Head(queue) # Poison => Head(queue) \in QueuedJobs
  BY QueueTail DEF Pop
<1>3. Head(queue) # Poison => \A j \in QueuedJobs' : ~SameCopy(j, Head(queue))
  BY <1>1 DEF QueuedJobs, Sole, QueueSole, SameCopy
<1>4. QueueSole'
  BY <1>1 DEF Sole, QueueSole
<1>5. UNCHANGED <<SleepingJobs, ParkedJobs>> /\ SleepSole'
  BY DEF Pop, SleepingJobs, ParkedJobs, Sole, SleepSole
<1>6. /\ \A t \in Slots : t # s => pc'[t] = pc[t] /\ job'[t] = job[t]
      /\ pc[s] = "polling" /\ job'[s] = Head(queue)
      /\ pc'[s] \in Busy <=> Head(queue) # Poison
  BY PopJobs DEF Pop, At, TypeOK, Busy
<1>7. HeldJobs' \subseteq HeldJobs \union (IF Head(queue) = Poison THEN {} ELSE {Head(queue)})
  BY <1>6 DEF HeldJobs
<1>8. \A t \in Slots : pc[t] \in Busy => job[t] \in HeldJobs
  BY DEF HeldJobs
<1>9. SlotSole'
  BY <1>2, <1>6, <1>8 DEF Sole, SlotSole, PlacesApart, Apart, SameCopy
<1> QED
  BY <1>2, <1>3, <1>4, <1>5, <1>7, <1>9 DEF Sole, PlacesApart, Apart, SameCopy

(* A failed job moves to its process's backoff tasks or to the dead letters. *)
LEMMA SoleRetry ==
  ASSUME IInv, Sole, NEW s \in Slots, ScheduleRetry(s)
  PROVE  Sole'
<1> USE DEF IInv
<1> DEFINE retried == [job[s] EXCEPT !.attempt = @ + 1]
<1>1. job[s] \in IntakeJob /\ job[s] \in HeldJobs
  BY DEF ScheduleRetry, TypeOK, Busy, HeldJobs
<1>2. retried.doc = job[s].doc /\ retried.copy = job[s].copy
  BY <1>1 DEF IntakeJob
<1>3. SleepingJobs' = SleepingJobs \union {retried}
  BY WorkerAssumption DEF ScheduleRetry, TypeOK, SleepingJobs
<1>4. backoff' = [backoff EXCEPT ![Home[s]] = @ \union {retried}]
  BY DEF ScheduleRetry
<1>5. \A w \in Workers : \A b \in backoff[w] : b \in SleepingJobs
  BY DEF SleepingJobs
<1> HIDE DEF retried
<1>6. \A w \in Workers : \A b \in backoff[w] : ~SameCopy(b, retried) /\ ~SameCopy(retried, b)
  BY <1>1, <1>2, <1>5 DEF Sole, PlacesApart, Apart, SameCopy
<1>7. SleepSole'
  BY <1>4, <1>6, WorkerAssumption DEF Sole, SleepSole, TypeOK
<1>8. /\ \A t \in Slots : t # s => pc'[t] = pc[t] /\ job'[t] = job[t]
      /\ pc'[s] \notin Busy /\ pc[s] \in Busy
  BY DEF ScheduleRetry, Release, Idle, TypeOK, Busy
<1>9. SlotSole'
  BY <1>8 DEF Sole, SlotSole
<1>10. HeldJobs' \subseteq HeldJobs /\ \A j \in HeldJobs' : ~SameCopy(j, job[s])
  BY <1>8 DEF HeldJobs, Sole, SlotSole
<1>11. UNCHANGED <<QueuedJobs, ParkedJobs>> /\ QueueSole'
  BY DEF ScheduleRetry, storeVars, QueuedJobs, ParkedJobs, Sole, QueueSole
<1> QED
  <2>1. \A j : SameCopy(retried, j) <=> SameCopy(job[s], j)
    BY <1>2 DEF SameCopy
  <2>2. \A j : SameCopy(j, retried) <=> SameCopy(j, job[s])
    BY <1>2 DEF SameCopy
  <2>3. Apart(QueuedJobs, HeldJobs) /\ Apart(QueuedJobs, SleepingJobs)
        /\ Apart(QueuedJobs, ParkedJobs) /\ Apart(HeldJobs, SleepingJobs)
        /\ Apart(HeldJobs, ParkedJobs) /\ Apart(SleepingJobs, ParkedJobs)
    BY DEF Sole, PlacesApart
  <2>4. PlacesApart'
    BY <1>1, <1>3, <1>10, <1>11, <2>1, <2>2, <2>3 DEF PlacesApart, Apart
  <2> QED
    BY <1>7, <1>9, <1>11, <2>4 DEF Sole

LEMMA SolePark ==
  ASSUME IInv, Sole, NEW s \in Slots, Park(s)
  PROVE  Sole'
<1> USE DEF IInv
<1>1. job[s] \in HeldJobs
  BY DEF Park, Busy, HeldJobs
<1>2. ParkedJobs' \subseteq ParkedJobs \union {job[s]}
  BY DEF Park, ParkedJobs
<1>3. /\ \A t \in Slots : t # s => pc'[t] = pc[t] /\ job'[t] = job[t]
      /\ pc'[s] \notin Busy /\ pc[s] \in Busy
  BY DEF Park, Release, Idle, TypeOK, Busy
<1>4. SlotSole'
  BY <1>3 DEF Sole, SlotSole
<1>5. HeldJobs' \subseteq HeldJobs /\ \A j \in HeldJobs' : ~SameCopy(j, job[s])
  BY <1>3 DEF HeldJobs, Sole, SlotSole
<1>6. UNCHANGED <<QueuedJobs, SleepingJobs>> /\ QueueSole' /\ SleepSole'
  BY DEF Park, QueuedJobs, SleepingJobs, Sole, QueueSole, SleepSole
<1>7. PlacesApart'
  BY <1>1, <1>2, <1>5, <1>6 DEF Sole, PlacesApart, Apart, SameCopy
<1> QED
  BY <1>4, <1>6, <1>7 DEF Sole

LEMMA SoleRequeue ==
  ASSUME IInv, Sole, NEW w \in Workers, NEW sleeper \in backoff[w], Requeue(w, sleeper)
  PROVE  Sole'
<1> USE DEF IInv
<1>1. sleeper \in IntakeJob /\ sleeper \in SleepingJobs
  BY DEF TypeOK, SleepingJobs
<1>2. UNCHANGED <<HeldJobs, ParkedJobs>> /\ HeldJobs' = HeldJobs
  BY DEF Requeue, HeldJobs, ParkedJobs
<1>3. \A v \in Workers : backoff'[v] \subseteq backoff[v]
  BY DEF Requeue, TypeOK
<1>4. \A v \in Workers : \A b \in backoff'[v] : ~SameCopy(sleeper, b)
  BY DEF Requeue, TypeOK, Sole, SleepSole
<1>5. Apart({sleeper}, SleepingJobs')
  BY <1>4 DEF Apart, SleepingJobs
<1>6. Apart({sleeper}, HeldJobs') /\ Apart({sleeper}, ParkedJobs')
      /\ \A j \in QueuedJobs : ~SameCopy(j, sleeper)
  BY <1>1, <1>2 DEF Sole, PlacesApart, Apart, SameCopy
<1> QED
  BY <1>1, <1>2, <1>3, <1>5, <1>6, SoleAppend DEF Requeue

LEMMA SoleEnqueue ==
  ASSUME IInv, CopyInv, NEW u \in Uploads, Enqueue(u) \/ EnqueueReplyLost(u),
         UNCHANGED workerVars
  PROVE  Sole'
<1>1. NewJob(u) \in IntakeJob /\ NewJob(u).doc = u
  BY StoreAssumption DEF NewJob, IntakeJob
<1>2. \A j \in AllJobs : j.doc # u
  BY DEF Enqueue, EnqueueReplyLost, CopyInv, JobsFollowRequests
<1>3. UNCHANGED <<HeldJobs, SleepingJobs, ParkedJobs>>
  BY DEF Enqueue, EnqueueReplyLost, workerVars, HeldJobs, SleepingJobs, ParkedJobs
<1>4. /\ queue' = Append(queue, NewJob(u))
      /\ \A j \in QueuedJobs : ~SameCopy(j, NewJob(u))
      /\ Apart({NewJob(u)}, HeldJobs')
      /\ Apart({NewJob(u)}, SleepingJobs')
      /\ Apart({NewJob(u)}, ParkedJobs')
      /\ UNCHANGED <<pc, job, dlq, backoff>>
  BY <1>1, <1>2, <1>3 DEF Enqueue, EnqueueReplyLost, workerVars, Apart, AllJobs, LiveJobs,
     SameCopy
<1> QED
  BY <1>1, <1>3, <1>4, SoleAppend DEF IInv, CopyInv

(* The copy a replay makes is numbered past every copy there is. *)
LEMMA SoleReplay ==
  ASSUME IInv, CopyInv, NEW letter \in dlq, Replay(letter), UNCHANGED workerVars
  PROVE  Sole'
<1> DEFINE copied == [letter EXCEPT !.copy = replays + 1]
<1>1. letter \in IntakeJob
  BY JobsTyped DEF Replay, ParkedJobs, IInv
<1>2. replays \in Nat /\ replays + 1 \in 0..MaxReplays
  BY StoreAssumption DEF Replay, IInv, TypeOK
<1>3. copied \in IntakeJob /\ copied.copy = replays + 1
  BY <1>1, <1>2 DEF IntakeJob
<1>4. queue' = Append(queue, copied)
  BY DEF Replay
<1> HIDE DEF copied
<1>5. \A j \in AllJobs : j.copy <= replays /\ j.copy \in Nat
  BY StoreAssumption, JobsTyped DEF CopyInv, JobsFollowRequests, IInv, IntakeJob
<1>6. \A j \in AllJobs : ~SameCopy(j, copied) /\ ~SameCopy(copied, j)
  BY <1>2, <1>3, <1>5 DEF SameCopy
<1>7. UNCHANGED <<HeldJobs, SleepingJobs, ParkedJobs>>
  BY DEF Replay, workerVars, HeldJobs, SleepingJobs, ParkedJobs
<1>8. /\ \A j \in QueuedJobs : ~SameCopy(j, copied)
      /\ Apart({copied}, HeldJobs')
      /\ Apart({copied}, SleepingJobs')
      /\ Apart({copied}, ParkedJobs')
  BY <1>6, <1>7 DEF Apart, AllJobs, LiveJobs
<1> QED
  BY <1>3, <1>4, <1>7, <1>8, SoleAppend DEF IInv, CopyInv, Replay, workerVars

LEMMA SoleNext == IInv /\ CopyInv /\ [Next]_vars => Sole'
<1> SUFFICES ASSUME IInv, CopyInv, [Next]_vars PROVE Sole'
  OBVIOUS
<1>1. TypeOK /\ Sole
  BY DEF IInv, CopyInv
<1>2. CASE UNCHANGED <<queue, dlq, backoff, pc, job>>
  BY <1>1, <1>2, SoleStays
<1>3. CASE ApiNext
  <2>1. PICK u \in Uploads : (RequestStep(u) \/ RequestFault(u)) /\ UNCHANGED workerVars
    BY <1>3 DEF ApiNext
  <2>2. CASE Enqueue(u) \/ EnqueueReplyLost(u)
    BY <2>1, <2>2, SoleEnqueue
  <2>3. CASE ~(Enqueue(u) \/ EnqueueReplyLost(u))
    BY <1>2, <2>1, <2>3 DEF RequestStep, RequestFault, RefuseAtGate, CheckDuplicate,
       PutBlob, InsertRow, CommitUpload, RollBack, storeVars, workerVars
  <2> QED
    BY <2>2, <2>3
<1>4. ASSUME NEW s \in Slots, Pop(s) \/ StopPolling(s) \/ SlotStep(s) \/ SlotFault(s)
      PROVE  Sole'
  <2>1. CASE Pop(s)
    BY <1>1, <2>1, SolePop
  <2>2. CASE ScheduleRetry(s)
    BY <1>1, <2>2, SoleRetry
  <2>3. CASE Park(s)
    BY <1>1, <2>3, SolePark
  <2>4. CASE PopReplyLost(s)
    BY <1>1, <2>4, SoleShrinks DEF PopReplyLost, workerVars, ParkedJobs
  <2>5. CASE Release(s) /\ UNCHANGED <<queue, backoff>> /\ ParkedJobs' \subseteq ParkedJobs
    <3>1. \A t \in Slots : pc'[t] \in Busy => pc[t] \in Busy /\ job'[t] = job[t]
      BY <1>1, <2>5 DEF Release, Idle, TypeOK, Busy
    <3> QED
      BY <1>1, <2>5, <3>1, SoleShrinks
  <2>6. CASE /\ UNCHANGED <<job, queue, backoff, dlq>>
             /\ \/ StopPolling(s)
                \/ pc[s] \in Busy /\ \E state \in Busy : At(s, state)
    <3>1. \A t \in Slots : pc'[t] \in Busy => pc[t] \in Busy
      BY <1>1, <2>6 DEF StopPolling, At, TypeOK, Busy
    <3> QED
      BY <1>1, <2>6, <3>1, SoleShrinks DEF ParkedJobs
  <2>7. CASE ParkPoison(s)
    <3>1. job[s] = Poison
      BY <2>7 DEF ParkPoison, IInv, SlotsHoldRows
    <3> QED
      BY <2>5, <2>7, <3>1 DEF ParkPoison, ParkedJobs
  <2>8. CASE Terminate(s, "FAILED", "PROCESSING_FAILED") /\ pc[s] \in Busy
    BY <2>5, <2>6, <2>8 DEF Terminate, storeVars, ParkedJobs, Busy
  <2>9. CASE Terminate(s, "QUARANTINED", "DOCUMENT_QUARANTINED") /\ pc[s] \in Busy
    BY <2>5, <2>6, <2>9 DEF Terminate, storeVars, ParkedJobs, Busy
  <2> QED
    BY <1>4, <2>1, <2>2, <2>3, <2>4, <2>5, <2>6, <2>7, <2>8, <2>9 DEF SlotStep, SlotFault,
       DropMissing, SkipFinished, Load, Verify, FailIntegrity, StartExtraction,
       RejectedByOcr, CommitVerdict, UniqueViolation, OcrFails, InfraFails,
       ParkSuppressed, StopPolling, storeVars, ParkedJobs, Busy
<1>5. ASSUME NEW w \in Workers, ProcessStep(w) \/ ProcessFault(w)
      PROVE  Sole'
  <2>1. CASE \E sleeper \in backoff[w] : Requeue(w, sleeper)
    BY <1>1, <2>1, SoleRequeue
  <2>2. CASE ~\E sleeper \in backoff[w] : Requeue(w, sleeper)
    <3>1. \A v \in Workers : backoff'[v] \subseteq backoff[v]
      BY <1>1, <1>5, <2>2 DEF ProcessStep, ProcessFault, RequeueSuppressed, Exit, Restart,
         RequestStop, Crash, TypeOK
    <3>2. \A s \in Slots : pc'[s] \in Busy => pc[s] \in Busy /\ job'[s] = job[s]
      BY <1>1, <1>5, <2>2 DEF ProcessStep, ProcessFault, RequeueSuppressed, Exit, Restart,
         RequestStop, Crash, TypeOK, Busy
    <3>3. UNCHANGED <<queue, dlq>>
      BY <1>5, <2>2 DEF ProcessStep, ProcessFault, RequeueSuppressed, Exit, Restart,
         RequestStop, Crash, storeVars
    <3> QED
      BY <1>1, <3>1, <3>2, <3>3, SoleShrinks DEF ParkedJobs
  <2> QED
    BY <2>1, <2>2
<1>6. CASE EnvironmentNext
  BY <1>2, <1>6, SoleReplay DEF EnvironmentNext, Corrupt, workerVars
<1> QED
  BY <1>2, <1>3, <1>4, <1>5, <1>6 DEF Next, WorkerNext, vars, storeVars, workerVars

-----------------------------------------------------------------------------
(* Letters are only ever added, each by the slot that held it. *)
LEMMA ParkedSteps ==
  ASSUME IInv, [Next]_vars
  PROVE  \/ ParkedJobs' = ParkedJobs
         \/ \E s \in Slots : Park(s) /\ ParkedJobs' = ParkedJobs \union {job[s]}
<1>1. CASE dlq' = dlq
  BY <1>1 DEF ParkedJobs
<1>2. ASSUME NEW s \in Slots, ParkPoison(s)
      PROVE  ParkedJobs' = ParkedJobs
  BY <1>2 DEF ParkPoison, IInv, SlotsHoldRows, ParkedJobs
<1>3. ASSUME NEW s \in Slots, Park(s)
      PROVE  ParkedJobs' = ParkedJobs \union {job[s]}
  <2>1. job[s] # Poison
    BY <1>3, StoreAssumption DEF Park, IInv, TypeOK, Busy, IntakeJob, Poison
  <2> QED
    BY <1>3, <2>1 DEF Park, ParkedJobs
<1>4. CASE ApiNext
  BY <1>1, <1>4 DEF ApiNext, RequestStep, RequestFault, RefuseAtGate, CheckDuplicate,
     PutBlob, InsertRow, Enqueue, CommitUpload, EnqueueReplyLost, RollBack, storeVars
<1>5. ASSUME NEW s \in Slots, Pop(s) \/ StopPolling(s) \/ SlotStep(s) \/ SlotFault(s)
      PROVE  dlq' = dlq \/ ParkPoison(s) \/ Park(s)
  BY <1>5 DEF Pop, StopPolling, SlotStep, SlotFault, DropMissing, SkipFinished, Load,
     Verify, FailIntegrity, StartExtraction, RejectedByOcr, CommitVerdict,
     UniqueViolation, OcrFails, ScheduleRetry, PopReplyLost, InfraFails, ParkSuppressed,
     Terminate, storeVars
<1>6. ASSUME NEW w \in Workers, ProcessStep(w) \/ ProcessFault(w)
      PROVE  dlq' = dlq
  BY <1>6 DEF ProcessStep, ProcessFault, Requeue, RequeueSuppressed, Exit, Restart,
     RequestStop, Crash, storeVars
<1>7. CASE EnvironmentNext
  BY <1>1, <1>7 DEF EnvironmentNext, Corrupt, Replay
<1>8. CASE UNCHANGED vars
  BY <1>1, <1>8 DEF vars, storeVars
<1> QED
  BY <1>1, <1>2, <1>3, <1>4, <1>5, <1>6, <1>7, <1>8 DEF Next, WorkerNext

(* The operator's counter only counts up, and a replay touches no row. *)
LEMMA ReplaysGrow ==
  ASSUME IInv, [Next]_vars
  PROVE  /\ replays \in Nat /\ replays' \in Nat /\ replays <= replays'
         /\ replays' # replays => status' = status
<1>1. replays \in 0..MaxReplays /\ replays' \in 0..MaxReplays
  BY TypeNext DEF IInv, TypeOK
<1>2. replays' = replays \/ (replays' = replays + 1 /\ status' = status)
  <2>1. CASE ApiNext
    BY <2>1 DEF ApiNext, RequestStep, RequestFault, RefuseAtGate, CheckDuplicate,
       PutBlob, InsertRow, Enqueue, CommitUpload, EnqueueReplyLost, RollBack, storeVars
  <2>2. CASE WorkerNext
    BY <2>2 DEF WorkerNext, Pop, StopPolling, SlotStep, SlotFault, ParkPoison,
       DropMissing, SkipFinished, Load, Verify, FailIntegrity, StartExtraction,
       RejectedByOcr, CommitVerdict, UniqueViolation, OcrFails, ScheduleRetry, Park,
       PopReplyLost, InfraFails, ParkSuppressed, Terminate, ProcessStep, ProcessFault,
       Requeue, RequeueSuppressed, Exit, Restart, RequestStop, Crash, storeVars
  <2>3. CASE EnvironmentNext
    BY <2>3 DEF EnvironmentNext, Corrupt, Replay
  <2> QED
    BY <2>1, <2>2, <2>3 DEF Next, vars, storeVars
<1> QED
  BY <1>1, <1>2, StoreAssumption

LEMMA RequestsStep == IInv /\ CopyInv /\ [Next]_vars => JobsFollowRequests'
<1> DEFINE Parked0(u) == \E letter \in ParkedJobs' : letter.doc = u /\ letter.copy = 0
           Asked(u) == req'[u] \in {"enqueued", "accepted", "errored"}
<1> SUFFICES ASSUME IInv, CopyInv, [Next]_vars, NEW j \in AllJobs'
             PROVE  Asked(j.doc) /\ j.copy <= replays' /\ (j.copy # 0 => Parked0(j.doc))
  BY DEF JobsFollowRequests
<1>1. \A u \in Uploads : req[u] \in {"enqueued", "accepted", "errored"} => Asked(u)
  <2>1. CASE req' = req
    BY <2>1
  <2>2. CASE \E v \in Uploads : RequestStep(v) \/ RequestFault(v)
    BY <2>2 DEF RequestStep, RequestFault, RefuseAtGate, CheckDuplicate, PutBlob,
       InsertRow, Enqueue, CommitUpload, EnqueueReplyLost, RollBack, Goto, IInv, TypeOK
  <2> QED
    BY <2>1, <2>2, RequestSteps
<1>2. replays \in Nat /\ replays' \in Nat /\ replays <= replays'
  BY ReplaysGrow
<1>3. ParkedJobs \subseteq ParkedJobs'
  BY ParkedSteps
<1>4. ASSUME NEW k \in AllJobs
      PROVE  Asked(k.doc) /\ k.copy <= replays' /\ (k.copy # 0 => Parked0(k.doc))
  <2>1. k.doc \in Uploads /\ k.copy \in Nat
    BY JobsTyped, StoreAssumption DEF IInv, IntakeJob
  <2>2. /\ req[k.doc] \in {"enqueued", "accepted", "errored"}
        /\ k.copy <= replays
        /\ k.copy # 0 => \E letter \in ParkedJobs : letter.doc = k.doc /\ letter.copy = 0
    BY DEF CopyInv, JobsFollowRequests
  <2>3. k.copy <= replays'
    BY <1>2, <2>1, <2>2
  <2>4. k.copy # 0 => Parked0(k.doc)
    BY <1>3, <2>2
  <2> QED
    BY <1>1, <2>1, <2>2, <2>3, <2>4
<1> HIDE DEF Asked
<1>5. ASSUME NEW k \in AllJobs, SameCopy(k, j)
      PROVE  Asked(j.doc) /\ j.copy <= replays' /\ (j.copy # 0 => Parked0(j.doc))
  <2>1. k.doc = j.doc /\ k.copy = j.copy
    BY <1>5 DEF SameCopy
  <2> HIDE DEF Parked0
  <2> QED
    BY <1>4, <2>1
<1>6. CASE j.copy = 0 /\ req'[j.doc] \in {"enqueued", "errored"}
  BY <1>2, <1>6 DEF Asked
<1>7. ASSUME j.copy = replays + 1, replays' = replays + 1,
             NEW letter \in ParkedJobs, letter.doc = j.doc
      PROVE  Asked(j.doc) /\ j.copy <= replays' /\ (j.copy # 0 => Parked0(j.doc))
  <2>1. letter \in AllJobs
    BY DEF AllJobs
  <2>2. Asked(letter.doc) /\ (letter.copy # 0 => Parked0(letter.doc))
    BY <1>4, <2>1
  <2>3. letter.copy = 0 => Parked0(letter.doc)
    BY <1>3
  <2> HIDE DEF Parked0
  <2> QED
    BY <1>2, <1>7, <2>2, <2>3
<1>8. j \in AllJobs \/ Source(j)
  BY FlowNext DEF Flow
<1> QED
  BY <1>5, <1>6, <1>7, <1>8 DEF Source, SameCopy

LEMMA LettersStep == IInv /\ CopyInv /\ [Next]_vars => LettersExhausted'
<1> SUFFICES ASSUME IInv, CopyInv, [Next]_vars, NEW letter \in ParkedJobs'
             PROVE  letter.attempt = Budget
  BY DEF LettersExhausted, Budget
<1>1. CASE letter \in ParkedJobs
  BY <1>1 DEF CopyInv, LettersExhausted
<1>2. ASSUME NEW s \in Slots, Park(s), letter = job[s]
      PROVE  letter.attempt = Budget
  <2>1. job[s] \in AllJobs
    BY <1>2 DEF Park, AllJobs, LiveJobs, HeldJobs, Busy
  <2>2. letter.attempt \in 1..Budget /\ letter.attempt >= MaxRetries
    BY <1>2, <2>1 DEF IInv, Budgeted, Park, Exhausted
  <2> QED
    BY <2>2, WorkerAssumption, StoreAssumption DEF Budget
<1> QED
  BY <1>1, <1>2, ParkedSteps

LEMMA CopyNext == IInv /\ CopyInv /\ [Next]_vars => CopyInv'
  BY SoleNext, RequestsStep, LettersStep DEF CopyInv

(* A copy of a job, the one intake wrote or one the operator made, is in one
   place at a time through every retry, crash and replay, and a letter on the
   dead-letter list has used its budget up. *)
THEOREM CopyInductive == Spec => []CopyInv
<1>1. Init => CopyInv
  BY OrderInit DEF OrderInv
<1>2. IInv /\ CopyInv /\ [Next]_vars => CopyInv'
  BY CopyNext
<1> QED
  BY <1>1, <1>2, Inductive, PTL DEF Spec

-----------------------------------------------------------------------------
(* The first replay is of an original that stays on the dead-letter list, so up
   to the second one the live jobs of a document are of one copy. *)
LEMMA OneCopy ==
  ASSUME IInv, CopyInv, replays <= 1, NEW a \in LiveJobs, NEW b \in LiveJobs, a.doc = b.doc
  PROVE  SameCopy(a, b)
<1>1. /\ a \in AllJobs /\ b \in AllJobs
      /\ a.copy \in Nat /\ b.copy \in Nat /\ replays \in Nat
  BY JobsTyped, StoreAssumption DEF AllJobs, IInv, TypeOK, IntakeJob
<1>2. a.copy <= 1 /\ b.copy <= 1
  BY <1>1 DEF CopyInv, JobsFollowRequests
<1>3. ASSUME NEW j \in LiveJobs, NEW letter \in ParkedJobs PROVE ~SameCopy(letter, j)
  BY <1>3 DEF LiveJobs, CopyInv, Sole, PlacesApart, Apart, SameCopy
<1>4. ASSUME NEW j \in LiveJobs, NEW k \in AllJobs, k.doc = j.doc, j.copy = 0
      PROVE  k.copy = 0
  BY <1>3, <1>4 DEF CopyInv, JobsFollowRequests, SameCopy
<1>5. (a.copy = 0 /\ b.copy = 0) \/ (a.copy = 1 /\ b.copy = 1)
  BY <1>1, <1>2, <1>4
<1> QED
  BY <1>5 DEF SameCopy

LEMMA SlotAlone ==
  ASSUME IInv, CopyInv, replays <= 1, NEW s \in Slots, NEW t \in Slots,
         pc[s] \in Busy, pc[t] \in Busy, Doc(s) = Doc(t)
  PROVE  s = t
<1>1. job[s] \in LiveJobs /\ job[t] \in LiveJobs
  BY DEF LiveJobs, HeldJobs
<1> QED
  BY <1>1, OneCopy DEF Doc, CopyInv, Sole, SlotSole

(* Only the slot that holds a document's job changes its committed row. *)
LEMMA RowOfSlot ==
  ASSUME IInv, OrderInv, replays <= 1, [Next]_vars, NEW s \in Slots, pc[s] \in Busy,
         status[Doc(s)] # "none", status'[Doc(s)] # status[Doc(s)]
  PROVE  \/ /\ pc[s] = "extracting" /\ pc'[s] \notin Busy
            /\ status'[Doc(s)] \in {"VALIDATED", "REVIEW_REQUIRED", "REJECTED", "FAILED"}
         \/ /\ pc[s] = "verified" /\ pc'[s] = "extracting" /\ job'[s] = job[s]
            /\ status'[Doc(s)] = "EXTRACTING"
<1>1. Doc(s) \in Uploads
  BY DEF IInv, TypeOK, Doc, IntakeJob
<1>2. req[Doc(s)] = "accepted"
  BY <1>1 DEF IInv, RowsFollowRequests
<1>3. RowStep(Doc(s))
  BY <1>1, RowSteps
<1> QED
  BY <1>2, <1>3, SlotAlone DEF RowStep, OrderInv, Busy

LEMMA SessionStep ==
  IInv /\ OrderInv /\ replays <= 1 /\ [Next]_vars => SessionIsCurrent'
<1> SUFFICES ASSUME IInv, OrderInv, replays <= 1, [Next]_vars, NEW s \in Slots,
                    pc'[s] \in {"loaded", "verified", "extracting"}
             PROVE  seen'[s] = status'[job'[s].doc]
  BY DEF SessionIsCurrent, Doc
<1> USE DEF IInv
<1>1. pc[s] \in Busy => Doc(s) \in Uploads
  BY DEF TypeOK, Doc, IntakeJob
<1>2. CASE pc'[s] = pc[s] /\ job'[s] = job[s] /\ seen'[s] = seen[s]
  <2>1. status[Doc(s)] # "none" /\ seen[s] = status[Doc(s)]
    BY <1>2 DEF SlotsHoldRows, OrderInv, SessionIsCurrent
  <2>2. status'[Doc(s)] = status[Doc(s)]
    BY <1>2, <2>1, RowOfSlot DEF Busy
  <2> QED
    BY <1>2, <2>1, <2>2 DEF Doc
<1>3. CASE Load(s)
  BY <1>3 DEF Load, storeVars, TypeOK, Doc
<1>4. CASE Verify(s)
  BY <1>4 DEF Verify, storeVars, TypeOK, Doc, OrderInv, SessionIsCurrent
<1>5. CASE StartExtraction(s)
  <2>1. seen[s] = status[Doc(s)] /\ Doc(s) \in Uploads
    BY <1>1, <1>5 DEF StartExtraction, OrderInv, SessionIsCurrent, Busy
  <2> QED
    BY <1>5, <2>1 DEF StartExtraction, StatusAfter, TypeOK, Doc
<1> QED
  BY <1>2, <1>3, <1>4, <1>5, SlotAdvance

LEMMA OrderNext == IInv /\ OrderInv /\ [Next]_vars => OrderInv'
<1> SUFFICES ASSUME IInv, OrderInv, [Next]_vars PROVE OrderInv'
  OBVIOUS
<1>1. replays' <= 1 => replays <= 1
  BY ReplaysGrow
<1> QED
  BY <1>1, CopyNext, SessionStep DEF OrderInv

(* Up to the second replay a slot's session holds the committed status: nobody
   writes a row from a stale read. *)
THEOREM OrderInductive == Spec => []OrderInv
<1>1. IInv /\ OrderInv /\ [Next]_vars => OrderInv'
  BY OrderNext
<1> QED
  BY <1>1, OrderInit, Inductive, PTL DEF Spec

-----------------------------------------------------------------------------
(* A step writes the status of at most one document. *)
LEMMA OneRowWritten ==
  ASSUME IInv, [Next]_vars, status' # status
  PROVE  \E u \in Uploads, t \in Statuses : status' = [status EXCEPT ![u] = t]
<1> DEFINE Written == \E u \in Uploads, t \in Statuses : status' = [status EXCEPT ![u] = t]
<1>1. CASE ApiNext
  BY <1>1 DEF ApiNext, RequestStep, RequestFault, RefuseAtGate, CheckDuplicate, PutBlob,
     InsertRow, Enqueue, CommitUpload, EnqueueReplyLost, RollBack, storeVars, Statuses
<1>2. ASSUME NEW s \in Slots, Pop(s) \/ StopPolling(s) \/ SlotStep(s) \/ SlotFault(s)
      PROVE  Written
  <2>1. pc[s] \in Busy => Doc(s) \in Uploads
    BY DEF IInv, TypeOK, Doc, IntakeJob
  <2>2. ASSUME NEW target \in Statuses, NEW entry, Terminate(s, target, entry),
               pc[s] \in Busy
        PROVE  Written
    BY <2>1, <2>2 DEF Terminate, StatusAfter, storeVars
  <2>3. CASE StartExtraction(s)
    BY <2>1, <2>3 DEF StartExtraction, StatusAfter, Statuses, Busy
  <2>4. CASE CommitVerdict(s)
    BY <2>1, <2>4 DEF CommitVerdict, Verdicts, Statuses, Busy
  <2>5. CASE FailIntegrity(s)
    BY <2>2, <2>5 DEF FailIntegrity, Statuses, Busy
  <2>6. CASE RejectedByOcr(s)
    BY <2>2, <2>6 DEF RejectedByOcr, Statuses, Busy
  <2> QED
    BY <1>2, <2>3, <2>4, <2>5, <2>6 DEF SlotStep, SlotFault, Pop, StopPolling,
       ParkPoison, DropMissing, SkipFinished, Load, Verify, UniqueViolation, OcrFails,
       ScheduleRetry, Park, PopReplyLost, InfraFails, ParkSuppressed, storeVars
<1>3. ASSUME NEW w \in Workers, ProcessStep(w) \/ ProcessFault(w)
      PROVE  UNCHANGED status
  BY <1>3 DEF ProcessStep, ProcessFault, Requeue, RequeueSuppressed, Exit, Restart,
     RequestStop, Crash, storeVars
<1>4. CASE EnvironmentNext
  BY <1>4 DEF EnvironmentNext, Corrupt, Replay
<1> QED
  BY <1>1, <1>2, <1>3, <1>4 DEF Next, WorkerNext, vars, storeVars

(* The status a commit writes is one the table lets the old one reach. *)
LEMMA CommitMoves ==
  ASSUME IInv, OrderInv, replays <= 1, [Next]_vars, NEW u \in Uploads, status'[u] # status[u]
  PROVE  \/ status[u] = "none" /\ status'[u] = "QUEUED"
         \/ status[u] = "QUEUED" /\ status'[u] = "EXTRACTING"
         \/ /\ status[u] = "EXTRACTING"
            /\ status'[u] \in {"VALIDATED", "REVIEW_REQUIRED", "REJECTED", "FAILED"}
<1>1. CASE req[u] = "enqueued" /\ status'[u] = "QUEUED"
  BY <1>1 DEF IInv, RowsFollowRequests
<1>2. ASSUME NEW s \in Slots, Doc(s) = u, pc[s] = "extracting",
             status'[u] \in {"VALIDATED", "REVIEW_REQUIRED", "REJECTED", "FAILED"}
      PROVE  status[u] = "EXTRACTING"
  BY <1>2 DEF IInv, SlotsHoldRows, OrderInv, SessionIsCurrent
<1>3. ASSUME NEW s \in Slots, Doc(s) = u, pc[s] = "verified", status'[u] = "EXTRACTING"
      PROVE  status[u] = "QUEUED"
  BY <1>3 DEF IInv, SlotsHoldRows, OrderInv, SessionIsCurrent
<1> QED
  BY <1>1, <1>2, <1>3, RowSteps DEF RowStep

(* With copies of a job side by side a commit may go over any status that the
   document has after QUEUED, but what it writes is what follows QUEUED or
   EXTRACTING. *)
LEMMA CommitOverwrites ==
  ASSUME IInv, [Next]_vars, NEW u \in Uploads, status'[u] # status[u]
  PROVE  \/ status[u] = "none" /\ status'[u] = "QUEUED"
         \/ status[u] = "QUEUED" /\ status'[u] = "EXTRACTING"
         \/ /\ status[u] \in CommittedStatuses \ {"QUEUED"}
            /\ status'[u] \in CommittedStatuses \ {"QUEUED"}
<1>1. CASE req[u] = "enqueued" /\ status'[u] = "QUEUED"
  BY <1>1 DEF IInv, RowsFollowRequests
<1>2. ASSUME NEW s \in Slots, Doc(s) = u, pc[s] \in {"verified", "extracting"}
      PROVE  /\ status[u] \in CommittedStatuses
             /\ pc[s] = "extracting" => status[u] # "QUEUED"
  BY <1>2 DEF IInv, SlotsHoldRows, RowsFollowRequests
<1>3. RowStep(u)
  BY RowSteps
<1> QED
  BY <1>1, <1>2, <1>3 DEF RowStep, CommittedStatuses

(* A commit that the table allows from the committed status is a Move. *)
LEMMA TableMoves ==
  ASSUME IInv, NEW u \in Uploads, NEW t, status' = [status EXCEPT ![u] = t],
         replays' = replays,
         \/ status[u] = "QUEUED" /\ t = "EXTRACTING"
         \/ /\ status[u] = "EXTRACTING"
            /\ t \in {"VALIDATED", "REVIEW_REQUIRED", "REJECTED", "FAILED"}
  PROVE  Contract!LifecycleNext
<1>1. CASE status[u] = "QUEUED" /\ t = "EXTRACTING"
  <2>1. Contract!MayCommit("QUEUED", "EXTRACTING")
    BY DEF Contract!MayCommit, Contract!CanTransition, Contract!AllowedTransitions,
       Contract!Statuses
  <2> QED
    BY <1>1, <2>1 DEF Contract!LifecycleNext, Contract!Move, Contract!Statuses,
       Contract!IsTerminal, Contract!TerminalStatuses, Contract!Transient
<1>2. CASE /\ status[u] = "EXTRACTING"
           /\ t \in {"VALIDATED", "REVIEW_REQUIRED", "REJECTED", "FAILED"}
  <2>1. Contract!MayCommit("EXTRACTING", t)
    BY <1>2 DEF Contract!MayCommit, Contract!CanTransition, Contract!AllowedTransitions,
       Contract!Statuses, Contract!Transient
  <2> QED
    BY <1>2, <2>1 DEF Contract!LifecycleNext, Contract!Move, Contract!Statuses,
       Contract!IsTerminal, Contract!TerminalStatuses, Contract!Transient
<1> QED
  BY <1>1, <1>2

(* A commit of a copy among others is an Overwrite. *)
LEMMA TwinsOverwrite ==
  ASSUME IInv, NEW u \in Uploads, NEW t, status' = [status EXCEPT ![u] = t],
         replays' = replays, replays > 1,
         status[u] \in CommittedStatuses \ {"QUEUED"}, t \in CommittedStatuses \ {"QUEUED"}
  PROVE  Contract!LifecycleNext
<1>1. \E before \in Contract!Unfinished : Contract!MayCommit(before, t)
  <2>1. CASE t = "EXTRACTING"
    BY <2>1 DEF Contract!Unfinished, Contract!MayCommit, Contract!CanTransition,
       Contract!AllowedTransitions, Contract!Statuses
  <2>2. CASE t # "EXTRACTING"
    <3>1. Contract!MayCommit("EXTRACTING", t)
      BY <2>2 DEF CommittedStatuses, Contract!MayCommit, Contract!CanTransition,
         Contract!AllowedTransitions, Contract!Statuses, Contract!Transient
    <3> QED
      BY <3>1 DEF Contract!Unfinished
  <2> QED
    BY <2>1, <2>2
<1>2. /\ status[u] \in Contract!Statuses \ {"QUEUED"}
      /\ t \in Contract!Statuses \ Contract!Transient
  BY DEF CommittedStatuses, Contract!Statuses, Contract!Transient
<1>3. Contract!Overwrite(u)
  BY <1>1, <1>2 DEF Contract!Overwrite
<1> QED
  BY <1>3 DEF Contract!LifecycleNext

LEMMA StepFollowsLifecycle ==
  ASSUME IInv, OrderInv, [Next]_vars
  PROVE  [Contract!LifecycleNext]_<<status, replays > 1>>
<1>1. /\ replays \in Nat /\ replays' \in Nat /\ replays <= replays'
      /\ replays' # replays => status' = status
  BY ReplaysGrow
<1>2. CASE status' = status
  <2>1. CASE replays > 1 \/ ~(replays' > 1)
    <3>1. (replays' > 1) = (replays > 1)
      BY <1>1, <2>1
    <3> QED
      BY <1>2, <3>1
  <2>2. CASE ~(replays > 1) /\ replays' > 1
    <3>1. (replays' > 1) = TRUE
      BY <2>2
    <3> QED
      BY <1>2, <2>2, <3>1 DEF Contract!LifecycleNext, Contract!Contend
  <2> QED
    BY <2>1, <2>2
<1>3. CASE status' # status
  <2>1. PICK u \in Uploads, t \in Statuses : status' = [status EXCEPT ![u] = t]
    BY <1>3, OneRowWritten
  <2>2. status'[u] = t /\ status[u] # t /\ replays' = replays
    BY <1>1, <1>3, <2>1 DEF IInv, TypeOK
  <2>3. CASE status[u] = "none" /\ t = "QUEUED"
    BY <2>1, <2>2, <2>3 DEF Contract!LifecycleNext, Contract!Appear
  <2>4. CASE replays <= 1 /\ status[u] # "none"
    BY <2>1, <2>2, <2>4, CommitMoves, TableMoves
  <2>5. CASE replays > 1 /\ status[u] # "none"
    BY <2>1, <2>2, <2>5, CommitOverwrites, TableMoves, TwinsOverwrite
  <2> QED
    BY <1>1, <2>2, <2>3, <2>4, <2>5, CommitOverwrites DEF CommittedStatuses
<1> QED
  BY <1>2, <1>3

(* The processing path implements the published transition table, however often
   dead letters are replayed: every commit of the API and of the workers is one
   of its moves from the committed status, or, once two messages were put back,
   from a status the document has left behind, and nothing else changes a row. *)
THEOREM PipelineFollowsLifecycle == Spec => FollowsLifecycle
<1>1. Init => Contract!LifecycleInit
  BY DEF Init, StoreInit, Contract!LifecycleInit
<1>2. IInv /\ OrderInv /\ [Next]_vars => [Contract!LifecycleNext]_<<status, replays > 1>>
  BY StepFollowsLifecycle
<1> QED
  BY <1>1, <1>2, Inductive, OrderInductive, PTL DEF Spec, FollowsLifecycle, Contract!LifecycleSpec

(* A finished document is moved only by a slot whose session has loaded it
   before it was finished, and only after a second message was put back: no job
   redelivered to a finished document, no retry and no first replay ever does. *)
THEOREM OnlyTwinsMoveFinished == Spec => FinishedMovesByTwins
<1> DEFINE Moves == \A u \in Uploads : IsTerminal(status[u]) /\ status'[u] # status[u] =>
             /\ replays > 1
             /\ \E s \in Slots :
                  /\ Doc(s) = u /\ pc[s] \in {"verified", "extracting"}
                  /\ ~IsTerminal(seen[s])
                  /\ pc'[s] # pc[s]
<1>1. ASSUME IInv, OrderInv, [Next]_vars, NEW u \in Uploads,
             IsTerminal(status[u]), status'[u] # status[u]
      PROVE  /\ replays > 1
             /\ \E s \in Slots :
                  /\ Doc(s) = u /\ pc[s] \in {"verified", "extracting"}
                  /\ ~IsTerminal(seen[s])
                  /\ pc'[s] # pc[s]
  <2>1. replays > 1
    BY <1>1, CommitMoves, ReplaysGrow DEF IsTerminal, TerminalStatuses
  <2>2. req[u] = "accepted"
    BY <1>1 DEF IInv, RowsFollowRequests, IsTerminal, TerminalStatuses
  <2>3. PICK s \in Slots : /\ Doc(s) = u /\ pc[s] \in {"verified", "extracting"}
                           /\ pc'[s] # pc[s]
    BY <1>1, <2>2, RowSteps DEF RowStep, Busy
  <2>4. ~IsTerminal(seen[s])
    BY <1>1, <2>3 DEF IInv, SlotsHoldRows, IsTerminal, TerminalStatuses
  <2> QED
    BY <2>1, <2>3, <2>4
<1>2. IInv /\ OrderInv /\ [Next]_vars => [Moves]_vars
  BY <1>1
<1> QED
  BY <1>2, Inductive, OrderInductive, PTL DEF Spec, FinishedMovesByTwins

-----------------------------------------------------------------------------
(* A trail to which entries were appended ends with the last of them. *)
LEMMA TrailEnds ==
  ASSUME IInv, NEW u \in Uploads, NEW entries \in Seq(AuditActions),
         Len(entries) \in 1..3, audit'[u] = audit[u] \o entries
  PROVE  audit'[u] # << >> /\ Last(audit'[u]) = entries[Len(entries)]
<1>1. PICK n \in 1..3 : n = Len(entries)
  OBVIOUS
<1>2. /\ Len(audit[u]) \in Nat
      /\ Len(audit'[u]) = Len(audit[u]) + n
      /\ \A i \in 1..n : audit'[u][Len(audit[u]) + i] = entries[i]
  BY <1>1, TrailGrows
<1>3. n \in 1..n
  OBVIOUS
<1>4. audit'[u][Len(audit'[u])] = entries[n]
  BY <1>2, <1>3
<1>5. Len(audit'[u]) # 0
  BY <1>2
<1>6. audit'[u] # << >>
  BY <1>5
<1> QED
  BY <1>1, <1>4, <1>6 DEF Last

LEMMA TellingStep ==
  IInv /\ OrderInv /\ AuditTellsStatus /\ [Next]_vars => AuditTellsStatus'
<1> DEFINE Told(u) == IF status'[u] = "none"
                      THEN audit'[u] = << >>
                      ELSE audit'[u] # << >> /\ Last(audit'[u]) = ClosingEntry[status'[u]]
<1> SUFFICES ASSUME IInv, OrderInv, AuditTellsStatus, replays <= 1, [Next]_vars,
                    NEW u \in Uploads
             PROVE  Told(u)
  BY ReplaysGrow DEF AuditTellsStatus
<1>1. CASE audit'[u] = audit[u] /\ status'[u] = status[u]
  BY <1>1 DEF AuditTellsStatus
<1>2. CASE /\ status'[u] = "QUEUED"
           /\ audit'[u] = <<"DOCUMENT_UPLOADED", "DOCUMENT_QUEUED">>
  <2>1. audit'[u] # << >> /\ Last(audit'[u]) = "DOCUMENT_QUEUED"
    BY <1>2 DEF Last
  <2>2. ClosingEntry["QUEUED"] = "DOCUMENT_QUEUED"
    BY DEF ClosingEntry
  <2> QED
    BY <1>2, <2>1, <2>2
<1>3. ASSUME NEW s \in Slots, Doc(s) = u, StartExtraction(s),
             audit'[u] = audit[u] \o <<"EXTRACTION_STARTED">>,
             status'[u] = IF seen[s] = "EXTRACTING" THEN status[u] ELSE "EXTRACTING"
      PROVE  Told(u)
  <2>1. status'[u] = "EXTRACTING"
    BY <1>3 DEF StartExtraction, OrderInv, SessionIsCurrent
  <2>2. /\ <<"EXTRACTION_STARTED">> \in Seq(AuditActions)
        /\ Len(<<"EXTRACTION_STARTED">>) = 1
        /\ <<"EXTRACTION_STARTED">>[1] = "EXTRACTION_STARTED"
    BY DEF AuditActions
  <2> DEFINE started == <<"EXTRACTION_STARTED">>
  <2>5. /\ started \in Seq(AuditActions) /\ Len(started) \in 1..3
        /\ started[Len(started)] = "EXTRACTION_STARTED"
        /\ audit'[u] = audit[u] \o started
    BY <1>3, <2>2
  <2> HIDE DEF started
  <2>3. audit'[u] # << >> /\ Last(audit'[u]) = "EXTRACTION_STARTED"
    BY <2>5, TrailEnds
  <2>4. ClosingEntry["EXTRACTING"] = "EXTRACTION_STARTED"
    BY DEF ClosingEntry
  <2> QED
    BY <2>1, <2>3, <2>4
<1>4. CASE /\ status'[u] \in {"VALIDATED", "REVIEW_REQUIRED", "REJECTED", "FAILED"}
           /\ audit'[u] = audit[u] \o ClosingEntries(status'[u])
  <2>1. /\ ClosingEntries(status'[u]) \in Seq(AuditActions)
        /\ Len(ClosingEntries(status'[u])) \in 1..3
        /\ ClosingEntries(status'[u])[Len(ClosingEntries(status'[u]))] = ClosingEntry[status'[u]]
    BY <1>4, ClosingEntriesAre
  <2>2. audit'[u] # << >> /\ Last(audit'[u]) = ClosingEntry[status'[u]]
    BY <1>4, <2>1, TrailEnds
  <2> QED
    BY <1>4, <2>2
<1> QED
  BY <1>1, <1>2, <1>3, <1>4, TrailSteps DEF TrailStep

(* Up to the second replay the trail and the row never disagree: the trail of
   every committed row is closed by the entry of its status. *)
THEOREM TrailTellsStatus == Spec => []AuditTellsStatus
<1>1. Init => AuditTellsStatus
  BY DEF Init, StoreInit, AuditTellsStatus
<1>2. IInv /\ OrderInv /\ AuditTellsStatus /\ [Next]_vars => AuditTellsStatus'
  BY TellingStep
<1> QED
  BY <1>1, <1>2, Inductive, OrderInductive, PTL DEF Spec

-----------------------------------------------------------------------------
(***************************************************************************)
(* The retry budget bounds the work on a document.  FutureStarts and       *)
(* LiveCopies are what is left of the budget: no step adds to them but a   *)
(* request and a replay, and each start or verdict takes something away.   *)
(***************************************************************************)

(* Counting: a smaller set, a set with one more element, a set with one less. *)
LEMMA CountShrinks ==
  ASSUME NEW S, NEW T, IsFiniteSet(S), T \subseteq S
  PROVE  /\ IsFiniteSet(T)
         /\ Cardinality(S) \in Nat /\ Cardinality(T) \in Nat
         /\ Cardinality(T) <= Cardinality(S)
  BY FS_Subset, FS_CardinalityType

LEMMA CountGrows ==
  ASSUME NEW S, NEW T, NEW x, IsFiniteSet(S), T \subseteq S \union {x}
  PROVE  /\ Cardinality(S) \in Nat /\ Cardinality(T) \in Nat
         /\ Cardinality(T) <= Cardinality(S) + 1
<1>1. /\ IsFiniteSet(S \union {x})
      /\ Cardinality(S \union {x}) <= Cardinality(S) + 1
      /\ Cardinality(S) \in Nat
  BY FS_AddElement, FS_CardinalityType
<1>2. /\ Cardinality(T) \in Nat /\ Cardinality(S \union {x}) \in Nat
      /\ Cardinality(T) <= Cardinality(S \union {x})
  BY <1>1, CountShrinks
<1> QED
  BY <1>1, <1>2

LEMMA CountLoses ==
  ASSUME NEW S, NEW T, NEW x, IsFiniteSet(S), T \subseteq S, x \in S, x \notin T
  PROVE  /\ Cardinality(S) \in Nat /\ Cardinality(T) \in Nat
         /\ Cardinality(T) + 1 <= Cardinality(S)
<1>1. /\ IsFiniteSet(S \ {x}) /\ Cardinality(S \ {x}) = Cardinality(S) - 1
      /\ Cardinality(S) \in Nat
  BY FS_RemoveElement, FS_CardinalityType
<1>2. T \subseteq S \ {x}
  OBVIOUS
<1>3. /\ Cardinality(T) \in Nat /\ Cardinality(S \ {x}) \in Nat
      /\ Cardinality(T) <= Cardinality(S \ {x})
  BY <1>1, <1>2, CountShrinks
<1> QED
  BY <1>1, <1>3

(* What is counted is finite. *)
LEMMA WorkIsFinite ==
  ASSUME TypeOK, NEW u \in Uploads
  PROVE  /\ IsFiniteSet(FutureStarts(u))
         /\ IsFiniteSet(LiveCopies(u))
         /\ \A entry : IsFiniteSet(Entries(u, entry))
<1>1. Budget \in Nat /\ MaxReplays \in Nat
  BY WorkerAssumption, StoreAssumption DEF Budget
<1>2. IsFiniteSet(0..MaxReplays) /\ IsFiniteSet(1..Budget)
  BY <1>1, FS_Interval
<1>3. IsFiniteSet((0..MaxReplays) \X (1..Budget))
  BY <1>2, FS_Product
<1>4. IsFiniteSet(FutureStarts(u))
  BY <1>3, FS_Subset DEF FutureStarts
<1>5. IsFiniteSet(LiveCopies(u))
  BY <1>2, FS_Subset DEF LiveCopies
<1>6. Len(audit[u]) \in Nat
  BY DEF TypeOK
<1>7. IsFiniteSet(1..Len(audit[u]))
  BY <1>6, FS_Interval
<1>8. \A entry : Entries(u, entry) \in SUBSET (1..Len(audit[u]))
  BY DEF Entries
<1>9. \A entry : IsFiniteSet(Entries(u, entry))
  BY <1>7, <1>8, FS_Subset
<1> QED
  BY <1>4, <1>5, <1>9

(* Appended entries. *)
LEMMA EntriesAppended ==
  ASSUME IInv, NEW u \in Uploads, NEW entries \in Seq(AuditActions), NEW entry,
         audit'[u] = audit[u] \o entries
  PROVE  Entries(u, entry)' \subseteq
           Entries(u, entry)
             \union {Len(audit[u]) + i : i \in {k \in 1..Len(entries) : entries[k] = entry}}
<1>1. /\ Len(audit[u]) \in Nat /\ Len(entries) \in Nat
      /\ Len(audit'[u]) = Len(audit[u]) + Len(entries)
      /\ \A i \in 1..Len(audit[u]) : audit'[u][i] = audit[u][i]
      /\ \A i \in 1..Len(entries) : audit'[u][Len(audit[u]) + i] = entries[i]
  BY TrailGrows
<1> SUFFICES ASSUME NEW n \in 1..Len(audit'[u]), audit'[u][n] = entry
             PROVE  \/ n \in Entries(u, entry)
                    \/ \E k \in 1..Len(entries) : n = Len(audit[u]) + k /\ entries[k] = entry
  BY DEF Entries
<1>2. CASE n <= Len(audit[u])
  BY <1>1, <1>2 DEF Entries
<1>3. CASE n > Len(audit[u])
  <2>1. n - Len(audit[u]) \in 1..Len(entries)
        /\ n = Len(audit[u]) + (n - Len(audit[u]))
    BY <1>1, <1>3
  <2> QED
    BY <1>1, <2>1
<1> QED
  BY <1>1, <1>2, <1>3

(* A trail gains a start only when a slot starts, a verdict only when a slot
   ends with the document. *)
LEMMA StartEntries ==
  ASSUME IInv, [Next]_vars, NEW u \in Uploads
  PROVE  \/ Entries(u, "EXTRACTION_STARTED")' \subseteq Entries(u, "EXTRACTION_STARTED")
         \/ \E s \in Slots :
              /\ Doc(s) = u /\ StartExtraction(s)
              /\ Entries(u, "EXTRACTION_STARTED")'
                   \subseteq Entries(u, "EXTRACTION_STARTED") \union {Len(audit[u]) + 1}
<1>1. CASE audit'[u] = audit[u]
  BY <1>1 DEF Entries
<1>2. CASE audit'[u] = <<"DOCUMENT_UPLOADED", "DOCUMENT_QUEUED">>
  BY <1>2 DEF Entries
<1>3. ASSUME audit'[u] = audit[u] \o <<"EXTRACTION_STARTED">>
      PROVE  Entries(u, "EXTRACTION_STARTED")'
               \subseteq Entries(u, "EXTRACTION_STARTED") \union {Len(audit[u]) + 1}
  <2> DEFINE started == <<"EXTRACTION_STARTED">>
  <2>1. started \in Seq(AuditActions) /\ Len(started) = 1
    BY DEF AuditActions
  <2>2. audit'[u] = audit[u] \o started
    BY <1>3
  <2> HIDE DEF started
  <2>3. Entries(u, "EXTRACTION_STARTED")' \subseteq
          Entries(u, "EXTRACTION_STARTED") \union
            {Len(audit[u]) + i : i \in {k \in 1..Len(started) :
                                          started[k] = "EXTRACTION_STARTED"}}
    BY <2>1, <2>2, EntriesAppended
  <2>4. \A i \in 1..Len(started) : i = 1
    BY <2>1
  <2> QED
    BY <2>3, <2>4
<1>4. CASE /\ status'[u] \in {"VALIDATED", "REVIEW_REQUIRED", "REJECTED", "FAILED"}
           /\ audit'[u] = audit[u] \o ClosingEntries(status'[u])
  <2> DEFINE closing == ClosingEntries(status'[u])
  <2>1. /\ closing \in Seq(AuditActions)
        /\ \A i \in 1..Len(closing) : closing[i] # "EXTRACTION_STARTED"
    BY <1>4, ClosingEntriesAre
  <2>2. audit'[u] = audit[u] \o closing
    BY <1>4
  <2> HIDE DEF closing
  <2>3. Entries(u, "EXTRACTION_STARTED")' \subseteq
          Entries(u, "EXTRACTION_STARTED") \union
            {Len(audit[u]) + i : i \in {k \in 1..Len(closing) :
                                          closing[k] = "EXTRACTION_STARTED"}}
    BY <2>1, <2>2, EntriesAppended
  <2> QED
    BY <2>1, <2>3
<1> QED
  BY <1>1, <1>2, <1>3, <1>4, TrailSteps DEF TrailStep

LEMMA VerdictEntries ==
  ASSUME IInv, [Next]_vars, NEW u \in Uploads
  PROVE  \/ Entries(u, "VALIDATION_COMPLETED")' \subseteq Entries(u, "VALIDATION_COMPLETED")
         \/ \E s \in Slots :
              /\ Doc(s) = u /\ pc[s] = "extracting"
              /\ Release(s) /\ UNCHANGED <<queue, dlq, backoff>>
              /\ Entries(u, "VALIDATION_COMPLETED")'
                   \subseteq Entries(u, "VALIDATION_COMPLETED") \union {Len(audit[u]) + 2}
<1>1. CASE audit'[u] = audit[u]
  BY <1>1 DEF Entries
<1>2. CASE audit'[u] = <<"DOCUMENT_UPLOADED", "DOCUMENT_QUEUED">>
  BY <1>2 DEF Entries
<1>3. CASE audit'[u] = audit[u] \o <<"EXTRACTION_STARTED">>
  <2> DEFINE started == <<"EXTRACTION_STARTED">>
  <2>1. /\ started \in Seq(AuditActions)
        /\ \A i \in 1..Len(started) : started[i] # "VALIDATION_COMPLETED"
    BY DEF AuditActions
  <2>2. audit'[u] = audit[u] \o started
    BY <1>3
  <2> HIDE DEF started
  <2>3. Entries(u, "VALIDATION_COMPLETED")' \subseteq
          Entries(u, "VALIDATION_COMPLETED") \union
            {Len(audit[u]) + i : i \in {k \in 1..Len(started) :
                                          started[k] = "VALIDATION_COMPLETED"}}
    BY <2>1, <2>2, EntriesAppended
  <2> QED
    BY <2>1, <2>3
<1>4. ASSUME status'[u] \in {"VALIDATED", "REVIEW_REQUIRED", "REJECTED", "FAILED"},
             audit'[u] = audit[u] \o ClosingEntries(status'[u])
      PROVE  Entries(u, "VALIDATION_COMPLETED")'
               \subseteq Entries(u, "VALIDATION_COMPLETED") \union {Len(audit[u]) + 2}
  <2> DEFINE closing == ClosingEntries(status'[u])
  <2>1. /\ closing \in Seq(AuditActions)
        /\ \A i \in 1..Len(closing) : closing[i] = "VALIDATION_COMPLETED" => i = 2
    BY <1>4, ClosingEntriesAre
  <2>2. audit'[u] = audit[u] \o closing
    BY <1>4
  <2> HIDE DEF closing
  <2>3. Entries(u, "VALIDATION_COMPLETED")' \subseteq
          Entries(u, "VALIDATION_COMPLETED") \union
            {Len(audit[u]) + i : i \in {k \in 1..Len(closing) :
                                          closing[k] = "VALIDATION_COMPLETED"}}
    BY <2>1, <2>2, EntriesAppended
  <2> QED
    BY <2>1, <2>3
<1> QED
  BY <1>1, <1>2, <1>3, <1>4, TrailSteps DEF TrailStep

-----------------------------------------------------------------------------
(* Every live job after the step was there before, or is the next attempt of one
   that a slot held; a slot that has started its attempt does not start it again. *)
Descends ==
  /\ \A j \in QueuedJobs' \union SleepingJobs' :
       \/ j \in QueuedJobs \union SleepingJobs
       \/ \E s \in Slots : /\ pc[s] \in Busy /\ SameCopy(job[s], j)
                           /\ j.attempt = job[s].attempt + 1
  /\ \A s \in Slots : pc'[s] \in Busy =>
       \/ job'[s] \in QueuedJobs
       \/ /\ pc[s] \in Busy /\ job'[s] = job[s]
          /\ pc[s] \in Started => pc'[s] \in Started

LEMMA DescendsQuietly ==
  ASSUME queue' = queue \/ (TypeOK /\ queue # << >> /\ queue' = Tail(queue)),
         \A w \in Workers : backoff'[w] \subseteq backoff[w],
         \A s \in Slots : pc'[s] \in Busy =>
           pc[s] \in Busy /\ job'[s] = job[s] /\ (pc[s] \in Started => pc'[s] \in Started)
  PROVE  Descends
<1>1. QueuedJobs' \subseteq QueuedJobs
  BY QueueTail DEF QueuedJobs
<1>2. SleepingJobs' \subseteq SleepingJobs
  BY DEF SleepingJobs
<1> QED
  BY <1>1, <1>2 DEF Descends

LEMMA DescendsSlot ==
  ASSUME IInv, NEW s \in Slots, Pop(s) \/ StopPolling(s) \/ SlotStep(s) \/ SlotFault(s)
  PROVE  Descends
<1> USE DEF IInv
<1>1. CASE Pop(s)
  <2>1. /\ QueuedJobs' \subseteq QueuedJobs
        /\ Head(queue) # Poison => Head(queue) \in QueuedJobs
    BY <1>1, QueueTail DEF Pop
  <2>2. SleepingJobs' = SleepingJobs
    BY <1>1 DEF Pop, SleepingJobs
  <2>3. /\ \A t \in Slots : t # s => pc'[t] = pc[t] /\ job'[t] = job[t]
        /\ job'[s] = Head(queue)
        /\ pc'[s] \in Busy <=> Head(queue) # Poison
    BY <1>1, PopJobs DEF Pop, At, TypeOK, Busy
  <2> QED
    BY <2>1, <2>2, <2>3 DEF Descends
<1>2. CASE ScheduleRetry(s)
  <2> DEFINE retried == [job[s] EXCEPT !.attempt = @ + 1]
  <2>1. job[s] \in IntakeJob /\ pc[s] \in Busy
    BY <1>2 DEF ScheduleRetry, TypeOK, Busy
  <2>2. /\ retried.doc = job[s].doc /\ retried.copy = job[s].copy
        /\ retried.attempt = job[s].attempt + 1 /\ job[s].attempt \in Nat
    BY <2>1 DEF IntakeJob
  <2>3. SleepingJobs' = SleepingJobs \union {retried}
    BY <1>2, WorkerAssumption DEF ScheduleRetry, TypeOK, SleepingJobs
  <2>4. QueuedJobs' = QueuedJobs
    BY <1>2 DEF ScheduleRetry, storeVars, QueuedJobs
  <2>5. \A t \in Slots : pc'[t] \in Busy => pc'[t] = pc[t] /\ job'[t] = job[t]
    BY <1>2 DEF ScheduleRetry, Release, Idle, TypeOK, Busy
  <2> HIDE DEF retried
  <2>6. SameCopy(job[s], retried) /\ retried.attempt = job[s].attempt + 1
    BY <2>2 DEF SameCopy
  <2> QED
    BY <2>1, <2>3, <2>4, <2>5, <2>6 DEF Descends
<1>3. CASE PopReplyLost(s)
  BY <1>3, DescendsQuietly DEF PopReplyLost, workerVars
<1>4. CASE Release(s) /\ UNCHANGED <<queue, backoff>>
  <2>1. \A t \in Slots : pc'[t] \in Busy => pc'[t] = pc[t] /\ job'[t] = job[t]
    BY <1>4 DEF Release, Idle, TypeOK, Busy
  <2> QED
    BY <1>4, <2>1, DescendsQuietly
<1>5. CASE /\ UNCHANGED <<job, queue, backoff>>
           /\ \/ StopPolling(s)
              \/ /\ pc[s] \in Busy
                 /\ \E state \in Busy : At(s, state) /\ (pc[s] \in Started => state \in Started)
  <2>1. \A t \in Slots : pc'[t] \in Busy =>
          pc[t] \in Busy /\ job'[t] = job[t] /\ (pc[t] \in Started => pc'[t] \in Started)
    BY <1>5 DEF StopPolling, At, TypeOK, Busy
  <2> QED
    BY <1>5, <2>1, DescendsQuietly
<1>6. CASE Terminate(s, "FAILED", "PROCESSING_FAILED") /\ pc[s] \in Busy
  BY <1>4, <1>5, <1>6 DEF Terminate, storeVars, Busy, Started
<1>7. CASE Terminate(s, "QUARANTINED", "DOCUMENT_QUARANTINED") /\ pc[s] \in Busy
  BY <1>4, <1>5, <1>7 DEF Terminate, storeVars, Busy, Started
<1> QED
  BY <1>1, <1>2, <1>3, <1>4, <1>5, <1>6, <1>7 DEF SlotStep, SlotFault, ParkPoison,
     DropMissing, SkipFinished, Load, Verify, FailIntegrity, StartExtraction,
     RejectedByOcr, CommitVerdict, UniqueViolation, OcrFails, Park, InfraFails,
     ParkSuppressed, StopPolling, storeVars, Busy, Started

LEMMA DescendsProcess ==
  ASSUME IInv, NEW w \in Workers, ProcessStep(w) \/ ProcessFault(w)
  PROVE  Descends
<1> USE DEF IInv
<1>1. ASSUME NEW sleeper \in backoff[w], Requeue(w, sleeper)
      PROVE  Descends
  <2>1. sleeper \in IntakeJob /\ sleeper \in SleepingJobs
    BY DEF TypeOK, SleepingJobs
  <2>2. QueuedJobs' \subseteq QueuedJobs \union {sleeper}
    BY <1>1, <2>1, QueueAppend DEF Requeue, Payloads
  <2>3. SleepingJobs' \subseteq SleepingJobs
    BY <1>1 DEF Requeue, TypeOK, SleepingJobs
  <2>4. UNCHANGED <<pc, job>>
    BY <1>1 DEF Requeue
  <2> QED
    BY <2>1, <2>2, <2>3, <2>4 DEF Descends
<1>2. CASE ~\E sleeper \in backoff[w] : Requeue(w, sleeper)
  <2>1. \A v \in Workers : backoff'[v] \subseteq backoff[v]
    BY <1>2 DEF ProcessStep, ProcessFault, RequeueSuppressed, Exit, Restart,
       RequestStop, Crash, TypeOK
  <2>2. \A s \in Slots : pc'[s] \in Busy => pc'[s] = pc[s] /\ job'[s] = job[s]
    BY <1>2 DEF ProcessStep, ProcessFault, RequeueSuppressed, Exit, Restart,
       RequestStop, Crash, TypeOK, Busy
  <2>3. queue' = queue
    BY <1>2 DEF ProcessStep, ProcessFault, RequeueSuppressed, Exit, Restart,
       RequestStop, Crash, storeVars
  <2> QED
    BY <2>1, <2>2, <2>3, DescendsQuietly
<1> QED
  BY <1>1, <1>2

(* Only a request and the operator bring work into the system. *)
LEMMA WorkSteps ==
  ASSUME IInv, [Next]_vars
  PROVE  \/ Descends
         \/ \E u \in Uploads : (Enqueue(u) \/ EnqueueReplyLost(u)) /\ UNCHANGED workerVars
         \/ \E letter \in dlq : Replay(letter) /\ UNCHANGED workerVars
<1>1. CASE UNCHANGED <<queue, backoff, pc, job>>
  BY <1>1, DescendsQuietly
<1>2. CASE ApiNext
  BY <1>1, <1>2 DEF ApiNext, RequestStep, RequestFault, RefuseAtGate, CheckDuplicate,
     PutBlob, InsertRow, CommitUpload, RollBack, storeVars, workerVars
<1>3. CASE WorkerNext
  BY <1>3, DescendsSlot, DescendsProcess DEF WorkerNext
<1>4. CASE EnvironmentNext
  BY <1>1, <1>4 DEF EnvironmentNext, Corrupt, workerVars
<1> QED
  BY <1>1, <1>2, <1>3, <1>4 DEF Next, vars, storeVars, workerVars

(* A step that brings no work in adds nothing to what is left of the budget. *)
LEMMA StartsDescend ==
  ASSUME IInv, Descends, NEW u \in Uploads, NEW c, NEW a \in Nat, MayStart(u, c, a)'
  PROVE  MayStart(u, c, a)
<1>1. ASSUME NEW j \in QueuedJobs' \union SleepingJobs',
             j.doc = u, j.copy = c, j.attempt <= a
      PROVE  MayStart(u, c, a)
  <2>1. CASE j \in QueuedJobs \union SleepingJobs
    BY <1>1, <2>1 DEF MayStart
  <2>2. ASSUME NEW s \in Slots, pc[s] \in Busy, SameCopy(job[s], j),
               j.attempt = job[s].attempt + 1
        PROVE  MayStart(u, c, a)
    <3>1. job[s].attempt \in Nat
      BY <2>2 DEF IInv, TypeOK, IntakeJob
    <3>2. job[s].attempt < a
      BY <1>1, <2>2, <3>1
    <3> QED
      BY <1>1, <2>2, <3>2 DEF MayStart, SameCopy, Doc
  <2> QED
    BY <2>1, <2>2 DEF Descends
<1>2. ASSUME NEW s \in Slots, pc'[s] \in Busy, job'[s].doc = u, job'[s].copy = c,
             job'[s].attempt < a \/ (job'[s].attempt = a /\ pc'[s] \notin Started)
      PROVE  MayStart(u, c, a)
  <2>1. CASE job'[s] \in QueuedJobs
    <3>1. job'[s].attempt <= a
      BY <1>2, <2>1, JobsTyped DEF IInv, IntakeJob
    <3> QED
      BY <1>2, <2>1, <3>1 DEF MayStart
  <2>2. CASE /\ pc[s] \in Busy /\ job'[s] = job[s]
             /\ pc[s] \in Started => pc'[s] \in Started
    BY <1>2, <2>2 DEF MayStart, Doc
  <2> QED
    BY <1>2, <2>1, <2>2 DEF Descends
<1> QED
  BY <1>1, <1>2 DEF MayStart, Doc

LEMMA WorkDescends ==
  ASSUME IInv, Descends, NEW u \in Uploads
  PROVE  FutureStarts(u)' \subseteq FutureStarts(u) /\ LiveCopies(u)' \subseteq LiveCopies(u)
<1>1. ASSUME NEW k \in FutureStarts(u)'
      PROVE  k \in FutureStarts(u)
  <2>1. k \in (0..MaxReplays) \X (1..Budget) /\ MayStart(u, k[1], k[2])'
    BY <1>1 DEF FutureStarts, Budget
  <2>2. k[2] \in Nat
    BY <2>1
  <2>3. MayStart(u, k[1], k[2])
    BY <2>1, <2>2, StartsDescend
  <2> QED
    BY <2>1, <2>3 DEF FutureStarts
<1>2. \A j \in LiveJobs' : \E k \in LiveJobs : SameCopy(k, j)
  <2>1. \A j \in QueuedJobs \union SleepingJobs : j \in LiveJobs /\ SameCopy(j, j)
    BY DEF LiveJobs, SameCopy
  <2>2. \A s \in Slots : pc[s] \in Busy => job[s] \in LiveJobs /\ SameCopy(job[s], job[s])
    BY DEF LiveJobs, HeldJobs, SameCopy
  <2>3. \A j \in HeldJobs' : \E s \in Slots : pc'[s] \in Busy /\ j = job'[s]
    BY DEF HeldJobs
  <2>4. \A j \in HeldJobs' : \E k \in LiveJobs : SameCopy(k, j)
    BY <2>1, <2>2, <2>3 DEF Descends
  <2>5. \A j \in QueuedJobs' \union SleepingJobs' : \E k \in LiveJobs : SameCopy(k, j)
    BY <2>1, <2>2 DEF Descends
  <2>6. LiveJobs' = QueuedJobs' \union HeldJobs' \union SleepingJobs'
    BY DEF LiveJobs
  <2> QED
    BY <2>4, <2>5, <2>6
<1>3. LiveCopies(u)' \subseteq LiveCopies(u)
  BY <1>2 DEF LiveCopies, SameCopy
<1> QED
  BY <1>1, <1>3

(* A step that appends one job to the queue adds its attempts and its copy. *)
LEMMA WorkAppended ==
  ASSUME IInv, NEW m \in IntakeJob, queue' = Append(queue, m), UNCHANGED workerVars,
         NEW u \in Uploads
  PROVE  /\ FutureStarts(u)' \subseteq
              FutureStarts(u) \union {k \in (0..MaxReplays) \X (1..Budget) :
                                        m.doc = u /\ k[1] = m.copy /\ m.attempt <= k[2]}
         /\ LiveCopies(u)' \subseteq
              LiveCopies(u) \union {c \in 0..MaxReplays : m.doc = u /\ c = m.copy}
<1>1. QueuedJobs' \subseteq QueuedJobs \union {m}
  BY QueueAppend DEF IInv, Payloads
<1>2. UNCHANGED <<pc, job, HeldJobs, SleepingJobs>>
  BY DEF workerVars, HeldJobs, SleepingJobs
<1>3. ASSUME NEW c, NEW a, MayStart(u, c, a)'
      PROVE  MayStart(u, c, a) \/ (m.doc = u /\ c = m.copy /\ m.attempt <= a)
  BY <1>1, <1>2, <1>3 DEF MayStart, Doc
<1>4. ASSUME NEW k \in FutureStarts(u)'
      PROVE  \/ k \in FutureStarts(u)
             \/ /\ k \in (0..MaxReplays) \X (1..Budget)
                /\ m.doc = u /\ k[1] = m.copy /\ m.attempt <= k[2]
  <2>1. k \in (0..MaxReplays) \X (1..Budget) /\ MayStart(u, k[1], k[2])'
    BY <1>4 DEF FutureStarts, Budget
  <2>2. MayStart(u, k[1], k[2]) \/ (m.doc = u /\ k[1] = m.copy /\ m.attempt <= k[2])
    BY <1>3, <2>1
  <2> QED
    BY <2>1, <2>2 DEF FutureStarts
<1>5. LiveJobs' \subseteq LiveJobs \union {m}
  BY <1>1, <1>2 DEF LiveJobs
<1> QED
  BY <1>4, <1>5 DEF LiveCopies

(* A slot that lets go of a job, without passing it on, takes its copy along. *)
LEMMA CopyLeaves ==
  ASSUME IInv, Sole, NEW s \in Slots, pc[s] \in Busy, Release(s),
         UNCHANGED <<queue, backoff>>
  PROVE  LiveJobs' \subseteq LiveJobs /\ \A j \in LiveJobs' : ~SameCopy(j, job[s])
<1>1. UNCHANGED <<QueuedJobs, SleepingJobs>>
  BY DEF QueuedJobs, SleepingJobs
<1>2. job[s] \in HeldJobs
  BY DEF HeldJobs
<1>3. \A t \in Slots : pc'[t] \in Busy => t # s /\ pc[t] \in Busy /\ job'[t] = job[t]
  BY DEF Release, Idle, IInv, TypeOK, Busy
<1>4. HeldJobs' \subseteq HeldJobs /\ \A j \in HeldJobs' : ~SameCopy(j, job[s])
  BY <1>3 DEF HeldJobs, Sole, SlotSole
<1>5. \A j \in QueuedJobs \union SleepingJobs : ~SameCopy(j, job[s])
  BY <1>2 DEF Sole, PlacesApart, Apart, SameCopy
<1> QED
  BY <1>1, <1>4, <1>5 DEF LiveJobs

(* A start takes its attempt out of what is left. *)
LEMMA StartTaken ==
  ASSUME IInv, Sole, NEW s \in Slots, StartExtraction(s), NEW u, u = Doc(s)
  PROVE  \E k \in FutureStarts(u) : k \notin FutureStarts(u)'
<1>0. PICK c, a : c = job[s].copy /\ a = job[s].attempt
  OBVIOUS
<1>1. /\ pc[s] = "verified" /\ pc[s] \in Busy /\ pc[s] \notin Started
      /\ job[s] \in IntakeJob /\ job[s] \in HeldJobs
  BY DEF StartExtraction, IInv, TypeOK, Busy, Started, HeldJobs
<1>2. c \in 0..MaxReplays /\ a \in 1..Budget
  BY <1>0, <1>1 DEF IntakeJob, IInv, Budgeted, AllJobs, LiveJobs
<1>3. MayStart(u, c, a)
  BY <1>0, <1>1 DEF MayStart, Doc
<1>4. ~MayStart(u, c, a)'
  <2>1. UNCHANGED <<queue, backoff, job, QueuedJobs, SleepingJobs>>
    BY DEF StartExtraction, QueuedJobs, SleepingJobs
  <2>2. \A j \in QueuedJobs \union SleepingJobs : ~(j.doc = u /\ j.copy = c)
    BY <1>0, <1>1 DEF Sole, PlacesApart, Apart, SameCopy, Doc
  <2>3. \A t \in Slots : pc'[t] \in Busy => pc[t] \in Busy
    BY <1>1 DEF StartExtraction, At, IInv, TypeOK
  <2>4. \A t \in Slots : pc'[t] \in Busy /\ job[t].doc = u /\ job[t].copy = c => t = s
    BY <1>0, <1>1, <2>3 DEF Sole, SlotSole, SameCopy, Doc
  <2>5. pc'[s] \in Started
    BY DEF StartExtraction, At, IInv, TypeOK, Started
  <2>6. ~(a < a)
    BY <1>2
  <2>7. \A t \in Slots : ~(/\ pc'[t] \in Busy /\ job'[t].doc = u /\ job'[t].copy = c
                           /\ \/ job'[t].attempt < a
                              \/ job'[t].attempt = a /\ pc'[t] \notin Started)
    BY <1>0, <2>1, <2>4, <2>5, <2>6
  <2> QED
    BY <2>1, <2>2, <2>7 DEF MayStart, Doc
<1>5. <<c, a>>[1] = c /\ <<c, a>>[2] = a /\ <<c, a>> \in (0..MaxReplays) \X (1..Budget)
  BY <1>2
<1>6. <<c, a>> \in FutureStarts(u)
  BY <1>3, <1>5 DEF FutureStarts
<1>7. <<c, a>> \notin FutureStarts(u)'
  BY <1>4, <1>5 DEF FutureStarts
<1> QED
  BY <1>6, <1>7

(* The request that pushes the job of u is the first to bring work in for u. *)
LEMMA FirstWork ==
  ASSUME IInv, TrailInv, CopyInv, NEW u \in Uploads, Enqueue(u) \/ EnqueueReplyLost(u),
         UNCHANGED workerVars
  PROVE  /\ \A entry : Entries(u, entry)' = {}
         /\ FutureStarts(u)' \subseteq {0} \X (1..Budget)
         /\ LiveCopies(u)' \subseteq {0}
         /\ ~OriginalParked(u)'
<1>1. /\ NewJob(u) \in IntakeJob
      /\ NewJob(u).doc = u /\ NewJob(u).copy = 0
  BY StoreAssumption DEF NewJob, IntakeJob
<1>2. \A j \in AllJobs : j.doc # u
  BY DEF Enqueue, EnqueueReplyLost, CopyInv, JobsFollowRequests
<1>3. audit' = audit /\ audit[u] = << >>
  BY DEF Enqueue, EnqueueReplyLost, IInv, RowsFollowRequests, TrailInv, TrailsFollowRows
<1>4. \A entry : Entries(u, entry)' = {}
  BY <1>3 DEF Entries
<1>5. \A c, a : ~MayStart(u, c, a)
  BY <1>2 DEF MayStart, AllJobs, LiveJobs, HeldJobs, Doc
<1>6. FutureStarts(u) = {}
  BY <1>5 DEF FutureStarts
<1>7. LiveCopies(u) = {}
  BY <1>2 DEF LiveCopies, AllJobs
<1>8. queue' = Append(queue, NewJob(u)) /\ dlq' = dlq
  BY DEF Enqueue, EnqueueReplyLost
<1>9. /\ FutureStarts(u)' \subseteq {k \in (0..MaxReplays) \X (1..Budget) : k[1] = 0}
      /\ LiveCopies(u)' \subseteq {0}
  BY <1>1, <1>6, <1>7, <1>8, WorkAppended
<1>10. {k \in (0..MaxReplays) \X (1..Budget) : k[1] = 0} \subseteq {0} \X (1..Budget)
  OBVIOUS
<1>11. ~OriginalParked(u)'
  BY <1>2, <1>8 DEF OriginalParked, ParkedJobs, AllJobs
<1> QED
  BY <1>4, <1>9, <1>10, <1>11

(* What the operator brings in: one more attempt, of a copy numbered past all. *)
LEMMA ReplayedWork ==
  ASSUME IInv, CopyInv, NEW letter \in dlq, Replay(letter), UNCHANGED workerVars,
         NEW u \in Uploads
  PROVE  /\ \A entry : Entries(u, entry)' = Entries(u, entry)
         /\ FutureStarts(u)' \subseteq FutureStarts(u) \union {<<replays + 1, Budget>>}
         /\ LiveCopies(u)' \subseteq LiveCopies(u) \union {replays + 1}
         /\ letter.doc # u => /\ FutureStarts(u)' \subseteq FutureStarts(u)
                              /\ LiveCopies(u)' \subseteq LiveCopies(u)
         /\ letter.doc = u => OriginalParked(u)
         /\ OriginalParked(u)' = OriginalParked(u)
<1> DEFINE copied == [letter EXCEPT !.copy = replays + 1]
<1>1. letter \in IntakeJob /\ letter \in ParkedJobs /\ letter \in AllJobs
  BY JobsTyped DEF Replay, ParkedJobs, IInv, AllJobs
<1>2. replays \in Nat /\ replays + 1 \in 0..MaxReplays
  BY StoreAssumption DEF Replay, IInv, TypeOK
<1>3. /\ copied \in IntakeJob
      /\ copied.doc = letter.doc /\ copied.copy = replays + 1
      /\ copied.attempt = letter.attempt
  BY <1>1, <1>2 DEF IntakeJob
<1>4. queue' = Append(queue, copied) /\ UNCHANGED <<audit, dlq>>
  BY DEF Replay
<1>5. copied.attempt = Budget /\ Budget \in Nat
  BY <1>1, <1>3, WorkerAssumption, StoreAssumption DEF CopyInv, LettersExhausted, Budget
<1> HIDE DEF copied
<1>6. /\ FutureStarts(u)' \subseteq
           FutureStarts(u) \union {k \in (0..MaxReplays) \X (1..Budget) :
                                     copied.doc = u /\ k[1] = copied.copy /\ copied.attempt <= k[2]}
      /\ LiveCopies(u)' \subseteq
           LiveCopies(u) \union {c \in 0..MaxReplays : copied.doc = u /\ c = copied.copy}
  BY <1>3, <1>4, WorkAppended
<1>7. \A k \in (0..MaxReplays) \X (1..Budget) :
        k[1] = replays + 1 /\ Budget <= k[2] => k = <<replays + 1, Budget>>
  BY <1>5
<1>8. FutureStarts(u)' \subseteq FutureStarts(u) \union {<<replays + 1, Budget>>}
  BY <1>3, <1>5, <1>6, <1>7
<1>9. LiveCopies(u)' \subseteq LiveCopies(u) \union {replays + 1}
  BY <1>3, <1>6
<1>10. letter.doc # u => /\ FutureStarts(u)' \subseteq FutureStarts(u)
                         /\ LiveCopies(u)' \subseteq LiveCopies(u)
  BY <1>3, <1>6
<1>11. letter.doc = u => OriginalParked(u)
  BY <1>1 DEF CopyInv, JobsFollowRequests, OriginalParked
<1>12. \A entry : Entries(u, entry)' = Entries(u, entry)
  BY <1>4 DEF Entries
<1>13. OriginalParked(u)' = OriginalParked(u)
  BY <1>4 DEF OriginalParked, ParkedJobs
<1> QED
  BY <1>8, <1>9, <1>10, <1>11, <1>12, <1>13

LEMMA StartsStep ==
  ASSUME IInv, TrailInv, CopyInv, [Next]_vars, NEW u \in Uploads, StartsBounded(u)
  PROVE  StartsBounded(u)'
<1> DEFINE E == Entries(u, "EXTRACTION_STARTED")
           F == FutureStarts(u)
<1>1. IsFiniteSet(E) /\ IsFiniteSet(F)
  BY WorkIsFinite DEF IInv
<1>2. Cardinality(E) \in Nat /\ Cardinality(F) \in Nat
  BY <1>1, FS_CardinalityType
<1>3. Budget \in Nat /\ replays \in Nat /\ replays' \in Nat /\ replays <= replays'
  BY ReplaysGrow, WorkerAssumption, StoreAssumption DEF Budget
<1>4. Cardinality(E) + Cardinality(F) <= Budget + replays
  BY DEF StartsBounded
<1>5. SUFFICES Cardinality(E') + Cardinality(F') <= Budget + replays'
  BY DEF StartsBounded, Budget
<1> HIDE DEF E, F
<1>6. ASSUME E' \subseteq E, F' \subseteq F
      PROVE  Cardinality(E') + Cardinality(F') <= Budget + replays'
  <2>1. Cardinality(E') \in Nat /\ Cardinality(E') <= Cardinality(E)
    BY <1>1, <1>6, CountShrinks
  <2>2. Cardinality(F') \in Nat /\ Cardinality(F') <= Cardinality(F)
    BY <1>1, <1>6, CountShrinks
  <2> QED
    BY <1>2, <1>3, <1>4, <2>1, <2>2
<1>7. CASE Descends
  <2>1. F' \subseteq F
    BY <1>7, WorkDescends DEF F
  <2>2. ASSUME NEW s \in Slots, Doc(s) = u, StartExtraction(s),
               E' \subseteq E \union {Len(audit[u]) + 1}
        PROVE  Cardinality(E') + Cardinality(F') <= Budget + replays'
    <3>1. PICK k \in F : k \notin F'
      BY <2>2, StartTaken DEF F, CopyInv
    <3>2. Cardinality(F') \in Nat /\ Cardinality(F') + 1 <= Cardinality(F)
      BY <1>1, <2>1, <3>1, CountLoses
    <3>3. Cardinality(E') \in Nat /\ Cardinality(E') <= Cardinality(E) + 1
      BY <1>1, <2>2, CountGrows
    <3> QED
      BY <1>2, <1>3, <1>4, <3>2, <3>3
  <2> QED
    BY <1>6, <2>1, <2>2, StartEntries DEF E
<1>8. ASSUME NEW v \in Uploads, Enqueue(v) \/ EnqueueReplyLost(v), UNCHANGED workerVars
      PROVE  Cardinality(E') + Cardinality(F') <= Budget + replays'
  <2>1. CASE v = u
    <3>1. E' = {} /\ F' \subseteq {0} \X (1..Budget)
      BY <1>8, <2>1, FirstWork DEF E, F
    <3>2. IsFiniteSet({0}) /\ Cardinality({0}) = 1
      BY FS_Singleton
    <3>6. IsFiniteSet(1..Budget) /\ Cardinality(1..Budget) = Budget
      <4>1. Budget \in Int /\ 1 \in Int
        BY <1>3
      <4>2. /\ IsFiniteSet(1..Budget)
            /\ Cardinality(1..Budget) = IF 1 > Budget THEN 0 ELSE Budget - 1 + 1
        BY <4>1, FS_Interval
      <4> QED
        BY <1>3, <4>2
    <3>3. /\ IsFiniteSet({0} \X (1..Budget))
          /\ Cardinality({0} \X (1..Budget)) = Budget
      BY <1>3, <3>2, <3>6, FS_Product
    <3>4. Cardinality(F') \in Nat /\ Cardinality(F') <= Budget
      BY <3>1, <3>3, CountShrinks
    <3>5. Cardinality(E') = 0
      BY <3>1, FS_EmptySet
    <3> QED
      BY <1>3, <3>4, <3>5
  <2>2. CASE v # u
    <3>1. NewJob(v) \in IntakeJob /\ NewJob(v).doc = v
      BY StoreAssumption DEF NewJob, IntakeJob
    <3>2. queue' = Append(queue, NewJob(v)) /\ audit' = audit
      BY <1>8 DEF Enqueue, EnqueueReplyLost
    <3>3. F' \subseteq F
      BY <1>8, <2>2, <3>1, <3>2, WorkAppended DEF F
    <3>4. E' \subseteq E
      BY <3>2 DEF E, Entries
    <3> QED
      BY <1>6, <3>3, <3>4
  <2> QED
    BY <2>1, <2>2
<1>9. ASSUME NEW letter \in dlq, Replay(letter), UNCHANGED workerVars
      PROVE  Cardinality(E') + Cardinality(F') <= Budget + replays'
  <2>1. E' = E /\ F' \subseteq F \union {<<replays + 1, Budget>>}
    BY <1>9, ReplayedWork DEF E, F
  <2>2. replays' = replays + 1
    BY <1>9 DEF Replay
  <2>3. Cardinality(F') \in Nat /\ Cardinality(F') <= Cardinality(F) + 1
    BY <1>1, <2>1, CountGrows
  <2> QED
    BY <1>2, <1>3, <1>4, <2>1, <2>2, <2>3
<1> QED
  BY <1>7, <1>8, <1>9, WorkSteps

LEMMA VerdictsStep ==
  ASSUME IInv, TrailInv, CopyInv, [Next]_vars, NEW u \in Uploads, VerdictsBounded(u)
  PROVE  VerdictsBounded(u)'
<1> DEFINE V == Entries(u, "VALIDATION_COMPLETED")
           L == LiveCopies(u)
           P == OriginalParked(u)
           Bound == IF P THEN replays ELSE 1
<1>1. IsFiniteSet(V) /\ IsFiniteSet(L)
  BY WorkIsFinite DEF IInv
<1>2. Cardinality(V) \in Nat /\ Cardinality(L) \in Nat
  BY <1>1, FS_CardinalityType
<1>3. replays \in Nat /\ replays' \in Nat /\ replays <= replays'
  BY ReplaysGrow
<1>4. Cardinality(V) + Cardinality(L) <= Bound
  BY DEF VerdictsBounded
<1>5. SUFFICES Cardinality(V') + Cardinality(L') <= Bound'
  BY DEF VerdictsBounded
<1> HIDE DEF V, L, P
<1>6. ASSUME V' \subseteq V, L' \subseteq L, P' = P
      PROVE  Cardinality(V') + Cardinality(L') <= Bound'
  <2>1. Cardinality(V') \in Nat /\ Cardinality(V') <= Cardinality(V)
    BY <1>1, <1>6, CountShrinks
  <2>2. Cardinality(L') \in Nat /\ Cardinality(L') <= Cardinality(L)
    BY <1>1, <1>6, CountShrinks
  <2> QED
    BY <1>2, <1>3, <1>4, <1>6, <2>1, <2>2
<1>7. ASSUME NEW s \in Slots, Doc(s) = u, pc[s] = "extracting", Release(s),
             UNCHANGED <<queue, dlq, backoff>>,
             V' \subseteq V \union {Len(audit[u]) + 2}
      PROVE  Cardinality(V') + Cardinality(L') <= Bound'
  <2>1. LiveJobs' \subseteq LiveJobs /\ \A j \in LiveJobs' : ~SameCopy(j, job[s])
    BY <1>7, CopyLeaves DEF CopyInv, Busy
  <2>2. job[s] \in LiveJobs /\ job[s].doc = u /\ job[s].copy \in 0..MaxReplays
    BY <1>7 DEF LiveJobs, HeldJobs, Busy, Doc, IInv, TypeOK, IntakeJob
  <2>3. L' \subseteq L /\ job[s].copy \in L /\ job[s].copy \notin L'
    BY <2>1, <2>2 DEF L, LiveCopies, SameCopy
  <2>4. Cardinality(L') \in Nat /\ Cardinality(L') + 1 <= Cardinality(L)
    BY <1>1, <2>3, CountLoses
  <2>5. Cardinality(V') \in Nat /\ Cardinality(V') <= Cardinality(V) + 1
    BY <1>1, <1>7, CountGrows
  <2>6. P' = P
    BY <1>7 DEF P, OriginalParked, ParkedJobs
  <2> QED
    BY <1>2, <1>3, <1>4, <2>4, <2>5, <2>6
<1>8. ASSUME NEW s \in Slots, Park(s), ParkedJobs' = ParkedJobs \union {job[s]}
      PROVE  Cardinality(V') + Cardinality(L') <= Bound'
  <2>1. /\ pc[s] \in Busy /\ Release(s) /\ UNCHANGED <<audit, queue, backoff>>
        /\ job[s] \in HeldJobs /\ job[s] \in LiveJobs
    BY <1>8 DEF Park, Busy, HeldJobs, LiveJobs
  <2>2. LiveJobs' \subseteq LiveJobs /\ \A j \in LiveJobs' : ~SameCopy(j, job[s])
    BY <2>1, CopyLeaves DEF CopyInv
  <2>3. V' \subseteq V /\ L' \subseteq L
    BY <2>1, <2>2 DEF V, L, Entries, LiveCopies
  <2>4. CASE P' = P
    BY <1>6, <2>3, <2>4
  <2>5. CASE P' # P
    <3>1. ~P /\ P' /\ job[s].doc = u /\ job[s].copy = 0
      BY <1>8, <2>5 DEF P, OriginalParked
    <3>2. \A j \in LiveJobs : j.doc = u => j.copy = 0
      BY <3>1 DEF P, OriginalParked, CopyInv, JobsFollowRequests, AllJobs
    <3>3. L' = {}
      BY <2>2, <3>1, <3>2 DEF L, LiveCopies, SameCopy
    <3>4. 0 \in L
      BY <2>1, <3>1, StoreAssumption DEF L, LiveCopies
    <3>5. Cardinality(L') = 0 /\ 1 <= Cardinality(L)
      BY <1>1, <1>2, <3>3, <3>4, FS_EmptySet
    <3>6. Cardinality(V') \in Nat /\ Cardinality(V') <= Cardinality(V)
      BY <1>1, <2>3, CountShrinks
    <3> QED
      BY <1>2, <1>3, <1>4, <3>1, <3>5, <3>6
  <2> QED
    BY <2>4, <2>5
<1>9. CASE Descends
  <2>1. L' \subseteq L
    BY <1>9, WorkDescends DEF L
  <2>2. CASE V' \subseteq V /\ ParkedJobs' = ParkedJobs
    <3>1. P' = P
      BY <2>2 DEF P, OriginalParked
    <3> QED
      BY <1>6, <2>1, <2>2, <3>1
  <2> QED
    BY <1>7, <1>8, <2>2, VerdictEntries, ParkedSteps DEF V
<1>10. ASSUME NEW v \in Uploads, Enqueue(v) \/ EnqueueReplyLost(v), UNCHANGED workerVars
       PROVE  Cardinality(V') + Cardinality(L') <= Bound'
  <2>1. CASE v = u
    <3>1. V' = {} /\ L' \subseteq {0} /\ ~P'
      BY <1>10, <2>1, FirstWork DEF V, L, P
    <3>2. IsFiniteSet({0}) /\ Cardinality({0}) = 1
      BY FS_Singleton
    <3>3. Cardinality(L') \in Nat /\ Cardinality(L') <= 1
      BY <3>1, <3>2, CountShrinks
    <3>4. Cardinality(V') = 0
      BY <3>1, FS_EmptySet
    <3> QED
      BY <3>1, <3>3, <3>4
  <2>2. CASE v # u
    <3>1. NewJob(v) \in IntakeJob /\ NewJob(v).doc = v
      BY StoreAssumption DEF NewJob, IntakeJob
    <3>2. queue' = Append(queue, NewJob(v)) /\ audit' = audit /\ dlq' = dlq
      BY <1>10 DEF Enqueue, EnqueueReplyLost
    <3>3. L' \subseteq L
      BY <1>10, <2>2, <3>1, <3>2, WorkAppended DEF L
    <3>4. V' \subseteq V /\ P' = P
      BY <3>2 DEF V, P, Entries, OriginalParked, ParkedJobs
    <3> QED
      BY <1>6, <3>3, <3>4
  <2> QED
    BY <2>1, <2>2
<1>11. ASSUME NEW letter \in dlq, Replay(letter), UNCHANGED workerVars
       PROVE  Cardinality(V') + Cardinality(L') <= Bound'
  <2>1. V' = V /\ P' = P
    BY <1>11, ReplayedWork DEF V, P
  <2>2. replays' = replays + 1
    BY <1>11 DEF Replay
  <2>3. CASE letter.doc = u
    <3>1. P /\ L' \subseteq L \union {replays + 1}
      BY <1>11, <2>3, ReplayedWork DEF L, P
    <3>2. Cardinality(L') \in Nat /\ Cardinality(L') <= Cardinality(L) + 1
      BY <1>1, <3>1, CountGrows
    <3> QED
      BY <1>2, <1>3, <1>4, <2>1, <2>2, <3>1, <3>2
  <2>4. CASE letter.doc # u
    <3>1. L' \subseteq L
      BY <1>11, <2>4, ReplayedWork DEF L
    <3> QED
      BY <1>6, <2>1, <3>1
  <2> QED
    BY <2>3, <2>4
<1> QED
  BY <1>9, <1>10, <1>11, WorkSteps

LEMMA WorkInit == Init => WorkInv
<1> SUFFICES ASSUME Init, NEW u \in Uploads PROVE StartsBounded(u) /\ VerdictsBounded(u)
  BY DEF WorkInv
<1>1. AllJobs = {}
  <2>1. queue = << >> \/ queue = <<Poison>>
    BY DEF Init, StoreInit
  <2>2. QueuedJobs = {}
    BY <2>1 DEF QueuedJobs
  <2> QED
    BY <2>2 DEF Init, StoreInit, WorkerInit, AllJobs, LiveJobs, HeldJobs, SleepingJobs,
       ParkedJobs, Busy
<1>2. \A entry : Entries(u, entry) = {}
  BY DEF Init, StoreInit, Entries
<1>3. \A c, a : ~MayStart(u, c, a)
  BY <1>1 DEF MayStart, AllJobs, LiveJobs, HeldJobs
<1>4. FutureStarts(u) = {} /\ LiveCopies(u) = {} /\ ~OriginalParked(u)
  BY <1>1, <1>3 DEF FutureStarts, LiveCopies, OriginalParked, AllJobs
<1>5. Budget \in Nat /\ replays = 0
  BY WorkerAssumption, StoreAssumption DEF Budget, Init, StoreInit
<1> QED
  BY <1>2, <1>4, <1>5, FS_EmptySet DEF StartsBounded, VerdictsBounded

(* What was spent on a document and what is left of its budget never add up to
   more than the retries the settings grant and one attempt per replay. *)
THEOREM WorkInductive == Spec => []WorkInv
<1>1. IInv /\ TrailInv /\ CopyInv /\ WorkInv /\ [Next]_vars => WorkInv'
  BY StartsStep, VerdictsStep DEF WorkInv
<1> QED
  BY <1>1, WorkInit, Inductive, TrailInductive, CopyInductive, PTL DEF Spec

(* A document's extraction starts no more often than the budget and the replays
   allow, and each copy of its job commits one verdict at most, whatever crashes,
   repeats or races. *)
THEOREM WorkIsBounded == Spec => []BoundedWork
<1>1. IInv /\ WorkInv => BoundedWork
  <2> SUFFICES ASSUME IInv, WorkInv, NEW u \in Uploads
               PROVE  /\ Cardinality(Entries(u, "EXTRACTION_STARTED")) <= replays + Budget
                      /\ Cardinality(Entries(u, "VALIDATION_COMPLETED"))
                           <= IF replays = 0 THEN 1 ELSE replays
    BY DEF BoundedWork, Budget
  <2>1. /\ Cardinality(Entries(u, "EXTRACTION_STARTED")) \in Nat
        /\ Cardinality(Entries(u, "VALIDATION_COMPLETED")) \in Nat
        /\ Cardinality(FutureStarts(u)) \in Nat
        /\ Cardinality(LiveCopies(u)) \in Nat
    BY WorkIsFinite, FS_CardinalityType DEF IInv
  <2>2. Budget \in Nat /\ replays \in Nat
    BY WorkerAssumption, StoreAssumption DEF Budget, IInv, TypeOK
  <2>3. StartsBounded(u) /\ VerdictsBounded(u)
    BY DEF WorkInv
  <2> QED
    BY <2>1, <2>2, <2>3 DEF StartsBounded, VerdictsBounded
<1> QED
  BY <1>1, WorkInductive, Inductive, PTL
==============================================================================
