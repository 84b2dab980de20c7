------------------------ MODULE PipelineSafetyProofs ------------------------
(***************************************************************************)
(* The invariants that hold whatever fails and however often jobs are      *)
(* redelivered: IInv is inductive, and each published invariant follows.   *)
(***************************************************************************)
EXTENDS PipelineProofs

LEMMA SafetyInit == Init => IInv
<1> SUFFICES ASSUME Init PROVE IInv
  OBVIOUS
<1>1. TypeOK
  BY TypeInit
<1>2. queue = << >> \/ queue = <<Poison>>
  BY DEF Init, StoreInit
<1>3. QueuedJobs = {}
  BY <1>2 DEF QueuedJobs
<1>4. AllJobs = {}
  BY <1>3 DEF Init, StoreInit, WorkerInit, AllJobs, LiveJobs, HeldJobs, SleepingJobs,
     ParkedJobs, Busy
<1> QED
  BY <1>1, <1>4 DEF Init, StoreInit, IntakeInit, WorkerInit, IInv, RowsFollowRequests,
     StoredBeforeQueued, SlotsHoldRows, DownIsIdle, Budgeted, JobHasBlob, AllJobs,
     OneRowPerContent, PendingAccounted, Pending, Flushed, OutagesAreCounted,
     StartedAccounted

-----------------------------------------------------------------------------
(* The store's columns only move one way. *)
LEMMA StoreMonotone ==
  ASSUME IInv, [Next]_vars
  PROVE  /\ lost \subseteq lost'
         /\ \A u \in Uploads : blob[u] # "absent" => blob'[u] # "absent"
         /\ \A u \in Uploads : req[u] = "accepted" => req'[u] = "accepted"
<1> USE DEF IInv, TypeOK, Goto, storeVars, workerVars
<1>1. CASE ApiNext
  BY <1>1 DEF ApiNext, RequestStep, RequestFault, RefuseAtGate, CheckDuplicate, PutBlob,
     InsertRow, Enqueue, CommitUpload, EnqueueReplyLost, RollBack, InFlight, Flushed
<1>2. CASE WorkerNext
  <2>1. ASSUME NEW s \in Slots, Pop(s) \/ StopPolling(s) \/ SlotStep(s) \/ SlotFault(s)
        PROVE  blob' = blob /\ lost \subseteq lost'
    BY <2>1 DEF Pop, StopPolling, SlotStep, SlotFault, ParkPoison, DropMissing,
       SkipFinished, Load, Verify, FailIntegrity, StartExtraction, RejectedByOcr,
       CommitVerdict, UniqueViolation, OcrFails, ScheduleRetry, Park, PopReplyLost,
       InfraFails, ParkSuppressed, Terminate
  <2>2. ASSUME NEW w \in Workers, ProcessStep(w) \/ ProcessFault(w)
        PROVE  blob' = blob /\ lost \subseteq lost'
    BY <2>2 DEF ProcessStep, ProcessFault, Requeue, RequeueSuppressed, Exit, Restart,
       RequestStop, Crash
  <2> QED
    BY <1>2, <2>1, <2>2 DEF WorkerNext
<1>3. CASE EnvironmentNext
  BY <1>3 DEF EnvironmentNext, Corrupt, Replay
<1>4. CASE UNCHANGED vars
  BY <1>4 DEF vars
<1> QED
  BY <1>1, <1>2, <1>3, <1>4 DEF Next

(* The only ways a committed status changes: the upload's own commit, or a slot
   that holds a job of the document and either keeps it (EXTRACTING) or is done
   with the document. *)
RowStep(u) ==
  \/ status'[u] = status[u]
  \/ /\ req[u] = "enqueued"
     /\ req'[u] = "accepted"
     /\ status'[u] = "QUEUED"
  \/ /\ req'[u] = req[u]
     /\ \E s \in Slots :
          /\ Doc(s) = u
          /\ \/ /\ pc[s] = "extracting" /\ pc'[s] \notin Busy
                /\ status'[u] \in {"VALIDATED", "REVIEW_REQUIRED", "REJECTED", "FAILED"}
             \/ /\ pc[s] = "verified" /\ pc'[s] = "extracting" /\ job'[s] = job[s]
                /\ status'[u] = "EXTRACTING"

LEMMA TerminateRow ==
  ASSUME IInv, NEW s \in Slots, pc[s] \in {"loaded", "extracting"}, UNCHANGED req,
         NEW target \in {"FAILED", "QUARANTINED"}, NEW entry, Terminate(s, target, entry),
         pc[s] = "loaded" => target = "QUARANTINED",
         pc[s] = "extracting" => target = "FAILED",
         NEW u \in Uploads
  PROVE  RowStep(u)
<1>1. CASE pc[s] = "loaded"
  <2>1. seen[s] \in {"QUEUED", "EXTRACTING"}
    BY <1>1 DEF IInv, SlotsHoldRows
  <2>2. ~Advances(s, "QUARANTINED")
    BY <2>1 DEF Advances, CanTransition, AllowedTransitions, Statuses
  <2> QED
    BY <1>1, <2>2 DEF Terminate, storeVars, RowStep
<1>2. CASE pc[s] = "extracting"
  <2>1. status \in [Uploads -> Statuses \union {"none"}] /\ pc \in [Slots -> SlotStates]
    BY DEF IInv, TypeOK
  <2>2. CASE ~Advances(s, target)
    BY <2>2 DEF Terminate, storeVars, RowStep
  <2>3. CASE Advances(s, target)
    <3>1. pc'[s] \notin Busy
      BY <2>1, <2>3 DEF Terminate, Release, Idle, Busy
    <3>2. status'[u] = status[u] \/ (Doc(s) = u /\ status'[u] = "FAILED")
      BY <1>2, <2>1, <2>3 DEF Terminate, StatusAfter
    <3> QED BY <1>2, <3>1, <3>2 DEF RowStep
  <2> QED BY <2>2, <2>3
<1> QED
  BY <1>1, <1>2

LEMMA RowSteps ==
  ASSUME IInv, [Next]_vars, NEW u \in Uploads
  PROVE  RowStep(u)
<1>1. CASE ApiNext
  BY <1>1 DEF ApiNext, RequestStep, RequestFault, RefuseAtGate, CheckDuplicate, PutBlob,
     InsertRow, Enqueue, CommitUpload, EnqueueReplyLost, RollBack, Goto, storeVars,
     RowStep, IInv, TypeOK
<1>2. CASE WorkerNext
  <2>1. ASSUME NEW s \in Slots, UNCHANGED req,
               Pop(s) \/ StopPolling(s) \/ SlotStep(s) \/ SlotFault(s)
        PROVE  RowStep(u)
    <3>1. CASE UNCHANGED status
      BY <3>1 DEF RowStep
    <3>2. CASE FailIntegrity(s)
      BY <2>1, <3>2, TerminateRow DEF FailIntegrity
    <3>3. CASE RejectedByOcr(s)
      BY <2>1, <3>3, TerminateRow DEF RejectedByOcr
    <3>4. CASE StartExtraction(s)
      BY <2>1, <3>4 DEF StartExtraction, StatusAfter, At, RowStep, IInv, TypeOK
    <3>5. CASE CommitVerdict(s)
      BY <2>1, <3>5 DEF CommitVerdict, Verdicts, Release, Idle, Busy, RowStep, IInv, TypeOK
    <3> QED
      BY <2>1, <3>1, <3>2, <3>3, <3>4, <3>5 DEF Pop, StopPolling, SlotStep, SlotFault,
         ParkPoison, DropMissing, SkipFinished, Load, Verify, UniqueViolation, OcrFails,
         ScheduleRetry, Park, PopReplyLost, InfraFails, ParkSuppressed, storeVars
  <2>2. ASSUME NEW w \in Workers, ProcessStep(w) \/ ProcessFault(w)
        PROVE  RowStep(u)
    BY <2>2 DEF ProcessStep, ProcessFault, Requeue, RequeueSuppressed, Exit, Restart,
       RequestStop, Crash, storeVars, RowStep
  <2> QED
    BY <1>2, <2>1, <2>2 DEF WorkerNext
<1>3. CASE EnvironmentNext
  BY <1>3 DEF EnvironmentNext, Corrupt, Replay, RowStep
<1>4. CASE UNCHANGED vars
  BY <1>4 DEF vars, storeVars, RowStep
<1> QED
  BY <1>1, <1>2, <1>3, <1>4 DEF Next

(* The only ways a request moves. *)
LEMMA RequestSteps ==
  ASSUME IInv, [Next]_vars, req' # req
  PROVE  \E u \in Uploads : RequestStep(u) \/ RequestFault(u)
  BY DEF Next, ApiNext, WorkerNext, EnvironmentNext, vars

-----------------------------------------------------------------------------
LEMMA RowsStep == IInv /\ [Next]_vars => RowsFollowRequests'
<1> SUFFICES ASSUME IInv, [Next]_vars, NEW u \in Uploads
             PROVE  /\ status'[u] # "none" <=> req'[u] = "accepted"
                    /\ status'[u] \in CommittedStatuses \union {"none"}
  BY DEF RowsFollowRequests
<1>1. RowStep(u)
  BY RowSteps
<1>2. req[u] = "accepted" => req'[u] = "accepted"
  BY StoreMonotone
<1>3. req'[u] = "accepted" => req[u] = "accepted" \/ status'[u] = "QUEUED"
  <2>1. CASE UNCHANGED req
    BY <2>1
  <2>2. CASE \E v \in Uploads : RequestStep(v) \/ RequestFault(v)
    BY <2>2 DEF RequestStep, RequestFault, RefuseAtGate, CheckDuplicate, PutBlob,
       InsertRow, Enqueue, CommitUpload, EnqueueReplyLost, RollBack, Goto, IInv, TypeOK
  <2> QED
    BY <2>1, <2>2, RequestSteps
<1>4. \A s \in Slots : pc[s] \in {"verified", "extracting"} => status[Doc(s)] # "none"
  BY DEF IInv, SlotsHoldRows
<1> QED
  BY <1>1, <1>2, <1>3, <1>4 DEF RowStep, CommittedStatuses, IInv, RowsFollowRequests

LEMMA StoredStep == IInv /\ [Next]_vars => StoredBeforeQueued'
<1> SUFFICES ASSUME IInv, [Next]_vars, NEW u \in Uploads,
                    req'[u] \in {"stored", "accepted"} \union Flushed
             PROVE  blob'[u] # "absent"
  BY DEF StoredBeforeQueued, Flushed
<1>1. CASE req[u] \in {"stored", "accepted"} \union Flushed
  BY <1>1, StoreMonotone DEF IInv, StoredBeforeQueued
<1>2. CASE req[u] \notin {"stored", "accepted"} \union Flushed
  <2>1. \E v \in Uploads : RequestStep(v) \/ RequestFault(v)
    BY <1>2, RequestSteps
  <2> QED
    BY <1>2, <2>1 DEF RequestStep, RequestFault, RefuseAtGate, CheckDuplicate, PutBlob,
       InsertRow, Enqueue, CommitUpload, EnqueueReplyLost, RollBack, Goto, Flushed,
       IInv, TypeOK
<1> QED
  BY <1>1, <1>2

LEMMA OneRowStep == IInv /\ [Next]_vars => OneRowPerContent'
<1> DEFINE Claims(u) == status[u] # "none" \/ req[u] \in Flushed
<1> SUFFICES ASSUME IInv, [Next]_vars, NEW u \in Uploads, NEW v \in Uploads,
                    SameContent(u, v), Claims(u)', Claims(v)'
             PROVE  u = v
  BY DEF OneRowPerContent, SameContent
<1>1. \A x \in Uploads : Claims(x) <=> req[x] \in {"accepted"} \union Flushed
  BY DEF IInv, RowsFollowRequests
<1>2. \A x \in Uploads : Claims(x)' <=> req'[x] \in {"accepted"} \union Flushed
  BY RowsStep DEF RowsFollowRequests, Flushed
<1>3. \A x \in Uploads : Claims(x)' =>
        \/ Claims(x)
        \/ /\ \A y \in Uploads : SameContent(x, y) => ~Claims(y)
           /\ \A y \in Uploads : y # x => req'[y] = req[y]
  <2> SUFFICES ASSUME NEW x \in Uploads, Claims(x)', ~Claims(x)
               PROVE  /\ \A y \in Uploads : SameContent(x, y) => ~Claims(y)
                      /\ \A y \in Uploads : y # x => req'[y] = req[y]
    OBVIOUS
  <2>1. PICK z \in Uploads : RequestStep(z) \/ RequestFault(z)
    BY <1>1, <1>2, RequestSteps
  <2>2. InsertRow(z) /\ z = x /\ ~CommittedTwin(x)
    BY <2>1, <1>1, <1>2 DEF RequestStep, RequestFault, RefuseAtGate, CheckDuplicate,
       PutBlob, InsertRow, Enqueue, CommitUpload, EnqueueReplyLost, RollBack, Goto,
       Flushed, InFlight, IInv, TypeOK
  <2> QED
    BY <2>2 DEF InsertRow, CommittedTwin, Goto, IInv, TypeOK
<1>4. SameContent(v, u)
  BY DEF SameContent
<1> QED
  BY <1>1, <1>2, <1>3, <1>4 DEF IInv, OneRowPerContent

LEMMA JobsStep == IInv /\ [Next]_vars => Budgeted' /\ JobHasBlob'
<1> SUFFICES ASSUME IInv, [Next]_vars, NEW j \in AllJobs'
             PROVE  j.attempt \in 1..Budget /\ blob'[j.doc] # "absent"
  BY DEF Budgeted, JobHasBlob, AllJobs, Budget
<1>1. j \in AllJobs \/ (j.attempt \in 1..Budget /\ blob[j.doc] # "absent")
  BY FlowNext DEF Flow
<1>2. j.attempt \in 1..Budget /\ blob[j.doc] # "absent"
  BY <1>1 DEF IInv, Budgeted, JobHasBlob, AllJobs
<1>3. j.doc \in Uploads
  <2>1. TypeOK'
    BY TypeNext DEF IInv
  <2>2. j \in IntakeJob
    <3>1. CASE j \in QueuedJobs'
      BY <2>1, <3>1 DEF TypeOK, QueuedJobs, Payloads
    <3>2. CASE j \in HeldJobs'
      BY <2>1, <3>2 DEF TypeOK, HeldJobs
    <3>3. CASE j \in SleepingJobs'
      BY <2>1, <3>3 DEF TypeOK, SleepingJobs
    <3>4. CASE j \in ParkedJobs'
      BY <2>1, <3>4 DEF TypeOK, ParkedJobs, Payloads
    <3> QED
      BY <3>1, <3>2, <3>3, <3>4 DEF AllJobs, LiveJobs
  <2> QED
    BY <2>2 DEF IntakeJob
<1> QED
  BY <1>2, <1>3, StoreMonotone

LEMMA AccountedStep == IInv /\ [Next]_vars => PendingAccounted'
<1> SUFFICES ASSUME IInv, [Next]_vars, NEW u \in Uploads, Pending(u)'
             PROVE  (\E k \in AllJobs' : k.doc = u) \/ u \in lost'
  BY DEF PendingAccounted, Carried, AllJobs
<1>1. RowStep(u)
  BY RowSteps
<1>2. RowsFollowRequests'
  BY RowsStep
<1>3. CASE Pending(u)
  <2>1. CASE u \in lost
    BY <2>1, StoreMonotone
  <2>2. CASE Carried(u)
    <3>1. PICK j \in AllJobs : j.doc = u
      BY <2>2 DEF Carried, AllJobs
    <3>2. ~IsTerminal(status'[u])
      BY <1>2 DEF Pending, RowsFollowRequests, IsTerminal, TerminalStatuses
    <3> QED
      BY <3>1, <3>2, FlowNext DEF Flow
  <2> QED
    BY <1>3, <2>1, <2>2 DEF IInv, PendingAccounted
<1>4. CASE ~Pending(u) /\ req'[u] = "enqueued"
  <2>1. PICK v \in Uploads : RequestStep(v) \/ RequestFault(v)
    BY <1>4, RequestSteps DEF Pending
  <2>2. Enqueue(v) /\ v = u
    BY <1>4, <2>1 DEF Pending, RequestStep, RequestFault, RefuseAtGate, CheckDuplicate,
       PutBlob, InsertRow, Enqueue, CommitUpload, EnqueueReplyLost, RollBack, Goto, IInv,
       TypeOK
  <2>3. NewJob(u) \in Payloads /\ NewJob(u).doc = u /\ NewJob(u) # Poison
    BY StoreAssumption DEF NewJob, Payloads, IntakeJob, Poison
  <2>4. NewJob(u) \in QueuedJobs'
    BY <2>2, <2>3, QueueAppend DEF Enqueue, IInv
  <2> QED
    BY <2>3, <2>4 DEF AllJobs, LiveJobs
<1>5. CASE ~Pending(u) /\ status'[u] \in {"QUEUED", "EXTRACTING"}
  <2>1. PICK s \in Slots : /\ Doc(s) = u
                           /\ pc'[s] = "extracting" /\ job'[s] = job[s]
    BY <1>1, <1>5 DEF RowStep, Pending
  <2>2. job[s] \in HeldJobs' /\ job[s].doc = u
    BY <2>1 DEF HeldJobs, Busy, Doc
  <2> QED
    BY <2>2 DEF AllJobs, LiveJobs
<1> QED
  BY <1>3, <1>4, <1>5 DEF Pending

(* Outages are never forgotten, nor a disruption of the workers. *)
LEMMA OutagesStep == IInv /\ [Next]_vars => OutagesAreCounted' /\ (Disrupted => Disrupted')
<1> SUFFICES ASSUME IInv, [Next]_vars
             PROVE  OutagesAreCounted' /\ (Disrupted => Disrupted')
  OBVIOUS
<1>1. outages \in Nat /\ worker \in [Workers -> {"up", "stopping", "down"}]
  BY WorkerAssumption DEF IInv, TypeOK
<1>2. CASE UNCHANGED <<worker, outages>>
  BY <1>2 DEF IInv, OutagesAreCounted, Disrupted
<1>3. ASSUME NEW w \in Workers, ProcessStep(w) \/ ProcessFault(w)
      PROVE  OutagesAreCounted' /\ (Disrupted => Disrupted')
  <2>1. CASE RequestStop(w) \/ Crash(w)
    <3>1. outages' = outages + 1
      BY <2>1 DEF RequestStop, Crash
    <3> QED BY <1>1, <3>1 DEF OutagesAreCounted, Disrupted
  <2>2. CASE Exit(w) \/ Restart(w)
    BY <1>1, <2>2 DEF Exit, Restart, IInv, OutagesAreCounted, Disrupted
  <2>3. CASE \E sleeper \in backoff[w] : Requeue(w, sleeper) \/ RequeueSuppressed(w, sleeper)
    BY <1>2, <2>3 DEF Requeue, RequeueSuppressed
  <2> QED BY <1>3, <2>1, <2>2, <2>3 DEF ProcessStep, ProcessFault
<1>4. ASSUME NEW s \in Slots, Pop(s) \/ StopPolling(s) \/ SlotStep(s) \/ SlotFault(s)
      PROVE  UNCHANGED <<worker, outages>>
  BY <1>4 DEF Pop, StopPolling, SlotStep, SlotFault, ParkPoison, DropMissing, SkipFinished,
     Load, Verify, FailIntegrity, StartExtraction, RejectedByOcr, CommitVerdict,
     UniqueViolation, OcrFails, ScheduleRetry, Park, PopReplyLost, InfraFails,
     ParkSuppressed, Terminate, workerVars
<1> QED
  BY <1>2, <1>3, <1>4 DEF Next, ApiNext, WorkerNext, EnvironmentNext, vars, workerVars

(* The job of a started document is dropped neither for a missing row nor, while
   it stays unfinished, for a finished one. *)
LEMMA StartedStep == IInv /\ [Next]_vars => StartedAccounted'
<1> SUFFICES ASSUME IInv, [Next]_vars, NEW u \in Uploads, status'[u] = "EXTRACTING",
                    ~Disrupted'
             PROVE  \E k \in AllJobs' : k.doc = u
  BY DEF StartedAccounted, Carried, AllJobs
<1>1. ~IsTerminal(status'[u])
  BY DEF IsTerminal, TerminalStatuses
<1>2. CASE status[u] = "EXTRACTING"
  <2>1. PICK j \in AllJobs : j.doc = u
    BY <1>2, OutagesStep DEF IInv, StartedAccounted, Carried, AllJobs
  <2> QED BY <1>1, <1>2, <2>1, FlowNext DEF Flow
<1>3. CASE status[u] # "EXTRACTING"
  <2>1. PICK s \in Slots : Doc(s) = u /\ pc'[s] = "extracting" /\ job'[s] = job[s]
    BY <1>3, RowSteps DEF RowStep
  <2>2. job[s] \in HeldJobs' /\ job[s].doc = u
    BY <2>1 DEF HeldJobs, Busy, Doc
  <2> QED BY <2>2 DEF AllJobs, LiveJobs
<1> QED BY <1>2, <1>3

-----------------------------------------------------------------------------
(* Committed rows stay, and a row that left QUEUED never returns to it. *)
LEMMA RowsStay ==
  ASSUME IInv, [Next]_vars, NEW u \in Uploads, status[u] # "none"
  PROVE  status'[u] # "none" /\ (status[u] # "QUEUED" => status'[u] # "QUEUED")
<1>1. req[u] = "accepted"
  BY DEF IInv, RowsFollowRequests
<1> QED
  BY <1>1, RowSteps DEF RowStep

(* What SlotsHoldRows and DownIsIdle say of one slot. *)
SlotOK(s) ==
  /\ pc[s] = "poison" => job[s] = Poison
  /\ pc[s] \in {"loaded", "verified"} =>
       seen[s] \in {"QUEUED", "EXTRACTING"} /\ status[Doc(s)] # "none"
  /\ pc[s] = "extracting" => seen[s] = "EXTRACTING" /\ status[Doc(s)] # "none"
  /\ pc[s] \in {"loaded", "verified", "extracting"} /\ seen[s] = "EXTRACTING" =>
       status[Doc(s)] # "QUEUED"
  /\ worker[Home[s]] = "down" => pc[s] = "exited"

LEMMA SlotOKSame ==
  ASSUME IInv, [Next]_vars, NEW s \in Slots,
         pc'[s] = pc[s], job'[s] = job[s], seen'[s] = seen[s],
         worker'[Home[s]] = "down" => worker[Home[s]] = "down"
  PROVE  SlotOK(s)'
<1>1. SlotOK(s)
  BY WorkerAssumption DEF IInv, SlotsHoldRows, DownIsIdle, SlotsOf, SlotOK
<1>2. pc[s] \in Busy => Doc(s) \in Uploads
  BY DEF IInv, TypeOK, Doc, IntakeJob
<1> QED
  BY <1>1, <1>2, RowsStay DEF SlotOK, Doc, Busy

LEMMA SlotOKRelease ==
  ASSUME IInv, NEW s \in Slots, Release(s), pc[s] # "exited", UNCHANGED worker
  PROVE  SlotOK(s)'
<1>1. worker[Home[s]] # "down"
  BY WorkerAssumption DEF IInv, DownIsIdle, SlotsOf
<1> QED
  BY <1>1 DEF Release, Idle, SlotOK, IInv, TypeOK

LEMMA SlotSteps ==
  ASSUME IInv, [Next]_vars, NEW s \in Slots, UNCHANGED req,
         Pop(s) \/ StopPolling(s) \/ SlotStep(s) \/ SlotFault(s)
  PROVE  SlotOK(s)'
<1> USE DEF IInv
<1>1. worker[Home[s]] = "down" => pc[s] = "exited"
  BY WorkerAssumption DEF DownIsIdle, SlotsOf
<1>2. pc[s] \in Busy => Doc(s) \in Uploads
  BY DEF TypeOK, Doc, IntakeJob
<1>3. CASE Pop(s)
  BY <1>1, <1>3, PopJobs DEF Pop, At, SlotOK, TypeOK
<1>4. CASE StopPolling(s)
  BY <1>4 DEF StopPolling, At, SlotOK, TypeOK
<1>5. CASE Release(s) /\ pc[s] # "exited" /\ UNCHANGED worker
  BY <1>5, SlotOKRelease
<1>6. CASE Load(s)
  <2>1. status[Doc(s)] \in {"QUEUED", "EXTRACTING"}
    BY <1>2, <1>6 DEF Load, Busy, RowsFollowRequests, CommittedStatuses, IsTerminal,
       TerminalStatuses
  <2> QED
    BY <1>1, <1>6, <2>1 DEF Load, At, SlotOK, TypeOK, Doc, storeVars
<1>7. CASE Verify(s)
  BY <1>1, <1>7 DEF Verify, At, SlotOK, SlotsHoldRows, TypeOK, Doc, storeVars
<1>8. CASE StartExtraction(s)
  <2>1. status'[Doc(s)] # "none"
    BY <1>2, <1>8, RowsStay DEF StartExtraction, SlotsHoldRows, Busy
  <2>2. status'[Doc(s)] # "QUEUED"
    BY <1>2, <1>8 DEF StartExtraction, StatusAfter, SlotsHoldRows, Busy, TypeOK
  <2> QED
    BY <1>1, <1>8, <2>1, <2>2 DEF StartExtraction, At, SlotOK, TypeOK, Doc
<1>9. CASE At(s, "failed") /\ pc[s] \in Busy /\ UNCHANGED worker
  BY <1>1, <1>9 DEF At, SlotOK, TypeOK, Busy
<1>10. CASE PopReplyLost(s)
  BY <1>10, SlotOKSame DEF PopReplyLost, workerVars
<1> QED
  BY <1>3, <1>4, <1>5, <1>6, <1>7, <1>8, <1>9, <1>10 DEF SlotStep, SlotFault, ParkPoison,
     DropMissing, SkipFinished, FailIntegrity, RejectedByOcr, Terminate, CommitVerdict,
     UniqueViolation, OcrFails, ScheduleRetry, Park, InfraFails, ParkSuppressed, Busy

LEMMA SlotsStep == IInv /\ [Next]_vars => SlotsHoldRows' /\ DownIsIdle'
<1> SUFFICES ASSUME IInv, [Next]_vars, NEW s \in Slots
             PROVE  SlotOK(s)'
  BY WorkerAssumption DEF SlotsHoldRows, DownIsIdle, SlotsOf, SlotOK
<1>1. CASE UNCHANGED workerVars
  BY <1>1, SlotOKSame DEF workerVars
<1>2. ASSUME NEW t \in Slots, UNCHANGED req,
             Pop(t) \/ StopPolling(t) \/ SlotStep(t) \/ SlotFault(t)
      PROVE  SlotOK(s)'
  <2>1. CASE t = s
    BY <1>2, <2>1, SlotSteps
  <2>2. CASE t # s
    <3>1. pc'[s] = pc[s] /\ job'[s] = job[s] /\ seen'[s] = seen[s] /\ worker' = worker
      BY <1>2, <2>2 DEF Pop, StopPolling, SlotStep, SlotFault, ParkPoison, DropMissing,
         SkipFinished, Load, Verify, FailIntegrity, StartExtraction, RejectedByOcr,
         CommitVerdict, UniqueViolation, OcrFails, ScheduleRetry, Park, PopReplyLost,
         InfraFails, ParkSuppressed, Terminate, Release, At, workerVars, IInv, TypeOK
    <3> QED
      BY <3>1, SlotOKSame
  <2> QED
    BY <2>1, <2>2
<1>3. ASSUME NEW w \in Workers, ProcessStep(w) \/ ProcessFault(w)
      PROVE  SlotOK(s)'
  <2>1. CASE \E sleeper \in backoff[w] : Requeue(w, sleeper) \/ RequeueSuppressed(w, sleeper)
    BY <2>1, SlotOKSame DEF Requeue, RequeueSuppressed
  <2>2. CASE RequestStop(w)
    BY <2>2, SlotOKSame, WorkerAssumption DEF RequestStop, IInv, TypeOK
  <2>3. CASE (Exit(w) \/ Crash(w)) /\ Home[s] # w
    BY <2>3, SlotOKSame, WorkerAssumption DEF Exit, Crash, IInv, TypeOK
  <2>4. CASE (Exit(w) \/ Crash(w)) /\ Home[s] = w
    BY <2>4, WorkerAssumption DEF Exit, Crash, SlotsOf, SlotOK, IInv, TypeOK
  <2>5. CASE Restart(w) /\ Home[s] # w
    BY <2>5, SlotOKSame, WorkerAssumption DEF Restart, IInv, TypeOK
  <2>6. CASE Restart(w) /\ Home[s] = w
    BY <2>6, WorkerAssumption DEF Restart, SlotOK, IInv, TypeOK
  <2> QED
    BY <1>3, <2>1, <2>2, <2>3, <2>4, <2>5, <2>6 DEF ProcessStep, ProcessFault
<1> QED
  BY <1>1, <1>2, <1>3 DEF Next, ApiNext, WorkerNext, EnvironmentNext, vars

-----------------------------------------------------------------------------
LEMMA SafetyNext == IInv /\ [Next]_vars => IInv'
  BY TypeNext, RowsStep, StoredStep, SlotsStep, JobsStep, OneRowStep, AccountedStep,
     OutagesStep, StartedStep
  DEF IInv

(* The inductive invariant holds for every number of uploads, workers, slots,
   retries, outages and replays, under every fault. *)
THEOREM Inductive == Spec => []IInv
  BY SafetyInit, SafetyNext, PTL DEF Spec

(* Whatever fails, a job in the system points at bytes that were stored. *)
THEOREM JobsPointAtBlobs == Spec => []JobHasBlob
<1>1. IInv => JobHasBlob
  BY DEF IInv
<1> QED
  BY <1>1, Inductive, PTL

(* However uploads race, a tenant's content has one row. *)
THEOREM ContentHasOneRow == Spec => []OneRowPerContent
<1>1. IInv => OneRowPerContent
  BY DEF IInv
<1> QED
  BY <1>1, Inductive, PTL

(* The retry arithmetic stays inside the message contract. *)
THEOREM JobsParse == Spec => []OwnJobsParse
<1>1. IInv => OwnJobsParse
  <2> SUFFICES ASSUME IInv, NEW j \in AllJobs PROVE Parses(j)
    BY DEF OwnJobsParse, AllJobs
  <2>1. j.attempt \in 1..Budget /\ j \in IntakeJob
    BY JobsTyped DEF IInv, Budgeted
  <2>2. 1..Budget \subseteq 1..AttemptLimit
    BY StoreAssumption, WorkerAssumption DEF Budget
  <2> QED
    BY <2>1, <2>2, StoreAssumption DEF Parses, IntakeJob, Poison
<1> QED
  BY <1>1, Inductive, PTL

(* An unfinished document has a job, or its job is among the recorded losses; one
   that was started loses its last job only to a disruption. *)
THEOREM NothingElseLosesJobs == Spec => []Accounted
<1>1. IInv => Accounted
  BY DEF IInv, PendingAccounted, Pending, StartedAccounted, Accounted
<1> QED
  BY <1>1, Inductive, PTL

-----------------------------------------------------------------------------
(* How a slot comes to, or stays in, a state past its load. *)
LEMMA SlotAdvance ==
  ASSUME IInv, [Next]_vars, NEW s \in Slots,
         pc'[s] \in {"loaded", "verified", "extracting"}
  PROVE  \/ pc'[s] = pc[s] /\ job'[s] = job[s] /\ seen'[s] = seen[s]
         \/ Load(s) \/ Verify(s) \/ StartExtraction(s)
<1> USE DEF IInv, TypeOK
<1>1. ASSUME NEW t \in Slots, t # s,
             Pop(t) \/ StopPolling(t) \/ SlotStep(t) \/ SlotFault(t)
      PROVE  pc'[s] = pc[s] /\ job'[s] = job[s] /\ seen'[s] = seen[s]
  BY <1>1 DEF Pop, StopPolling, SlotStep, SlotFault, ParkPoison, DropMissing,
     SkipFinished, Load, Verify, FailIntegrity, StartExtraction, RejectedByOcr,
     CommitVerdict, UniqueViolation, OcrFails, ScheduleRetry, Park, PopReplyLost,
     InfraFails, ParkSuppressed, Terminate, Release, At, workerVars
<1>2. ASSUME Pop(s) \/ StopPolling(s) \/ SlotStep(s) \/ SlotFault(s)
      PROVE  \/ pc'[s] = pc[s] /\ job'[s] = job[s] /\ seen'[s] = seen[s]
             \/ Load(s) \/ Verify(s) \/ StartExtraction(s)
  BY <1>2 DEF Pop, StopPolling, SlotStep, SlotFault, ParkPoison, DropMissing,
     SkipFinished, FailIntegrity, RejectedByOcr, CommitVerdict, UniqueViolation,
     OcrFails, ScheduleRetry, Park, PopReplyLost, InfraFails, ParkSuppressed, Terminate,
     Release, Idle, At, workerVars
<1>3. ASSUME NEW w \in Workers, ProcessStep(w) \/ ProcessFault(w)
      PROVE  pc'[s] = pc[s] /\ job'[s] = job[s] /\ seen'[s] = seen[s]
  BY <1>3 DEF ProcessStep, ProcessFault, Requeue, RequeueSuppressed, Exit, Restart,
     RequestStop, Crash
<1> QED
  BY <1>1, <1>2, <1>3 DEF Next, ApiNext, WorkerNext, EnvironmentNext, vars, workerVars

(* The entries a slot's last commit adds, by the status it commits. *)
ClosingEntries(t) ==
  IF t = "FAILED" THEN <<"PROCESSING_FAILED">>
  ELSE <<"EXTRACTION_COMPLETED", "VALIDATION_COMPLETED">>
       \o (IF t = "REJECTED" THEN <<"DOCUMENT_REJECTED">> ELSE << >>)

(* The only ways a trail changes, and what the row does at the same time. *)
TrailStep(u) ==
  \/ audit'[u] = audit[u] /\ status'[u] = status[u]
  \/ /\ req[u] = "enqueued" /\ status'[u] = "QUEUED"
     /\ audit'[u] = <<"DOCUMENT_UPLOADED", "DOCUMENT_QUEUED">>
     /\ UNCHANGED workerVars
  \/ \E s \in Slots :
       /\ Doc(s) = u
       /\ \/ /\ StartExtraction(s)
             /\ audit'[u] = audit[u] \o <<"EXTRACTION_STARTED">>
             /\ status'[u] = IF seen[s] = "EXTRACTING" THEN status[u] ELSE "EXTRACTING"
          \/ /\ pc[s] = "extracting" /\ Release(s) /\ UNCHANGED <<queue, dlq, backoff>>
             /\ status'[u] \in {"VALIDATED", "REVIEW_REQUIRED", "REJECTED", "FAILED"}
             /\ audit'[u] = audit[u] \o ClosingEntries(status'[u])

LEMMA TrailSteps ==
  ASSUME IInv, [Next]_vars, NEW u \in Uploads
  PROVE  TrailStep(u)
<1> USE DEF IInv, TypeOK
<1>1. CASE ApiNext
  BY <1>1 DEF ApiNext, RequestStep, RequestFault, RefuseAtGate, CheckDuplicate, PutBlob,
     InsertRow, Enqueue, CommitUpload, EnqueueReplyLost, RollBack, Goto, storeVars,
     TrailStep
<1>2. ASSUME NEW s \in Slots, UNCHANGED req,
             Pop(s) \/ StopPolling(s) \/ SlotStep(s) \/ SlotFault(s)
      PROVE  TrailStep(u)
  <2>1. CASE UNCHANGED <<status, audit>>
    BY <2>1 DEF TrailStep
  <2>2. CASE FailIntegrity(s)
    <3>1. seen[s] \in {"QUEUED", "EXTRACTING"}
      BY <2>2 DEF FailIntegrity, SlotsHoldRows
    <3>2. ~Advances(s, "QUARANTINED")
      BY <3>1 DEF Advances, CanTransition, AllowedTransitions, Statuses
    <3> QED
      BY <2>1, <2>2, <3>2 DEF FailIntegrity, Terminate, storeVars
  <2>3. CASE RejectedByOcr(s) /\ Advances(s, "FAILED")
    <3>1. seen[s] = "EXTRACTING"
      BY <2>3 DEF RejectedByOcr, SlotsHoldRows
    <3>2. /\ pc[s] = "extracting" /\ Release(s) /\ UNCHANGED <<queue, dlq, backoff>>
          /\ status' = [status EXCEPT ![Doc(s)] = "FAILED"]
          /\ audit' = [audit EXCEPT ![Doc(s)] = @ \o <<"PROCESSING_FAILED">>]
      BY <2>3, <3>1 DEF RejectedByOcr, Terminate, StatusAfter, AuditAfter
    <3> QED
      BY <3>2 DEF TrailStep, ClosingEntries
  <2>4. CASE RejectedByOcr(s) /\ ~Advances(s, "FAILED")
    BY <2>1, <2>4 DEF RejectedByOcr, Terminate, storeVars
  <2>5. CASE StartExtraction(s)
    BY <2>5 DEF StartExtraction, StatusAfter, AuditAfter, TrailStep
  <2>6. CASE CommitVerdict(s)
    <3>1. PICK verdict \in Verdicts :
            /\ status' = [status EXCEPT ![Doc(s)] = verdict]
            /\ audit' = [audit EXCEPT ![Doc(s)] = @ \o ClosingEntries(verdict)]
      BY <2>6 DEF CommitVerdict, AuditAfter, ClosingEntries, Verdicts
    <3>2. pc[s] = "extracting" /\ Release(s) /\ UNCHANGED <<queue, dlq, backoff>>
      BY <2>6 DEF CommitVerdict
    <3> QED
      BY <3>1, <3>2 DEF TrailStep, Verdicts
  <2> QED
    BY <1>2, <2>1, <2>2, <2>3, <2>4, <2>5, <2>6 DEF Pop, StopPolling, SlotStep, SlotFault,
       ParkPoison, DropMissing, SkipFinished, Load, Verify, UniqueViolation, OcrFails,
       ScheduleRetry, Park, PopReplyLost, InfraFails, ParkSuppressed, storeVars
<1>3. ASSUME NEW w \in Workers, ProcessStep(w) \/ ProcessFault(w)
      PROVE  TrailStep(u)
  BY <1>3 DEF ProcessStep, ProcessFault, Requeue, RequeueSuppressed, Exit, Restart,
     RequestStop, Crash, storeVars, TrailStep
<1>4. CASE EnvironmentNext
  BY <1>4 DEF EnvironmentNext, Corrupt, Replay, TrailStep
<1>5. CASE UNCHANGED vars
  BY <1>5 DEF vars, storeVars, TrailStep
<1> QED
  BY <1>1, <1>2, <1>3, <1>4, <1>5 DEF Next, WorkerNext

LEMMA ClosingEntriesAre ==
  ASSUME NEW t \in {"VALIDATED", "REVIEW_REQUIRED", "REJECTED", "FAILED"}
  PROVE  /\ ClosingEntries(t) \in Seq(AuditActions)
         /\ Len(ClosingEntries(t)) \in 1..3
         /\ ClosingEntries(t)[Len(ClosingEntries(t))] = ClosingEntry[t]
         /\ \A i \in 1..Len(ClosingEntries(t)) :
              /\ ClosingEntries(t)[i] # "EXTRACTION_STARTED"
              /\ ClosingEntries(t)[i] = "VALIDATION_COMPLETED" <=> t # "FAILED" /\ i = 2
         /\ t # "FAILED" => Len(ClosingEntries(t)) \in {2, 3}
<1> DEFINE both == <<"EXTRACTION_COMPLETED", "VALIDATION_COMPLETED">>
<1>1. both \in Seq(AuditActions) /\ << >> \in Seq(AuditActions)
      /\ <<"DOCUMENT_REJECTED">> \in Seq(AuditActions)
      /\ <<"PROCESSING_FAILED">> \in Seq(AuditActions)
  BY DEF AuditActions
<1>2. ClosingEntry[t] = IF t = "FAILED" THEN "PROCESSING_FAILED"
                        ELSE IF t = "REJECTED" THEN "DOCUMENT_REJECTED"
                        ELSE "VALIDATION_COMPLETED"
  BY DEF ClosingEntry, Verdicts
<1>3. CASE t = "FAILED"
  <2>1. ClosingEntries(t) = <<"PROCESSING_FAILED">>
    BY <1>3 DEF ClosingEntries
  <2>2. Len(ClosingEntries(t)) = 1 /\ ClosingEntries(t)[1] = "PROCESSING_FAILED"
    BY <2>1
  <2>3. ClosingEntries(t) \in Seq(AuditActions)
    BY <1>1, <2>1
  <2> QED
    BY <1>2, <1>3, <2>2, <2>3
<1>4. CASE t = "REJECTED"
  <2>1. ClosingEntries(t) = both \o <<"DOCUMENT_REJECTED">>
    BY <1>4 DEF ClosingEntries
  <2>2. /\ Len(ClosingEntries(t)) = 3
        /\ ClosingEntries(t)[1] = "EXTRACTION_COMPLETED"
        /\ ClosingEntries(t)[2] = "VALIDATION_COMPLETED"
        /\ ClosingEntries(t)[3] = "DOCUMENT_REJECTED"
    BY <2>1
  <2>3. ClosingEntries(t) \in Seq(AuditActions)
    BY <1>1, <2>1, ConcatProperties
  <2> QED
    BY <1>2, <1>4, <2>2, <2>3
<1>5. CASE t \in {"VALIDATED", "REVIEW_REQUIRED"}
  <2>1. ClosingEntries(t) = both \o << >>
    BY <1>5 DEF ClosingEntries
  <2>2. /\ Len(ClosingEntries(t)) = 2
        /\ ClosingEntries(t)[1] = "EXTRACTION_COMPLETED"
        /\ ClosingEntries(t)[2] = "VALIDATION_COMPLETED"
    BY <2>1
  <2>3. ClosingEntries(t) \in Seq(AuditActions)
    BY <1>1, <2>1, ConcatProperties
  <2> QED
    BY <1>2, <1>5, <2>2, <2>3
<1> QED
  BY <1>3, <1>4, <1>5

LEMMA TrailGrows ==
  ASSUME IInv, NEW u \in Uploads, NEW entries \in Seq(AuditActions),
         audit'[u] = audit[u] \o entries
  PROVE  /\ Len(audit[u]) \in Nat /\ Len(entries) \in Nat
         /\ Len(audit'[u]) = Len(audit[u]) + Len(entries)
         /\ \A i \in 1..Len(audit[u]) : audit'[u][i] = audit[u][i]
         /\ \A i \in 1..Len(entries) : audit'[u][Len(audit[u]) + i] = entries[i]
<1>1. audit[u] \in Seq(AuditActions)
  BY DEF IInv, TypeOK
<1>2. /\ Len(audit[u]) \in Nat /\ Len(entries) \in Nat
      /\ Len(audit'[u]) = Len(audit[u]) + Len(entries)
      /\ \A i \in 1..Len(audit[u]) + Len(entries) :
           audit'[u][i] = IF i <= Len(audit[u]) THEN audit[u][i]
                          ELSE entries[i - Len(audit[u])]
  BY <1>1, ConcatProperties, LenProperties
<1> QED
  BY <1>2

(* Entries stay where they are, whatever is appended. *)
LEMMA EntriesStay ==
  ASSUME IInv, TrailInv, [Next]_vars, NEW u \in Uploads, status[u] # "none", NEW entry
  PROVE  Entries(u, entry) \subseteq Entries(u, entry)'
<1>1. CASE audit'[u] = audit[u]
  BY <1>1 DEF Entries
<1>2. ASSUME NEW entries \in Seq(AuditActions), audit'[u] = audit[u] \o entries
      PROVE  Entries(u, entry) \subseteq Entries(u, entry)'
  <2>1. /\ Len(audit[u]) \in Nat /\ Len(entries) \in Nat
        /\ Len(audit'[u]) = Len(audit[u]) + Len(entries)
        /\ \A i \in 1..Len(audit[u]) : audit'[u][i] = audit[u][i]
    BY <1>2, TrailGrows
  <2> QED
    BY <2>1 DEF Entries
<1>3. <<"EXTRACTION_STARTED">> \in Seq(AuditActions)
  BY DEF AuditActions
<1>4. req[u] # "enqueued"
  BY DEF IInv, RowsFollowRequests
<1>5. CASE audit'[u] = audit[u] \o <<"EXTRACTION_STARTED">>
  BY <1>2, <1>3, <1>5
<1>6. CASE /\ status'[u] \in {"VALIDATED", "REVIEW_REQUIRED", "REJECTED", "FAILED"}
           /\ audit'[u] = audit[u] \o ClosingEntries(status'[u])
  <2>1. ClosingEntries(status'[u]) \in Seq(AuditActions)
    BY <1>6, ClosingEntriesAre
  <2> QED
    BY <1>2, <1>6, <2>1
<1> QED
  BY <1>1, <1>4, <1>5, <1>6, TrailSteps DEF TrailStep

LEMMA TrailInit == Init => TrailInv
<1> SUFFICES ASSUME Init PROVE TrailInv
  OBVIOUS
<1>1. \A u \in Uploads : ~IsTerminal(status[u])
  BY DEF Init, StoreInit, IsTerminal, TerminalStatuses
<1> QED
  BY <1>1 DEF Init, StoreInit, WorkerInit, TrailInv, TrailsFollowRows, StartsAreAudited,
     OutcomeIsAudited

LEMMA RowlessStep == IInv /\ TrailInv /\ [Next]_vars => TrailsFollowRows'
<1> SUFFICES ASSUME IInv, TrailInv, [Next]_vars, NEW u \in Uploads, status'[u] = "none"
             PROVE  audit'[u] = << >>
  BY DEF TrailsFollowRows
<1>1. status[u] = "none"
  BY RowsStay
<1>2. \A s \in Slots : Doc(s) = u => pc[s] \notin {"verified", "extracting"}
  BY <1>1 DEF IInv, SlotsHoldRows
<1>3. audit'[u] = audit[u]
  BY <1>2, TrailSteps DEF TrailStep, StartExtraction
<1> QED
  BY <1>1, <1>3 DEF TrailInv, TrailsFollowRows

LEMMA StartStep == IInv /\ TrailInv /\ [Next]_vars => StartsAreAudited'
<1> DEFINE Told(u) == \E i \in 1..Len(audit'[u]) : audit'[u][i] = "EXTRACTION_STARTED"
<1> SUFFICES ASSUME IInv, TrailInv, [Next]_vars, NEW s \in Slots, pc'[s] = "extracting"
             PROVE  Told(job'[s].doc)
  BY DEF StartsAreAudited, Doc, Entries
<1> USE DEF IInv, TypeOK
<1>1. CASE pc[s] = "extracting" /\ job'[s] = job[s]
  <2>1. PICK u \in Uploads : u = Doc(s) /\ status[u] # "none"
    BY <1>1 DEF Doc, IntakeJob, Busy, SlotsHoldRows
  <2>2. Entries(u, "EXTRACTION_STARTED") # {}
    BY <1>1, <2>1 DEF TrailInv, StartsAreAudited
  <2>3. Entries(u, "EXTRACTION_STARTED") \subseteq Entries(u, "EXTRACTION_STARTED")'
    BY <2>1, EntriesStay
  <2>4. Told(u)
    BY <2>2, <2>3 DEF Entries
  <2> QED
    BY <1>1, <2>1, <2>4 DEF Doc
<1>2. CASE StartExtraction(s)
  <2>1. Doc(s) \in Uploads
    BY <1>2 DEF StartExtraction, Doc, IntakeJob, Busy
  <2>2. <<"EXTRACTION_STARTED">> \in Seq(AuditActions) /\ Len(<<"EXTRACTION_STARTED">>) = 1
    BY DEF AuditActions
  <2>3. audit'[Doc(s)] = audit[Doc(s)] \o <<"EXTRACTION_STARTED">> /\ job'[s] = job[s]
    BY <1>2, <2>1 DEF StartExtraction, AuditAfter
  <2>4. /\ Len(audit[Doc(s)]) \in Nat
        /\ Len(audit'[Doc(s)]) = Len(audit[Doc(s)]) + 1
        /\ audit'[Doc(s)][Len(audit[Doc(s)]) + 1] = "EXTRACTION_STARTED"
    BY <2>1, <2>2, <2>3, TrailGrows
  <2> QED
    BY <2>3, <2>4 DEF Doc
<1> QED
  BY <1>1, <1>2, SlotAdvance DEF Load, Verify, At

LEMMA OutcomeStep == IInv /\ TrailInv /\ [Next]_vars => OutcomeIsAudited'
<1> SUFFICES ASSUME IInv, TrailInv, [Next]_vars, NEW u \in Uploads, IsTerminal(status'[u])
             PROVE  \E i, k \in 1..Len(audit'[u]) :
                      /\ i < k /\ audit'[u][i] = "EXTRACTION_STARTED"
                      /\ audit'[u][k] = ClosingEntry[status'[u]]
  BY DEF OutcomeIsAudited
<1>1. CASE status'[u] = status[u]
  <2>1. PICK i, k \in 1..Len(audit[u]) :
          i < k /\ audit[u][i] = "EXTRACTION_STARTED" /\ audit[u][k] = ClosingEntry[status[u]]
    BY <1>1 DEF TrailInv, OutcomeIsAudited
  <2>2. status[u] # "none"
    BY <1>1 DEF IsTerminal, TerminalStatuses
  <2>3. \A entry : Entries(u, entry) \subseteq {j \in 1..Len(audit'[u]) : audit'[u][j] = entry}
    BY <2>2, EntriesStay DEF Entries
  <2>4. i \in Entries(u, "EXTRACTION_STARTED") /\ k \in Entries(u, ClosingEntry[status[u]])
    BY <2>1 DEF Entries
  <2> QED
    BY <1>1, <2>1, <2>3, <2>4
<1>2. ASSUME NEW s \in Slots, Doc(s) = u, pc[s] = "extracting",
             status'[u] \in {"VALIDATED", "REVIEW_REQUIRED", "REJECTED", "FAILED"},
             audit'[u] = audit[u] \o ClosingEntries(status'[u])
      PROVE  \E i, k \in 1..Len(audit'[u]) :
               /\ i < k /\ audit'[u][i] = "EXTRACTION_STARTED"
               /\ audit'[u][k] = ClosingEntry[status'[u]]
  <2>1. PICK i \in 1..Len(audit[u]) : audit[u][i] = "EXTRACTION_STARTED"
    BY <1>2 DEF TrailInv, StartsAreAudited, Entries
  <2> DEFINE n == Len(ClosingEntries(status'[u]))
             k == Len(audit[u]) + n
  <2>2. /\ ClosingEntries(status'[u]) \in Seq(AuditActions)
        /\ n \in 1..3
        /\ ClosingEntries(status'[u])[n] = ClosingEntry[status'[u]]
    BY <1>2, ClosingEntriesAre
  <2>3. /\ Len(audit[u]) \in Nat
        /\ Len(audit'[u]) = Len(audit[u]) + n
        /\ \A m \in 1..Len(audit[u]) : audit'[u][m] = audit[u][m]
        /\ \A m \in 1..n : audit'[u][Len(audit[u]) + m] = ClosingEntries(status'[u])[m]
    BY <1>2, <2>2, TrailGrows
  <2> HIDE DEF n
  <2>4. i \in 1..Len(audit'[u]) /\ k \in 1..Len(audit'[u]) /\ i < k /\ n \in 1..n
    BY <2>1, <2>2, <2>3
  <2>5. audit'[u][i] = audit[u][i] /\ audit'[u][k] = ClosingEntry[status'[u]]
    BY <2>1, <2>2, <2>3, <2>4
  <2> QED
    BY <2>1, <2>4, <2>5
<1>3. status'[u] \notin {"QUEUED", "EXTRACTING"}
  BY DEF IsTerminal, TerminalStatuses
<1> QED
  BY <1>1, <1>2, <1>3, TrailSteps DEF TrailStep

LEMMA TrailNext == IInv /\ TrailInv /\ [Next]_vars => TrailInv'
  BY RowlessStep, StartStep, OutcomeStep DEF TrailInv

(* Whatever fails and however often a job is put back, trails grow with their
   rows: nothing is written for a document that has no row. *)
THEOREM TrailInductive == Spec => []TrailInv
<1>1. IInv /\ TrailInv /\ [Next]_vars => TrailInv'
  BY TrailNext
<1> QED
  BY <1>1, TrailInit, Inductive, PTL DEF Spec

(* An outcome is never found without the entries that tell of it, even when
   copies of a job race. *)
THEOREM OutcomesAreAudited == Spec => []OutcomeIsAudited
<1>1. TrailInv => OutcomeIsAudited
  BY DEF TrailInv
<1> QED
  BY <1>1, TrailInductive, PTL
==============================================================================
