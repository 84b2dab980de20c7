----------------------------- MODULE PipelineInv -----------------------------
(***************************************************************************)
(* The strengthening that makes the pipeline's safety invariants           *)
(* inductive, for every value of the constants.  Part of OrderInv speaks   *)
(* of the time up to the second replay of a dead letter.                   *)
(***************************************************************************)
EXTENDS Pipeline

AllJobs == LiveJobs \union ParkedJobs

(* The largest attempt number a job can carry. *)
Budget == IF MaxRetries = 0 THEN 1 ELSE MaxRetries

(* The statuses some transaction leaves behind when it commits. *)
CommittedStatuses ==
  {"QUEUED", "EXTRACTING", "VALIDATED", "REVIEW_REQUIRED", "REJECTED", "FAILED"}

(* A row is visible exactly when its request has committed. *)
RowsFollowRequests ==
  \A u \in Uploads :
    /\ status[u] # "none" <=> req[u] = "accepted"
    /\ status[u] \in CommittedStatuses \union {"none"}

(* Bytes first. *)
StoredBeforeQueued ==
  \A u \in Uploads :
    req[u] \in {"stored", "accepted"} \union Flushed => blob[u] # "absent"

(* A slot past its load works on a row that exists and was unfinished; a row it
   saw EXTRACTING has left QUEUED for good. *)
SlotsHoldRows ==
  \A s \in Slots :
    /\ pc[s] = "poison" => job[s] = Poison
    /\ pc[s] \in {"loaded", "verified"} =>
         seen[s] \in {"QUEUED", "EXTRACTING"} /\ status[Doc(s)] # "none"
    /\ pc[s] = "extracting" => seen[s] = "EXTRACTING" /\ status[Doc(s)] # "none"
    /\ pc[s] \in {"loaded", "verified", "extracting"} /\ seen[s] = "EXTRACTING" =>
         status[Doc(s)] # "QUEUED"

(* A process that is down has no slot left in a job. *)
DownIsIdle ==
  \A w \in Workers : worker[w] = "down" => \A s \in SlotsOf(w) : pc[s] = "exited"

(* A process stops or is down only after an outage. *)
OutagesAreCounted == \A w \in Workers : worker[w] # "up" => outages > 0

Budgeted == \A j \in AllJobs : j.attempt \in 1..Budget

(* Documents somebody still has to work on: Accounted, from the moment the job
   is pushed. *)
Pending(u) == status[u] \in {"QUEUED", "EXTRACTING"} \/ req[u] = "enqueued"

PendingAccounted == \A u \in Uploads : Pending(u) => Carried(u) \/ u \in lost

(* Once started, a document keeps a job while nothing disrupts the workers. *)
StartedAccounted ==
  \A u \in Uploads : status[u] = "EXTRACTING" => Carried(u) \/ Disrupted

IInv ==
  /\ TypeOK
  /\ RowsFollowRequests
  /\ StoredBeforeQueued
  /\ SlotsHoldRows
  /\ DownIsIdle
  /\ OutagesAreCounted
  /\ Budgeted
  /\ JobHasBlob
  /\ OneRowPerContent
  /\ PendingAccounted
  /\ StartedAccounted

-----------------------------------------------------------------------------
(* No row, no trail; and a slot that waits for OCR has said so in the trail. *)
TrailsFollowRows == \A u \in Uploads : status[u] = "none" => audit[u] = << >>

StartsAreAudited ==
  \A s \in Slots :
    pc[s] = "extracting" => Entries(Doc(s), "EXTRACTION_STARTED") # {}

TrailInv ==
  /\ TrailsFollowRows
  /\ StartsAreAudited
  /\ OutcomeIsAudited

-----------------------------------------------------------------------------
(* A copy of a document's job is in one place at a time. *)
SameCopy(a, b) == a.doc = b.doc /\ a.copy = b.copy

QueueSole ==
  \A i, k \in 1..Len(queue) :
    queue[i] # Poison /\ SameCopy(queue[i], queue[k]) => i = k

SlotSole ==
  \A s, t \in Slots :
    pc[s] \in Busy /\ pc[t] \in Busy /\ SameCopy(job[s], job[t]) => s = t

SleepSole ==
  \A w, v \in Workers : \A a \in backoff[w], b \in backoff[v] :
    SameCopy(a, b) => w = v /\ a = b

Apart(A, B) == \A a \in A, b \in B : ~SameCopy(a, b)

PlacesApart ==
  /\ Apart(QueuedJobs, HeldJobs)
  /\ Apart(QueuedJobs, SleepingJobs)
  /\ Apart(QueuedJobs, ParkedJobs)
  /\ Apart(HeldJobs, SleepingJobs)
  /\ Apart(HeldJobs, ParkedJobs)
  /\ Apart(SleepingJobs, ParkedJobs)

Sole == QueueSole /\ SlotSole /\ SleepSole /\ PlacesApart

(* No job of an upload exists before its request pushed one, and no copy of it
   before the operator made one, from a letter of the original. *)
JobsFollowRequests ==
  \A j \in AllJobs :
    /\ req[j.doc] \in {"enqueued", "accepted", "errored"}
    /\ j.copy <= replays
    /\ j.copy # 0 => \E letter \in ParkedJobs : letter.doc = j.doc /\ letter.copy = 0

(* A letter has used its budget up. *)
LettersExhausted == \A letter \in ParkedJobs : letter.attempt = Budget

CopyInv == Sole /\ JobsFollowRequests /\ LettersExhausted

(* The status in a slot's session is the committed one; so it is while a
   document has one live copy of its job, hence up to the second replay: the
   first is of an original that stays parked. *)
SessionIsCurrent ==
  \A s \in Slots :
    pc[s] \in {"loaded", "verified", "extracting"} => seen[s] = status[Doc(s)]

OrderInv == CopyInv /\ (replays <= 1 => SessionIsCurrent)

-----------------------------------------------------------------------------
(* The work that the live jobs of u may still cause: the (copy, attempt) pairs
   that may still start an extraction, the copies that may still commit a
   verdict. *)
Started == {"extracting", "failed"}

MayStart(u, copy, attempt) ==
  \/ \E j \in QueuedJobs \union SleepingJobs :
       j.doc = u /\ j.copy = copy /\ j.attempt <= attempt
  \/ \E s \in Slots :
       /\ pc[s] \in Busy /\ Doc(s) = u /\ job[s].copy = copy
       /\ \/ job[s].attempt < attempt
          \/ job[s].attempt = attempt /\ pc[s] \notin Started

FutureStarts(u) ==
  {k \in (0..MaxReplays) \X (1..Budget) : MayStart(u, k[1], k[2])}

LiveCopies(u) == {k \in 0..MaxReplays : \E j \in LiveJobs : j.doc = u /\ j.copy = k}

OriginalParked(u) == \E letter \in ParkedJobs : letter.doc = u /\ letter.copy = 0

StartsBounded(u) ==
  Cardinality(Entries(u, "EXTRACTION_STARTED")) + Cardinality(FutureStarts(u))
    <= Budget + replays

VerdictsBounded(u) ==
  Cardinality(Entries(u, "VALIDATION_COMPLETED")) + Cardinality(LiveCopies(u))
    <= IF OriginalParked(u) THEN replays ELSE 1

WorkInv == \A u \in Uploads : StartsBounded(u) /\ VerdictsBounded(u)
=============================================================================
