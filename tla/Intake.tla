------------------------------- MODULE Intake -------------------------------
(***************************************************************************)
(* The API's upload request: IntakeService.accept and the per-request      *)
(* transaction around it (get_session).  One action per awaited step, so   *)
(* that requests and workers interleave exactly where the code yields.     *)
(***************************************************************************)
EXTENDS IntakeStore

CONSTANT Malformed   \* the uploads the intake gate refuses (_run_gate)

ASSUME IntakeAssumption == Malformed \subseteq Uploads

VARIABLE req         \* req[u]: how far upload u's request has come

(* Requests whose transaction is open and has a flushed row: they hold the
   row's entry in the unique index on (tenant_id, checksum_sha256). *)
Flushed == {"inserted", "enqueued"}

InFlight == {"checked", "stored"} \union Flushed

ReqStates == {"new", "accepted", "refused", "duplicate", "errored"} \union InFlight

IntakeInit == req = [u \in Uploads |-> "new"]

SameContent(u, v) == ContentKey[u] = ContentKey[v]

(* find_by_checksum sees committed rows only. *)
CommittedTwin(u) == \E v \in Uploads : SameContent(u, v) /\ status[v] # "none"

Goto(u, state) == req' = [req EXCEPT ![u] = state]

-----------------------------------------------------------------------------
(* _run_gate refuses the bytes: nothing is stored, nothing is written. *)
RefuseAtGate(u) ==
  /\ req[u] = "new"
  /\ u \in Malformed
  /\ Goto(u, "refused")
  /\ UNCHANGED storeVars

(* The gate passes, and find_by_checksum decides between 409 and going on. *)
CheckDuplicate(u) ==
  /\ req[u] = "new"
  /\ u \notin Malformed
  /\ Goto(u, IF CommittedTwin(u) THEN "duplicate" ELSE "checked")
  /\ UNCHANGED storeVars

(* Mutant of PutBlob: an error of the store is swallowed. *)
PutBlobUnchecked(u) ==
  /\ req[u] = "checked"
  /\ Goto(u, "stored")
  /\ blob' \in {blob, [blob EXCEPT ![u] = "intact"]}
  /\ UNCHANGED <<status, audit, queue, dlq, lost, replays>>

(* storage.put: bytes first, under a key derived from the fresh uuid. *)
PutBlob(u) ==
  /\ req[u] = "checked"
  /\ Goto(u, "stored")
  /\ blob' = [blob EXCEPT ![u] = "intact"]
  /\ UNCHANGED <<status, audit, queue, dlq, lost, replays>>

(* Mutant of InsertRow: no unique index on (tenant_id, checksum_sha256). *)
InsertRowUnindexed(u) ==
  /\ req[u] = "stored"
  /\ Goto(u, "inserted")
  /\ UNCHANGED storeVars

(* session.add + flush.  The unique index makes a second insert of the same
   content wait for the first transaction to end; if that one committed, the
   flush raises and the request dies of an unhandled IntegrityError. *)
InsertRow(u) ==
  /\ req[u] = "stored"
  /\ \A v \in Uploads : SameContent(u, v) => req[v] \notin Flushed
  /\ Goto(u, IF CommittedTwin(u) THEN "errored" ELSE "inserted")
  /\ UNCHANGED storeVars

NewJob(u) == [doc |-> u, attempt |-> 1, copy |-> 0]

(* _enqueue: the job is on the redis list while the row is still
   uncommitted; the QUEUED status waits in the session. *)
Enqueue(u) ==
  /\ req[u] = "inserted"
  /\ Goto(u, "enqueued")
  /\ queue' = Append(queue, NewJob(u))
  /\ UNCHANGED <<status, audit, blob, dlq, lost, replays>>

(* RPUSH reached redis but its reply did not reach the API: QueueError, the
   transaction rolls back, the job stays. *)
EnqueueReplyLost(u) ==
  /\ req[u] = "inserted"
  /\ "redis" \in Faults
  /\ Goto(u, "errored")
  /\ queue' = Append(queue, NewJob(u))
  /\ UNCHANGED <<status, audit, blob, dlq, lost, replays>>

(* get_session commits after the handler: row, status and both audit entries
   become visible together. *)
CommitUpload(u) ==
  /\ req[u] = "enqueued"
  /\ Goto(u, "accepted")
  /\ status' = [status EXCEPT ![u] = "QUEUED"]
  /\ audit' = [audit EXCEPT ![u] = <<"DOCUMENT_UPLOADED", "DOCUMENT_QUEUED">>]
  /\ UNCHANGED <<blob, queue, dlq, lost, replays>>

(* Anything raised after the gate (StorageError, QueueError, a database error,
   the death of the process) rolls the transaction back.  The object that was
   stored and the job that was pushed are not part of the transaction. *)
RollBack(u) ==
  /\ "api" \in Faults
  /\ req[u] \in InFlight
  /\ Goto(u, "errored")
  /\ UNCHANGED storeVars

RequestStep(u) ==
  \/ RefuseAtGate(u)
  \/ CheckDuplicate(u)
  \/ PutBlob(u)
  \/ InsertRow(u)
  \/ Enqueue(u)
  \/ CommitUpload(u)

RequestFault(u) == EnqueueReplyLost(u) \/ RollBack(u)
=============================================================================
