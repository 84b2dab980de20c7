---------------------------- MODULE IntakeStore ----------------------------
(***************************************************************************)
(* What the API and the workers share: the committed rows of PostgreSQL,   *)
(* the object store and the two redis lists.  A transaction's uncommitted  *)
(* writes are not here; they belong to the request or the worker slot that *)
(* made them, and reach these variables in one step, its commit.           *)
(*                                                                         *)
(* A document is named by the upload that creates it: intake draws a fresh *)
(* uuid4 per accepted upload, so no two uploads ever share a document id.  *)
(***************************************************************************)
EXTENDS DocumentStatus, Integers, Sequences

CONSTANTS
  Uploads,       \* the upload requests, and so the documents they may create
  ContentKey,    \* ContentKey[u]: the (tenant, sha256) an upload carries
  NoUpload,      \* what an unparseable payload names
  AttemptLimit,  \* the largest attempt number the message contract parses
  MaxReplays,    \* bound on the operator's replays of dead letters
  Faults         \* the environment's faults: see FaultKinds

(* "api": a request fails after the gate (storage, database, redis, crash);
   "redis": a redis call of either side fails; "infra": the database or the
   store fails under the worker; "corrupt": stored bytes change at rest;
   "poison": the queue starts with a payload no version of the code wrote. *)
FaultKinds == {"api", "redis", "infra", "corrupt", "poison"}

ASSUME StoreAssumption ==
  /\ NoUpload \notin Uploads
  /\ AttemptLimit \in Nat \ {0}
  /\ MaxReplays \in Nat
  /\ Faults \subseteq FaultKinds

VARIABLES
  status,   \* status[u]: the committed status column; "none" while no row
  audit,    \* audit[u]: the committed audit_logs actions of u, in order
  blob,     \* blob[u]: the object under u's storage key
  queue,    \* the redis list the workers pop
  dlq,      \* the payloads on the dead-letter list (nothing reads their order)
  lost,     \* history: documents of which a job disappeared from the system
  replays   \* how many dead letters the operator has replayed

storeVars == <<status, audit, blob, queue, dlq, lost, replays>>

-----------------------------------------------------------------------------
(* The queue message, to the fields that decide its fate.  `copy` tells the
   message intake wrote (0) from the operator's replays of it (1, 2, ...);
   the wire format has no such field. *)
IntakeJob == [doc : Uploads, attempt : Nat, copy : 0..MaxReplays]

Poison == [doc |-> NoUpload, attempt |-> 0, copy |-> 0]

Payloads == IntakeJob \union {Poison}

(* IntakeJob.model_validate_json: `attempt` is constrained to 1..10. *)
Parses(payload) == payload # Poison /\ payload.attempt \in 1..AttemptLimit

(* Extracted fields and validation results are only ever written in the
   transaction that commits VALIDATION_COMPLETED, and every document type has
   rules, so a committed result row exists exactly when that entry does. *)
HasResults(u) == \E i \in 1..Len(audit[u]) : audit[u][i] = "VALIDATION_COMPLETED"

StoreInit ==
  /\ status = [u \in Uploads |-> "none"]
  /\ audit = [u \in Uploads |-> << >>]
  /\ blob = [u \in Uploads |-> "absent"]
  /\ queue \in {<< >>} \union (IF "poison" \in Faults THEN {<<Poison>>} ELSE {})
  /\ dlq = {}
  /\ lost = {}
  /\ replays = 0

-----------------------------------------------------------------------------
(* The environment's steps on the store. *)

(* The bytes of an object change at rest. *)
Corrupt(u) ==
  /\ "corrupt" \in Faults
  /\ blob[u] = "intact"
  /\ blob' = [blob EXCEPT ![u] = "corrupt"]
  /\ UNCHANGED <<status, audit, queue, dlq, lost, replays>>

(* An operator pushes a copy of a dead letter back on the queue; the letter
   stays on the dead-letter list, which no code trims. *)
Replay(letter) ==
  /\ replays < MaxReplays
  /\ letter # Poison
  /\ replays' = replays + 1
  /\ queue' = Append(queue, [letter EXCEPT !.copy = replays + 1])
  /\ UNCHANGED <<status, audit, blob, dlq, lost>>
=============================================================================
