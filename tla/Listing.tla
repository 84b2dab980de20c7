------------------------------ MODULE Listing ------------------------------
(***************************************************************************)
(* A client pages through a tenant's documents, newest first, while others *)
(* upload documents and move them on (DocumentRepository.list_page and     *)
(* Cursor in apps/api/app/services/documents.py, GET /documents in         *)
(* apps/api/app/api/v1/documents.py).  Every page is read in a transaction *)
(* of its own; between pages the client holds nothing but a cursor.        *)
(***************************************************************************)
EXTENDS Integers, FiniteSets

CONSTANTS
  Docs,        \* document identifiers, ordered as the column is
  Tenants,
  Statuses,    \* the statuses a document may have after its upload's QUEUED
  Limit,       \* rows on a page
  MaxTime,     \* bound on the database clock
  MaxMoves     \* bound on the changes of status

Any == "any"

ASSUME ListingAssumption ==
  /\ Docs \subseteq Nat /\ IsFiniteSet(Docs)
  /\ Any \notin Statuses /\ "QUEUED" \in Statuses
  /\ Limit \in Nat \ {0}
  /\ MaxTime \in Nat /\ MaxMoves \in Nat

VARIABLES
  now,      \* the database clock
  rows,     \* what there is of each document: nothing, an open insert, a row
  moves,    \* how many statuses changed
  walk,     \* the listing under way: its tenant, status filter, cursor and whether it ended
  times,    \* how often the walk returned each document
  owed      \* documents that matched the filter since before the walk began

table == <<now, rows, moves>>
vars == <<table, walk, times, owed>>

Start == [tag |-> "start"]
At(time, id) == [tag |-> "after", at |-> time, id |-> id]

Absent == [state |-> "absent"]
RowOf(state, tenant, at, status) ==
  [state |-> state, tenant |-> tenant, at |-> at, status |-> status]

IsThere(d) == rows[d].state = "there"

-----------------------------------------------------------------------------
(* ORDER BY created_at DESC, id DESC. *)
Newer(d, e) ==
  \/ rows[d].at > rows[e].at
  \/ rows[d].at = rows[e].at /\ d > e

(* Mutants of IsAfter: a cursor of the time alone; one that includes its row. *)
IsAfterTime(d, cursor) == cursor = Start \/ rows[d].at < cursor.at

IsAtOrAfter(d, cursor) ==
  \/ cursor = Start
  \/ rows[d].at < cursor.at
  \/ rows[d].at = cursor.at /\ d <= cursor.id

IsAfter(d, cursor) ==
  \/ cursor = Start
  \/ rows[d].at < cursor.at
  \/ rows[d].at = cursor.at /\ d < cursor.id

(* Mutant of Matches: a query without its tenant filter. *)
MatchesAnyTenant(d, tenant, filter) == IsThere(d) /\ filter \in {Any, rows[d].status}

Matches(d, tenant, filter) ==
  /\ IsThere(d)
  /\ rows[d].tenant = tenant
  /\ filter \in {Any, rows[d].status}

(* The rows the query of the next page selects, before its LIMIT. *)
Remaining == {d \in Docs : Matches(d, walk.tenant, walk.filter) /\ IsAfter(d, walk.cursor)}

(* rows[:limit]. *)
Page ==
  IF Cardinality(Remaining) <= Limit THEN Remaining
  ELSE {d \in Remaining : Cardinality({e \in Remaining : Newer(e, d)}) < Limit}

HasMore == Cardinality(Remaining) > Limit

-----------------------------------------------------------------------------
Init ==
  /\ now = 0
  /\ rows = [d \in Docs |-> Absent]
  /\ moves = 0
  /\ \E t \in Tenants : walk = [tenant |-> t, filter |-> Any, cursor |-> Start, ended |-> TRUE]
  /\ times = [d \in Docs |-> 0]
  /\ owed = {}

(* Two uploads may carry one time: the clock need not move between them. *)
Tick ==
  /\ now < MaxTime
  /\ now' = now + 1
  /\ UNCHANGED <<rows, moves, walk, times, owed>>

(* Mutant of OpenUpload: created_at from the clock of a container that is ahead. *)
OpenUploadAppClock(d, tenant) ==
  /\ rows[d] = Absent
  /\ rows' = [rows EXCEPT ![d] = RowOf("open", tenant, now + 1, "QUEUED")]
  /\ UNCHANGED <<now, moves, walk, times, owed>>

(* created_at is the server default now(): the time the transaction of the
   upload began, not the time it commits. *)
OpenUpload(d, tenant) ==
  /\ rows[d] = Absent
  /\ rows' = [rows EXCEPT ![d] = RowOf("open", tenant, now, "QUEUED")]
  /\ UNCHANGED <<now, moves, walk, times, owed>>

CommitUpload(d) ==
  /\ rows[d].state = "open"
  /\ rows' = [rows EXCEPT ![d].state = "there"]
  /\ UNCHANGED <<now, moves, walk, times, owed>>

RollbackUpload(d) ==
  /\ rows[d].state = "open"
  /\ rows' = [rows EXCEPT ![d] = Absent]
  /\ UNCHANGED <<now, moves, walk, times, owed>>

(* Workers and reviewers move documents on; a document that leaves the filter
   is owed to the client no longer. *)
Move(d, status) ==
  /\ IsThere(d)
  /\ moves < MaxMoves
  /\ moves' = moves + 1
  /\ rows' = [rows EXCEPT ![d].status = status]
  /\ owed' = IF walk.filter \in {Any, status} THEN owed ELSE owed \ {d}
  /\ UNCHANGED <<now, walk, times>>

(* A listing without a cursor. *)
StartWalk(tenant, filter) ==
  /\ walk.ended
  /\ walk' = [tenant |-> tenant, filter |-> filter, cursor |-> Start, ended |-> FALSE]
  /\ times' = [d \in Docs |-> 0]
  /\ owed' = {d \in Docs : Matches(d, tenant, filter)}
  /\ UNCHANGED table

(* list_page: the cursor of the next page is the last row of this one. *)
ReadPage ==
  /\ ~walk.ended
  /\ times' = [d \in Docs |-> IF d \in Page THEN times[d] + 1 ELSE times[d]]
  /\ IF HasMore
     THEN \E last \in Page :
            /\ \A d \in Page : d = last \/ Newer(d, last)
            /\ walk' = [walk EXCEPT !.cursor = At(rows[last].at, last)]
     ELSE walk' = [walk EXCEPT !.ended = TRUE]
  /\ UNCHANGED <<table, owed>>

Next ==
  \/ Tick
  \/ \E d \in Docs :
       \/ \E tenant \in Tenants : OpenUpload(d, tenant)
       \/ CommitUpload(d)
       \/ RollbackUpload(d)
       \/ \E status \in Statuses : Move(d, status)
  \/ \E tenant \in Tenants, filter \in Statuses \union {Any} : StartWalk(tenant, filter)
  \/ ReadPage

Spec == Init /\ [][Next]_vars

-----------------------------------------------------------------------------
Rows ==
  {Absent} \union {RowOf(state, tenant, at, status) :
                     state \in {"open", "there"}, tenant \in Tenants, at \in 0..now,
                     status \in Statuses}

Cursors == {Start} \union {At(time, id) : time \in 0..now, id \in Docs}

(* Every variable stays in its type. *)
TypeOK ==
  /\ now \in Nat /\ moves \in Nat
  /\ rows \in [Docs -> Rows]
  /\ walk \in [tenant : Tenants, filter : Statuses \union {Any}, cursor : Cursors,
               ended : BOOLEAN]
  /\ times \in [Docs -> Nat]
  /\ owed \subseteq Docs

(* A listing shows its caller's documents only. *)
OwnDocumentsOnly ==
  \A d \in Docs : times[d] > 0 => IsThere(d) /\ rows[d].tenant = walk.tenant

(* No page repeats a document of an earlier one, whatever is uploaded, committed
   late or moved on between the pages. *)
NothingRepeated == \A d \in Docs : times[d] <= 1

(* A listing that ended returned every document that matched from its start to
   its end, though documents uploaded in one burst share their time
   ("a non-unique keyset silently drops rows", Cursor). *)
NothingSkipped == walk.ended => \A d \in owed : times[d] > 0
=============================================================================
