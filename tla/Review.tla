------------------------------- MODULE Review -------------------------------
(***************************************************************************)
(* Reviewers at work on one processed document: the correct, review and    *)
(* submit requests of apps/api/app/api/v1/documents.py, each with a        *)
(* transaction and an ORM session of its own (READ COMMITTED, no version   *)
(* column), interleaved with each other and with one more extraction when  *)
(* a copy of the document's job is still around (a replayed dead letter).  *)
(* Requests on different documents share nothing, so one document is the   *)
(* general case.                                                           *)
(***************************************************************************)
EXTENDS DocumentStatus, Integers, Sequences

CONSTANTS
  Requests,     \* the requests; each is sent once
  Fields,       \* the names of the document's extracted fields
  Values,       \* what OCR reads and reviewers type
  NoValue,      \* None: OCR found nothing there
  MaxEdits      \* bound on the corrections of one review request (25 in the code)

ASSUME ReviewAssumption ==
  /\ NoValue \notin Values
  /\ MaxEdits \in Nat \ {0}

VARIABLES
  status,    \* the committed status of the document
  cells,     \* cells[f]: the committed row of field f
  trail,     \* the committed audit entries of reviewers, in order
  reading,   \* history: what OCR read last in each field
  readings,  \* history: everything OCR ever read there
  kind,      \* kind[r]: "correct", "review" or "submit"
  state,     \* state[r]: how far request r has come
  seen,      \* seen[r]: the status in the request's session
  base,      \* base[r]: the field rows as its session loaded them
  mine,      \* mine[r]: the field objects as its handler left them
  pending,   \* pending[r]: audit entries waiting for the commit
  late,      \* history: a submission was committed before r was sent
  overtaken, \* history: the other extraction moved the document since r was sent
  copy       \* the redelivered job: where it is, and the rows it loaded

rows == <<status, cells, trail, reading, readings>>
sessions == <<kind, state, seen, base, mine, pending, late, overtaken>>
vars == <<rows, sessions, copy>>

-----------------------------------------------------------------------------
MaybeValues == Values \union {NoValue}

(* ExtractedField: value, original_value, and whether source is MANUAL. *)
Cell == [value : MaybeValues, original : MaybeValues, manual : BOOLEAN]

(* The new value of a correction is not in the real entry; it is kept here for
   the properties only. *)
Corrected(f, v) == [action |-> "FIELD_CORRECTED", field |-> f, value |-> v]
Submission(t) == [action |-> "DOCUMENT_SUBMITTED", status |-> t]

Corrections == {Corrected(f, v) : f \in Fields, v \in Values}
Entry == Corrections \union {Submission(t) : t \in Statuses}

(* The statuses in which a document may be reviewed and submitted. *)
Processed == {"REVIEW_REQUIRED", "VALIDATED", "REJECTED"}

Submitted == \E i \in 1..Len(trail) : trail[i].action = "DOCUMENT_SUBMITTED"

(* What a flush writes: SQLAlchemy updates the columns whose value in the
   session differs from the loaded one, and leaves the others as they are. *)
Written(column, loaded, inSession) == IF inSession = loaded THEN column ELSE inSession

Flush(row, loaded, object) ==
  [value |-> Written(row.value, loaded.value, object.value),
   original |-> Written(row.original, loaded.original, object.original),
   manual |-> Written(row.manual, loaded.manual, object.manual)]

Init ==
  /\ status \in Processed
  /\ reading \in [Fields -> MaybeValues]
  /\ readings = [f \in Fields |-> {reading[f]}]
  /\ cells = [f \in Fields |-> [value |-> reading[f], original |-> NoValue, manual |-> FALSE]]
  /\ trail = << >>
  /\ kind = [r \in Requests |-> "none"]
  /\ state = [r \in Requests |-> "new"]
  /\ seen = [r \in Requests |-> "none"]
  /\ base = [r \in Requests |-> cells]
  /\ mine = [r \in Requests |-> cells]
  /\ pending = [r \in Requests |-> << >>]
  /\ late = [r \in Requests |-> FALSE]
  /\ overtaken = [r \in Requests |-> FALSE]
  /\ copy = [at |-> "waiting", base |-> cells]

Goto(r, s) == state' = [state EXCEPT ![r] = s]

-----------------------------------------------------------------------------
(* DocumentRepository.get: the row and, by selectin loading, its fields. *)
Open(r, k) ==
  /\ state[r] = "new"
  /\ kind' = [kind EXCEPT ![r] = k]
  /\ Goto(r, "open")
  /\ seen' = [seen EXCEPT ![r] = status]
  /\ base' = [base EXCEPT ![r] = cells]
  /\ mine' = [mine EXCEPT ![r] = cells]
  /\ late' = [late EXCEPT ![r] = Submitted]
  /\ overtaken' = [overtaken EXCEPT ![r] = FALSE]
  /\ UNCHANGED <<rows, pending, copy>>

(* The handler's refusal, or anything raised: the transaction rolls back. *)
RollBack(r) ==
  /\ state[r] \in {"open", "cleared"}
  /\ Goto(r, "refused")
  /\ UNCHANGED <<rows, kind, seen, base, mine, pending, late, overtaken, copy>>

(* correct_field knows no state but QUARANTINED; review_document asks for a
   processed document. *)
MayEdit(r) ==
  \/ kind[r] = "correct" /\ seen[r] # "QUARANTINED"
  \/ kind[r] = "review" /\ seen[r] \in Processed

EditsOf(r) == IF kind[r] = "correct" THEN 1 ELSE MaxEdits

(* Mutant of Edited: the value before every correction counts as original. *)
EditedAfresh(object, v) ==
  [value |-> v, original |-> object.value, manual |-> TRUE]

(* _apply_field_correction, in the session's memory. *)
Edited(object, v) ==
  [value |-> v,
   original |-> IF object.original = NoValue THEN object.value ELSE object.original,
   manual |-> TRUE]

EditField(r, f, v) ==
  /\ state[r] = "open"
  /\ MayEdit(r)
  /\ Len(pending[r]) < EditsOf(r)
  /\ mine' = [mine EXCEPT ![r][f] = Edited(@, v)]
  /\ pending' = [pending EXCEPT ![r] = Append(@, Corrected(f, v))]
  /\ UNCHANGED <<rows, kind, state, seen, base, late, overtaken, copy>>

(* "No extracted field named ...": the whole request fails, corrections it has
   already applied included. *)
NameUnknownField(r) ==
  /\ state[r] = "open"
  /\ MayEdit(r)
  /\ Len(pending[r]) < EditsOf(r)
  /\ Goto(r, "refused")
  /\ UNCHANGED <<rows, kind, seen, base, mine, pending, late, overtaken, copy>>

RefuseEdit(r) ==
  /\ state[r] = "open"
  /\ kind[r] = "review"
  /\ ~MayEdit(r)
  /\ Goto(r, "refused")
  /\ UNCHANGED <<rows, kind, seen, base, mine, pending, late, overtaken, copy>>

(* Mutant of CommitEdits: the handler writes back every field it has loaded. *)
CommitEveryField(r) ==
  /\ state[r] = "open"
  /\ MayEdit(r)
  /\ kind[r] = "correct" => Len(pending[r]) = 1
  /\ Goto(r, "done")
  /\ cells' = mine[r]
  /\ trail' = trail \o pending[r]
  /\ UNCHANGED <<status, reading, readings, kind, seen, base, mine, pending, late, overtaken, copy>>

(* flush and commit of a correct or review request. *)
CommitEdits(r) ==
  /\ state[r] = "open"
  /\ MayEdit(r)
  /\ kind[r] = "correct" => Len(pending[r]) = 1
  /\ Goto(r, "done")
  /\ cells' = [f \in Fields |-> Flush(cells[f], base[r][f], mine[r][f])]
  /\ trail' = trail \o pending[r]
  /\ UNCHANGED <<status, reading, readings, kind, seen, base, mine, pending, late, overtaken, copy>>

-----------------------------------------------------------------------------
(* Mutant of LookForSubmission: only the document's status is looked at. *)
TrustStatus(r) ==
  /\ state[r] = "open"
  /\ kind[r] = "submit"
  /\ Goto(r, IF seen[r] \notin Processed THEN "refused" ELSE "cleared")
  /\ UNCHANGED <<rows, kind, seen, base, mine, pending, late, overtaken, copy>>

(* submit_reviewed_document: an earlier DOCUMENT_SUBMITTED entry, or an
   unprocessed document, refuses the request. *)
LookForSubmission(r) ==
  /\ state[r] = "open"
  /\ kind[r] = "submit"
  /\ Goto(r, IF Submitted \/ seen[r] \notin Processed THEN "refused" ELSE "cleared")
  /\ UNCHANGED <<rows, kind, seen, base, mine, pending, late, overtaken, copy>>

(* Mutant of StatusOnSubmit: submission validates whatever it is given. *)
AlwaysValidated(t) == "VALIDATED"

StatusOnSubmit(t) == IF t = "REVIEW_REQUIRED" THEN "VALIDATED" ELSE t

(* Mutants of Submit: the entry tells the status before the move; the document
   gets a status of its own. *)
SubmitEarlyEntry(r) ==
  /\ state[r] = "cleared"
  /\ Goto(r, "done")
  /\ status' = IF StatusOnSubmit(seen[r]) = seen[r] THEN status ELSE StatusOnSubmit(seen[r])
  /\ trail' = Append(trail, Submission(seen[r]))
  /\ UNCHANGED <<cells, reading, readings, kind, seen, base, mine, pending, late, overtaken, copy>>

SubmitNewStatus(r) ==
  /\ state[r] = "cleared"
  /\ Goto(r, "done")
  /\ status' = "SUBMITTED"
  /\ trail' = Append(trail, Submission(StatusOnSubmit(seen[r])))
  /\ UNCHANGED <<cells, reading, readings, kind, seen, base, mine, pending, late, overtaken, copy>>

(* The move to VALIDATED, the DOCUMENT_SUBMITTED entry and the commit. *)
Submit(r) ==
  /\ state[r] = "cleared"
  /\ Goto(r, "done")
  /\ status' = IF StatusOnSubmit(seen[r]) = seen[r] THEN status ELSE StatusOnSubmit(seen[r])
  /\ trail' = Append(trail, Submission(StatusOnSubmit(seen[r])))
  /\ UNCHANGED <<cells, reading, readings, kind, seen, base, mine, pending, late, overtaken, copy>>

-----------------------------------------------------------------------------
(* The processor on copies of the job (see Worker.tla): a slot that loaded the
   row before the verdict starts its extraction over it, ... *)
Reopen ==
  /\ copy.at = "waiting"
  /\ status' = "EXTRACTING"
  /\ copy' = [copy EXCEPT !.at = "reopened"]
  /\ overtaken' = [r \in Requests |-> TRUE]
  /\ UNCHANGED <<cells, trail, reading, readings, kind, state, seen, base, mine, pending, late>>

(* ... a later copy finds the document unfinished and loads its fields, ... *)
Reload ==
  /\ copy.at = "reopened"
  /\ status = "EXTRACTING"
  /\ copy' = [at |-> "loaded", base |-> cells]
  /\ UNCHANGED <<rows, sessions>>

(* Mutant of Reread: the extraction replaces every field. *)
RereadAll(object, v) == [object EXCEPT !.value = v]

(* _persist_fields: a corrected field is left alone, as far as the session
   knows. *)
Reread(object, v) ==
  IF object.original # NoValue THEN object ELSE [object EXCEPT !.value = v]

(* ... and commits what OCR reads this time, with the new verdict. *)
Reextract ==
  /\ copy.at = "loaded"
  /\ reading' \in [Fields -> MaybeValues]
  /\ readings' = [f \in Fields |-> readings[f] \union {reading'[f]}]
  /\ cells' = [f \in Fields |-> Flush(cells[f], copy.base[f], Reread(copy.base[f], reading'[f]))]
  /\ status' \in Verdicts
  /\ copy' = [copy EXCEPT !.at = "done"]
  /\ overtaken' = [r \in Requests |-> TRUE]
  /\ UNCHANGED <<trail, kind, state, seen, base, mine, pending, late>>

-----------------------------------------------------------------------------
Next ==
  \/ \E r \in Requests :
       \/ \E k \in {"correct", "review", "submit"} : Open(r, k)
       \/ RollBack(r)
       \/ \E f \in Fields, v \in Values : EditField(r, f, v)
       \/ NameUnknownField(r)
       \/ RefuseEdit(r)
       \/ CommitEdits(r)
       \/ LookForSubmission(r)
       \/ Submit(r)
  \/ Reopen
  \/ Reload
  \/ Reextract

Spec == Init /\ [][Next]_vars

-----------------------------------------------------------------------------
(* Every variable stays in its type. *)
TypeOK ==
  /\ status \in Statuses
  /\ cells \in [Fields -> Cell]
  /\ trail \in Seq(Entry)
  /\ reading \in [Fields -> MaybeValues]
  /\ readings \in [Fields -> SUBSET MaybeValues]
  /\ kind \in [Requests -> {"none", "correct", "review", "submit"}]
  /\ state \in [Requests -> {"new", "open", "cleared", "refused", "done"}]
  /\ seen \in [Requests -> Statuses \union {"none"}]
  /\ base \in [Requests -> [Fields -> Cell]]
  /\ mine \in [Requests -> [Fields -> Cell]]
  /\ pending \in [Requests -> Seq(Corrections)]
  /\ late \in [Requests -> BOOLEAN]
  /\ overtaken \in [Requests -> BOOLEAN]
  /\ copy \in [at : {"waiting", "reopened", "loaded", "done"}, base : [Fields -> Cell]]

(* The values field f was given according to a log. *)
ValuesIn(log, f) ==
  {log[i].value : i \in {j \in 1..Len(log) :
     log[j].action = "FIELD_CORRECTED" /\ log[j].field = f}}

LoggedValues(f) == ValuesIn(trail, f)

Submissions == {i \in 1..Len(trail) : trail[i].action = "DOCUMENT_SUBMITTED"}

(* Of a corrected field OCR has always found a value in, original_value is a
   value OCR read, however corrections and another extraction overlap: a stale
   session writes the original only where it saw none, and then it saw a
   reading. *)
OriginalIsReading ==
  \A f \in Fields :
    cells[f].manual /\ NoValue \notin readings[f] => cells[f].original \in readings[f]

(* A committed correction is not lost to a request that loaded the fields
   before it and corrects another one, and nothing is corrected without its
   FIELD_CORRECTED entry: the value of a field is a logged one exactly when it
   counts as manual. *)
NoCorrectionLost ==
  copy.at # "done" =>
    \A f \in Fields :
      IF cells[f].manual THEN cells[f].value \in LoggedValues(f) ELSE LoggedValues(f) = {}

(* A submission sent after another one was committed is refused, though the
   document is VALIDATED both times (test_post_document_submit_prevents_
   duplicate_submit). *)
LateSubmitRefused ==
  \A r \in Requests : kind[r] = "submit" /\ state[r] = "done" => ~late[r]

(* Until the pipeline touches the document again, every DOCUMENT_SUBMITTED
   entry tells the status the document has, racing submissions included. *)
SubmissionTellsStatus ==
  copy.at = "waiting" => \A i \in Submissions : trail[i].status = status

(* Reviewers move the document along the transition table, whatever the others
   did since they loaded it.  The one exception is a submission the other
   extraction overtook between its load and its commit: no version is checked,
   so its VALIDATED may land on EXTRACTING or on a new verdict. *)
FollowsTable ==
  [][copy' = copy /\ status' # status =>
       \/ CanTransition(status, status')
       \/ \E r \in Requests : state[r] = "cleared" /\ state'[r] = "done" /\ overtaken[r]]_vars

(* Another extraction takes no correction away: a field counts as manual exactly
   when the trail says so, and its value is a corrected one.  The exception is a
   field of which the extraction knew no original (the correction was committed,
   or its request sent, while OCR ran; or OCR had found no value before): that
   one may hold what OCR read this time, and is still marked manual. *)
ReextractionKeepsCorrections ==
  copy.at = "done" =>
    \A f \in Fields :
      /\ cells[f].manual <=> LoggedValues(f) # {}
      /\ cells[f].manual =>
           \/ cells[f].value \in LoggedValues(f)
           \/ cells[f].value = reading[f] /\ copy.base[f].original = NoValue

-----------------------------------------------------------------------------
(* "Duplicate reviewer submission is blocked by checking for an existing
   DOCUMENT_SUBMITTED audit event" (docs/phase2-repo-map.md). *)
OneSubmission == \A i, j \in Submissions : i = j
=============================================================================
