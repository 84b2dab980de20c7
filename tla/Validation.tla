----------------------------- MODULE Validation -----------------------------
(***************************************************************************)
(* One document on its way from an adapter's reading to what is stored of  *)
(* it: its fields, its validation results, its status and the reason for   *)
(* it (DocumentProcessor in apps/worker/worker/processor.py, over Rules    *)
(* and OcrAdapters).  Several copies of its job may be at work at a time,  *)
(* each with an ORM session of its own that loads rows, waits for OCR and  *)
(* later writes the columns in which it differs from what it loaded        *)
(* (READ COMMITTED, no version column, expire_on_commit=False); reviewers  *)
(* correct and submit meanwhile.  How such copies come about is the        *)
(* subject of Worker.tla, and how requests of reviewers meet of Review.tla.*)
(***************************************************************************)
EXTENDS OcrAdapters

CONSTANTS
  Readers,           \* the sessions that may process the document at a time
  Requests,          \* the requests of reviewers; each is sent once
  Answers(_, _),     \* Answers(provider, type): what the adapter may be given
  Typed,             \* the values a reviewer may type
  Threshold,         \* ocr_confidence_threshold of the worker
  MaxLoads           \* bound on the deliveries that find the document unfinished

ASSUME ValidationAssumption ==
  /\ \A p \in Providers, t \in DocumentTypes : \A answer \in Answers(p, t) : MayBeGiven(p, answer)
  /\ Typed \subseteq FieldValues \ {NoValue}
  /\ Threshold \in 0..100
  /\ MaxLoads \in Nat

VARIABLES
  type,          \* the document's type; never changes
  provider,      \* the adapter the worker was started with; never changes
  status,        \* the committed status
  reason,        \* the committed rejection_reason
  results,       \* the committed validation_results, by rule
  fields,        \* the committed extracted_fields, by name
  at,            \* at[r]: how far reader r is
  base,          \* base[r]: the rows as its session loaded them
  overtaken,     \* history: another session committed an outcome since
  asked,         \* asked[q]: how far request q is
  view,          \* view[q]: what its session loaded
  submitted,     \* a DOCUMENT_SUBMITTED entry is there
  loads,         \* how many deliveries have loaded the document
  torn           \* history: the last verdict, or a submission after it, was
                 \* committed over rows its session had not seen

row == <<status, reason, results, fields>>
readers == <<at, base, overtaken>>
requests == <<asked, view>>
vars == <<type, provider, row, readers, requests, submitted, loads, torn>>

-----------------------------------------------------------------------------
(* ExtractedField. *)
NewCell(value, confidence) ==
  [value |-> value, confidence |-> confidence, original |-> NoValue, manual |-> FALSE]

NoRows == [status |-> "QUEUED", reason |-> NoReason, results |-> << >>, fields |-> << >>]

NoView == [status |-> "QUEUED", fields |-> << >>, submitted |-> FALSE]

Init ==
  /\ type \in DocumentTypes
  /\ provider \in Providers
  /\ status = "QUEUED"
  /\ reason = NoReason
  /\ results = << >>
  /\ fields = << >>
  /\ at = [r \in Readers |-> "idle"]
  /\ base = [r \in Readers |-> NoRows]
  /\ overtaken = [r \in Readers |-> FALSE]
  /\ asked = [q \in Requests |-> "new"]
  /\ view = [q \in Requests |-> NoView]
  /\ submitted = FALSE
  /\ loads = 0
  /\ torn = FALSE

(* What an UPDATE writes: the column, if the session changed the attribute. *)
Written(column, before, after) == IF after = before THEN column ELSE after

-----------------------------------------------------------------------------
(* A delivery loads the document and finds it unfinished. *)
Load(r) ==
  /\ at[r] = "idle"
  /\ loads < MaxLoads
  /\ ~IsTerminal(status)
  /\ at' = [at EXCEPT ![r] = "loaded"]
  /\ base' = [base EXCEPT ![r] = [status |-> status, reason |-> reason, results |-> results,
                                 fields |-> fields]]
  /\ overtaken' = [overtaken EXCEPT ![r] = FALSE]
  /\ loads' = loads + 1
  /\ UNCHANGED <<type, provider, row, requests, submitted, torn>>

(* It commits EXTRACTING, over whatever others have committed meanwhile, and
   asks the adapter; a document it has loaded as EXTRACTING is left as it is. *)
Begin(r) ==
  /\ at[r] = "loaded"
  /\ at' = [at EXCEPT ![r] = "reading"]
  /\ status' = Written(status, base[r].status, "EXTRACTING")
  /\ UNCHANGED <<type, provider, reason, results, fields, base, overtaken, requests, submitted,
                 loads, torn>>

(* A corrected field is left alone, as far as the session knows. *)
Reread(cell, object, value, confidence) ==
  IF object.original # NoValue THEN cell
  ELSE [cell EXCEPT !.value = Written(@, object.value, value),
                    !.confidence = Written(@, object.confidence, confidence)]

(* _persist_fields: a row for every field of the reading, new or read again. *)
Persisted(loaded, outcome) ==
  [f \in DOMAIN fields \union DOMAIN outcome.values |->
     IF f \notin DOMAIN outcome.values THEN fields[f]
     ELSE IF f \in DOMAIN loaded.fields
          THEN Reread(fields[f], loaded.fields[f], outcome.values[f], outcome.confidences[f])
          ELSE NewCell(outcome.values[f], outcome.confidences[f])]

(* Mutant of Storable: no check constraint. *)
AnythingStorable(cells) == TRUE

(* The check constraint confidence_range. *)
Storable(cells) == \A f \in DOMAIN cells : cells[f].confidence \in 0..100

(* A result that was loaded: field and severity are the rule's in any case. *)
Revalidated(result, object, new) ==
  [new EXCEPT !.status = Written(result.status, object.status, @),
              !.message = Written(result.message, object.message, @),
              !.blocking = Written(result.blocking, object.blocking, @)]

(* Mutant of Upserted: results that are there already are left alone. *)
InsertedOnly(loaded, rows) ==
  [id \in DOMAIN results \union DOMAIN rows |->
     IF id \in DOMAIN results THEN results[id] ELSE rows[id]]

(* _validate: the result of each rule, changed or new. *)
Upserted(loaded, rows) ==
  [id \in DOMAIN results \union DOMAIN rows |->
     IF id \notin DOMAIN rows THEN results[id]
     ELSE IF id \in DOMAIN loaded.results THEN Revalidated(results[id], loaded.results[id], rows[id])
          ELSE rows[id]]

(* The unique constraints on fields and results: what the session takes for new
   must not be there. *)
Insertable(loaded, outcome, rows) ==
  /\ (DOMAIN outcome.values \ DOMAIN loaded.fields) \intersect DOMAIN fields = {}
  /\ (DOMAIN rows \ DOMAIN loaded.results) \intersect DOMAIN results = {}

(* The session of r is over. *)
Close(r) == at' = [at EXCEPT ![r] = "idle"] /\ base' = [base EXCEPT ![r] = NoRows]

(* It ends with an outcome, and overtakes every other that has rows. *)
CloseOvertaking(r) ==
  /\ Close(r)
  /\ overtaken' = [q \in Readers |-> q # r /\ at[q] # "idle"]

(* _persist_fields, _validate and the commit: everything at once.  The status is
   always written, as it was VALIDATING before. *)
Judge(r, answer) ==
  LET loaded == base[r]
      outcome == Extract(provider, type, answer)
      outcomes == Evaluate(type, outcome.values)
      low == LowConfidence(outcomes, outcome.confidences, Threshold)
      rows == OutcomeRows(outcomes)
  IN /\ at[r] = "reading"
     /\ outcome.kind = "reading"
     /\ Insertable(loaded, outcome, rows)
     /\ Storable(Persisted(loaded, outcome))
     /\ fields' = Persisted(loaded, outcome)
     /\ results' = Upserted(loaded, rows)
     /\ status' = VerdictOn(outcomes, low)
     /\ reason' = Written(reason, loaded.reason, ReasonFor(outcomes, low))
     /\ torn' = overtaken[r]
     /\ CloseOvertaking(r)
     /\ UNCHANGED <<type, provider, requests, submitted, loads>>

(* A permanent OcrError: FAILED, with a reason of its own. *)
Fail(r, answer) ==
  /\ at[r] = "reading"
  /\ Extract(provider, type, answer).kind = "permanent"
  /\ status' = "FAILED"
  /\ reason' = Written(reason, base[r].reason, OcrFailed)
  /\ CloseOvertaking(r)
  /\ UNCHANGED <<type, provider, results, fields, requests, submitted, loads, torn>>

(* Anything else that is raised (a transient or unexpected answer, a violated
   constraint, storage out of reach) or a crash: the session is rolled back and
   the document stays as it is for the next delivery. *)
GiveUp(r) ==
  /\ at[r] # "idle"
  /\ Close(r)
  /\ overtaken' = [overtaken EXCEPT ![r] = FALSE]
  /\ UNCHANGED <<type, provider, row, requests, submitted, loads, torn>>

-----------------------------------------------------------------------------
(* A reviewer's request loads the document and its fields, and looks for an
   earlier submission. *)
Open(q) ==
  /\ asked[q] = "new"
  /\ asked' = [asked EXCEPT ![q] = "open"]
  /\ view' = [view EXCEPT ![q] = [status |-> status, fields |-> fields, submitted |-> submitted]]
  /\ UNCHANGED <<type, provider, row, readers, submitted, loads, torn>>

Done(q) == asked' = [asked EXCEPT ![q] = "done"] /\ view' = [view EXCEPT ![q] = NoView]

(* correct_field on a loaded field: value, original and source of its row. *)
Corrected(cell, object, v) ==
  LET original == IF object.original = NoValue THEN object.value ELSE object.original
  IN [cell EXCEPT !.value = Written(@, object.value, v),
                  !.original = Written(@, object.original, original),
                  !.manual = Written(@, object.manual, TRUE)]

Correct(q, f, v) ==
  /\ asked[q] = "open"
  /\ f \in DOMAIN view[q].fields
  /\ fields' = [fields EXCEPT ![f] = Corrected(@, view[q].fields[f], v)]
  /\ Done(q)
  /\ UNCHANGED <<type, provider, status, reason, results, readers, submitted, loads, torn>>

(* Mutant of StatusOnSubmit: submission validates whatever it is given. *)
AlwaysValidated(seen) == "VALIDATED"

StatusOnSubmit(seen) == IF seen = "REVIEW_REQUIRED" THEN "VALIDATED" ELSE seen

(* submit_reviewed_document: it decides on the status it has loaded, and leaves
   rejection_reason as it is. *)
Submit(q) ==
  LET seen == view[q].status
  IN /\ asked[q] = "open"
     /\ ~view[q].submitted
     /\ seen \in Verdicts
     /\ status' = Written(status, seen, StatusOnSubmit(seen))
     /\ submitted' = TRUE
     /\ torn' = (torn \/ (seen = "REVIEW_REQUIRED" /\ status \notin {"REVIEW_REQUIRED", "VALIDATED"}))
     /\ Done(q)
     /\ UNCHANGED <<type, provider, reason, results, fields, readers, loads>>

Next ==
  \/ \E r \in Readers :
       \/ Load(r)
       \/ Begin(r)
       \/ \E answer \in Answers(provider, type) : Judge(r, answer) \/ Fail(r, answer)
       \/ GiveUp(r)
  \/ \E q \in Requests :
       \/ Open(q)
       \/ \E f \in DOMAIN fields, v \in Typed : Correct(q, f, v)
       \/ Submit(q)

Spec == Init /\ [][Next]_vars

-----------------------------------------------------------------------------
Cell == [value : FieldValues, confidence : 0..100, original : FieldValues, manual : BOOLEAN]

Committable == {"QUEUED", "EXTRACTING", "FAILED"} \union Verdicts

Decided == status \in Verdicts

(* Nobody has committed over rows that were not those he had loaded, since the
   last session that judged the document as it was. *)
Whole == Decided /\ ~torn

(* The confidence flag of the published schema (ExtractedFieldOut), which does
   not know the worker's threshold. *)
Flagged(cell) == cell.confidence < 80

(* Every variable stays in its type; stored confidences pass their check
   constraint. *)
TypeOK ==
  /\ type \in DocumentTypes /\ provider \in Providers
  /\ status \in Committable
  /\ reason.text \in {"none", "manual review", "ocr failed", "rules"}
  /\ DOMAIN results \subseteq RuleIds(type)
  /\ \A f \in DOMAIN fields : fields[f] \in Cell
  /\ at \in [Readers -> {"idle", "loaded", "reading"}]
  /\ overtaken \in [Readers -> BOOLEAN]
  /\ DOMAIN base = Readers
  /\ \A r \in Readers : /\ base[r].status \in Committable
                       /\ DOMAIN base[r].fields \subseteq DOMAIN fields
                       /\ DOMAIN base[r].results \subseteq DOMAIN results
  /\ asked \in [Requests -> {"new", "open", "done"}]
  /\ DOMAIN view = Requests
  /\ \A q \in Requests : /\ view[q].status \in Committable
                        /\ DOMAIN view[q].fields \subseteq DOMAIN fields
  /\ submitted \in BOOLEAN /\ torn \in BOOLEAN
  /\ loads \in 0..MaxLoads

(* Copies at work at the same time cannot leave a verdict half stored: there is a
   result for every rule and a row for every field of the catalogue, whichever
   adapter read the document and whatever it left out ("so a missing key and a
   failed extraction are never confused downstream", OcrAdapter.extract). *)
VerdictIsComplete ==
  Decided => DOMAIN results = RuleIds(type) /\ FieldsOf(type) \subseteq DOMAIN fields

(* The stored results and the status tell one story, however often the document
   is read again and whatever reviewers submit: one of them blocks exactly if the
   document is rejected.  Copies that overlap break this, as each writes only
   what differs from the rows it loaded, and so does a submission that lands on
   another outcome than the one it saw. *)
RowsTellVerdict ==
  Whole => (status = "REJECTED" <=> \E id \in DOMAIN results : results[id].blocking)

(* Under the same condition a rejected document is explained by its stored
   results: every blocking rule is shown or counted, and none that is left out is
   more severe than one that is shown ("so the most important reason leads",
   _explain). *)
ReasonIsWorst ==
  Whole /\ status = "REJECTED" =>
    LET blocking == {id \in DOMAIN results : results[id].blocking}
    IN /\ reason.shown # {} /\ reason.shown \subseteq blocking
       /\ Cardinality(reason.shown) + reason.more = Cardinality(blocking)
       /\ \A shown \in reason.shown, other \in blocking \ reason.shown :
            SeverityRank[results[shown].severity] <= SeverityRank[results[other].severity]

(* Under the same condition a document sent to review for doubtful values shows
   the reviewer which ones: a stored field carries the flag of the API, or a
   reviewer has corrected one, which keeps its row from being read again.  Worker
   and API each have a threshold of their own: this is so while the worker's is
   not the higher one. *)
ReviewShowsWhy ==
  Whole /\ status = "REVIEW_REQUIRED" =>
    \E f \in DOMAIN fields : Flagged(fields[f]) \/ fields[f].manual

(* Under the same condition a validated document carries a rejection reason only
   if a submission took it out of review, which leaves the reason as it is. *)
ReasonOutlivesOnlyReview ==
  Whole /\ status = "VALIDATED" => reason = NoReason \/ (submitted /\ reason = ManualReview)

-----------------------------------------------------------------------------
=============================================================================
