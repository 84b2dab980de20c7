---------------------------- MODULE ReviewProofs ----------------------------
(***************************************************************************)
(* Proofs about Review, for any number of requests, fields and             *)
(* corrections.                                                            *)
(***************************************************************************)
EXTENDS ReviewInv, TLAPS

(* A flush of well-typed rows writes a well-typed row. *)
LEMMA FlushType ==
  ASSUME NEW row \in Cell, NEW loaded \in Cell, NEW object \in Cell
  PROVE  Flush(row, loaded, object) \in Cell
BY DEF Flush, Written, Cell

(* A correction of a well-typed object leaves a well-typed object. *)
LEMMA EditedType ==
  ASSUME NEW object \in Cell, NEW v \in Values
  PROVE  Edited(object, v) \in Cell
BY DEF Edited, Cell, MaybeValues

(* So does another reading. *)
LEMMA RereadType ==
  ASSUME NEW object \in Cell, NEW v \in MaybeValues
  PROVE  Reread(object, v) \in Cell
BY DEF Reread, Cell

(* Appending an entry to a trail keeps its type. *)
LEMMA TrailType ==
  ASSUME NEW log \in Seq(Entry), NEW more \in Seq(Corrections)
  PROVE  log \o more \in Seq(Entry)
<1>1. more \in Seq(Entry)
  BY DEF Entry
<1> QED
  BY <1>1

(* Submission moves a document from one known status to another. *)
LEMMA SubmitType ==
  ASSUME NEW t \in Statuses
  PROVE  StatusOnSubmit(t) \in Statuses
BY DEF StatusOnSubmit, Statuses

(* The initial states are well typed. *)
LEMMA TypeInit == Init => TypeOK /\ LoadedStatus
<1> SUFFICES ASSUME Init PROVE TypeOK /\ LoadedStatus
  OBVIOUS
<1>1. status \in Statuses
  BY DEF Init, Processed, Statuses
<1>2. cells \in [Fields -> Cell]
  BY DEF Init, Cell, MaybeValues
<1>3. /\ trail \in Seq(Entry)
      /\ pending \in [Requests -> Seq(Corrections)]
      /\ readings \in [Fields -> SUBSET MaybeValues]
  BY DEF Init
<1> QED
  BY <1>1, <1>2, <1>3 DEF Init, TypeOK, LoadedStatus

(* Every step keeps the types; the actions differ in which variables they
   rebuild. *)
LEMMA TypeNext == TypeOK /\ LoadedStatus /\ [Next]_vars => (TypeOK /\ LoadedStatus)'
<1> SUFFICES ASSUME TypeOK, LoadedStatus, [Next]_vars PROVE (TypeOK /\ LoadedStatus)'
  OBVIOUS
<1> USE DEF TypeOK, LoadedStatus, rows, sessions, Goto
<1>1. ASSUME NEW r \in Requests, NEW k \in {"correct", "review", "submit"}, Open(r, k)
      PROVE  (TypeOK /\ LoadedStatus)'
  BY <1>1 DEF Open, Submitted
<1>2. ASSUME NEW r \in Requests, RollBack(r) \/ NameUnknownField(r) \/ RefuseEdit(r)
      PROVE  (TypeOK /\ LoadedStatus)'
  BY <1>2 DEF RollBack, NameUnknownField, RefuseEdit
<1>3. ASSUME NEW r \in Requests, NEW f \in Fields, NEW v \in Values, EditField(r, f, v)
      PROVE  (TypeOK /\ LoadedStatus)'
  <2>1. Edited(mine[r][f], v) \in Cell
    BY EditedType
  <2>2. mine' \in [Requests -> [Fields -> Cell]]
    BY <1>3, <2>1 DEF EditField
  <2>3. Corrected(f, v) \in Corrections
    BY DEF Corrections
  <2>4. pending' \in [Requests -> Seq(Corrections)]
    BY <1>3, <2>3 DEF EditField
  <2> QED
    BY <1>3, <2>2, <2>4 DEF EditField
<1>4. ASSUME NEW r \in Requests, CommitEdits(r)
      PROVE  (TypeOK /\ LoadedStatus)'
  <2>1. \A f \in Fields : Flush(cells[f], base[r][f], mine[r][f]) \in Cell
    BY FlushType
  <2>2. cells' \in [Fields -> Cell]
    BY <1>4, <2>1 DEF CommitEdits
  <2>3. trail' \in Seq(Entry)
    BY <1>4, TrailType DEF CommitEdits
  <2> QED
    BY <1>4, <2>2, <2>3 DEF CommitEdits
<1>5. ASSUME NEW r \in Requests, LookForSubmission(r)
      PROVE  (TypeOK /\ LoadedStatus)'
  BY <1>5 DEF LookForSubmission
<1>6. ASSUME NEW r \in Requests, Submit(r)
      PROVE  (TypeOK /\ LoadedStatus)'
  <2>1. StatusOnSubmit(seen[r]) \in Statuses
    BY <1>6, SubmitType DEF Submit
  <2>2. Submission(StatusOnSubmit(seen[r])) \in Entry
    BY <2>1 DEF Entry
  <2>3. trail' \in Seq(Entry)
    BY <1>6, <2>2 DEF Submit
  <2> QED
    BY <1>6, <2>1, <2>3 DEF Submit
<1>7. CASE Reopen
  <2>1. copy' = [at |-> "reopened", base |-> copy.base]
    BY <1>7 DEF Reopen
  <2> QED
    BY <1>7, <2>1 DEF Reopen, Statuses
<1>8. CASE Reload
  BY <1>8 DEF Reload
<1>9. CASE Reextract
  <2>1. copy.base \in [Fields -> Cell] /\ copy' = [at |-> "done", base |-> copy.base]
    BY <1>9 DEF Reextract
  <2>2. \A f \in Fields : Reread(copy.base[f], reading'[f]) \in Cell
    BY <1>9, <2>1, RereadType DEF Reextract
  <2>3. cells' \in [Fields -> Cell]
    BY <1>9, <2>1, <2>2, FlushType DEF Reextract
  <2>4. status' \in Statuses
    BY <1>9 DEF Reextract, Verdicts, Statuses
  <2>5. readings' \in [Fields -> SUBSET MaybeValues]
    BY <1>9 DEF Reextract
  <2> QED
    BY <1>9, <2>1, <2>3, <2>4, <2>5 DEF Reextract
<1>10. CASE UNCHANGED vars
  BY <1>10 DEF vars
<1> QED
  BY <1>1, <1>2, <1>3, <1>4, <1>5, <1>6, <1>7, <1>8, <1>9, <1>10 DEF Next

-----------------------------------------------------------------------------
(* What a log says about a field after one more correction. *)
LEMMA ValuesAppend ==
  ASSUME NEW log \in Seq(Entry), NEW f, NEW g, NEW v
  PROVE  ValuesIn(Append(log, Corrected(g, v)), f)
           = IF f = g THEN ValuesIn(log, f) \union {v} ELSE ValuesIn(log, f)
<1> DEFINE more == Append(log, Corrected(g, v))
<1>1. /\ Len(more) = Len(log) + 1
      /\ \A i \in 1..Len(log) : more[i] = log[i]
      /\ more[Len(log) + 1] = Corrected(g, v)
  OBVIOUS
<1>2. 1..Len(more) = (1..Len(log)) \union {Len(log) + 1}
  BY <1>1
<1>3. /\ Corrected(g, v).action = "FIELD_CORRECTED"
      /\ Corrected(g, v).field = g
      /\ Corrected(g, v).value = v
  BY DEF Corrected
<1> HIDE DEF more
<1>4. ValuesIn(more, f) = IF f = g THEN ValuesIn(log, f) \union {v} ELSE ValuesIn(log, f)
  BY <1>1, <1>2, <1>3 DEF ValuesIn
<1> QED
  BY <1>4 DEF more

(* ... after a submission ... *)
LEMMA ValuesSubmitted ==
  ASSUME NEW log \in Seq(Entry), NEW f, NEW t
  PROVE  ValuesIn(Append(log, Submission(t)), f) = ValuesIn(log, f)
<1> DEFINE more == Append(log, Submission(t))
<1>1. /\ Len(more) = Len(log) + 1
      /\ \A i \in 1..Len(log) : more[i] = log[i]
      /\ more[Len(log) + 1].action = "DOCUMENT_SUBMITTED"
  BY DEF Submission
<1>2. 1..Len(more) = (1..Len(log)) \union {Len(log) + 1}
  BY <1>1
<1> HIDE DEF more
<1>3. ValuesIn(more, f) = ValuesIn(log, f)
  BY <1>1, <1>2 DEF ValuesIn
<1> QED
  BY <1>3 DEF more

(* ... and after the corrections of a whole request. *)
LEMMA ValuesConcat ==
  ASSUME NEW log \in Seq(Entry), NEW more \in Seq(Entry), NEW f
  PROVE  ValuesIn(log \o more, f) = ValuesIn(log, f) \union ValuesIn(more, f)
<1> DEFINE all == log \o more
<1>1. /\ Len(log) \in Nat /\ Len(more) \in Nat
      /\ Len(all) = Len(log) + Len(more)
      /\ \A i \in 1..Len(log) : all[i] = log[i]
      /\ \A i \in 1..Len(more) : all[Len(log) + i] = more[i]
  OBVIOUS
<1> HIDE DEF all
<1>2. \A i \in 1..Len(all) : i \in 1..Len(log) \/ i - Len(log) \in 1..Len(more)
  BY <1>1
<1>3. ValuesIn(all, f) \subseteq ValuesIn(log, f) \union ValuesIn(more, f)
  <2> SUFFICES ASSUME NEW i \in 1..Len(all), all[i].action = "FIELD_CORRECTED", all[i].field = f
               PROVE  all[i].value \in ValuesIn(log, f) \union ValuesIn(more, f)
    BY DEF ValuesIn
  <2>1. CASE i \in 1..Len(log)
    BY <1>1, <2>1 DEF ValuesIn
  <2>2. CASE i - Len(log) \in 1..Len(more)
    <3>1. all[i] = more[i - Len(log)]
      BY <1>1, <2>2
    <3> QED
      BY <3>1, <2>2 DEF ValuesIn
  <2> QED
    BY <1>2, <2>1, <2>2
<1>4. \A i \in 1..Len(log) : i \in 1..Len(all) /\ all[i] = log[i]
  BY <1>1
<1>5. \A i \in 1..Len(more) : Len(log) + i \in 1..Len(all) /\ all[Len(log) + i] = more[i]
  BY <1>1
<1>6. ValuesIn(log, f) \subseteq ValuesIn(all, f)
  BY <1>4 DEF ValuesIn
<1>7. ValuesIn(more, f) \subseteq ValuesIn(all, f)
  BY <1>5 DEF ValuesIn
<1> QED
  BY <1>3, <1>6, <1>7 DEF all

(* A trail only grows, so a submission stays in it. *)
LEMMA SubmittedStays == TypeOK /\ [Next]_vars => (Submitted => Submitted')
<1> SUFFICES ASSUME TypeOK, [Next]_vars, Submitted PROVE Submitted'
  OBVIOUS
<1> USE DEF rows, sessions
<1>1. PICK i \in 1..Len(trail) : trail[i].action = "DOCUMENT_SUBMITTED"
  BY DEF Submitted
<1>2. trail \in Seq(Entry) /\ \A r \in Requests : pending[r] \in Seq(Corrections)
  BY DEF TypeOK
<1>3. ASSUME NEW r \in Requests, CommitEdits(r) PROVE Submitted'
  <2>1. i \in 1..Len(trail \o pending[r]) /\ (trail \o pending[r])[i] = trail[i]
    BY <1>2
  <2> QED
    BY <1>1, <1>3, <2>1 DEF CommitEdits, Submitted
<1>4. ASSUME NEW r \in Requests, Submit(r) PROVE Submitted'
  <2> DEFINE entry == Submission(StatusOnSubmit(seen[r]))
  <2>1. i \in 1..Len(Append(trail, entry)) /\ Append(trail, entry)[i] = trail[i]
    BY <1>2
  <2> QED
    BY <1>1, <1>4, <2>1 DEF Submit, Submitted
<1>5. CASE UNCHANGED trail
  BY <1>1, <1>5 DEF Submitted
<1> QED
  BY <1>3, <1>4, <1>5 DEF Next, vars, Open, RollBack, EditField, NameUnknownField, RefuseEdit,
     LookForSubmission, Reopen, Reload, Reextract

-----------------------------------------------------------------------------
(* A request is late only if the submission it missed is in the trail, and a
   submit that passed the check was not late. *)
LEMMA LateNext == TypeOK /\ LateIsRefused /\ [Next]_vars => LateIsRefused'
<1> SUFFICES ASSUME TypeOK, LateIsRefused, [Next]_vars PROVE LateIsRefused'
  OBVIOUS
<1> USE DEF LateIsRefused, TypeOK, rows, sessions, Goto
<1>0. Submitted => Submitted'
  BY SubmittedStays
<1>1. ASSUME NEW r \in Requests, NEW k \in {"correct", "review", "submit"}, Open(r, k)
      PROVE  LateIsRefused'
  BY <1>0, <1>1 DEF Open
<1>2. ASSUME NEW r \in Requests, RollBack(r) \/ NameUnknownField(r) \/ RefuseEdit(r)
      PROVE  LateIsRefused'
  BY <1>0, <1>2 DEF RollBack, NameUnknownField, RefuseEdit
<1>3. ASSUME NEW r \in Requests, NEW f \in Fields, NEW v \in Values, EditField(r, f, v)
      PROVE  LateIsRefused'
  BY <1>0, <1>3 DEF EditField
<1>4. ASSUME NEW r \in Requests, CommitEdits(r)
      PROVE  LateIsRefused'
  BY <1>0, <1>4 DEF CommitEdits, MayEdit
<1>5. ASSUME NEW r \in Requests, LookForSubmission(r)
      PROVE  LateIsRefused'
  BY <1>0, <1>5 DEF LookForSubmission
<1>6. ASSUME NEW r \in Requests, Submit(r)
      PROVE  LateIsRefused'
  BY <1>0, <1>6 DEF Submit
<1>7. CASE Reopen \/ Reload \/ Reextract \/ UNCHANGED vars
  BY <1>0, <1>7 DEF Reopen, Reload, Reextract, vars
<1> QED
  BY <1>1, <1>2, <1>3, <1>4, <1>5, <1>6, <1>7 DEF Next

(* A correction keeps a genuine object genuine: the first one takes the value,
   which is the reading, for the original; a later one finds an original. *)
LEMMA EditedGenuine ==
  ASSUME NEW f \in Fields, NEW object \in Cell, NEW v \in Values, Genuine(object, f)
  PROVE  Genuine(Edited(object, v), f)
BY DEF Genuine, Edited, Cell, MaybeValues

(* Flushing an object over a row committed since it was loaded gives a genuine
   row, provided marks only ever get set. *)
LEMMA FlushGenuine ==
  ASSUME NEW f \in Fields, NEW row \in Cell, NEW loaded \in Cell, NEW object \in Cell,
         Genuine(row, f), Genuine(loaded, f), Genuine(object, f),
         loaded.manual => row.manual,
         object = loaded \/ object.manual
  PROVE  /\ Genuine(Flush(row, loaded, object), f)
         /\ row.manual => Flush(row, loaded, object).manual
<1> DEFINE flushed == Flush(row, loaded, object)
<1>1. /\ flushed.value = IF object.value = loaded.value THEN row.value ELSE object.value
      /\ flushed.original = IF object.original = loaded.original THEN row.original ELSE object.original
      /\ flushed.manual = IF object.manual = loaded.manual THEN row.manual ELSE object.manual
  BY DEF Flush, Written
<1>2. row.manual \in BOOLEAN /\ loaded.manual \in BOOLEAN /\ object.manual \in BOOLEAN
  BY DEF Cell
<1> HIDE DEF flushed
<1>3. Genuine(flushed, f) /\ (row.manual => flushed.manual)
  <2>1. CASE object = loaded
    BY <1>1, <2>1 DEF Genuine
  <2>2. CASE object.manual /\ loaded.manual
    BY <1>1, <1>2, <2>2 DEF Genuine
  <2>3. CASE object.manual /\ ~loaded.manual
    BY <1>1, <1>2, <2>3 DEF Genuine
  <2> QED
    BY <1>2, <2>1, <2>2, <2>3
<1> QED
  BY <1>3 DEF flushed

(* At first nothing is corrected, and the rows are what OCR read. *)
LEMMA GenuineInit == Init => AllGenuine
<1> SUFFICES ASSUME Init PROVE AllGenuine
  OBVIOUS
<1>1. ASSUME NEW f \in Fields PROVE Genuine(cells[f], f) /\ cells[f].manual = FALSE
  BY <1>1 DEF Init, Genuine
<1>2. \A f : ValuesIn(<< >>, f) = {}
  BY DEF ValuesIn
<1>3. RowsAreGenuine
  BY <1>1, <1>2 DEF Init, RowsAreGenuine, LoggedValues
<1>4. SessionsAreGenuine
  BY <1>1 DEF Init, SessionsAreGenuine
<1>5. EditsAreLogged
  BY <1>2 DEF Init, EditsAreLogged
<1> QED
  BY <1>3, <1>4, <1>5 DEF AllGenuine

(* Steps that change neither fields, trail, objects nor pending entries. *)
LEMMA GenuineStays ==
  ASSUME AllGenuine, UNCHANGED <<cells, trail, reading, readings, base, mine, pending>>,
         copy' = copy \/ copy.at # "done",
         \A r \in Requests : state[r] = "new" => state'[r] = "new"
  PROVE  AllGenuine'
<1>1. \A f : Genuine(cells[f], f)' = Genuine(cells[f], f)
  BY DEF Genuine
<1>2. \A f : LoggedValues(f)' = LoggedValues(f)
  BY DEF LoggedValues, ValuesIn
<1>3. \A r, f : /\ Genuine(base[r][f], f)' = Genuine(base[r][f], f)
                /\ Genuine(mine[r][f], f)' = Genuine(mine[r][f], f)
                /\ ValuesIn(pending[r], f)' = ValuesIn(pending[r], f)
  BY DEF Genuine, ValuesIn
<1>4. RowsAreGenuine'
  BY <1>1, <1>2 DEF AllGenuine, RowsAreGenuine, Kept
<1> QED
  BY <1>3, <1>4 DEF AllGenuine, SessionsAreGenuine, EditsAreLogged

(* A request loads committed rows, and has nothing to log yet. *)
LEMMA GenuineOpen ==
  ASSUME TypeOK, LateIsRefused, AllGenuine,
         NEW r \in Requests, NEW k \in {"correct", "review", "submit"}, Open(r, k)
  PROVE  AllGenuine'
<1> USE DEF rows, sessions, Goto
<1>1. /\ base' = [base EXCEPT ![r] = cells] /\ mine' = [mine EXCEPT ![r] = cells]
      /\ state' = [state EXCEPT ![r] = "open"] /\ pending[r] = << >>
      /\ UNCHANGED <<cells, trail, reading, readings, pending, copy>>
  BY DEF Open, LateIsRefused
<1>2. RowsAreGenuine'
  <2>1. \A f : Genuine(cells[f], f)' = Genuine(cells[f], f)
    BY <1>1 DEF Genuine
  <2>2. \A f : LoggedValues(f)' = LoggedValues(f) /\ Kept(f)' = Kept(f)
    BY <1>1 DEF Kept, LoggedValues, ValuesIn
  <2> QED
    BY <1>1, <2>1, <2>2 DEF AllGenuine, RowsAreGenuine
<1>3. SessionsAreGenuine'
  BY <1>1 DEF AllGenuine, SessionsAreGenuine, RowsAreGenuine, Genuine, TypeOK
<1>4. \A f : ValuesIn(<< >>, f) = {}
  BY DEF ValuesIn
<1>5. EditsAreLogged'
  BY <1>1, <1>4 DEF AllGenuine, EditsAreLogged, TypeOK
<1> QED
  BY <1>2, <1>3, <1>5 DEF AllGenuine

(* A correction changes one object and announces its value. *)
LEMMA GenuineEdit ==
  ASSUME TypeOK, AllGenuine,
         NEW r \in Requests, NEW g \in Fields, NEW v \in Values, EditField(r, g, v)
  PROVE  AllGenuine'
<1> USE DEF rows, sessions, Goto
<1>1. /\ mine' = [mine EXCEPT ![r] = [mine[r] EXCEPT ![g] = Edited(mine[r][g], v)]]
      /\ pending' = [pending EXCEPT ![r] = Append(pending[r], Corrected(g, v))]
      /\ UNCHANGED <<cells, trail, reading, readings, base, state, copy>>
  BY DEF EditField
<1>2. /\ mine \in [Requests -> [Fields -> Cell]]
      /\ pending[r] \in Seq(Entry) /\ pending \in [Requests -> Seq(Corrections)]
  BY DEF TypeOK, Entry
<1>3. Genuine(Edited(mine[r][g], v), g)
  BY <1>2, EditedGenuine DEF AllGenuine, SessionsAreGenuine
<1>4. RowsAreGenuine'
  <2>1. \A f : Genuine(cells[f], f)' = Genuine(cells[f], f)
    BY <1>1 DEF Genuine
  <2>2. \A f : LoggedValues(f)' = LoggedValues(f) /\ Kept(f)' = Kept(f)
    BY <1>1 DEF Kept, LoggedValues, ValuesIn
  <2> QED
    BY <1>1, <2>1, <2>2 DEF AllGenuine, RowsAreGenuine
<1>5. SessionsAreGenuine'
  BY <1>1, <1>2, <1>3 DEF AllGenuine, SessionsAreGenuine, Genuine
<1>6. Edited(mine[r][g], v).manual = TRUE /\ Edited(mine[r][g], v).value = v
  BY DEF Edited
<1>7. ASSUME NEW f \in Fields
      PROVE  ValuesIn(pending'[r], f) = IF f = g THEN ValuesIn(pending[r], f) \union {v}
                                                 ELSE ValuesIn(pending[r], f)
  BY <1>1, <1>2, ValuesAppend
<1>8. EditsAreLogged'
  <2> SUFFICES ASSUME NEW q \in Requests, NEW f \in Fields
               PROVE  (\/ mine[q][f] = base[q][f] /\ ValuesIn(pending[q], f) = {}
                       \/ mine[q][f].manual /\ mine[q][f].value \in ValuesIn(pending[q], f))'
    BY DEF EditsAreLogged
  <2>1. \/ mine[q][f] = base[q][f] /\ ValuesIn(pending[q], f) = {}
        \/ mine[q][f].manual /\ mine[q][f].value \in ValuesIn(pending[q], f)
    BY DEF AllGenuine, EditsAreLogged
  <2>2. CASE q # r
    BY <1>1, <1>2, <2>1, <2>2
  <2>3. CASE q = r /\ f # g
    BY <1>1, <1>2, <1>7, <2>1, <2>3
  <2>4. CASE q = r /\ f = g
    BY <1>1, <1>2, <1>6, <1>7, <2>4
  <2> QED
    BY <2>2, <2>3, <2>4
<1> QED
  BY <1>4, <1>5, <1>8 DEF AllGenuine

(* The commit of a correct or review request. *)
LEMMA GenuineCommit ==
  ASSUME TypeOK, ReadOnce, AllGenuine, CopyIsGenuine, NEW r \in Requests, CommitEdits(r)
  PROVE  AllGenuine'
<1> USE DEF rows, sessions, Goto
<1>1. /\ cells' = [f \in Fields |-> Flush(cells[f], base[r][f], mine[r][f])]
      /\ trail' = trail \o pending[r]
      /\ state[r] = "open" /\ state' = [state EXCEPT ![r] = "done"]
      /\ UNCHANGED <<reading, readings, base, mine, pending, copy>>
  BY DEF CommitEdits
<1>2. /\ cells \in [Fields -> Cell] /\ base[r] \in [Fields -> Cell] /\ mine[r] \in [Fields -> Cell]
      /\ trail \in Seq(Entry) /\ pending[r] \in Seq(Entry)
  BY DEF TypeOK, Entry
<1>3. ASSUME NEW f \in Fields
      PROVE  /\ Genuine(cells[f], f) /\ Genuine(base[r][f], f) /\ Genuine(mine[r][f], f)
             /\ base[r][f].manual => cells[f].manual
             /\ mine[r][f] = base[r][f] \/ mine[r][f].manual
  BY <1>1 DEF AllGenuine, RowsAreGenuine, SessionsAreGenuine, EditsAreLogged
<1>4. ASSUME NEW f \in Fields
      PROVE  /\ Genuine(cells'[f], f)
             /\ cells[f].manual => cells'[f].manual
  <2>1. /\ Genuine(Flush(cells[f], base[r][f], mine[r][f]), f)
        /\ cells[f].manual => Flush(cells[f], base[r][f], mine[r][f]).manual
    BY <1>2, <1>3, FlushGenuine
  <2> QED
    BY <1>1, <2>1
<1>5. ASSUME NEW f \in Fields
      PROVE  LoggedValues(f)' = LoggedValues(f) \union ValuesIn(pending[r], f)
  BY <1>1, <1>2, ValuesConcat DEF LoggedValues
<1>6. ASSUME NEW f \in Fields
      PROVE  /\ cells'[f].manual <=> LoggedValues(f)' # {}
             /\ IF cells'[f].manual THEN Kept(f)' ELSE cells'[f].value = reading[f]
  <2> DEFINE row == cells[f]  loaded == base[r][f]  object == mine[r][f]
             Overread == copy.at = "done" /\ row.value = reading[f] /\ copy.base[f].original = NoValue
  <2>1. /\ cells'[f].value = IF object.value = loaded.value THEN row.value ELSE object.value
        /\ cells'[f].manual = IF object.manual = loaded.manual THEN row.manual ELSE object.manual
    BY <1>1 DEF Flush, Written
  <2>2. /\ row.manual <=> LoggedValues(f) # {}
        /\ row.manual => row.value \in LoggedValues(f) \/ Overread
        /\ ~row.manual => row.value = reading[f]
    BY DEF AllGenuine, RowsAreGenuine, Kept
  <2>3. \/ object = loaded /\ ValuesIn(pending[r], f) = {}
        \/ object.manual /\ object.value \in ValuesIn(pending[r], f)
    BY DEF AllGenuine, EditsAreLogged
  <2>4. row.manual \in BOOLEAN /\ loaded.manual \in BOOLEAN /\ object.manual \in BOOLEAN
    BY <1>2 DEF Cell
  <2>5. LoggedValues(f)' = LoggedValues(f) \union ValuesIn(pending[r], f)
    BY <1>5
  <2>6. Kept(f)' <=> \/ cells'[f].value \in LoggedValues(f)'
                     \/ copy.at = "done" /\ cells'[f].value = reading[f] /\ copy.base[f].original = NoValue
    BY <1>1 DEF Kept
  <2>7. CASE object = loaded /\ ValuesIn(pending[r], f) = {}
    <3>1. cells'[f].value = row.value /\ cells'[f].manual = row.manual
      BY <2>1, <2>7
    <3> HIDE DEF row, loaded, object
    <3> QED
      BY <3>1, <2>2, <2>5, <2>6, <2>7
  <2>8. CASE object.manual /\ object.value \in ValuesIn(pending[r], f)
    <3>1. cells'[f].manual /\ LoggedValues(f)' # {} /\ object.value \in LoggedValues(f)'
      <4>1. loaded.manual => row.manual
        BY <1>3
      <4> HIDE DEF row, loaded, object
      <4> QED
        BY <2>1, <2>4, <2>5, <2>8, <4>1
    <3>2. CASE object.value # loaded.value
      <4>1. cells'[f].value = object.value
        BY <2>1, <3>2
      <4> QED
        BY <3>1, <4>1, <2>6
    <3>3. CASE object.value = loaded.value /\ row.manual
      <4>1. cells'[f].value = row.value
        BY <2>1, <3>3
      <4> HIDE DEF row, loaded, object
      <4> QED
        BY <3>1, <3>3, <4>1, <2>2, <2>5, <2>6
    <3>4. CASE object.value = loaded.value /\ ~row.manual
      <4>1. cells'[f].value = reading[f]
        BY <2>1, <2>2, <3>4
      <4>2. ~loaded.manual /\ loaded.value \in readings[f]
        BY <1>3, <3>4 DEF Genuine
      <4>3. CASE copy.at # "done"
        <5>1. object.value = reading[f]
          BY <3>4, <4>2, <4>3 DEF ReadOnce
        <5> QED
          BY <3>1, <4>1, <5>1, <2>6
      <4>4. CASE copy.at = "done"
        <5>1. ~copy.base[f].manual /\ Genuine(copy.base[f], f)
          BY <3>4, <4>4 DEF CopyIsGenuine
        <5>2. copy.base[f].original = NoValue
          BY <5>1 DEF Genuine
        <5> QED
          BY <3>1, <4>1, <4>4, <5>2, <2>6
      <4> QED
        BY <4>3, <4>4
    <3> QED
      BY <3>2, <3>3, <3>4
  <2> QED
    BY <2>3, <2>7, <2>8
<1>7. \A f \in Fields : Genuine(cells[f], f)' <=> Genuine(cells'[f], f)
  BY <1>1 DEF Genuine
<1>8. RowsAreGenuine'
  <2>1. \A f \in Fields : IF cells'[f].manual THEN Kept(f)' ELSE cells'[f].value = reading'[f]
    BY <1>1, <1>6
  <2> QED
    BY <1>4, <1>6, <1>7, <2>1 DEF RowsAreGenuine
<1>9. SessionsAreGenuine'
  <2>1. \A q \in Requests : state'[q] # "new" => state[q] # "new"
    BY <1>1 DEF TypeOK
  <2>2. \A q \in Requests, f \in Fields : /\ Genuine(base[q][f], f)' <=> Genuine(base[q][f], f)
                                         /\ Genuine(mine[q][f], f)' <=> Genuine(mine[q][f], f)
    BY <1>1 DEF Genuine
  <2> QED
    BY <1>1, <1>4, <2>1, <2>2 DEF AllGenuine, SessionsAreGenuine
<1>10. EditsAreLogged'
  <2>1. \A q, f : ValuesIn(pending[q], f)' = ValuesIn(pending[q], f)
    BY <1>1 DEF ValuesIn
  <2> QED
    BY <1>1, <2>1 DEF AllGenuine, EditsAreLogged
<1> QED
  BY <1>8, <1>9, <1>10 DEF AllGenuine

(* A submission logs no field. *)
LEMMA GenuineSubmit ==
  ASSUME TypeOK, AllGenuine, NEW r \in Requests, Submit(r)
  PROVE  AllGenuine'
<1> USE DEF rows, sessions, Goto
<1>1. /\ trail' = Append(trail, Submission(StatusOnSubmit(seen[r])))
      /\ state[r] = "cleared" /\ state' = [state EXCEPT ![r] = "done"]
      /\ UNCHANGED <<cells, reading, readings, base, mine, pending, copy>>
  BY DEF Submit
<1>2. \A f : LoggedValues(f)' = LoggedValues(f)
  BY <1>1, ValuesSubmitted DEF LoggedValues, TypeOK
<1>3. RowsAreGenuine'
  <2>1. \A f : Genuine(cells[f], f)' = Genuine(cells[f], f) /\ Kept(f)' = Kept(f)
    BY <1>1, <1>2 DEF Genuine, Kept
  <2> QED
    BY <1>1, <1>2, <2>1 DEF AllGenuine, RowsAreGenuine
<1>4. \A q \in Requests : state'[q] # "new" => state[q] # "new"
  BY <1>1 DEF TypeOK
<1>5. SessionsAreGenuine'
  BY <1>1, <1>4 DEF AllGenuine, SessionsAreGenuine, Genuine
<1>6. \A q, f : ValuesIn(pending[q], f)' = ValuesIn(pending[q], f)
  BY <1>1 DEF ValuesIn
<1>7. EditsAreLogged'
  BY <1>1, <1>6 DEF AllGenuine, EditsAreLogged
<1> QED
  BY <1>3, <1>5, <1>7 DEF AllGenuine

(* A genuine row stays so when OCR reads more. *)
LEMMA GenuineGrows ==
  ASSUME NEW f \in Fields, NEW cell, Genuine(cell, f), readings[f] \subseteq readings'[f]
  PROVE  Genuine(cell, f)'
BY DEF Genuine

(* The commit of the other extraction: a row it knows corrected keeps its value,
   a corrected row keeps mark and original, and any other row gets the reading. *)
LEMMA GenuineReextract ==
  ASSUME TypeOK, ReadOnce, AllGenuine, CopyIsGenuine, Reextract
  PROVE  AllGenuine' /\ CopyIsGenuine' /\ ReadOnce'
<1> DEFINE known(f) == copy.base[f]
           object(f) == Reread(copy.base[f], reading'[f])
<1>1. /\ copy.at = "loaded" /\ copy' = [at |-> "done", base |-> copy.base]
      /\ reading' \in [Fields -> MaybeValues]
      /\ readings' = [f \in Fields |-> readings[f] \union {reading'[f]}]
      /\ cells' = [f \in Fields |-> Flush(cells[f], known(f), object(f))]
      /\ UNCHANGED <<trail, state, base, mine, pending>>
  BY DEF Reextract, TypeOK
<1>2. /\ cells \in [Fields -> Cell] /\ copy.base \in [Fields -> Cell]
      /\ readings \in [Fields -> SUBSET MaybeValues]
  BY DEF TypeOK
<1>3. ASSUME NEW f \in Fields
      PROVE  /\ readings[f] \subseteq readings'[f] /\ reading'[f] \in readings'[f]
             /\ readings[f] = {reading[f]}
             /\ Genuine(cells[f], f) /\ Genuine(known(f), f)
             /\ known(f).manual => cells[f].manual
             /\ cells[f].manual => cells[f].value \in LoggedValues(f)
             /\ cells[f].manual <=> LoggedValues(f) # {}
  BY <1>1 DEF ReadOnce, AllGenuine, RowsAreGenuine, CopyIsGenuine, Kept
<1>4. ASSUME NEW f \in Fields
      PROVE  /\ cells'[f].manual = cells[f].manual
             /\ cells'[f].original = cells[f].original
             /\ cells'[f].value = IF known(f).original # NoValue \/ known(f).value = reading'[f]
                                  THEN cells[f].value ELSE reading'[f]
  <2>1. cells'[f] = Flush(cells[f], known(f), object(f))
    BY <1>1
  <2>2. known(f) \in Cell /\ cells[f] \in Cell
    BY <1>2
  <2>3. /\ object(f).manual = known(f).manual /\ object(f).original = known(f).original
        /\ object(f).value = IF known(f).original # NoValue THEN known(f).value ELSE reading'[f]
    BY <2>2 DEF Reread, Cell
  <2> HIDE DEF known, object
  <2> QED
    BY <2>1, <2>3 DEF Flush, Written
<1>5. \A f : LoggedValues(f)' = LoggedValues(f)
  BY <1>1 DEF LoggedValues, ValuesIn
<1>6. ASSUME NEW f \in Fields, ~cells[f].manual
      PROVE  cells'[f].value = reading'[f] /\ cells'[f].original = NoValue
  <2>1. /\ known(f).original = NoValue /\ cells[f].original = NoValue
        /\ known(f).value = reading[f] /\ cells[f].value = reading[f]
    BY <1>3, <1>6 DEF Genuine
  <2> HIDE DEF known
  <2> QED
    BY <1>4, <2>1
<1>7. ASSUME NEW f \in Fields
      PROVE  Genuine(cells[f], f)'
  <2>1. CASE cells[f].manual
    BY <1>3, <1>4, <2>1 DEF Genuine
  <2>2. CASE ~cells[f].manual
    BY <1>3, <1>4, <1>6, <2>2 DEF Genuine
  <2> QED
    BY <2>1, <2>2
<1>8. ASSUME NEW f \in Fields, cells[f].manual
      PROVE  Kept(f)'
  <2>1. copy'.at = "done" /\ copy'.base[f] = known(f)
    BY <1>1
  <2>2. CASE known(f).original # NoValue \/ known(f).value = reading'[f]
    BY <1>3, <1>4, <1>5, <1>8, <2>2 DEF Kept
  <2>3. CASE known(f).original = NoValue /\ known(f).value # reading'[f]
    <3> HIDE DEF known
    <3> QED
      BY <1>4, <2>1, <2>3 DEF Kept
  <2> QED
    BY <2>2, <2>3
<1>9. RowsAreGenuine'
  BY <1>3, <1>4, <1>5, <1>6, <1>7, <1>8 DEF RowsAreGenuine
<1>10. SessionsAreGenuine'
  <2> SUFFICES ASSUME NEW r \in Requests, NEW f \in Fields
               PROVE  /\ Genuine(base[r][f], f)'
                      /\ Genuine(mine[r][f], f)'
                      /\ state'[r] # "new" /\ base'[r][f].manual => cells'[f].manual
    BY DEF SessionsAreGenuine
  <2>1. /\ Genuine(base[r][f], f) /\ Genuine(mine[r][f], f)
        /\ state[r] # "new" /\ base[r][f].manual => cells[f].manual
    BY DEF AllGenuine, SessionsAreGenuine
  <2> QED
    BY <1>1, <1>3, <1>4, <2>1 DEF Genuine
<1>11. EditsAreLogged'
  <2>1. \A q, f : ValuesIn(pending[q], f)' = ValuesIn(pending[q], f)
    BY <1>1 DEF ValuesIn
  <2> QED
    BY <1>1, <2>1 DEF AllGenuine, EditsAreLogged
<1>12. CopyIsGenuine'
  <2> SUFFICES ASSUME NEW f \in Fields
               PROVE  Genuine(copy.base[f], f)' /\ (copy'.base[f].manual => cells'[f].manual)
    BY DEF CopyIsGenuine
  <2>1. copy'.base[f] = known(f)
    BY <1>1
  <2> QED
    BY <1>3, <1>4, <2>1 DEF Genuine
<1>13. ReadOnce'
  BY <1>1, <1>3 DEF ReadOnce
<1> QED
  BY <1>9, <1>10, <1>11, <1>12, <1>13 DEF AllGenuine

(* No other step lets the other extraction hold something else, or OCR read. *)
LEMMA CopyNext ==
  ASSUME TypeOK, ReadOnce, AllGenuine, CopyIsGenuine, [Next]_vars, ~Reextract
  PROVE  CopyIsGenuine' /\ ReadOnce'
<1> USE DEF rows, sessions
<1>1. copy.base \in [Fields -> Cell] /\ UNCHANGED <<reading, readings>>
  BY DEF TypeOK, Next, vars, Open, RollBack, EditField, NameUnknownField, RefuseEdit, CommitEdits,
     LookForSubmission, Submit, Reopen, Reload
<1>2. ASSUME NEW r \in Requests, CommitEdits(r)
      PROVE  CopyIsGenuine' /\ ReadOnce'
  <2>1. copy' = copy
    BY <1>2 DEF CommitEdits
  <2>2. ASSUME NEW f \in Fields PROVE cells[f].manual => cells'[f].manual
    <3>1. cells'[f].manual = IF mine[r][f].manual = base[r][f].manual THEN cells[f].manual ELSE mine[r][f].manual
      BY <1>2 DEF CommitEdits, Flush, Written
    <3>2. mine[r][f] = base[r][f] \/ mine[r][f].manual
      BY DEF AllGenuine, EditsAreLogged
    <3> QED
      BY <3>1, <3>2
  <2> QED
    BY <1>1, <2>1, <2>2 DEF CopyIsGenuine, Genuine, ReadOnce
<1>3. CASE Reopen
  <2>1. copy.at = "waiting" /\ copy'.at = "reopened"
    BY <1>3 DEF Reopen, TypeOK
  <2> QED
    BY <1>1, <2>1 DEF CopyIsGenuine, ReadOnce
<1>4. CASE Reload
  <2>1. copy.at = "reopened" /\ copy' = [at |-> "loaded", base |-> cells] /\ cells' = cells
    BY <1>4 DEF Reload
  <2> QED
    BY <1>1, <2>1 DEF CopyIsGenuine, ReadOnce, AllGenuine, RowsAreGenuine, Genuine
<1>5. CASE UNCHANGED <<copy, cells>>
  BY <1>1, <1>5 DEF CopyIsGenuine, Genuine, ReadOnce
<1> QED
  BY <1>2, <1>3, <1>4, <1>5 DEF Next, vars, Open, RollBack, EditField, NameUnknownField, RefuseEdit,
     LookForSubmission, Submit

(* A session that is not overtaken stays close behind: only a submission has
   moved the document, and it moved it to VALIDATED. *)
LEMMA OvertakenNext == TypeOK /\ NotOvertaken /\ [Next]_vars => NotOvertaken'
<1> SUFFICES ASSUME TypeOK, NotOvertaken, [Next]_vars PROVE NotOvertaken'
  OBVIOUS
<1> USE DEF NotOvertaken, TypeOK, rows, sessions, Goto
<1>1. ASSUME NEW r \in Requests, NEW k \in {"correct", "review", "submit"}, Open(r, k)
      PROVE  NotOvertaken'
  BY <1>1 DEF Open
<1>2. ASSUME NEW r \in Requests,
             \/ RollBack(r) \/ NameUnknownField(r) \/ RefuseEdit(r) \/ CommitEdits(r)
             \/ LookForSubmission(r)
      PROVE  NotOvertaken'
  BY <1>2 DEF RollBack, NameUnknownField, RefuseEdit, CommitEdits, LookForSubmission
<1>3. ASSUME NEW r \in Requests, NEW f \in Fields, NEW v \in Values, EditField(r, f, v)
      PROVE  NotOvertaken'
  BY <1>3 DEF EditField
<1>4. ASSUME NEW r \in Requests, Submit(r)
      PROVE  NotOvertaken'
  BY <1>4 DEF Submit, StatusOnSubmit
<1>5. CASE Reopen \/ Reextract
  BY <1>5 DEF Reopen, Reextract
<1>6. CASE Reload \/ UNCHANGED vars
  BY <1>6 DEF Reload, vars
<1> QED
  BY <1>1, <1>2, <1>3, <1>4, <1>5, <1>6 DEF Next

-----------------------------------------------------------------------------
(* A commit of corrections adds no submission. *)
LEMMA CorrectionsSubmitNothing ==
  ASSUME TypeOK, NEW r \in Requests, CommitEdits(r)
  PROVE  \A i \in Submissions' : i \in Submissions /\ trail'[i] = trail[i]
<1>1. trail \in Seq(Entry) /\ pending[r] \in Seq(Corrections) /\ trail' = trail \o pending[r]
  BY DEF TypeOK, CommitEdits
<1>2. \A e \in Corrections : e.action = "FIELD_CORRECTED"
  BY DEF Corrections, Corrected
<1>3. ASSUME NEW i \in 1..Len(trail \o pending[r]), (trail \o pending[r])[i].action = "DOCUMENT_SUBMITTED"
      PROVE  i \in 1..Len(trail) /\ (trail \o pending[r])[i] = trail[i]
  <2>1. CASE i \in 1..Len(trail)
    BY <1>1, <2>1
  <2>2. CASE i \notin 1..Len(trail)
    <3>1. /\ i - Len(trail) \in 1..Len(pending[r])
          /\ (trail \o pending[r])[i] = pending[r][i - Len(trail)]
      BY <1>1, <2>2
    <3>2. pending[r][i - Len(trail)] \in Corrections
      BY <1>1, <3>1
    <3> QED
      BY <1>2, <1>3, <3>1, <3>2
  <2> QED
    BY <2>1, <2>2
<1> QED
  BY <1>1, <1>3 DEF Submissions

(* Steps that leave trail and status alone. *)
LEMMA MovesStay ==
  ASSUME TypeOK, MovesOnce, UNCHANGED <<trail, status, seen>>,
         \A r \in Requests : state[r] = "new" => state'[r] = "new"
  PROVE  MovesOnce'
BY DEF MovesOnce, Submissions, Submitted

(* A step before the document is reopened: only a submission moves it. *)
LEMMA MovesNext ==
  ASSUME TypeOK, LoadedStatus, copy.at = "waiting", MovesOnce, [Next]_vars, copy' = copy
  PROVE  MovesOnce'
<1> USE DEF rows, sessions, Goto
<1>1. ASSUME NEW r \in Requests, NEW k \in {"correct", "review", "submit"}, Open(r, k)
      PROVE  MovesOnce'
  <2>1. /\ trail' = trail /\ status' = status
        /\ seen' = [seen EXCEPT ![r] = status] /\ state' = [state EXCEPT ![r] = "open"]
    BY <1>1 DEF Open
  <2>2. \A q \in Requests : state'[q] # "new" =>
          seen'[q] = status' \/ (seen'[q] = "REVIEW_REQUIRED" /\ status' = "VALIDATED")
    <3> SUFFICES ASSUME NEW q \in Requests, state'[q] # "new"
                 PROVE  seen'[q] = status' \/ (seen'[q] = "REVIEW_REQUIRED" /\ status' = "VALIDATED")
      OBVIOUS
    <3>1. CASE q = r
      BY <2>1, <3>1 DEF TypeOK
    <3>2. CASE q # r
      <4>1. state'[q] = state[q] /\ seen'[q] = seen[q]
        BY <2>1, <3>2 DEF TypeOK
      <4> QED
        BY <2>1, <4>1 DEF MovesOnce
    <3> QED
      BY <3>1, <3>2
  <2> QED
    BY <2>1, <2>2 DEF MovesOnce, Submissions, Submitted
<1>2. ASSUME NEW r \in Requests, NEW f \in Fields, NEW v \in Values, EditField(r, f, v)
      PROVE  MovesOnce'
  BY <1>2, MovesStay DEF EditField
<1>3. ASSUME NEW r \in Requests, CommitEdits(r)
      PROVE  MovesOnce'
  <2>1. \A i \in Submissions' : i \in Submissions /\ trail'[i] = trail[i]
    BY <1>3, CorrectionsSubmitNothing
  <2>2. Submitted' => Submitted
    BY <2>1 DEF Submitted, Submissions
  <2>3. /\ status' = status /\ seen' = seen
        /\ \A q \in Requests : state'[q] # "new" => state[q] # "new"
    BY <1>3 DEF CommitEdits, TypeOK
  <2> QED
    BY <2>1, <2>2, <2>3 DEF MovesOnce
<1>4. ASSUME NEW r \in Requests, Submit(r)
      PROVE  MovesOnce'
  <2> DEFINE new == StatusOnSubmit(seen[r])
  <2>1. /\ trail' = Append(trail, Submission(new))
        /\ status' = IF new = seen[r] THEN status ELSE new
        /\ seen' = seen /\ state[r] = "cleared"
        /\ \A q \in Requests : state'[q] # "new" => state[q] # "new"
    BY <1>4 DEF Submit, TypeOK
  <2>2. seen[r] = status \/ (seen[r] = "REVIEW_REQUIRED" /\ status = "VALIDATED")
    BY <2>1 DEF MovesOnce
  <2>3. /\ status' = new
        /\ status' \in Processed \ {"REVIEW_REQUIRED"}
        /\ status' = status \/ (status = "REVIEW_REQUIRED" /\ status' = "VALIDATED")
    BY <2>1, <2>2 DEF MovesOnce, StatusOnSubmit, Processed
  <2>4. /\ trail \in Seq(Entry) /\ Len(trail') = Len(trail) + 1
        /\ \A i \in 1..Len(trail) : trail'[i] = trail[i]
        /\ trail'[Len(trail) + 1] = Submission(new)
    BY <2>1 DEF TypeOK
  <2>5. Submission(new).status = new
    BY DEF Submission
  <2> HIDE DEF new
  <2>6. ASSUME NEW i \in Submissions'
        PROVE  trail'[i].status = status'
    <3>1. CASE i \in 1..Len(trail)
      <4>1. i \in Submissions /\ trail'[i] = trail[i]
        BY <2>4, <3>1, <2>6 DEF Submissions
      <4>2. status # "REVIEW_REQUIRED" /\ trail[i].status = status
        BY <4>1 DEF MovesOnce, Submissions, Submitted
      <4> QED
        BY <2>3, <4>1, <4>2
    <3>2. CASE i \notin 1..Len(trail)
      <4>1. i = Len(trail) + 1
        BY <2>4, <2>6, <3>2 DEF Submissions
      <4> QED
        BY <2>3, <2>4, <2>5, <4>1
    <3> QED
      BY <3>1, <3>2
  <2>7. \A q \in Requests : state'[q] # "new" =>
          seen'[q] = status' \/ (seen'[q] = "REVIEW_REQUIRED" /\ status' = "VALIDATED")
    BY <2>1, <2>3 DEF MovesOnce
  <2> QED
    BY <2>3, <2>6, <2>7 DEF MovesOnce
<1>5. ASSUME NEW r \in Requests,
             RollBack(r) \/ NameUnknownField(r) \/ RefuseEdit(r) \/ LookForSubmission(r)
      PROVE  MovesOnce'
  <2>1. /\ UNCHANGED <<trail, status, seen>>
        /\ \A q \in Requests : state[q] = "new" => state'[q] = "new"
    BY <1>5 DEF RollBack, NameUnknownField, RefuseEdit, LookForSubmission, TypeOK
  <2> QED
    BY <2>1, MovesStay
<1>6. CASE UNCHANGED vars
  BY <1>6, MovesStay DEF vars
<1>7. ~Reopen
  <2> SUFFICES ASSUME Reopen PROVE FALSE
    OBVIOUS
  <2>1. copy \in [at : {"waiting", "reopened", "loaded", "done"}, base : [Fields -> Cell]]
    BY DEF TypeOK
  <2>2. [copy EXCEPT !.at = "reopened"].at = "reopened"
    BY <2>1
  <2>3. copy'.at = "reopened"
    BY <2>2 DEF Reopen
  <2> QED
    BY <2>3
<1> QED
  BY <1>1, <1>2, <1>3, <1>4, <1>5, <1>6, <1>7 DEF Next, Reload, Reextract

-----------------------------------------------------------------------------
(* IInv holds at first and is kept by every step. *)
LEMMA InvInit == Init => IInv
<1> SUFFICES ASSUME Init PROVE IInv
  OBVIOUS
<1>1. LateIsRefused /\ NotOvertaken
  BY DEF Init, LateIsRefused, NotOvertaken
<1>2. MovesOnce
  BY DEF Init, MovesOnce, Submissions, Submitted
<1>3. ReadOnce /\ CopyIsGenuine
  BY DEF Init, ReadOnce, CopyIsGenuine
<1> QED
  BY <1>1, <1>2, <1>3, TypeInit, GenuineInit DEF IInv

(* One step per action; the other extraction's commit is the one that reads,
   and its start ends what IInv says of the status. *)
LEMMA InvNext == IInv /\ [Next]_vars => IInv'
<1> SUFFICES ASSUME IInv, [Next]_vars PROVE IInv'
  OBVIOUS
<1>1. TypeOK /\ LateIsRefused /\ ReadOnce /\ AllGenuine /\ CopyIsGenuine
  BY DEF IInv
<1>2. (TypeOK /\ LoadedStatus)' /\ LateIsRefused' /\ NotOvertaken'
  BY TypeNext, LateNext, OvertakenNext DEF IInv
<1>3. AllGenuine'
  <2> USE DEF rows, sessions, Goto
  <2>1. CASE Reextract
    BY <1>1, <2>1, GenuineReextract
  <2>2. ASSUME NEW r \in Requests, NEW k \in {"correct", "review", "submit"}, Open(r, k)
        PROVE  AllGenuine'
    BY <1>1, <2>2, GenuineOpen
  <2>3. ASSUME NEW r \in Requests, NEW f \in Fields, NEW v \in Values, EditField(r, f, v)
        PROVE  AllGenuine'
    BY <1>1, <2>3, GenuineEdit
  <2>4. ASSUME NEW r \in Requests, CommitEdits(r)
        PROVE  AllGenuine'
    BY <1>1, <2>4, GenuineCommit
  <2>5. ASSUME NEW r \in Requests, Submit(r)
        PROVE  AllGenuine'
    BY <1>1, <2>5, GenuineSubmit
  <2>6. ASSUME NEW r \in Requests,
               RollBack(r) \/ NameUnknownField(r) \/ RefuseEdit(r) \/ LookForSubmission(r)
        PROVE  AllGenuine'
    <3>1. /\ UNCHANGED <<cells, trail, reading, readings, base, mine, pending, copy>>
          /\ \A q \in Requests : state[q] = "new" => state'[q] = "new"
      BY <1>1, <2>6 DEF RollBack, NameUnknownField, RefuseEdit, LookForSubmission, TypeOK
    <3> QED
      BY <1>1, <3>1, GenuineStays
  <2>7. CASE Reopen \/ Reload \/ UNCHANGED vars
    <3>1. /\ UNCHANGED <<cells, trail, reading, readings, base, mine, pending, state>>
          /\ copy' = copy \/ copy.at # "done"
      BY <2>7 DEF Reopen, Reload, vars
    <3> QED
      BY <1>1, <3>1, GenuineStays
  <2> QED
    BY <2>1, <2>2, <2>3, <2>4, <2>5, <2>6, <2>7 DEF Next
<1>4. CopyIsGenuine' /\ ReadOnce'
  BY <1>1, GenuineReextract, CopyNext
<1>5. copy'.at = "waiting" => copy.at = "waiting" /\ copy' = copy
  <2>1. copy \in [at : {"waiting", "reopened", "loaded", "done"}, base : [Fields -> Cell]]
    BY <1>1 DEF TypeOK
  <2>2. CASE Reextract \/ Reopen
    <3>1. copy' = [copy EXCEPT !.at = "done"] \/ copy' = [copy EXCEPT !.at = "reopened"]
      BY <2>2 DEF Reextract, Reopen
    <3> QED
      BY <2>1, <3>1
  <2>3. CASE Reload
    BY <2>3 DEF Reload
  <2>4. CASE copy' = copy
    BY <2>4
  <2> QED
    BY <2>2, <2>3, <2>4 DEF Next, vars, Open, RollBack, EditField, NameUnknownField, RefuseEdit,
       CommitEdits, LookForSubmission, Submit
<1>6. copy'.at = "waiting" => MovesOnce'
  BY <1>5, MovesNext DEF IInv
<1> QED
  BY <1>2, <1>3, <1>4, <1>6 DEF IInv

(* The inductive invariant, for any number of requests, fields and edits. *)
THEOREM ReviewInductive == Spec => []IInv
<1> QED
  BY InvInit, InvNext, PTL DEF Spec

(* Every variable keeps its type. *)
THEOREM ReviewTypeCorrect == Spec => []TypeOK
<1>1. IInv => TypeOK
  BY DEF IInv
<1> QED
  BY <1>1, ReviewInductive, PTL

(* However corrections and another extraction overlap, the original of a
   corrected field OCR always found a value in is a value OCR read. *)
THEOREM OriginalsAreReadings == Spec => []OriginalIsReading
<1>1. IInv => OriginalIsReading
  BY DEF IInv, AllGenuine, RowsAreGenuine, Genuine, OriginalIsReading
<1> QED
  BY <1>1, ReviewInductive, PTL

(* No committed correction is undone by a request that corrected another
   field, and none is missing from the trail. *)
THEOREM CorrectionsAreKept == Spec => []NoCorrectionLost
<1>1. IInv => NoCorrectionLost
  BY DEF IInv, AllGenuine, RowsAreGenuine, Kept, NoCorrectionLost
<1> QED
  BY <1>1, ReviewInductive, PTL

(* A submission sent after another was committed is refused. *)
THEOREM LateSubmissionsAreRefused == Spec => []LateSubmitRefused
<1>1. IInv => LateSubmitRefused
  BY DEF IInv, LateIsRefused, LateSubmitRefused
<1> QED
  BY <1>1, ReviewInductive, PTL

(* Until the pipeline reopens the document, every submission in the trail tells
   the status it has. *)
THEOREM SubmissionsTellStatus == Spec => []SubmissionTellsStatus
<1>1. IInv => SubmissionTellsStatus
  BY DEF IInv, MovesOnce, SubmissionTellsStatus
<1> QED
  BY <1>1, ReviewInductive, PTL

(* Reviewers move the document only as the transition table allows, save for a
   submission the other extraction overtook. *)
THEOREM ReviewersFollowTable == Spec => FollowsTable
<1> DEFINE Follows == copy' = copy /\ status' # status =>
                        \/ CanTransition(status, status')
                        \/ \E r \in Requests : state[r] = "cleared" /\ state'[r] = "done" /\ overtaken[r]
<1>1. IInv /\ [Next]_vars => [Follows]_vars
  <2> SUFFICES ASSUME IInv, [Next]_vars, copy' = copy, status' # status
               PROVE  \/ CanTransition(status, status')
                      \/ \E r \in Requests : state[r] = "cleared" /\ state'[r] = "done" /\ overtaken[r]
    OBVIOUS
  <2>1. TypeOK /\ NotOvertaken
    BY DEF IInv
  <2>2. ASSUME NEW r \in Requests, Submit(r)
        PROVE  CanTransition(status, status') \/ overtaken[r]
    <3>1. seen[r] = "REVIEW_REQUIRED" /\ status' = "VALIDATED" /\ state[r] = "cleared"
      BY <2>2 DEF Submit, StatusOnSubmit
    <3>2. ~overtaken[r] => status = "REVIEW_REQUIRED"
      BY <2>1, <3>1 DEF NotOvertaken
    <3>3. CanTransition("REVIEW_REQUIRED", "VALIDATED")
      BY DEF CanTransition, AllowedTransitions, Statuses
    <3> QED
      BY <3>1, <3>2, <3>3
  <2>3. ASSUME NEW r \in Requests, Submit(r)
        PROVE  state[r] = "cleared" /\ state'[r] = "done"
    BY <2>1, <2>3 DEF Submit, Goto, TypeOK
  <2>4. ~Reopen /\ ~Reextract
    <3>1. copy \in [at : {"waiting", "reopened", "loaded", "done"}, base : [Fields -> Cell]]
      BY <2>1 DEF TypeOK
    <3>2. [copy EXCEPT !.at = "reopened"].at = "reopened" /\ [copy EXCEPT !.at = "done"].at = "done"
      BY <3>1
    <3> QED
      BY <3>2 DEF Reopen, Reextract
  <2> QED
    BY <2>2, <2>3, <2>4 DEF Next, vars, rows, Open, RollBack, EditField, NameUnknownField, RefuseEdit,
       CommitEdits, LookForSubmission, Reload
<1> QED
  BY <1>1, ReviewInductive, PTL DEF Spec, FollowsTable

(* Another extraction loses no corrected field's mark, and no correction but one
   it did not know. *)
THEOREM CorrectionsOutliveReextraction == Spec => []ReextractionKeepsCorrections
<1>1. IInv => ReextractionKeepsCorrections
  BY DEF IInv, AllGenuine, RowsAreGenuine, Kept, ReextractionKeepsCorrections
<1> QED
  BY <1>1, ReviewInductive, PTL
=============================================================================
