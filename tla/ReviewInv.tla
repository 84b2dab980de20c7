----------------------------- MODULE ReviewInv -----------------------------
(***************************************************************************)
(* What the safety results about Review rest on: what rows and sessions    *)
(* may hold, before and after the other extraction commits, and how the    *)
(* status moves until that extraction starts.                              *)
(***************************************************************************)
EXTENDS Review

(* A request that was sent has loaded a status. *)
LoadedStatus == \A r \in Requests : state[r] # "new" => seen[r] \in Statuses

(* Until the other extraction commits, each field was read once. *)
ReadOnce ==
  \A f \in Fields :
    /\ reading[f] \in readings[f]
    /\ copy.at # "done" => readings[f] = {reading[f]}

(* A row or object somebody may hold: as OCR left it, or corrected with one of
   OCR's readings, if there always was one, kept as the original. *)
Genuine(cell, f) ==
  IF cell.manual
  THEN NoValue \notin readings[f] => cell.original \in readings[f]
  ELSE cell.original = NoValue /\ cell.value \in readings[f]

(* What a corrected field may hold: a correction or, when the other extraction
   knew of no original, what that extraction read. *)
Kept(f) ==
  \/ cells[f].value \in LoggedValues(f)
  \/ /\ copy.at = "done"
     /\ cells[f].value = reading[f]
     /\ copy.base[f].original = NoValue

(* Committed rows are genuine, and manual exactly where the trail says so. *)
RowsAreGenuine ==
  \A f \in Fields :
    /\ Genuine(cells[f], f)
    /\ cells[f].manual <=> LoggedValues(f) # {}
    /\ IF cells[f].manual THEN Kept(f) ELSE cells[f].value = reading[f]

(* A request holds genuine rows, and a row that was manual when it was loaded
   is manual still: nothing ever takes that mark away. *)
SessionsAreGenuine ==
  \A r \in Requests, f \in Fields :
    /\ Genuine(base[r][f], f)
    /\ Genuine(mine[r][f], f)
    /\ state[r] # "new" /\ base[r][f].manual => cells[f].manual

(* So does the other extraction. *)
CopyIsGenuine ==
  copy.at \in {"loaded", "done"} =>
    \A f \in Fields :
      /\ Genuine(copy.base[f], f)
      /\ copy.base[f].manual => cells[f].manual

(* An object differs from the row it was loaded from by the corrections the
   request is about to log, and by nothing else. *)
EditsAreLogged ==
  \A r \in Requests, f \in Fields :
    \/ mine[r][f] = base[r][f] /\ ValuesIn(pending[r], f) = {}
    \/ mine[r][f].manual /\ mine[r][f].value \in ValuesIn(pending[r], f)

(* Requests that found no submission were sent before there was one. *)
LateIsRefused ==
  \A r \in Requests :
    /\ late[r] => Submitted
    /\ kind[r] = "submit" /\ state[r] \in {"cleared", "done"} => ~late[r]
    /\ state[r] = "new" => pending[r] = << >>

(* Before a copy of the job reopens it, the document moves at most once, from
   REVIEW_REQUIRED to VALIDATED, with the first submission; a session that is
   behind is behind by that move. *)
MovesOnce ==
  /\ status \in Processed
  /\ \A i \in Submissions : trail[i].status = status
  /\ Submitted => status # "REVIEW_REQUIRED"
  /\ \A r \in Requests : state[r] # "new" =>
       seen[r] = status \/ (seen[r] = "REVIEW_REQUIRED" /\ status = "VALIDATED")

(* A session the other extraction has not overtaken and that saw a document in
   need of review is behind by a submission at most. *)
NotOvertaken ==
  \A r \in Requests :
    state[r] # "new" /\ ~overtaken[r] /\ seen[r] = "REVIEW_REQUIRED" =>
      status \in {"REVIEW_REQUIRED", "VALIDATED"}

AllGenuine == RowsAreGenuine /\ SessionsAreGenuine /\ EditsAreLogged

IInv ==
  /\ TypeOK
  /\ LoadedStatus
  /\ LateIsRefused
  /\ NotOvertaken
  /\ ReadOnce
  /\ AllGenuine
  /\ CopyIsGenuine
  /\ copy.at = "waiting" => MovesOnce
=============================================================================
