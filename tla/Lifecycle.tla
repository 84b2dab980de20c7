----------------------------- MODULE Lifecycle -----------------------------
(***************************************************************************)
(* What the transition table of enums.py promises about the rows anybody   *)
(* can read: a document appears as QUEUED, every later commit moves it     *)
(* along a path of ALLOWED_TRANSITIONS, and a terminal document stays put. *)
(* A transaction may pass through RECEIVED or VALIDATING on its way, so    *)
(* one commit is a path, not always a single arrow of the table.           *)
(*                                                                         *)
(* The table is asked about the status a session has in memory.  That is   *)
(* the committed one while a document has one live job; once documents are *)
(* contended, a commit may follow the table from a status that the         *)
(* document has left behind, whatever it has become since.                 *)
(***************************************************************************)
EXTENDS DocumentStatus

CONSTANT Documents

VARIABLES
  phase,      \* phase[d]: the status readers see, or "none"
  contended   \* several copies of a document's job may be under way

(* The statuses a transaction crosses without committing them. *)
Transient == {"RECEIVED", "VALIDATING"}

(* The committed statuses that a worker takes a document on from. *)
Unfinished == {"QUEUED", "EXTRACTING"}

(* The status a transaction reaches from s in one arrow, or in two arrows
   over a transient status. *)
MayCommit(s, t) ==
  \/ CanTransition(s, t)
  \/ \E via \in Transient : CanTransition(s, via) /\ CanTransition(via, t)

Appear(d) ==
  /\ phase[d] = "none"
  /\ phase' = [phase EXCEPT ![d] = "QUEUED"]
  /\ UNCHANGED contended

Move(d) ==
  /\ phase[d] \in Statuses
  /\ ~IsTerminal(phase[d])
  /\ \E t \in Statuses \ Transient :
       /\ MayCommit(phase[d], t)
       /\ phase' = [phase EXCEPT ![d] = t]
  /\ UNCHANGED contended

(* A copy that read the document while it was unfinished commits over what has
   become of it. *)
Overwrite(d) ==
  /\ contended
  /\ phase[d] \in Statuses \ {"QUEUED"}
  /\ \E before \in Unfinished, t \in Statuses \ Transient :
       /\ MayCommit(before, t)
       /\ phase' = [phase EXCEPT ![d] = t]
  /\ UNCHANGED contended

Contend ==
  /\ ~contended
  /\ contended' = TRUE
  /\ UNCHANGED phase

LifecycleInit == phase = [d \in Documents |-> "none"] /\ contended = FALSE

LifecycleNext ==
  \/ \E d \in Documents : Appear(d) \/ Move(d) \/ Overwrite(d)
  \/ Contend

LifecycleSpec == LifecycleInit /\ [][LifecycleNext]_<<phase, contended>>
=============================================================================
