--------------------------- MODULE DocumentStatus ---------------------------
(***************************************************************************)
(* The vocabulary every other module speaks: the statuses of a document,   *)
(* the transitions the code allows between them, and the actions of the    *)
(* audit trail (packages/shared/python/securedox_shared/enums.py).         *)
(***************************************************************************)

(* A document's position in the intake state machine. *)
Statuses == {"RECEIVED", "QUEUED", "EXTRACTING", "VALIDATING",
             "REVIEW_REQUIRED", "VALIDATED", "REJECTED", "FAILED", "QUARANTINED"}

(* _TERMINAL_STATUSES: the worker is done with the document. *)
TerminalStatuses ==
  {"VALIDATED", "REVIEW_REQUIRED", "REJECTED", "FAILED", "QUARANTINED"}

IsTerminal(status) == status \in TerminalStatuses

(* ALLOWED_TRANSITIONS, one set of targets per status. *)
AllowedTransitions ==
  [status \in Statuses |->
     CASE status = "RECEIVED"        -> {"QUEUED", "QUARANTINED", "FAILED"}
       [] status = "QUEUED"          -> {"EXTRACTING", "FAILED"}
       [] status = "EXTRACTING"      -> {"VALIDATING", "FAILED"}
       [] status = "VALIDATING"      -> {"REVIEW_REQUIRED", "VALIDATED",
                                         "REJECTED", "FAILED"}
       [] status = "REVIEW_REQUIRED" -> {"VALIDATED", "REJECTED"}
       [] status = "FAILED"          -> {"QUEUED"}
       [] OTHER                      -> {}]

CanTransition(current, target) == target \in AllowedTransitions[current]

(* What the validation rules may decide about an extraction. *)
Verdicts == {"REVIEW_REQUIRED", "VALIDATED", "REJECTED"}

AuditActions ==
  {"DOCUMENT_UPLOADED", "DOCUMENT_QUEUED", "EXTRACTION_STARTED",
   "EXTRACTION_COMPLETED", "VALIDATION_COMPLETED", "DOCUMENT_REJECTED",
   "DOCUMENT_SUBMITTED", "DOCUMENT_QUARANTINED", "FIELD_CORRECTED",
   "PROCESSING_FAILED"}
=============================================================================
