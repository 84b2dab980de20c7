---------------------------- MODULE OcrAdapters ----------------------------
(***************************************************************************)
(* What the OCR adapters of apps/worker/worker/ocr hand the processor for  *)
(* what they are given: a document's bytes (mock), the answer of an HTTP   *)
(* service (vendor), the words on a page (tesseract).  An adapter returns  *)
(* a reading or raises; what it raises decides whether the worker retries. *)
(***************************************************************************)
EXTENDS Rules

(* ExtractionResult: values and confidences by field name. *)
Reading(values, confidences) ==
  [kind |-> "reading", values |-> values, confidences |-> confidences]

(* OcrError, permanent or not, and any other exception: the worker retries
   the last two alike. *)
Permanent == [kind |-> "permanent"]
Transient == [kind |-> "transient"]
Unexpected == [kind |-> "unexpected"]

(* An entry of a source: a value and what the source says of its confidence. *)
Given(value, confidence) == [value |-> value, confidence |-> confidence]
ValueOnly(value) == [value |-> value]

-----------------------------------------------------------------------------
(* MockOcrAdapter.  A document is empty, or carries a fixture block, which may
   be unbalanced or no JSON, or of the wrong shape, or carries none and is read
   field by field as its bytes decide. *)
Unreadable == {"empty", "unbalanced", "invalid JSON"}

FixtureConfidence(entry) == IF "confidence" \in DOMAIN entry THEN entry.confidence ELSE 95

(* The synthetic defaults meet the rules of their fields. *)
DefaultValue == Text({})

Synthesised(entry) ==
  IF entry.mark = "dropped" THEN Given(NoValue, 0)
  ELSE Given(IF entry.mark = "misread" THEN entry.value ELSE DefaultValue, entry.confidence)

(* Mutant of Backfilled: fields the fixture does not name stay out. *)
NotBackfilled(type, entries) ==
  Reading([f \in DOMAIN entries |-> entries[f].value],
          [f \in DOMAIN entries |-> FixtureConfidence(entries[f])])

(* Every field of the catalogue is present, None and 0.0 where nothing was
   found; a fixture may name others as well. *)
Backfilled(type, entries) ==
  LET names == DOMAIN entries \union FieldsOf(type)
  IN Reading([f \in names |-> IF f \in DOMAIN entries THEN entries[f].value ELSE NoValue],
             [f \in names |-> IF f \in DOMAIN entries THEN FixtureConfidence(entries[f]) ELSE 0])

MockExtract(type, content) ==
  CASE content.form \in Unreadable -> Permanent
    [] content.form = "ill-typed" -> Unexpected
    [] content.form = "fixture" -> Backfilled(type, content.entries)
    [] content.form = "plain" ->
         Backfilled(type, [f \in DOMAIN content.entries |-> Synthesised(content.entries[f])])

-----------------------------------------------------------------------------
(* VendorOcrAdapter. *)
RetryableStatus == {408, 425, 429, 500, 502, 503, 504}

Clamp(confidence) ==
  IF confidence < 0 THEN 0 ELSE IF confidence > 100 THEN 100 ELSE confidence

(* A field the answer leaves out has no value; a value may come without a
   confidence, or with one that is no number, and then it counts as 0.0. *)
VendorValue(entries, f) == IF f \in DOMAIN entries THEN entries[f].value ELSE NoValue

VendorConfidence(entries, f) ==
  IF f \in DOMAIN entries /\ "confidence" \in DOMAIN entries[f]
  THEN Clamp(entries[f].confidence) ELSE 0

VendorExtract(type, answer) ==
  CASE answer.form \in {"timeout", "transport", "not JSON", "no fields"} -> Transient
    [] answer.form = "status" -> IF answer.code \in RetryableStatus THEN Transient ELSE Permanent
    [] answer.form = "ill-typed" -> Unexpected
    [] answer.form = "fields" ->
         Reading([f \in FieldsOf(type) |-> VendorValue(answer.entries, f)],
                 [f \in FieldsOf(type) |-> VendorConfidence(answer.entries, f)])

-----------------------------------------------------------------------------
(* TesseractOcrAdapter: one confidence for the page, the mean of the words
   that count, or 0.0 if none does; a field without a labelled value has 0.0. *)
TesseractExtract(type, scan) ==
  CASE scan.form = "timeout" -> Transient
    [] scan.form \in {"not installed", "pdf", "undecodable"} -> Permanent
    [] scan.form = "words" ->
         Reading([f \in FieldsOf(type) |-> VendorValue(scan.entries, f)],
                 [f \in FieldsOf(type) |->
                    IF VendorValue(scan.entries, f) = NoValue THEN 0 ELSE scan.page])

(* build_adapter: the provider is chosen once, when the worker starts. *)
Providers == {"mock", "vendor", "tesseract"}

Extract(provider, type, given) ==
  CASE provider = "mock" -> MockExtract(type, given)
    [] provider = "vendor" -> VendorExtract(type, given)
    [] provider = "tesseract" -> TesseractExtract(type, given)

-----------------------------------------------------------------------------
(* What each adapter may be given. *)
HasConfidence(entry) == "confidence" \in DOMAIN entry => entry.confidence \in Int

IsSource(entries) ==
  \A f \in DOMAIN entries : entries[f].value \in FieldValues /\ HasConfidence(entries[f])

IsPage(entries) ==
  \A f \in DOMAIN entries : entries[f].value \in FieldValues /\ entries[f].confidence \in Int

MayBeGiven(provider, given) ==
  CASE provider = "mock" ->
         \/ given.form \in Unreadable \union {"ill-typed"}
         \/ given.form = "fixture" /\ IsSource(given.entries)
         \/ given.form = "plain" /\ IsPage(given.entries)
    [] provider = "vendor" ->
         \/ given.form \in {"timeout", "transport", "not JSON", "no fields", "ill-typed", "status"}
         \/ given.form = "fields" /\ IsSource(given.entries)
    [] provider = "tesseract" ->
         \/ given.form \in {"timeout", "not installed", "pdf", "undecodable"}
         \/ given.form = "words" /\ IsSource(given.entries) /\ given.page \in Int
=============================================================================
