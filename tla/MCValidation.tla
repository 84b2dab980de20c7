---------------------------- MODULE MCValidation ----------------------------
(***************************************************************************)
(* Small instances of Validation: what each adapter may be given, for the  *)
(* fields of every document type.  An odd entry is that of the field of    *)
(* the type's first rule; each source is given a few readings that differ  *)
(* in what the rules or the confidence overlay make of them.  Readers are  *)
(* interchangeable, and so are requests; nothing asks for fairness.        *)
(***************************************************************************)
EXTENDS Validation, TLC

Symmetry == Permutations(Readers) \union Permutations(Requests)

Good == Given(Text({}), 95)

FirstField(type_) == (CHOOSE rule \in RulesOf(type_) : rule.id = 1).field

(* All fields good but one. *)
With(type_, odd) == [f \in FieldsOf(type_) |-> IF f = FirstField(type_) THEN odd ELSE Good]

NoConfidence(type_) == [f \in FieldsOf(type_) \union {"notes"} |-> ValueOnly(Text({}))]

(* A value no stored row may have, a doubtful one and an empty fixture; beside
   the catalogue's fields a fixture may name one of its own. *)
MockAnswers(type_) ==
  {[form |-> "empty"], [form |-> "ill-typed"]}
  \union {[form |-> "fixture", entries |-> entries] :
            entries \in {<< >>, NoConfidence(type_), With(type_, Given(Text({}), 120)),
                         With(type_, Given(Text({"pattern", "min_length"}), 79))}}

(* Both sides of the threshold, and no confidence at all. *)
VendorAnswers(type_) ==
  {[form |-> "timeout"], [form |-> "status", code |-> 422], [form |-> "status", code |-> 503]}
  \union {[form |-> "fields", entries |-> entries] :
            entries \in {<< >>, NoConfidence(type_), With(type_, Given(Text({}), 79)),
                         With(type_, Given(Text({}), 80))}}

TesseractAnswers(type_) ==
  {[form |-> "timeout"], [form |-> "pdf"]}
  \union {[form |-> "words", entries |-> With(type_, Good), page |-> page] : page \in {0, 55, 95}}
  \union {[form |-> "words", entries |-> With(type_, Given(NoValue, 0)), page |-> 95]}

MCAnswers(provider_, type_) ==
  CASE provider_ = "mock" -> MockAnswers(type_)
    [] provider_ = "vendor" -> VendorAnswers(type_)
    [] provider_ = "tesseract" -> TesseractAnswers(type_)

(* A scanned page alone. *)
ScanAnswers(provider_, type_) ==
  IF provider_ = "tesseract" THEN TesseractAnswers(type_) ELSE {}

MCTyped == {Text({"pattern"})}
=============================================================================
