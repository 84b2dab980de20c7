\* Every adapter and document type; two copies at work at a time, four
\* deliveries, two requests of reviewers.
SPECIFICATION Spec
SYMMETRY Symmetry
CONSTANTS
  Readers = {r1, r2}
  Requests = {q1, q2}
  Answers <- MCAnswers
  Typed <- MCTyped
  Threshold = 80
  MaxLoads = 4
INVARIANTS
  TypeOK
  VerdictIsComplete
  RowsTellVerdict
  ReasonIsWorst
  ReviewShowsWhy
  ReasonOutlivesOnlyReview
CHECK_DEADLOCK FALSE
