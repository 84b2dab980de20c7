\* Two requests over two fields; every property reviewers rely on.
SPECIFICATION Spec
SYMMETRY Symmetry
CONSTANTS
  Requests = {r1, r2}
  Fields = {f1, f2}
  Values = {v1, v2}
  NoValue = NoValue
  MaxEdits = 2
INVARIANTS
  TypeOK
  OriginalIsReading
  NoCorrectionLost
  LateSubmitRefused
  SubmissionTellsStatus
  ReextractionKeepsCorrections
PROPERTY
  FollowsTable
CHECK_DEADLOCK FALSE
