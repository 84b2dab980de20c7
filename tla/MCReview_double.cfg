\* Two reviewers submit at the same moment.
SPECIFICATION Spec
SYMMETRY Symmetry
CONSTANTS
  Requests = {r1, r2}
  Fields = {f1}
  Values = {v1}
  NoValue = NoValue
  MaxEdits = 1
INVARIANT
  OneSubmission
CHECK_DEADLOCK FALSE
