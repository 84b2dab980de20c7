\* No fault at all: the worker pops the job before its row is committed.
SPECIFICATION Spec
CONSTANTS
  u1 = u1
  u2 = u2
  u3 = u3
  w1 = w1
  w2 = w2
  s1 = s1
  s2 = s2
  Uploads <- OneUpload
  ContentKey <- OneContent
  Malformed = {}
  NoUpload = none
  AttemptLimit = 2
  MaxReplays = 0
  Faults = {}
  Workers = {w1}
  Slots = {s1}
  Home <- SingleSlot
  MaxRetries = 2
  MaxOutages = 0
INVARIANT
  NoQueuedRowWithoutJob
CHECK_DEADLOCK FALSE
