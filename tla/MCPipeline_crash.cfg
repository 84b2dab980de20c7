\* The only outages are stops and crashes of the worker process.
SPECIFICATION Spec
CONSTANTS
  u1 = u1
  u2 = u2
  u3 = u3
  w1 = w1
  w2 = w2
  s1 = s1
  s2 = s2
  Uploads <- OneUpload
  ContentKey <- OneContent
  Malformed = {}
  NoUpload = none
  AttemptLimit = 2
  MaxReplays = 0
  Faults = {}
  Workers = {w1}
  Slots = {s1}
  Home <- SingleSlot
  MaxRetries = 2
  MaxOutages = 1
INVARIANT
  NoStrandedExtraction
CHECK_DEADLOCK FALSE
