\* The stored bytes of one document change at rest.
SPECIFICATION Spec
CONSTANTS
  u1 = u1
  u2 = u2
  u3 = u3
  w1 = w1
  w2 = w2
  s1 = s1
  s2 = s2
  Uploads <- OneUpload
  ContentKey <- OneContent
  Malformed = {}
  NoUpload = none
  AttemptLimit = 2
  MaxReplays = 0
  Faults = {"corrupt"}
  Workers = {w1}
  Slots = {s1}
  Home <- SingleSlot
  MaxRetries = 2
  MaxOutages = 0
INVARIANT
  CorruptIsNotRetried
CHECK_DEADLOCK FALSE
