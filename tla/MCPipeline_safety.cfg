\* Twin uploads and a malformed one, two slots in two processes, every fault, one replay.
SPECIFICATION Spec
CONSTANTS
  u1 = u1
  u2 = u2
  u3 = u3
  w1 = w1
  w2 = w2
  s1 = s1
  s2 = s2
  Uploads <- ThreeUploads
  ContentKey <- TwinsAndMalformed
  Malformed = {u3}
  NoUpload = none
  AttemptLimit = 2
  MaxReplays = 1
  Faults = {"api", "redis", "infra", "corrupt", "poison"}
  Workers = {w1, w2}
  Slots = {s1, s2}
  Home <- TwoProcesses
  MaxRetries = 2
  MaxOutages = 1
INVARIANTS
  TypeOK
  JobHasBlob
  OneRowPerContent
  OwnJobsParse
  Accounted
  AuditTellsStatus
CHECK_DEADLOCK FALSE
