\* One document; the operator replays dead letters up to three times; two slots
\* of a process that may be stopped or die once take the copies.
SPECIFICATION FairSpec
CONSTANTS
  u1 = u1
  u2 = u2
  u3 = u3
  w1 = w1
  w2 = w2
  s1 = s1
  s2 = s2
  Uploads <- OneUpload
  ContentKey <- OneContent
  Malformed = {}
  NoUpload = none
  AttemptLimit = 3
  MaxReplays = 3
  Faults = {"infra", "corrupt"}
  Workers = {w1}
  Slots = {s1, s2}
  Home <- OneProcess
  MaxRetries = 3
  MaxOutages = 1
INVARIANTS
  Accounted
  BoundedWork
  OutcomeIsAudited
PROPERTIES
  FollowsLifecycle
  FinishedMovesByTwins
  Settles
  Drains
CHECK_DEADLOCK FALSE
