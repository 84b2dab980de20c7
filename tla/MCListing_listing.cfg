\* Pages of two rows; uploads of one burst share a time.
SPECIFICATION Spec
CONSTANTS
  Docs <- MCDocs
  Tenants = {acme, globex}
  Statuses = {"QUEUED", "VALIDATED"}
  Limit = 2
  MaxTime = 1
  MaxMoves = 1
INVARIANTS
  TypeOK
  OwnDocumentsOnly
  NothingRepeated
  NothingSkipped
