\* Two tenants and two handlers under way at a time; one document is there, one may be uploaded.
SPECIFICATION Spec
CONSTANTS
  d1 = d1
  d2 = d2
  acme = acme
  globex = globex
  Docs <- MCDocs
  Tenants <- MCTenants
  Seeded <- MCSeeded
  SignIns <- MCSignIns
  MaxCalls = 2
  None = None
INVARIANTS
  TypeOK
  WritesAreTheCallers
  MismatchIsExplained
  BusyHasAReason
PROPERTY
  BusyEnds
