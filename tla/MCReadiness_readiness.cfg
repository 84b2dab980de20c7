\* Default thresholds; any two files absent, blank, cut off or failing, and a flake
\* summary made from any end-to-end report, this one or an earlier one.
SPECIFICATION Spec
CONSTANTS
  MaxFlakeRate = 20
  MaxP95LatencyMs = 800
  MaxOcrP95LatencyMs = 5000
  MaxErrorRate = 1
  MinCriticalPathPassRate = 100
  Counts <- MCCounts
  Measured <- Around
  MaxOdd = 2
  None = None
INVARIANTS
  TypeOK
  FailureBlocks
  AbsenceBlocks
  GatesAgree
  FlakeBlockIsReal
