SPECIFICATION Spec
CONSTANTS
  Snapshots <- MCSnapshots
  Limit = 4
  Rows = 7
  Index = {0}
  MaxDisturbed = 0
CHECK_DEADLOCK FALSE
INVARIANTS SourceOrderIsPreserved
