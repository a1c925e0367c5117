SPECIFICATION Spec
CONSTANTS
  Snapshots <- MCSnapshots
  Limit = 4
  Rows = 7
  Index = {0, 2}
  MaxDisturbed = 3
CHECK_DEADLOCK FALSE
INVARIANTS OnePaneEach RestoredAsCaptured
