SPECIFICATION Spec
CONSTANTS
  Last = 3
  None = None
  MaxChanges = 3
CHECK_DEADLOCK FALSE
INVARIANTS EvidenceIsOfOneMoment NobodyIsLeftOut
