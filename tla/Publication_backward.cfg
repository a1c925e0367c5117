SPECIFICATION Spec
CONSTANTS
  Publisher = {p1, p2}
  Reader = {}
  Time = {1, 2}
  Suffix = {1}
  None = None
  Junk = Junk
  MaxPowerLoss = 0
  MaxTamper = 0
  ReadFaults = TRUE
CHECK_DEADLOCK FALSE
PROPERTY OnlyNewerReplacesValid
