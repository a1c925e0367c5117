SPECIFICATION Spec
CONSTANTS
  Pid = {p1, p2}
  Session = {s1, s2}
  Dir = {d1, d2}
  None = None
  MaxStart = 3
SYMMETRY Symmetry
CHECK_DEADLOCK FALSE
INVARIANTS AutomaticIsLive RelaunchIsRecognized
