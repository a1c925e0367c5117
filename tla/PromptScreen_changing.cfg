SPECIFICATION Spec
CONSTANTS
  Opening <- MCOpening
  Later <- MCLater
  Width = 9
  MaxText = 4
  MaxDraws = 1
CHECK_DEADLOCK FALSE
INVARIANT ChangingScreenYieldsNoText
