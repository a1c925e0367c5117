SPECIFICATION Spec
CONSTANTS
  Opening <- MCOpening
  Later <- MCLater
  Width = 9
  MaxText = 4
  MaxDraws = 2
CHECK_DEADLOCK FALSE
INVARIANTS CapturedIsTheDraft AbsentWasEmpty SupportedDraftIsCaptured
