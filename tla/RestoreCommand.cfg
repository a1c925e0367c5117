SPECIFICATION FairSpec
CONSTANTS
  Pane = {1, 2}
  None = None
  Settle = 2
  MaxChanges = 3
CHECK_DEADLOCK FALSE
INVARIANTS InputIsPlanned CommandsMeetAShell InputReachesItsTarget
  OutcomesAreEarned ExitCodeIsHonest DraftIsNotLeftBehind
PROPERTIES CommandEnds
