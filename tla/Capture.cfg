SPECIFICATION Spec
CONSTANTS
  Coordinate = {c1, c2}
  Session = {s1, s2}
  Attempts = 2
  None = None
  MaxChanges = 3
  MaxId = 2
  MaxServers = 1
CHECK_DEADLOCK FALSE
INVARIANTS RecoveryIsOfItsPane PromptBelongsToSession
  LostRecoveryIsReported EveryAttemptExplained MostRecentCandidate
PROPERTIES StableInOneServer
