SPECIFICATION FairSpec
CONSTANTS
  Mine = Mine
  Foreign = {f1, f2}
  Stranger = Stranger
  Nobody = Nobody
  Pid = {q1, q2}
  Plan <- SessionWithSplit
  Attempts = 2
  MaxSessions = 1
CHECK_DEADLOCK FALSE
INVARIANTS ClaimIdentifiesServer OnlyOwnServerTouched
  CleanupSparesSessions RemovedMeansGone NoSilentServer
PROPERTIES RetainedIsHonest EmptyTargetWaits RestoreEnds EmptyTargetExits
