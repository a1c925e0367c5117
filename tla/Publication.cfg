SPECIFICATION MCSpec
CONSTANTS
  Publisher = {1, 2}
  Reader = {r1}
  Time = {1, 2}
  Suffix = {1, 2}
  None = None
  Junk = Junk
  MaxPowerLoss = 1
  MaxTamper = 1
  ReadFaults = TRUE
CHECK_DEADLOCK FALSE
INVARIANTS LatestNeverDangles PublishedSurvives IndeterminateNeverLatest
  SelectionStaysLoadable UpdatedStaysRecent
PROPERTIES SnapshotsAreImmutable ReaderNeverRegresses ImplementsArchive PublicationEnds
