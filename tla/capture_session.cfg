SPECIFICATION FairSpec
CONSTANTS
  Backends <- JsonlThenSqlite
  Variants <- ShippedAndComplete
  MaxPackets = 2
  MaxFaults = 2
CHECK_DEADLOCK FALSE
INVARIANTS TypeOK NoSilentLoss DispatchedToAll StopReleasesSinks
PROPERTIES StoppedIsFinal StopEnds
