SPECIFICATION Spec
CONSTANTS
  MaxJob = 2
  MaxFiles = 3
  Batch = 2
  Setups <- MCSetups
INVARIANTS
  TypeOK
  RequestedOnce
  OneWriter
  CopyProven
  NothingLost
  TorrentKept
PROPERTIES
  EndedForGood
  MoveSpec
CHECK_DEADLOCK FALSE
