SPECIFICATION Spec
CONSTANTS
  Header = 2
  Reserve = 11
  DefaultReserve = 10
  MoovBase = 3
  Narrow = 6
  Sizes <- OneSize
  OldCells <- NewOrOld
  MaxSamples = 2
  MaxSyncs = 2
  MaxRecoveries = 1
  PaddingFails = FALSE
CHECK_DEADLOCK FALSE
INVARIANT RecoveredReadable
