SPECIFICATION Spec
CONSTANTS
  MaxTracks = 2
  MaxSamples = 2
  MaxSyncs = 2
  MaxRecoveries = 1
  MaxCuts = 1
  Types <- AudioTwice
  Sizes <- UnitSize
  Faults <- NoFaults
  Dumps = FALSE
  Preallocated = FALSE
  MoovTail = 0
CHECK_DEADLOCK FALSE
INVARIANT CrashInv
INVARIANT NoAckedLoss
PROPERTY ImplementsDurable
