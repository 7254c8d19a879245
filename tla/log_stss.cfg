SPECIFICATION Spec
CONSTANTS
  MaxTracks = 1
  MaxSamples = 2
  MaxSyncs = 1
  MaxRecoveries = 1
  MaxCuts = 1
  Types <- Video
  Sizes <- UnitSize
  Faults <- Power
  Dumps = FALSE
  Preallocated = FALSE
  MoovTail = 0
CHECK_DEADLOCK FALSE
INVARIANT SyncSamplesExist
