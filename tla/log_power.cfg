SPECIFICATION Spec
CONSTANTS
  MaxTracks = 1
  MaxSamples = 2
  MaxSyncs = 2
  MaxRecoveries = 2
  MaxCuts = 1
  Types <- Video
  Sizes <- UnitSize
  Faults <- Power
  Dumps = TRUE
  Preallocated = FALSE
  MoovTail = 0
CHECK_DEADLOCK FALSE
INVARIANT RecoveredIsPrefix
INVARIANT RecoveredIntact
INVARIANT SizesMatchOffsets
PROPERTY RecoveryRepeatable
