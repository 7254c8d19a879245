SPECIFICATION FairSpec
CONSTANTS
  MaxTracks = 1
  MaxSamples = 1
  MaxSyncs = 1
  MaxRecoveries = 1
  MaxCuts = 1
  Types <- Video
  Sizes <- UnitSize
  Faults <- AllFaults
  Dumps = TRUE
  Preallocated = TRUE
  MoovTail = 1
CHECK_DEADLOCK FALSE
INVARIANT TypeOK
INVARIANT TInv
PROPERTY CallsReturn
