SPECIFICATION Spec
CONSTANTS
  NameBytes = 7
  MaxSubBoxes = 2
  Recordings <- Dumped
  Cuttable <- CutRecordings
CHECK_DEADLOCK FALSE
INVARIANT TypeOK
INVARIANT BodiesAccepted
INVARIANT ShownInStep
INVARIANT WholeShown
INVARIANT CutNoticed
