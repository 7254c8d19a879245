SPECIFICATION Spec
CONSTANTS
  Tracks <- TwoTracks
  Video <- FirstTrack
  Timescale <- Timescales
  Metadata <- SecondOfFirst
  MaxSamples <- SamplesOfEach
  Dts <- FewDts
  Sought <- FewTimes
  Usec = 4
  Wrap = 4
CHECK_DEADLOCK FALSE
INVARIANT TypeOK
INVARIANT ShownIsDecoded
INVARIANT TimesKept
INVARIANT SeeksFindAims
INVARIANT MetadataOnce
INVARIANT ReportedSyncsFound
PROPERTY PlaysAsPromised
PROPERTY StepsByOne
