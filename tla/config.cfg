SPECIFICATION Spec
CONSTANTS
  TrackLists <- Pairs
  Sets = {"vps", "sps", "sps2", "short", "pps", "lc", "he", "none"}
  NoSet = "none"
  ShortSets = {"none", "short"}
  LowComplexity = {"lc"}
  VideoConfigs <- ManyVideos
  AudioConfigs <- ManyAudios
  MimeTypes <- ManyMimes
  NoInfo = NoInfo
  Null = Null
  Empty = ""
  MaxCalls = 4
  MaxSyncs = 2
  MaxFiles = 4
CHECK_DEADLOCK FALSE
INVARIANT TypeOK
INVARIANT ConfigsShown
INVARIANT AckedTracksShown
PROPERTY CopiesSettle
