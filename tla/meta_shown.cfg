SPECIFICATION Spec
CONSTANTS
  Types <- ThreeTracks
  MetaKeys = {"title"}
  Tags = {"nam"}
  OtherTags = {"abcd"}
  LocationTag = "xyz"
  Alternate <- TitleAndTag
  NoKey = "none"
  Values = {"a", ""}
  Empty = ""
  NoValue = "unset"
  Owners <- FileAndVideo
  MaxCalls = 4
  MaxSyncs = 2
CHECK_DEADLOCK FALSE
INVARIANT TypeOK
INVARIANT MetadataShown
INVARIANT Recovered
INVARIANT LinksShown
