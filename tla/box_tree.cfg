SPECIFICATION Spec
CONSTANTS
  Ftyp = 1001
  Moov = 1002
  Container = 1003
  Leaf = 1004
  Table = 1005
  Free = 1006
  Mdat = 1007
  Body = 1999
  Stale = {0, 1006}
  Lost = {0, 1, 4, 24}
  Reserves = {16, 40}
  Factors = 5
  MaxBoxes = 4
  Trees <- SmallTrees
CHECK_DEADLOCK FALSE
INVARIANT TypeOK
INVARIANT RoomKept
INVARIANT WholeOrNone
INVARIANT OnlyCutRefused
PROPERTY Ends
