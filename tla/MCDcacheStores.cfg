SPECIFICATION Spec
CONSTANTS
  NumTags = 2
  NumIndices = 1
  LineWords = 4
  NumLanes = 2
  Reads <- ReadConflict
  Writes <- WriteConflict
  TasReads <- None
  MaxOps = 4
  RemotePlaces <- None
  MaxRemote = 0
  Snooping = TRUE
  MaxCtrl = 0
  CasFail = "never"
  CtrlInit = TRUE
INVARIANTS
  TypeOK
  ReadsAreFresh
  BusWriteIsOldest
  SnoopOutMatches
  ChannelsFree
