SPECIFICATION FairSpec
CONSTANTS
  NumTags = 1
  NumIndices = 2
  LineWords = 4
  NumLanes = 2
  Reads <- ReadOther
  Writes <- None
  TasReads <- ReadOne
  MaxOps = 3
  RemotePlaces <- None
  MaxRemote = 0
  Snooping = TRUE
  MaxCtrl = 0
  CasFail = "any"
  CtrlInit = TRUE
PROPERTIES
  LockReleased
