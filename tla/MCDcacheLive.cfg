SPECIFICATION FairSpec
CONSTANTS
  NumTags = 1
  NumIndices = 2
  LineWords = 4
  NumLanes = 2
  Reads <- ReadOther
  Writes <- WriteOne
  TasReads <- ReadOne
  MaxOps = 4
  RemotePlaces <- None
  MaxRemote = 0
  Snooping = TRUE
  MaxCtrl = 0
  CasFail = "idle"
  CtrlInit = TRUE
PROPERTIES
  EveryAccessEnds
  WritesDrain
  LockReleased
