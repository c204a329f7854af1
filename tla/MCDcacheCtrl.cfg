SPECIFICATION Spec
CONSTANTS
  NumTags = 1
  NumIndices = 1
  LineWords = 4
  NumLanes = 1
  Reads <- ReadOne
  Writes <- WriteOne
  TasReads <- ReadOne
  MaxOps = 3
  RemotePlaces <- RemoteOne
  MaxRemote = 1
  Snooping = FALSE
  MaxCtrl = 2
  CasFail = "never"
  CtrlInit = TRUE
INVARIANTS
  ReadsAreFresh
