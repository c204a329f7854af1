SPECIFICATION Spec
CONSTANTS
  NumTags = 2
  NumIndices = 2
  LineWords = 4
  NumLanes = 1
  Reads <- ReadMixed
  Writes <- WriteEvict
  TasReads <- ReadOne
  MaxOps = 3
  RemotePlaces <- RemoteNext
  MaxRemote = 1
  Snooping = TRUE
  MaxCtrl = 0
  CasFail = "never"
  CtrlInit = TRUE
INVARIANTS
  ReadsAreFresh
  TasAtomic
