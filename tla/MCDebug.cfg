SPECIFICATION Spec
CONSTANTS
  Uis = {"socket", "keys"}
  BufLen = 3
  Kinds = {"BREAK", "STEP", "INSERT", "CONTINUE", "notify"}
  Keys = {"b", "c", "s", "i", "d", "D", "r", "w"}
  Givens = {TRUE, FALSE}
  MaxReqs = 3
  MaxConns = 2
  MaxKeys = 3
  MaxBreaks = 1
  StartRegs <- UniqueRegs
  StartMem <- ThreeWords
INVARIANTS
  RepliesInOrder
  DoneOnce
  PausedIsReal
  ListsSound
  PlanWorks
PROPERTIES
  RequestAnswered
