SPECIFICATION Spec
CONSTANTS
  Batch = 2
  PipeCap = 2
  EchoMod = 8
  Burst = 2
  WaitTimes = {1, 2}
  HalfPeriod = 2
  StopTime = 8
  MaxOps = 5
INVARIANTS
  IdleIsQuiet
  CopyIsCurrent
  NoMutualBlock
PROPERTIES
  CallEnds
