SPECIFICATION Spec
CONSTANTS
  Programs <- AllPrograms
  Vectors <- UserVectors
  DataBytes <- Memory
  MaxRequests = 3
  MaxNoise = 1
  MaxNmi = 1
  NmiInStep = FALSE
INVARIANTS
  ReplyMatches
  CodeIntact
  StepRunsOne
CHECK_DEADLOCK FALSE
PROPERTIES
  Answered
