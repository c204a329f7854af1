SPECIFICATION Spec
CONSTANTS
  Programs <- OneReader
  Vectors <- UserVectors
  DataBytes <- Memory
  MaxRequests = 1
  MaxNoise = 1
  MaxNmi = 0
  NmiInStep = FALSE
INVARIANTS
  ChecksumIsOfData
CHECK_DEADLOCK FALSE
