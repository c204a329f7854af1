CONSTANTS
  Buses <- MCBuses
  Hooks <- BusHooks
  Period = 4
  Requests <- MCRequests
  Default <- MCDefault
  Cfgs <- MCCfgs
  Ranges <- MCRanges
  Loads <- MCLoads
  MaxResets = 1
SPECIFICATION Spec
INVARIANTS
  ReadsSeeWrites
  WritesAreDone
  DropHookKnown
  AnsweredInTime
  LineInOrder
