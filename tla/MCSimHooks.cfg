CONSTANTS
  h1 = h1
  h2 = h2
  h3 = h3
  Hooks <- MCHooks
  MaxTime = 3
  MaxDelay = 2
SPECIFICATION Spec
INVARIANTS
  ExactlyRegistered
  NothingOverdue
  NeverLate
