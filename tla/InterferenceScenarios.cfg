\* Every program; a scenario may stop at the horizon.
SPECIFICATION Spec
CONSTANTS
  CoreCount = 2
  JobCount = 3
  Period = 2
  Horizon = 6
  Programs <- AllPrograms
INVARIANTS
  NoReleaseLost
  ResultsComplete
  MissesCounted
  NeverPreempted
CHECK_DEADLOCK FALSE
