\* TYPE-B alone: one victim and two polluters on two cores.
SPECIFICATION Spec
CONSTANTS
  CoreCount = 2
  JobCount = 3
  Period = 2
  Horizon = 6
  Programs <- Polluted
INVARIANTS
  PollutersPreempt
CHECK_DEADLOCK FALSE
