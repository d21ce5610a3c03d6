\* Three workloads on two cores of four units.
SPECIFICATION CalSpec
CONSTANTS
  Workloads <- ThreeWorkloads
  TasksOf <- Split
  Isolated = {0}
  NonIsolated = {1}
  Capacity = 4
  Top = 2
  Cases <- SomeCases
  Repeats = 3
  Batches <- SomeBatches
INVARIANTS
  NoFaultCounted
  SelectionBest
  PlaceableFits
CHECK_DEADLOCK FALSE
