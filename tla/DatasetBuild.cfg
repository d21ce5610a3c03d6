\* Two programs at a time, three in all, two outputs, ten command lines.
SPECIFICATION Spec
CONSTANTS
  p1 = p1
  p2 = p2
  v1 = v1
  v2 = v2
  Processes <- TwoProcesses
  Commands <- Lines
  Outputs <- TwoOutputs
  Rank <- SeededRank
  NoSignature = 0
  Tables = 2
  MaxStarts = 3
  Movable = {1}
  Absent = Absent
  Cut = Cut
SYMMETRY Symmetry
INVARIANTS
  WholeDatasets
  NoLeakage
  EveryGroupServed
CHECK_DEADLOCK FALSE
