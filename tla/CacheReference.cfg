\* Five lines in ten hierarchies; a trace ends anywhere.
SPECIFICATION Spec
CONSTANTS
  Hierarchies <- SmallHierarchies
  Accesses <- SmallAccesses
  LineIds = {0, 1, 2, 3, 4}
  MaxReferences = 6
INVARIANTS
  ResidencyIsDistance
  CsrdExact
CHECK_DEADLOCK FALSE
