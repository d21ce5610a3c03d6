\* Four tasks of one, two or three units on two cores of five.
SPECIFICATION Spec
CONSTANTS
  Cores <- TwoCores
  Cap = 5
  Penalty = 1
  Tasks <- FourTasks
  TaskValues <- SmallTasks
  Restarts = 2
  Domains <- ClustersAndGlobal
  Probabilities = {0, 1, 2}
  Tau = 1
INVARIANTS
  AcceptedFits
  NominalSound
  GroupKept
  ChampionOptimal
CHECK_DEADLOCK FALSE
