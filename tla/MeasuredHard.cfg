\* Two tasks of period 2, the second released a tick after the epoch; a miss or
\* a postponed release stops a worker.
SPECIFICATION FairMSpec
CONSTANTS
  a = a
  b = b
  c = c
  Coordinator = Coordinator
  Everyone = Everyone
  Tasks <- TwoTasks
  ChaserMode = Everyone
  PeriodOf <- PeriodsOf2
  OffsetOf <- LateB
  JobCount <- CountsOf2
  Soft = FALSE
  Lead = 1
  Checksums <- ExpectedOnly
  Horizon = 4
INVARIANTS
  TypeOK
  NoSignalLost
  GateUnmixed
  AcceptedOnSchedule
  OffenceIsLast
PROPERTIES
  PhasedSpec
  RunEnds
