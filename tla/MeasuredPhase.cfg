\* Soft deadlines and a release offset: an accepted run is off its schedule.
SPECIFICATION MSpec
CONSTANTS
  a = a
  b = b
  c = c
  Coordinator = Coordinator
  Everyone = Everyone
  Tasks <- ThreeTasks
  ChaserMode = b
  PeriodOf <- Periods23
  OffsetOf <- OffsetOfB
  JobCount <- Counts32
  Soft = TRUE
  Lead = 1
  Checksums <- ExpectedOnly
  Horizon = 9
INVARIANTS
  AcceptedOnSchedule
