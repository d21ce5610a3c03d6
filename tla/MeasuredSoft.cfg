\* Soft deadlines; task a of three runs alone (chaser_mode), released at the epoch.
SPECIFICATION MSpec
CONSTANTS
  a = a
  b = b
  c = c
  Coordinator = Coordinator
  Everyone = Everyone
  Tasks <- ThreeTasks
  ChaserMode = a
  PeriodOf <- Periods23
  OffsetOf <- NoOffsets
  JobCount <- Counts32
  Soft = TRUE
  Lead = 1
  Checksums <- AnyChecksum
  Horizon = 9
INVARIANTS
  AcceptedOnSchedule
  ReleasesPeriodic
