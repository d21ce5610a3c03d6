\* Two analyses of two files, two workers, two slots; a1 can be interrupted.
SPECIFICATION FairSpec
CONSTANTS
  a1 = a1
  a2 = a2
  w1 = w1
  w2 = w2
  None = None
  Analyses <- TwoAnalyses
  Workers <- TwoWorkers
  Interruptible <- MainThread
  FilesPerAnalysis = 2
  MaxFiles = 2
INVARIANTS
  RawBound
  SlotAccounting
  PublishedComplete
  SlotsReturned
  NoArchiveForgotten
PROPERTIES
  StoreSpec
  EveryAnalysisEnds
