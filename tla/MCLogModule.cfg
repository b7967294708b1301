SPECIFICATION FairSpec
CONSTANTS
  t1 = t1  t2 = t2
  Threads <- TwoThreads
  NoThread = NoThread
  limit = 3
  Sizes <- SomeSizes
  MaxRecords = 2
CHECK_DEADLOCK FALSE
INVARIANTS FlushWrites FlushStores
PROPERTIES ImplementsJournal LockReleased
