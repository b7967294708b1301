SPECIFICATION FairSpec
CONSTANTS
  w1 = w1  w2 = w2
  Workers <- TwoWorkers
  NoWorker = NoWorker
  threadNum = 2
  endID = 3
  MaxItems = 6
  MaxFails = 1
CHECK_DEADLOCK FALSE
INVARIANTS NoGap AskedOnce FaultHasCause
PROPERTIES PagesRecorded
