SPECIFICATION FairSpec
CONSTANTS
  w1 = w1  w2 = w2  list = list  s1 = s1  s2 = s2  video = video
  Workers <- TwoWorkers
  URLs <- Pages
  Roots <- TheRoots
  Names <- PageNames
  MaxItems = 6
CHECK_DEADLOCK FALSE
INVARIANTS HandledOnce PagesKept StaleOnlyInLog
PROPERTIES PagesHandled
