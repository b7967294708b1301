SPECIFICATION FairSpec
CONSTANTS
  w1 = w1  w2 = w2  a1 = a1  a2 = a2  a3 = a3  n1 = n1
  Workers <- TwoWorkers
  Names <- OneName
  Args <- ThreeArgs
  NoEvent = NoEvent
  MaxAdds = 2
CHECK_DEADLOCK FALSE
INVARIANTS FaultHasCause
PROPERTIES ImplementsService EventsRun SuspendRests HaltReturns
