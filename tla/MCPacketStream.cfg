SPECIFICATION Spec
CONSTANTS
  HeadLen = 2
  Lengths <- SomeLengths
  Packets = 3
  StreamBound = 18
  AcceptSize = 3
  ContextSize = 5
  bufferSize = 4
  Threads = 2
CHECK_DEADLOCK FALSE
INVARIANTS InStep HandedOver CallsInOrder FoundAreCalled FaultHasCause
