SPECIFICATION Spec
CONSTANTS
    e1 = e1
    e2 = e2
    Event <- MCEvent
    NoEvent = NoEvent
    RequestedSize = 5
    DEFAULT_QUEUE_SIZE = 3
INVARIANTS
    TypeOK
    RingOK
    PayloadOwned
PROPERTIES
    QueuedKept
    ImplementsDeque
