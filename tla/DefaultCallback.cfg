SPECIFICATION Spec
CONSTANTS
    Workers = {w1, w2}
    MaxMade = 4
INVARIANTS
    FaultNeedsCrowd
    SetKept
    DefaultsDeleted
CHECK_DEADLOCK FALSE
