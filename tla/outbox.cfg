\* Two outbox workers, overlapping appends and refused payloads.
CONSTANTS
    Worker = {w1, w2}
    BatchSize = 2
    MaxEvents = 3
    MaxAppend = 2
    Faults = {"append", "publish", "worker"}
    MaxFaults = 1
SPECIFICATION FairSpec
INVARIANTS
    TypeOK
    DuplicatesBounded
    OrderKept
PROPERTIES
    ImplementsDelivery
    EventuallySettled
CHECK_DEADLOCK FALSE
