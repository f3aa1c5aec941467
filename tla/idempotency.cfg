\* Three requests with one key and two failures.
CONSTANTS
    Client = {c1, c2, c3}
    Code = {201, 422}
    None = None
    Faults = {"redis", "abandon", "slow"}
    MaxFaults = 2
SPECIFICATION FairSpec
INVARIANTS
    TypeOK
    NoOverlap
    CacheIsFinal
    ReplayFaithful
PROPERTIES
    EventuallyAnswered
CHECK_DEADLOCK FALSE
