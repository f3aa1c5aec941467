\* Three requests with one key and no failure.
CONSTANTS
    Client = {c1, c2, c3}
    Code = {201, 422}
    None = None
    Faults = {}
    MaxFaults = 0
SPECIFICATION Spec
INVARIANTS
    OnlyOnce
CHECK_DEADLOCK FALSE
