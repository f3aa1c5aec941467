\* Two writers of two aggregates with snapshots and two failures.
CONSTANTS
    Aggregate = {a, b}
    Payload = {x, y}
    Writer = {w1, w2}
    None = none
    MaxBatch = 2
    MaxVersion = 3
    MaxAppends = 3
    Faults = {"db", "lost_ack"}
    MaxFaults = 2
SYMMETRY StorePerms
SPECIFICATION StoreSpec
INVARIANTS
    RebuildIsReplay
    AppendsSerialised
