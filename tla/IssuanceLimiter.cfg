SPECIFICATION Spec
CONSTANTS
    a1 = a1
    a2 = a2
    a3 = a3
    Clients = {a1, a2, a3}
    Maximum = 2
    CleanupBatch = 1
    Interval = 2
    Burst = 2
    Second = 3
    MaxTime = 8
SYMMETRY Symmetry
INVARIANTS TypeOK OneQueueEntryPerClient EvictionIsInvisible QuotaHolds
