SPECIFICATION FairSpec
CONSTANTS
    Local = {l1, l2}
    Online = {o1}
    NoSession = NoSession
    MaxHeard = 1
    MaxFaults = 1
    Failures = {"lost", "refused"}
INVARIANTS TypeOK AccountedWithinMeasured ConfirmedIsStored UncertainBoundsRemote NothingLost
PROPERTY KeepsLedger OutboxDrains
CHECK_DEADLOCK FALSE
