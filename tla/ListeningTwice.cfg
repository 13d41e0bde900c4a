SPECIFICATION Spec
CONSTANTS
    Local = {l1}
    Online = {o1}
    NoSession = NoSession
    MaxHeard = 1
    MaxFaults = 0
    Failures = {"lost", "refused", "superseded"}
INVARIANT OnlineCountedOnce
CHECK_DEADLOCK FALSE
