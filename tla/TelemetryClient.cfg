SPECIFICATION FairSpec
CONSTANTS
    Callers = {c1, c2}
    Slots = {s1, s2}
    NoSlot = NoSlot
    MaxKeys = 2
    MaxEras = 2
INVARIANTS TypeOK NoTokenAcrossWithdrawal WaitersServed SingleFlight StoredIsEnrolled KeysEnrolOnce
PROPERTY CallsReturn
CHECK_DEADLOCK FALSE
