SPECIFICATION Spec
CONSTANTS
    r1 = r1
    r2 = r2
    k1 = k1
    NoKey = NoKey
    Requests = {r1, r2}
    Keys = {k1}
    Lifetime = 1
    CleanupBatch = 1
    MaxChallenges = 3
    MaxCounter = 2
    MaxTime = 1
SYMMETRY Symmetry
INVARIANTS TypeOK OneHolder LiveChallengesSurvive CounterCoversGrants
PROPERTY KeepsPromise
