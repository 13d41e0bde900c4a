SPECIFICATION Spec
CONSTANTS
    c1 = c1
    c2 = c2
    c3 = c3
    Callers = {c1, c2, c3}
    Operations = {"request", "logout"}
    MaxCalls = 3
SYMMETRY Symmetry
INVARIANT RetryIsFresh
PROPERTY RefreshNeverResurrects
