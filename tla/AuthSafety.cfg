SPECIFICATION Spec
CONSTANTS
    c1 = c1
    c2 = c2
    Callers = {c1, c2}
    Operations = {"request", "accessToken", "recover", "login", "validate", "logout", "logoutKeeping", "openID"}
    MaxCalls = 3
SYMMETRY Symmetry
INVARIANTS TypeOK ExclusiveOperations SingleFlight NoOrphanRefresh LogoutSettlesRefresh MemoIsNewest
