SPECIFICATION FairSpec
CONSTANTS
    c1 = c1
    c2 = c2
    Callers = {c1, c2}
    Operations = {"request", "accessToken", "recover", "login", "validate", "logout", "logoutKeeping", "openID"}
    MaxCalls = 2
PROPERTY CallsReturn
