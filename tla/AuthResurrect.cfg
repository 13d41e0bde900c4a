SPECIFICATION Spec
CONSTANTS
    c1 = c1
    c2 = c2
    Callers = {c1, c2}
    Operations = {"recover", "logout"}
    MaxCalls = 2
PROPERTY RefreshNeverResurrects
