SPECIFICATION Spec
CONSTANTS
    c1 = c1
    c2 = c2
    Callers = {c1, c2}
    Operations = {"request", "logout"}
    MaxCalls = 2
PROPERTY RetiredRequestsFail
