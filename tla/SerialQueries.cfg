SPECIFICATION Spec
CONSTANTS
    Callers = {c1, c2}
    NoCaller = NoCaller
    MaxRequests = 2
    MaxFetches = 1
INVARIANT QueriesSerialOnServer
CHECK_DEADLOCK FALSE
