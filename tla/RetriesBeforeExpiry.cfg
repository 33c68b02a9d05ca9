SPECIFICATION LeaseSpec
CONSTANTS
    Timeout = 6
    MinInterval = 1
    RequestTimeout = 5
INVARIANTS
    RetriesBeforeExpiry
CHECK_DEADLOCK FALSE
