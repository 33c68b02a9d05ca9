SPECIFICATION FairLeaseSpec
CONSTANTS
    Timeout = 6
    MinInterval = 1
    RequestTimeout = 5
INVARIANTS
    LeaseTypeOK
    DetectionBound
    FreshIsNotExpired
PROPERTIES
    OneFailureTolerated
    LostServerDetected
\* The model's time ends with the heartbeat task.
CHECK_DEADLOCK FALSE
