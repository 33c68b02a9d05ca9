SPECIFICATION Spec
CONSTANTS
    MinVersions = {1}
    MaxVersions = {3}
INVARIANTS
    RetriedOnlyWhenRejected
CHECK_DEADLOCK FALSE
