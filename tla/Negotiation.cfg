SPECIFICATION FairSpec
CONSTANTS
    MinVersions = {0, 1, 2, 3}
    MaxVersions = {1, 2, 3, 4}
INVARIANTS
    TypeOK
    ConnectedIsAgreed
    HighestCommonVersion
    MismatchExplained
PROPERTIES
    ConnectEnds
\* A connect that is over stops.
CHECK_DEADLOCK FALSE
