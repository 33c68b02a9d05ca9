SPECIFICATION FairSpec
CONSTANTS
    MaxBatches = 3
    Bound <- MCBound
    MaxIndex = 3
    NoIndex = NoIndex
INVARIANTS
    TypeOK
    AcknowledgedIsYielded
PROPERTIES
    DeliversInOrder
    StreamSettles
CHECK_DEADLOCK FALSE
