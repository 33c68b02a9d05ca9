SPECIFICATION FairSpec
CONSTANTS
    Callers = {c1, c2}
    NoCaller = NoCaller
    Keys = {"a", "b"}
    Inputs <- MCInputs
INVARIANTS
    TypeOK
    LandedIsPrefix
    OkMeansAll
    UniformRowsKeepValues
PROPERTIES
    CallsEnd
\* Calls that are over stop.
CHECK_DEADLOCK FALSE
