SPECIFICATION Spec
CONSTANTS
    Queries <- MCQueries
    Parameters <- MCParameters
    Depth = 2
INVARIANTS
    FormatsWhatIsCode
    LiteralsKeepMeaning
\* A text that has been formatted is done with.
CHECK_DEADLOCK FALSE
