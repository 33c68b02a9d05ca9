SPECIFICATION ViewSpec
CONSTANTS
    Columns <- MCColumns
    Types <- MCTypes
    Inferred <- InferredType
    Normalized <- NormalizedValue
    Sendable <- SendableType
    EncodedType <- TypeSent
    Readable <- ReadableType
    DecodedType <- TypeRead
    Encoded <- EncodedVector
    Decoded <- DecodedVector
    Held <- HeldValue
    Supported <- SupportedType
    OtherSchemas <- MCOtherSchemas
    Half <- MCHalf
    Digits <- MCDigits
    Radix = 2
    EnumLimit <- MCEnumLimit
    Numbers <- MCNumbers
    MaskBits = 2
    NotUtf8 = {"ff"}
    MaxOffset = 4
    Day <- MCDay
    NanosPerMicro = 3
    NonFinite <- MCNonFinite
    PerSecond <- MCPerSecond
    LastDay = 7
    LastSecond = 4
    JsonOptions <- MCJsonOptions
INVARIANTS
    TypeOK
    RoundTrip
    FormsAgree
    MiscountMovesNothing
    MisfitsStayPut
    ArrowAgrees
    JsonTellsApart
\* A column that has been read is done with.
CHECK_DEADLOCK FALSE
