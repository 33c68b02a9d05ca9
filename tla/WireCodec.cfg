SPECIFICATION Spec
CONSTANTS
    Messages <- MCMessages
    Radix = 8
    WordSize = 256
    MaxBytes = 6
    Texts <- MCTexts
    Chunks <- MCChunks
    Empty = ""
    None = None
INVARIANTS
    RoundTrip
    AlteredIsRefused
    HandshakeIsNotMisread
\* A message that has been read is done with.
CHECK_DEADLOCK FALSE
