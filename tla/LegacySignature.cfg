SPECIFICATION Spec
CONSTANTS
    ByteBits = 5
    WordBytes = 6
    AddressBytes = 5
    SelectorBytes = 4
    MinAddressBytes = 4
    MinBytes32Bytes = 6
    MaxParams = 2
    Literals = 8
    ExponentS = 16
    MantissaS = 64
    ExponentL = 32
    MantissaL = 1024
    MaxPow10 = 9
    Selectors <- MCSelectors
    SignatureBytes = 14
    CheckpointBytes = 2
    ExecuteSelector <- MCExecuteSelector
    SelfExecuteSelector <- MCSelfExecuteSelector
    Encode <- Encoded
    Requests <- LegacyRequests
    Settings <- WithStorage
    HandWritten = {}
    OthersWords = {}
    MaxPayloads = 1
    MaxSaved = 1
INVARIANT
    DecompressesToOriginal
CHECK_DEADLOCK FALSE
