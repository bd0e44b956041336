SPECIFICATION Spec
CONSTANTS
    ByteBits = 4
    WordBytes = 4
    AddressBytes = 3
    SelectorBytes = 2
    MinAddressBytes = 3
    MinBytes32Bytes = 4
    MaxParams = 2
    Literals = 6
    ExponentS = 8
    MantissaS = 32
    ExponentL = 16
    MantissaL = 256
    MaxPow10 = 4
    Selectors <- MCSelectors
    SignatureBytes = 8
    CheckpointBytes = 2
    ExecuteSelector <- MCExecuteSelector
    SelfExecuteSelector <- MCSelfExecuteSelector
    Encode <- Encoded
    Requests <- WordRequests
    Settings <- NoWords
    HandWritten = {}
    OthersWords = {}
    MaxPayloads = 1
    MaxSaved = 1
INVARIANT
    DecompressesToOriginal
CHECK_DEADLOCK FALSE
