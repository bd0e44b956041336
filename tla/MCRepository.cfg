SPECIFICATION Spec
CONSTANTS
    Half = 4
    Methods <- MCMethods
    AddressValues <- MCAddressValues
    Bytes32Values <- MCBytes32Values
    MaxAddresses = 2
    MaxBytes32 = 2
    MaxBatch = 2
    MaxDepth = 4
INVARIANTS
    TypeOK
    StorageMatchesLedger
    LedgersNest
    AllottedIndexesStable
PROPERTIES
    WriteOnce
    ImplementsRegistry
