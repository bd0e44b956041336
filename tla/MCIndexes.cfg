SPECIFICATION Spec
CONSTANTS
    Half = 9
    Clients = {c1}
    Contracts = {d1}
    AddressValues <- MCAddressValues
    Bytes32Values <- MCBytes32Values
    MaxSaves = 3
    BatchSize = 2
    SkipBlocks = 0
    MaxReorg = 0
    MaxReorgs = 0
INVARIANTS
    TypeOK
    PayloadsDecode
    LoadIsComplete
PROPERTY
    LoadEnds
