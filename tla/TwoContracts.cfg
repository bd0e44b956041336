SPECIFICATION Spec
CONSTANTS
    Half = 6
    Clients = {c1}
    Contracts = {d1, d2}
    AddressValues <- MCAddressValues
    Bytes32Values <- MCBytes32Values
    MaxSaves = 1
    BatchSize = 2
    SkipBlocks = 0
    MaxReorg = 0
    MaxReorgs = 0
INVARIANT
    PayloadsDecode
