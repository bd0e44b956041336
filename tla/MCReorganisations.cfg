SPECIFICATION Spec
CONSTANTS
    Half = 7
    Clients = {c1}
    Contracts = {d1}
    AddressValues <- MCAddressValues
    Bytes32Values <- MCBytes32Values
    MaxSaves = 2
    BatchSize = 2
    SkipBlocks = 0
    MaxReorg = 2
    MaxReorgs = 1
INVARIANTS
    IndexesSound
    PayloadsDecode
