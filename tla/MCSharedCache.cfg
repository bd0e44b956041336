SPECIFICATION Spec
CONSTANTS
    Half = 7
    Clients = {c1, c2}
    Contracts = {d1}
    AddressValues <- SCAddressValues
    Bytes32Values <- SCBytes32Values
    MaxSaves = 2
    BatchSize = 2
    SkipBlocks = 0
    MaxReorg = 0
    MaxReorgs = 0
SYMMETRY ClientSymmetry
INVARIANTS
    IndexesSound
    CacheHasNoGaps
