SPECIFICATION Spec
CONSTANTS
    Units = {u1}
    Slots = {s1}
    Size <- Size4
    DefaultSize = 4
    Data = {d1, d2}
    BpbOf <- Bpb4
    CacheSize = 4
    BatchSectors = 1
    ReadAhead = 2
    IoRetries = 0
    AutoDownshift = FALSE
    Flags <- Ready
    MaxCount = 1
    Disturbances = {}
INVARIANTS
    ReadsLastWrite
