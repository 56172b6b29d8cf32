SPECIFICATION Spec
CONSTANTS
    Units = {u1, u2}
    Slots = {s1, s2}
    Size <- Size1
    DefaultSize = 1
    Data = {d1, d2}
    BpbOf <- Bpb1
    CacheSize = 1
    BatchSectors = 1
    ReadAhead = 1
    IoRetries = 0
    AutoDownshift = FALSE
    Flags <- Ready
    MaxCount = 1
    Disturbances = {}
INVARIANTS
    StaleIsExplained
