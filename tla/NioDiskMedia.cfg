SPECIFICATION Spec
CONSTANTS
    Units = {u1}
    Slots = {s1, s2}
    Size <- Size1
    DefaultSize = 1
    Data = {d1, d2}
    BpbOf <- BpbSome
    CacheSize = 1
    BatchSectors = 1
    ReadAhead = 1
    IoRetries = 0
    AutoDownshift = FALSE
    Flags <- Swapped
    MaxCount = 1
    Disturbances = {"medium", "late"}
SYMMETRY SlotSymmetry
INVARIANTS
    BpbFollowsMap
PROPERTIES
    BlockSpec
