SPECIFICATION Spec
CONSTANTS
    Units = {u1}
    Slots = {s1}
    Size <- Size2
    DefaultSize = 3
    Data = {d1, d2}
    BpbOf <- Bpb2
    CacheSize = 3
    BatchSectors = 2
    ReadAhead = 2
    IoRetries = 1
    AutoDownshift = TRUE
    Flags <- Ready
    MaxCount = 2
    Disturbances = {"unacked"}
INVARIANTS
    TypeOK
    StaleIsExplained
    TransferIsTrue
PROPERTIES
    BlockSpec
    WritesStayInRequest
    RequestReturns
