SPECIFICATION CopySpec
CONSTANTS
    Total = 3
    BufSize = 3
    PathLen = 1
    Order <- OrderOf
    Parent <- InRoot
    Dirs = {"sub"}
    Root = "root"
    Programs = {p1, p2}
    Files = {f1}
    DosName <- Cut
    FirstSize <- Two
    FirstNames = {"file", "filelong"}
    MaxPos = 3
    Troubles <- SomeTroubles
    MaxFaults = 1
    MaxSteps = 4
    Searches <- SomeSearches
    Wants = {1}
    Moves = {3}
    Machines <- SomeMachines
    Drive = 3
    Clusters = {2}
    Chunk = 2
    LocalSize = 3
    CopyTroubles <- SomeCopyTroubles
    CopySteps = 1
SYMMETRY Alike
INVARIANTS
    TypeOK
    ListingTrue
    HoldersHold
    PoolBalanced
    StreamInStep
    ReadFitsBuffer
    CopyTrue
PROPERTIES
    CreateSpares
