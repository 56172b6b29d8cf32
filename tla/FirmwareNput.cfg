SPECIFICATION Spec
CONSTANTS
    MaxLine = 1
    Units = {0, 1}
    Sectors <- SectorsOf
    Default = 3
    Starts = {0, 1}
    Counts = {2}
    Scenarios <- SomeScenarios
    Pieces = 3
    Chunk = 2
    AreaSize = 16
    Names = {"nput"}
    MaxFile = 4
    HdrLen = 2
    DataLen = 2
    DataNear = FALSE
    Others = {"x"}
    VersionRequest <- RequestBytes
    Earlier <- SomeEarlier
    FujiPort <- Com1
    Letters <- Ab
    BlockDevices = 3
    Template <- ConfigKeys
    KeyRoom = 3
    UserKeys = {"m", "r"}
    MaxPrograms = 3
CHECK_DEADLOCK FALSE
INVARIANTS
    NputStores
