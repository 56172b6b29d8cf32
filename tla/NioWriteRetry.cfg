SPECIFICATION Spec
CONSTANTS
    Keys = {readSectors, writeSectors}
    WriteKeys = {writeSectors}
    Retries = 1
    MaxStale = 2
    Capacity <- MCCapacity
    RxSpace <- MCRxSpace
    Shapes <- MCShapes
    MaxWire = 3
    readSectors = readSectors
    writeSectors = writeSectors
INVARIANT
    WritesRetried
