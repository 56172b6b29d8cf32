SPECIFICATION Spec
CONSTANTS
    BufSize = 3
    FlushAt = 2
    AutoFlush = 2
    Timeout = 3
    TickMod = 4
    Answers = {"C", "E", "none"}
    MaxChars = 4
INVARIANTS
    TypeOK
    BufferHolds
    Accounted
PROPERTIES
    CallsReturn
    QuietBufferDrains
\* A timer flush the FujiNet does not answer stops the machine.
CHECK_DEADLOCK FALSE
