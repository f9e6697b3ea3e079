SPECIFICATION Spec
CONSTANTS
    MaxChunk = 2
    MaxLen = 3
    MaxBytes = 3
    MaxStreams = 2
    PipeSize = 3
    Wire <- MCWire
    MaxRead = 4
    StartCapacity = 2
    MaxText = 7
    MaxBody = 2
    MaxWritten = 2
    Conn = {c1, c2}
    NoConn = NoConn
    MaxMessages = 3
    MaxRuns = 3
    MaxInterrupts = 2
INVARIANTS
    StreamsDelimited
    
    MessageIntact
    ServersSound
PROPERTIES
    CallsReturn
CHECK_DEADLOCK FALSE
