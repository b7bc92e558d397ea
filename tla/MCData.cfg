CONSTANTS
    Tasks = {"a", "b", "c", "d", "e", "f"}
    MaxId = 5
    NoId = NoId
    Names = {1, 2, 3, 4, 5}
    Values = {10, 20}
    Hash <- StringHash
    Capacity = 2
    MaxCapacity = 8
    Missing = 0
    kBufferPrefixed = 2
    InitSizes = {3, 6, 7}
    Word = 128
    BufLens = {0, 1, 2, 4}
    MaxSize = 12
    MaxTurns = 4
    SizeofInt = 2
    SizeofLong = 4
    kMemoryLimit = 2
    Chunk = 2
    BodyLens = {1, 2}
    MaxFile = 4
    Bytes = 2
    MaxBytes = 5
    MaxCalls = 3
    Hosts = {"a", "b"}
    MaxResolve = 4
    MaxEvents = 3
    Crews = {{1, 2, 5}, {2}}
    SEQUENCE_MASK = 3
    TidShift = 1
    TimeShift = 3
    MaxClock = 2
    MaxIds = 9
    Plain <- SmallChars
    MaxPlain = 5
    Coded = {65, 122, 43, 47, 61}
    MaxCoded = 6
    Lines <- ConfigLines
    Files = {"f", "g"}
    MaxLines = 4
SPECIFICATION Spec
INVARIANTS
    TablesRight
    BytesKept
    CarriedAndResolved
    LookupsRight
    CodesRight
CHECK_DEADLOCK FALSE
