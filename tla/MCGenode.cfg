SPECIFICATION PartsSpec
CONSTANTS
    Clients = {1, 2, 3}
    Slots = 2
    CacheSize = 2
    Window = 3
    Spontaneous = TRUE
    CloseEarly = TRUE
    MaxMessages = 3
    LogClients = {1, 2}
    LogSlots = 2
    BufferSize = 4
    SliceSize = 2
    MaxChars = 6
    MemoryClients = {1, 2, 3}
    MemorySlots = 2
    MemorySizes = {0, 11, 12}
    Events = {1, 2, 3, 4, 5}
INVARIANTS TypesOK EachItsOwn ReadInOrder TextInOrder ClientsKeptApart LastStatusReported
CHECK_DEADLOCK FALSE
