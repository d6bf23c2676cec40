SPECIFICATION PartsSpec
CONSTANTS
    Clients = {11}
    Servers = {21}
    MessageDispatchers = {31}
    LogDispatchers = {41}
    Fds = {1, 2, 3}
    Chans = {1, 2, 3}
    Limit = 2
    MemoryClients = {1, 2, 3}
    MemorySlots = 2
    MemorySizes = {0, 1, 4, 9}
    IntHalf = 4
    BufferLast = 3
    QueueLimit = 2
    MaxText = 6
    MaxSessions = 2
INVARIANTS TypesOK RegistrationsLive MemoryAsAsked MemoryIsShared WrittenInOrder WrittenOnce
CHECK_DEADLOCK FALSE
