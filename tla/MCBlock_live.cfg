SPECIFICATION FairPartsSpec
CONSTANTS
    Sessions = {s1}
    Indexes = {1}
    Requests = {r1, r2}
    Request_Id = {i1, i2}
    Kinds = {"Read", "Sync"}
    CacheLast = 2
    Cells = 2
    QueueSize = 1
    MaxConns = 1
    MaxPackets = 2
    ServerClients = {1, 2}
    ServerSlots = 2
    ServerQueue = 1
    Outstanding = 3
    ServerPackets = 3
    AioSessions = {1, 2}
    AioRequests = {1}
    AioFiles = {11, 12}
    AioFds = {1, 2}
    AioCells = {1}
PROPERTIES PendingCompletes EveryPacketAnswered AioCompletes
CHECK_DEADLOCK FALSE
