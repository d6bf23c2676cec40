SPECIFICATION PartsSpec
CONSTANTS
    Sessions = {s1, s2}
    Indexes = {1, 2}
    Requests = {r1, r2}
    Request_Id = {i1, i2}
    Kinds = {"Read", "Sync"}
    CacheLast = 2
    Cells = 2
    QueueSize = 1
    MaxConns = 2
    MaxPackets = 2
    ServerClients = {1, 2}
    ServerSlots = 2
    ServerQueue = 2
    Outstanding = 4
    ServerPackets = 4
    AioSessions = {1, 2}
    AioRequests = {1}
    AioFiles = {11, 12}
    AioFds = {1, 2}
    AioCells = {1, 2}
SYMMETRY Alike
INVARIANTS TypesOK CompletedByOwn  PacketsKept  OwnFileOnly
CHECK_DEADLOCK FALSE
