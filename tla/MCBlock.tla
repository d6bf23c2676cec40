------------------------------ MODULE MCBlock -------------------------------
(***************************************************************************)
(* Block sessions: the client and the server on Genode and the client on   *)
(* Linux.  Client and server of one session meet only in Genode's packet   *)
(* stream, of which each module has its own side and takes the other as    *)
(* doing anything the stream permits.  So each is an instance with         *)
(* variables of its own, and a behaviour is one of the part that is chosen *)
(* at first.                                                               *)
(***************************************************************************)
EXTENDS BlockClient, TLC

CONSTANTS
    ServerClients, \* clients of the server
    ServerSlots,   \* its request variables
    ServerQueue,   \* QueueSize of its stream
    Outstanding,   \* packets its client has unanswered
    ServerPackets, \* bound: packets a client of the server submits
    AioSessions,   \* sessions of the client on Linux
    AioRequests,   \* its requests
    AioFiles,      \* the files it opens
    AioFds,        \* its descriptors
    AioCells       \* its heap cells

\* The client's sessions, its request variables and its identifiers are alike.
Alike == Permutations(Sessions) \cup Permutations(Requests) \cup Permutations(Request_Id)

VARIABLES
    part,                                                        \* the part that runs
    srvRoot, srvTag, srvReady, srvSession, srvClient, srvQueue, srvAcks, srvSlot,
    srvPos, srvFinished, srvSignal, srvWakeup, srvWoken, srvPackets, srvAnswered,
                                                                 \* of BlockServer
    aioSession, aioPath, aioFile, aioRequest, aioCell, aioAlive  \* of BlockAio

server == <<srvRoot, srvTag, srvReady, srvSession, srvClient, srvQueue, srvAcks, srvSlot,
            srvPos, srvFinished, srvSignal, srvWakeup, srvWoken, srvPackets, srvAnswered>>
aio == <<aioSession, aioPath, aioFile, aioRequest, aioCell, aioAlive>>
all == <<part, vars, server, aio>>

Server == INSTANCE BlockServer WITH
    Clients <- ServerClients, Index <- 42, Slots <- ServerSlots, QueueSize <- ServerQueue,
    MaxPackets <- ServerPackets,
    root <- srvRoot, tag <- srvTag, ready <- srvReady, session <- srvSession,
    client <- srvClient, queue <- srvQueue, acks <- srvAcks, slot <- srvSlot,
    pos <- srvPos, finished <- srvFinished, signal <- srvSignal, wakeup <- srvWakeup,
    woken <- srvWoken, packets <- srvPackets, answered <- srvAnswered

Aio == INSTANCE BlockAio WITH
    Sessions <- AioSessions, Requests <- AioRequests, Files <- AioFiles,
    Fds <- AioFds, Cells <- AioCells,
    session <- aioSession, path <- aioPath, file <- aioFile, request <- aioRequest,
    cell <- aioCell, alive <- aioAlive

ASSUME PartsAssumption ==
    /\ Server!SizesAssumption /\ Aio!AioAssumption
    /\ Aio!None \notin AioSessions \cup AioFiles \cup AioCells

PartsInit ==
    /\ part \in {"client", "server", "aio"}
    /\ Init /\ Server!Init /\ Aio!Init

PartsNext ==
    /\ UNCHANGED part
    /\ \/ part = "client" /\ Next /\ UNCHANGED <<server, aio>>
       \/ part = "server" /\ Server!Next /\ UNCHANGED <<vars, aio>>
       \/ part = "aio" /\ Aio!Next /\ UNCHANGED <<vars, server>>

PartsSpec == PartsInit /\ [][PartsNext]_all

\* Parts that are not chosen stay where nothing is due in them.
FairPartsSpec == PartsSpec /\ Fairness /\ Server!Fairness /\ Aio!Fairness

\* Every variable of the three parts has the type its declaration in the code
\* gives it; queues stay within their sizes and memory cells have one owner.
TypesOK == TypeOK /\ Server!TypeOK /\ Aio!TypeOK

\* A packet is in one place between its client and its server, those of a
\* client that has left included, and the cells of the buffer are those of the
\* requests: nothing is lost, answered twice or leaked by failed allocations,
\* errors, early releases and retried acknowledgements (update_response_queue,
\* release; process_request, acknowledge).
PacketsKept == PendingSomewhere /\ BufferComesBack /\ Server!PacketsKept

\* The C library writes to memory of a request that is freed only if it was
\* released after a worker had taken it, or its number was closed
\* (block_client_release, block_client_update_request).
NoUseAfterFree == Aio!NoUseAfterFree

\* No operation works on a file other than its session's unless its number was
\* closed where aio_cancel does not reach it, and no descriptor is left open
\* (block_client_initialize, block_client_finalize).
OwnFileOnly == Aio!OwnFileOnly /\ Aio!NoneLeftOpen

\* Every packet of a client that stays is answered and the client told of it,
\* unless the acknowledgements jam (process_request, acknowledge,
\* unblock_client).
EveryPacketAnswered == Server!EveryPacketAnswered

\* A pending request of the client on Linux becomes Ok or Error, its session is
\* finalized, or SIGIO ends the component (block_client_update_request).
AioCompletes == Aio!PendingCompletes
=============================================================================
