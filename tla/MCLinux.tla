------------------------------ MODULE MCLinux -------------------------------
(***************************************************************************)
(* The safety of what a component links on Linux: the event loop with its  *)
(* Message sessions, Memory sessions and Log sessions.  Of these the code  *)
(* shares nothing but the process, so each is an instance with variables   *)
(* of its own, and a behaviour is one of the part that is chosen at first. *)
(***************************************************************************)
EXTENDS EventLoop

CONSTANTS
    MemoryClients,   \* clients of Memory sessions
    MemorySlots,     \* session variables of their server
    MemorySizes,     \* sizes of memory
    IntHalf,         \* half the number of values of an int, in the unit of these sizes
    BufferLast,      \* Message_Buffer'Last of a Log session
    QueueLimit,      \* packets its socket holds
    MaxText,         \* bound: characters printed
    MaxSessions      \* bound: Log sessions opened

VARIABLES
    part,                                       \* the part that runs
    memClient, memFile, memServer, memBroker,   \* of MemoryLinux
    logOpen, logSession, logBuffer, logCursor, logText, logSock, logWritten
                                                \* of LogChannel

memory == <<memClient, memFile, memServer, memBroker>>
log == <<logOpen, logSession, logBuffer, logCursor, logText, logSock, logWritten>>
all == <<part, vars, memory, log>>

Memory == INSTANCE MemoryLinux WITH
    Clients <- MemoryClients, Slots <- MemorySlots, Sizes <- MemorySizes,
    client <- memClient, memfd <- memFile, server <- memServer, broker <- memBroker

Log == INSTANCE LogChannel WITH
    initialized <- logOpen, session <- logSession, buffer <- logBuffer,
    cursor <- logCursor, text <- logText, sock <- logSock, written <- logWritten

ASSUME PartsAssumption == Memory!MemoryAssumption /\ Log!BoundsAssumption

PartsInit ==
    /\ part \in {"loop", "memory", "log"}
    /\ Init /\ Memory!Init /\ Log!Init

PartsNext ==
    /\ UNCHANGED part
    /\ \/ part = "loop" /\ Next /\ UNCHANGED <<memory, log>>
       \/ part = "memory" /\ Memory!Next /\ UNCHANGED <<vars, log>>
       \/ part = "log" /\ Log!Next /\ UNCHANGED <<vars, memory>>

PartsSpec == PartsInit /\ [][PartsNext]_all

\* Every variable of the three parts has the type its declaration in the code
\* gives it, and cursors and queues stay within their bounds.
TypesOK == TypeOK /\ Memory!TypeOK /\ Log!TypeOK

\* The server's map of a client's file never gets longer than the file, although
\* that may be resized, and both sides have the memory that was asked for if it
\* was not (gneiss_memfd_seal, gneiss_mmap).
MemoryAsAsked == Memory!MemoryAsAsked

\* An open client shares its memory with one session variable of the server,
\* which looks at that client's file (Session_Initialize, Session_Cleanup).
MemoryIsShared == Memory!MemoryIsShared

\* The server of a Log session writes what was printed in order and once,
\* although every packet is the whole buffer (Flush_Buffer, Session_Event).
WrittenInOrder == Log!WrittenInOrder

\* A character is written in one session only, also if a session variable is
\* used again (Initialize, Finalize).
WrittenOnce == Log!WrittenOnce
=============================================================================
