------------------------------ MODULE MCGenode ------------------------------
(***************************************************************************)
(* The safety of Message, Log and Memory sessions and of a component's     *)
(* life on Genode.  Their roots, session variables and clients have        *)
(* nothing in common, so each is an instance with variables of its own,    *)
(* and a behaviour is one of the part that is chosen at first.             *)
(***************************************************************************)
EXTENDS MessageSession

CONSTANTS
    LogClients,      \* clients of Log sessions
    LogSlots,        \* session variables of their server
    BufferSize,      \* Buffer'Last of a client
    SliceSize,       \* characters of a slice
    MaxChars,        \* bound: characters a client prints
    MemoryClients,   \* clients of Memory sessions
    MemorySlots,     \* session variables of their server
    MemorySizes,     \* sizes of memory
    Events           \* signal contexts of a component

VARIABLES
    part,                                                    \* the part that runs
    logRoot, logAlive, logServer, logState, logSession, logPrinted, logReceived,
                                                             \* of LogSession
    memRoot, memServer, memGreeted, memClient, memSize,      \* of MemorySession
    phase, capability, pending, rom, heap, vacated, destructs, reported
                                                             \* of GenodeMain

log == <<logRoot, logAlive, logServer, logState, logSession, logPrinted, logReceived>>
memory == <<memRoot, memServer, memGreeted, memClient, memSize>>
main == <<phase, capability, pending, rom, heap, vacated, destructs, reported>>
all == <<part, vars, log, memory, main>>

Log == INSTANCE LogSession WITH
    Clients <- LogClients, Slots <- LogSlots,
    root <- logRoot, alive <- logAlive, server <- logServer, state <- logState,
    session <- logSession, printed <- logPrinted, received <- logReceived

Memory == INSTANCE MemorySession WITH
    Clients <- MemoryClients, Slots <- MemorySlots, Sizes <- MemorySizes,
    root <- memRoot, server <- memServer, greeted <- memGreeted, client <- memClient,
    size <- memSize

Main == INSTANCE GenodeMain

ASSUME PartsAssumption ==
    Log!SizesAssumption /\ Memory!SizesAssumption

PartsInit ==
    /\ part \in {"message", "log", "memory", "main"}
    /\ Init /\ Log!Init /\ Memory!Init /\ Main!Init

PartsNext ==
    /\ UNCHANGED part
    /\ \/ part = "message" /\ Next /\ UNCHANGED <<log, memory, main>>
       \/ part = "log" /\ Log!Next /\ UNCHANGED <<vars, memory, main>>
       \/ part = "memory" /\ Memory!Next /\ UNCHANGED <<vars, log, main>>
       \/ part = "main" /\ Main!Next /\ UNCHANGED <<vars, log, memory>>

PartsSpec == PartsInit /\ [][PartsNext]_all

\* Every variable of the four parts has the type its declaration in the code
\* gives it; caches, buffers and slices stay within their sizes, and the heap
\* holds what sessions point to.
TypesOK == TypeOK /\ Log!TypeOK /\ Memory!TypeOK /\ Main!TypeOK

\* Nothing a Log client prints is lost, duplicated or reordered between its
\* Print and the server's Write (Print, Flush, Write).
TextInOrder == Log!TextInOrder

\* Each Log client with a session has one session variable of the server, and
\* each Memory client a dataspace in one, that no other client has
\* (Session_Initialize, Session_Cleanup, Dispatch).
ClientsKeptApart == Log!EachItsOwn /\ Memory!MemoryIsOwn

\* The parent is told the status of a component's last Vacate, or will be,
\* also when it vacates during or after Destruct (vacate, exit_handler).
LastStatusReported == Main!LastStatusReported
=============================================================================
