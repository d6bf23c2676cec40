---------------------------- MODULE MemoryLinux -----------------------------
(***************************************************************************)
(* Memory sessions on Linux: a client makes a memory file, the broker      *)
(* seals it, the server maps it.  From memory/client/linux/                *)
(* gneiss_memory_client.c, platform/linux/syscall.c (lower-case names),    *)
(* gneiss-memory-client.adb, gneiss-memory-dispatcher.adb and              *)
(* Process_Memory_Request of gneiss-broker-message.adb.                    *)
(*                                                                         *)
(* Sizes are counted in a unit of which IntHalf make the positive half of  *)
(* the range of a C int.  A session stands for its client: each client     *)
(* opens one.  A server sees a client hang up only when the broker has     *)
(* ended (Descriptors).                                                    *)
(***************************************************************************)
EXTENDS Integers, FiniteSets

CONSTANTS
    Clients,   \* clients, each opens one session
    Slots,     \* session variables of the server, 2 in the test
    Sizes,     \* sizes clients ask for and set
    IntHalf    \* half the number of values of an int, 2^31 in the code

MemoryAssumption ==
    Clients \subseteq Nat \ {0} /\ Slots \in Nat \ {0} /\ Sizes \subseteq Nat /\ IntHalf \in Nat \ {0}

None == 0
Seals == {"shrink", "grow", "seal"}
States == {"new", "requested", "forwarded", "open", "closed", "failed"}

VARIABLES
    client,    \* c :> [state, asked, map]: state of its session, the size it
               \* asked for, the length of its map, 0 for none
    memfd,     \* c :> [size, seals, resized] of its memory file; resized is
               \* whether its size was set again after it was made
    server,    \* i :> [fd, map, len, index, ready]: client whose file Fd is
               \* and whose file is at Map, length of that; Index.Valid; Ready
    broker     \* the broker runs

vars == <<client, memfd, server, broker>>

Client_Session == [state: States, asked: Sizes \cup {0}, map: Nat]
Server_Session == [fd: Clients \cup {None}, map: Clients \cup {None}, len: Nat,
                   index: BOOLEAN, ready: BOOLEAN]

Init ==
    /\ client = [c \in Clients |-> [state |-> "new", asked |-> 0, map |-> 0]]
    /\ memfd = [c \in Clients |-> [size |-> 0, seals |-> {}, resized |-> FALSE]]
    /\ server = [i \in 1..Slots |->
          [fd |-> None, map |-> None, len |-> 0, index |-> FALSE, ready |-> FALSE]]
    /\ broker = TRUE

Initialized(s) == s.index /\ s.fd # None /\ s.map # None
Ready(s) == s.index /\ s.ready

-----------------------------------------------------------------------------
(* System calls                                                            *)

\* st_size as an int.
fstat_size(n) ==
    LET low == n % (2 * IntHalf) IN IF low < IntHalf THEN low ELSE low - 2 * IntHalf

\* Length of the map of a file of size n: mmap fails, with 0, on a size that
\* is 0 or negative, and may fail on any.
mmap(n) == {0} \cup ({fstat_size(n)} \cap Nat)

\* Size of the file that memfd_create and ftruncate make; one that failed is
\* closed, which is as good as a file of size 0.
memfd_create(n) == {0, n}

\* Mutant: the file may still shrink.
memfd_seal_Shrink ==
    {[seals |-> {}, success |-> FALSE], [seals |-> {"grow"}, success |-> FALSE],
     [seals |-> {"grow", "seal"}, success |-> TRUE]}

\* Shrinking, growing and more seals are sealed one after the other; each
\* may fail, and then those before it stay.
memfd_seal ==
    {[seals |-> {}, success |-> FALSE], [seals |-> {"shrink"}, success |-> FALSE],
     [seals |-> {"shrink", "grow"}, success |-> FALSE], [seals |-> Seals, success |-> TRUE]}

-----------------------------------------------------------------------------
(* Client                                                                  *)

Closed(c, state) == [client EXCEPT ![c].state = state, ![c].map = 0]

\* The file, then the map; if one fails everything is closed again.  Then the
\* request is sent, with the file.
Initialize(c, n) ==
    /\ client[c].state = "new" /\ broker
    /\ \E file \in memfd_create(n) : \E len \in mmap(file) :
          /\ memfd' = [memfd EXCEPT ![c].size = file]
          /\ client' = [client EXCEPT ![c] =
                [state |-> IF len > 0 THEN "requested" ELSE "failed", asked |-> n, map |-> len]]
    /\ UNCHANGED <<server, broker>>

\* munmap and both descriptors are closed.
Finalize(c) ==
    /\ client[c].state = "open"
    /\ client' = Closed(c, "closed")
    /\ UNCHANGED <<memfd, server, broker>>

\* The client's component, or whoever else has the file, sets its size, as far
\* as seals allow; also before the broker seals it and before the server maps it.
Resize(c, n) ==
    /\ client[c].state \in {"requested", "forwarded", "open"}
    /\ n < memfd[c].size => "shrink" \notin memfd[c].seals
    /\ n > memfd[c].size => "grow" \notin memfd[c].seals
    /\ memfd' = [memfd EXCEPT ![c].size = n, ![c].resized = TRUE]
    /\ UNCHANGED <<client, server, broker>>

-----------------------------------------------------------------------------
(* Broker                                                                  *)

\* The file is sealed before it is sent on; the client is rejected, unmaps
\* and closes when that or the socket pair fails.
Process_Memory_Request(c) ==
    /\ broker /\ client[c].state = "requested"
    /\ \E r \in memfd_seal :
          /\ memfd' = [memfd EXCEPT ![c].seals = r.seals]
          /\ \/ r.success /\ client' = [client EXCEPT ![c].state = "forwarded"]
             \/ client' = Closed(c, "failed")
    /\ UNCHANGED <<server, broker>>

Broker_Exit ==
    /\ broker
    /\ broker' = FALSE
    /\ UNCHANGED <<client, memfd, server>>

-----------------------------------------------------------------------------
(* Server                                                                  *)

\* The file is mapped, then Serv.Initialize, if it could be, may get the
\* server ready; if not both descriptors are closed and Map is forgotten.
Session_Initialize(i, c, len, ready) ==
    IF ready /\ len > 0
    THEN [fd |-> c, map |-> c, len |-> len, index |-> TRUE, ready |-> TRUE]
    ELSE [fd |-> None, map |-> None, len |-> 0, index |-> FALSE, ready |-> server[i].ready]

Free == {i \in 1..Slots : ~Ready(server[i]) /\ ~Initialized(server[i])}

\* Dispatch with a request: the first free session variable is initialized,
\* and accepted if it is ready.  If not the descriptors are closed, so the
\* other variables fail on them as well, and the request is rejected.
Dispatch_Event(c) ==
    /\ broker /\ client[c].state = "forwarded"
    /\ \/ /\ Free = {}
          /\ client' = Closed(c, "failed")
          /\ UNCHANGED server
       \/ \E i \in Free, len \in mmap(memfd[c].size), ready \in BOOLEAN :
             /\ \A j \in Free : i <= j
             /\ server' = [server EXCEPT ![i] = Session_Initialize(i, c, len, ready)]
             /\ client' = IF Initialized(server'[i]) /\ Ready(server'[i])
                          THEN [client EXCEPT ![c].state = "open"] ELSE Closed(c, "failed")
    /\ UNCHANGED <<memfd, broker>>

\* Mutant: any session is cleaned up.
Session_Cleanup_Any(s, c) ==
    IF Initialized(s) THEN [s EXCEPT !.fd = None, !.index = FALSE, !.ready = FALSE] ELSE s

\* Serv.Finalize, and the descriptors are closed; Map stays, and what is
\* mapped there.
Session_Cleanup(s, c) ==
    IF s.fd = c /\ Initialized(s)
    THEN [s EXCEPT !.fd = None, !.index = FALSE, !.ready = FALSE]
    ELSE s

\* Dispatch with the session whose client hung up.
Hang_Up(c) ==
    /\ ~broker /\ client[c].state = "closed"
    /\ \E i \in 1..Slots : server[i].fd = c
    /\ server' = [i \in 1..Slots |-> Session_Cleanup(server[i], c)]
    /\ UNCHANGED <<client, memfd, broker>>

-----------------------------------------------------------------------------
Next ==
    \/ \E c \in Clients :
          \/ \E n \in Sizes : Initialize(c, n) \/ Resize(c, n)
          \/ Process_Memory_Request(c) \/ Dispatch_Event(c)
          \/ Finalize(c) \/ Hang_Up(c)
    \/ Broker_Exit

Spec == Init /\ [][Next]_vars

-----------------------------------------------------------------------------
(* Properties                                                              *)

\* Every variable has its type, and a session variable that has a descriptor
\* is Initialized and Ready (Session_Initialize, Session_Cleanup).
TypeOK ==
    /\ client \in [Clients -> Client_Session]
    /\ memfd \in [Clients -> [size: Sizes \cup {0}, seals: SUBSET Seals, resized: BOOLEAN]]
    /\ server \in [1..Slots -> Server_Session]
    /\ \A i \in 1..Slots : server[i].fd # None <=> Initialized(server[i]) /\ Ready(server[i])
    /\ broker \in BOOLEAN

\* The server's map of an open client's file has the length the file has, as an
\* int, and keeps it as long as the session lasts, whoever resizes the file and
\* whenever: Modify of the server never touches memory behind the file's end.
\* If nobody did, the file is as the client asked, and both maps have the same
\* length, which is the size the client asked for as an int (memfd_seal before
\* mmap, fstat_size).
MemoryAsAsked ==
    \A c \in Clients : client[c].state = "open" =>
       LET file == memfd[c]
       IN /\ \A i \in 1..Slots : server[i].fd = c =>
                server[i].len = fstat_size(file.size) /\ server[i].len \in 1..file.size
          /\ ~file.resized => file.size = client[c].asked /\ client[c].map = fstat_size(file.size)

\* An open client shares its memory with exactly one session variable, and
\* that one looks at the client's file, not at one left from the session
\* before (Session_Initialize, Session_Cleanup).
MemoryIsShared ==
    /\ \A c \in Clients : client[c].state = "open" =>
          Cardinality({i \in 1..Slots : server[i].fd = c}) = 1
    /\ \A i \in 1..Slots : server[i].fd # None =>
          /\ server[i].map = server[i].fd
          /\ client[server[i].fd].state \in {"open", "closed"}

=============================================================================
