---------------------------- MODULE MemorySession ---------------------------
(***************************************************************************)
(* Memory sessions on Genode: the root and dispatcher that hand the        *)
(* server's session variables to clients, the dataspaces they share, and   *)
(* the clients' connections.  From memory/server/genode/                   *)
(* gneiss-memory-dispatcher.adb, gneiss-memory-server.adb,                 *)
(* memory/client/genode/gneiss-memory-client.adb (names in Ada's spelling) *)
(* and the gneiss_memory_*.cc and .h files (lower-case names); the server  *)
(* is that of test/memory_server.                                          *)
(*                                                                         *)
(* Of a dataspace's content the model has whether the server's greeting,   *)
(* which needs 12 bytes, is in it.                                         *)
(***************************************************************************)
EXTENDS Naturals, FiniteSets

CONSTANTS
    Clients,   \* clients, each opens one session
    Slots,     \* session variables of the server, 2 in the test
    Sizes      \* sizes a client asks for

SizesAssumption ==
    Clients \subseteq Nat \ {0} /\ Slots \in Nat \ {0} /\ Sizes \subseteq Nat

None == 0   \* the null pointer in place of a client's component

\* What Session_Initialize meets: the dataspace is allocated, the server gets ready.
Outcomes == [created: BOOLEAN, ready: BOOLEAN]

\* Server_Session: the client of its component, whether Addr is set, Size,
\* whether Index is valid, Ready in the server's context.
Server_Session ==
    [component: Clients \cup {None}, addr: BOOLEAN, size: Sizes \cup {0},
     index: BOOLEAN, ready: BOOLEAN]

VARIABLES
    root,     \* the dispatcher is registered
    server,   \* i :> the server's session variables
    greeted,  \* clients in whose dataspace the greeting is
    client,   \* c :> "new", "created", "open", "closing", "closed" or "denied"
    size      \* c :> the size c asked for, _size of its connection

vars == <<root, server, greeted, client, size>>

Init ==
    /\ root = FALSE
    /\ server = [i \in 1..Slots |->
          [component |-> None, addr |-> FALSE, size |-> 0, index |-> FALSE, ready |-> FALSE]]
    /\ greeted = {}
    /\ client = [c \in Clients |-> "new"]
    /\ size = [c \in Clients |-> 0]

Initialized(s) == s.component # None /\ s.addr /\ s.index
Ready(s) == s.index /\ s.ready

-----------------------------------------------------------------------------
(* The server                                                              *)

\* Initialize and Register of the dispatcher.
register_service ==
    /\ ~root
    /\ root' = TRUE
    /\ UNCHANGED <<server, greeted, client, size>>

\* The constructor allocates the dataspace and sets Addr and Size.  A dataspace
\* of size 0 is not attached and has no local address (Genode's
\* Attached_ram_dataspace, external).
Memory_Component(c, s, sz) == [s EXCEPT !.component = c, !.addr = (sz > 0), !.size = sz]

\* If the constructor throws there is no component.
initialize(c, s, sz, created) ==
    IF created THEN Memory_Component(c, s, sz) ELSE [s EXCEPT !.component = None]

\* Component and dataspace are destroyed; Size stays.
finalize(s) == [s EXCEPT !.component = None, !.addr = FALSE]

\* Index is valid and Serv.Initialize called whether or not there is a
\* component with memory: what is tested in between is the dispatcher.  A
\* server that gets ready all the same leaves the variable Ready and not
\* Initialized, so that it is neither accepted nor ever free again.
Session_Initialize(c, s, sz, o) ==
    LET given == [initialize(c, s, sz, o.created) EXCEPT !.index = TRUE, !.ready = o.ready]
    IN IF Ready(given) THEN given ELSE [finalize(given) EXCEPT !.index = FALSE]

\* Modify of the server, for every session it serves: the greeting, if it fits.
Modify(servers) ==
    {servers[i].component : i \in {j \in 1..Slots :
        Initialized(servers[j]) /\ Ready(servers[j]) /\ servers[j].size > 11}}

Free == {i \in 1..Slots : ~Ready(server[i]) /\ ~Initialized(server[i])}
Good(o, sz) == o.created /\ o.ready /\ sz > 0

\* Dispatch of the server on a session request: free session variables are
\* initialized in order up to the first that is Ready and Initialized, which
\* is accepted; then the server writes to all it serves.
Dispatch(c, sz, o) ==
    LET tried == {i \in Free : \A j \in Free : j < i => ~Good(o[j], sz)}
        ok == {i \in tried : Good(o[i], sz)}
    IN /\ server' = [i \in 1..Slots |->
             IF i \in tried THEN Session_Initialize(c, server[i], sz, o[i]) ELSE server[i]]
       /\ greeted' = greeted \cup Modify(server')
       /\ client' = [client EXCEPT ![c] = IF ok # {} THEN "created" ELSE "denied"]

\* A request with too little quota never gets to the dispatcher.
create_session(c, sz) ==
    /\ root
    /\ client[c] = "new"
    /\ size' = [size EXCEPT ![c] = sz]
    /\ \/ \E o \in [1..Slots -> Outcomes] : Dispatch(c, sz, o)
       \/ /\ client' = [client EXCEPT ![c] = "denied"]
          /\ UNCHANGED <<server, greeted>>
    /\ UNCHANGED root

\* Serv.Finalize and finalize, if the session has the component that was
\* closed.  Index stays valid.
Session_Cleanup(c, i) ==
    IF Initialized(server[i]) /\ server[i].component = c
    THEN [finalize(server[i]) EXCEPT !.ready = FALSE]
    ELSE server[i]

\* Dispatch with the closed component: every session variable is offered for
\* cleanup, then the server writes to all that are left.
destroy_session(c) ==
    /\ client[c] = "closing"
    /\ client' = [client EXCEPT ![c] = "closed"]
    /\ server' = [i \in 1..Slots |-> Session_Cleanup(c, i)]
    /\ greeted' = (greeted \ {c}) \cup Modify(server')
    /\ UNCHANGED <<root, size>>

-----------------------------------------------------------------------------
(* The clients                                                             *)

\* The rest of the connection's constructor: the RPC dataspace and attach;
\* or that throws and the session is closed.
Memory_Connection(c) ==
    /\ client[c] = "created"
    /\ client' = [client EXCEPT ![c] = "open"] \/ client' = [client EXCEPT ![c] = "closing"]
    /\ UNCHANGED <<root, server, greeted, size>>

\* Finalize of the client, or its exit: the server gets to it later.
Finalize(c) ==
    /\ client[c] = "open"
    /\ client' = [client EXCEPT ![c] = "closing"]
    /\ UNCHANGED <<root, server, greeted, size>>

-----------------------------------------------------------------------------
Next ==
    \/ register_service
    \/ \E c \in Clients :
          \/ \E sz \in Sizes : create_session(c, sz)
          \/ Memory_Connection(c) \/ Finalize(c) \/ destroy_session(c)

Spec == Init /\ [][Next]_vars

-----------------------------------------------------------------------------
(* Properties                                                              *)

\* Every variable has its type; a session variable has an address exactly if
\* it has a component with memory (Memory_Component, finalize).
TypeOK ==
    /\ root \in BOOLEAN
    /\ server \in [1..Slots -> Server_Session]
    /\ \A i \in 1..Slots : server[i].addr = (server[i].component # None /\ server[i].size > 0)
    /\ greeted \subseteq Clients
    /\ client \in [Clients -> {"new", "created", "open", "closing", "closed", "denied"}]
    /\ size \in [Clients -> Sizes \cup {0}]

\* A client with a session has a dataspace, in exactly one session variable
\* that is Initialized, with the size it asked for, and each of these has such a
\* client: the client's Modify never meets memory that is gone, of another
\* client, or shorter than it believes, and it finds the server's greeting
\* there as soon as it has the memory.  What a failed Session_Initialize leaves
\* in a variable is the empty component of a client that was denied, never one
\* of a client with a session (Dispatch, Session_Initialize, Session_Cleanup).
MemoryIsOwn ==
    \A c \in Clients :
       LET own == {i \in 1..Slots : server[i].component = c}
       IN /\ client[c] \in {"created", "open", "closing"} =>
                /\ Cardinality(own) = 1
                /\ \A i \in own :
                      Initialized(server[i]) /\ Ready(server[i]) /\ server[i].size = size[c]
          /\ client[c] \notin {"created", "open", "closing"} =>
                \A i \in own : ~Initialized(server[i]) /\ client[c] = "denied" /\ size[c] = 0
          /\ client[c] \in {"created", "open"} /\ size[c] > 11 => c \in greeted

=============================================================================
