--------------------------- MODULE MessageSession ---------------------------
(***************************************************************************)
(* Message sessions on Genode: the root and the dispatcher that hand the   *)
(* server's session variables to clients, the cache in each of them, and   *)
(* the clients with their connections and signal handlers.  From           *)
(* message/server/genode/gneiss-message-dispatcher.adb,                    *)
(* gneiss-message-server.adb, message/client/genode/                       *)
(* gneiss-message-client.adb (names in Ada's spelling) and the             *)
(* gneiss_message_*.cc and .h files (lower-case names).                    *)
(*                                                                         *)
(* The server is the one of test/message_server: it echoes what it         *)
(* receives; with Spontaneous it also sends on its own.  All RPCs to it    *)
(* are handled by one entrypoint and are atomic.  A message is its         *)
(* addressee and a number.                                                 *)
(***************************************************************************)
EXTENDS Naturals, Sequences, FiniteSets

CONSTANTS
    Clients,      \* clients, each opens one session
    Slots,        \* session variables of the server, 2 in the test
    CacheSize,    \* size of a session's cache, 10 in the code
    Window,       \* messages a client leaves unread before it writes again
    Spontaneous,  \* whether the server sends without having received
    CloseEarly,   \* whether clients close with messages unread
    MaxMessages   \* bound: messages sent to a client

ASSUME SizesAssumption ==
    /\ Clients \subseteq Nat \ {0}
    /\ Slots \in Nat \ {0} /\ CacheSize \in Nat \ {0} /\ Window \in Nat \ {0}
    /\ MaxMessages \in Nat
    /\ Spontaneous \in BOOLEAN /\ CloseEarly \in BOOLEAN

None == 0   \* the null pointer in place of a client's component

\* Outcomes of Session_Initialize: no memory for the component, a server that
\* does not get ready, success.
Outcomes == {"none", "refused", "ready"}

Messages == [to: Clients, n: 1..MaxMessages]

\* Server_Session: the client whose component it points to, whether Index is
\* valid, Ready in the server's context, the Basalt queue.
Server_Session ==
    [component: Clients \cup {None}, index: BOOLEAN, ready: BOOLEAN, cache: Seq(Messages)]

VARIABLES
    root,       \* the dispatcher is registered
    server,     \* i :> the server's session variables
    live,       \* <<c, i>>: components on the heap, c's for session variable i
    client,     \* c :> "new", "created", "open", "closing", "closed" or "denied"
    sigh,       \* c :> the component knows the client's signal handler
    signal,     \* c :> a signal for c is pending
    handling,   \* c :> c is in Event
    sent,       \* c :> messages the server has sent to c
    got         \* c :> messages c has read, in order

vars == <<root, server, live, client, sigh, signal, handling, sent, got>>
served == <<root, server, live>>

Init ==
    /\ root = FALSE
    /\ server = [i \in 1..Slots |->
          [component |-> None, index |-> FALSE, ready |-> FALSE, cache |-> <<>>]]
    /\ live = {}
    /\ client = [c \in Clients |-> "new"]
    /\ sigh = [c \in Clients |-> FALSE]
    /\ signal = [c \in Clients |-> FALSE]
    /\ handling = [c \in Clients |-> FALSE]
    /\ sent = [c \in Clients |-> 0]
    /\ got = [c \in Clients |-> <<>>]

Initialized(s) == s.component # None /\ s.index
Ready(s) == s.index /\ s.ready

\* The session variable c's component belongs to: _server.
Of(c) == CHOOSE i \in 1..Slots : <<c, i>> \in live
Served(c) == \E i \in 1..Slots : <<c, i>> \in live

-----------------------------------------------------------------------------
(* Opening and closing sessions                                            *)

\* Initialize and Register of the dispatcher.
register_service ==
    /\ ~root
    /\ root' = TRUE
    /\ UNCHANGED <<server, live, client, sigh, signal, handling, sent, got>>

\* The component is created, or not.
initialize(c, s, o) == [s EXCEPT !.component = IF o = "none" THEN None ELSE c]

\* Without a component nothing follows.  A server that is not ready loses its
\* component again: the pointer dangles, but Index is not valid.
Session_Initialize(c, s, o) ==
    [initialize(c, s, o) EXCEPT
        !.index = IF o = "none" THEN @ ELSE o = "ready",
        !.ready = IF o = "none" THEN @ ELSE o = "ready"]

Free == {i \in 1..Slots : ~Ready(server[i]) /\ ~Initialized(server[i])}

\* Dispatch of the server on a session request: free session variables are
\* initialized in order, up to the first that is Ready, which is accepted.
Dispatch(c, o, accepted) ==
    LET tried == {i \in Free : \A j \in Free : j < i => o[j] # "ready"}
        ok == {i \in tried : o[i] = "ready"}
    IN /\ accepted = ok
       /\ server' = [i \in 1..Slots |->
             IF i \in tried THEN Session_Initialize(c, server[i], o[i]) ELSE server[i]]
       /\ live' = live \cup {<<c, i>> : i \in ok}

\* The server's part of opening a session.  A request with too little quota
\* never gets to the dispatcher, one that is not accepted is denied.
create_session(c) ==
    /\ root
    /\ client[c] = "new"
    /\ \/ \E o \in [1..Slots -> Outcomes], a \in SUBSET (1..Slots) :
             /\ Dispatch(c, o, a)
             /\ client' = [client EXCEPT ![c] = IF a # {} THEN "created" ELSE "denied"]
       \/ client' = [client EXCEPT ![c] = "denied"] /\ UNCHANGED <<server, live>>
    /\ UNCHANGED <<root, sigh, signal, handling, sent, got>>

\* The rest of the client's constructor: the RPC sigh, and Initialize returns;
\* or it throws and the session is closed.
Message_Connection(c) ==
    /\ client[c] = "created"
    /\ \/ /\ sigh' = [sigh EXCEPT ![c] = TRUE]
          /\ client' = [client EXCEPT ![c] = "open"]
       \/ client' = [client EXCEPT ![c] = "closing"] /\ UNCHANGED sigh
    /\ UNCHANGED <<served, signal, handling, sent, got>>

\* Finalize of the client, or its exit at any point: the session is closed,
\* the server gets to it later.
Finalize(c) ==
    /\ client[c] = "open"
    /\ CloseEarly \/ Len(got[c]) = sent[c]
    /\ client' = [client EXCEPT ![c] = "closing"]
    /\ signal' = [signal EXCEPT ![c] = FALSE]
    /\ handling' = [handling EXCEPT ![c] = FALSE]
    /\ UNCHANGED <<served, sigh, sent, got>>

\* Mutant: the component is not destroyed.
Session_Cleanup_Keeps(c, i) ==
    IF Initialized(server[i]) /\ server[i].component = c
    THEN /\ server' = [server EXCEPT ![i].index = FALSE, ![i].ready = FALSE]
         /\ UNCHANGED live
    ELSE UNCHANGED <<server, live>>

\* The component is destroyed, the pointer to it is left as it is.
finalize(c, i) == live' = live \ {<<c, i>>}

\* Serv.Finalize, then finalize.  The cache is left as it is.
Session_Cleanup(c, i) ==
    IF Initialized(server[i]) /\ server[i].component = c
    THEN /\ server' = [server EXCEPT ![i].index = FALSE, ![i].ready = FALSE]
         /\ finalize(c, i)
    ELSE UNCHANGED <<server, live>>

\* Dispatch with the closed component: every session variable is offered for
\* cleanup, and at most one is that component's.
destroy_session(c) ==
    /\ client[c] = "closing"
    /\ client' = [client EXCEPT ![c] = "closed"]
    /\ LET own == {i \in 1..Slots : Initialized(server[i]) /\ server[i].component = c}
       IN IF own = {} THEN UNCHANGED <<server, live>>
          ELSE \E i \in own : Session_Cleanup(c, i)
    /\ UNCHANGED <<root, sigh, signal, handling, sent, got>>

-----------------------------------------------------------------------------
(* Messages                                                                *)

\* A signal is submitted if the component knows the client's handler.
send_signal(c) == signal' = [signal EXCEPT ![c] = sigh[c] /\ client[c] = "open"]

\* Mutant: one message more than the queue holds.
Send_Over(i, m) ==
    /\ server' = [server EXCEPT ![i].cache = Append(@, m)]
    /\ send_signal(m.to)

\* Mutant: the newest message comes first.
Send_Pushes(i, m) ==
    IF Len(server[i].cache) < CacheSize
    THEN /\ server' = [server EXCEPT ![i].cache = <<m>> \o @]
         /\ send_signal(m.to)
    ELSE UNCHANGED <<server, signal>>

\* The message is cached and the client signalled, if its handler is known;
\* at a full cache it is dropped.
Send(i, m) ==
    IF Len(server[i].cache) < CacheSize
    THEN /\ server' = [server EXCEPT ![i].cache = Append(@, m)]
         /\ send_signal(m.to)
    ELSE UNCHANGED <<server, signal>>

Next_Message(c) == [to |-> c, n |-> sent[c] + 1]

\* Write of the client: the RPC write calls the server's Recv, which answers
\* if it is Ready.
write(c) ==
    /\ client[c] = "open"
    /\ sent[c] < MaxMessages
    /\ sent[c] - Len(got[c]) < Window
    /\ IF Ready(server[Of(c)])
       THEN /\ Send(Of(c), Next_Message(c))
            /\ sent' = [sent EXCEPT ![c] = @ + 1]
       ELSE UNCHANGED <<server, signal, sent>>
    /\ UNCHANGED <<root, live, client, sigh, handling, got>>

\* The server sends on its own, to any client it serves.
Send_Event(i) ==
    /\ Spontaneous
    /\ Ready(server[i]) /\ Initialized(server[i])
    /\ LET c == server[i].component
       IN /\ sent[c] < MaxMessages
          /\ Send(i, Next_Message(c))
          /\ sent' = [sent EXCEPT ![c] = @ + 1]
    /\ UNCHANGED <<root, live, client, sigh, handling, got>>

\* The signal handler of the connection calls the client's Event.
event(c) ==
    /\ client[c] = "open"
    /\ signal[c] /\ ~handling[c]
    /\ signal' = [signal EXCEPT ![c] = FALSE]
    /\ handling' = [handling EXCEPT ![c] = TRUE]
    /\ UNCHANGED <<served, client, sigh, sent, got>>

avail(c) == server[Of(c)].cache # <<>>

\* Event of test/message_client: while Available, Read.
read(c) ==
    /\ handling[c]
    /\ avail(c)
    /\ got' = [got EXCEPT ![c] = Append(@, Head(server[Of(c)].cache))]
    /\ server' = [server EXCEPT ![Of(c)].cache = Tail(@)]
    /\ UNCHANGED <<root, live, client, sigh, signal, handling, sent>>

\* Mutant: Event reads one message per signal.
Event_Return_Early(c) ==
    /\ handling[c]
    /\ handling' = [handling EXCEPT ![c] = FALSE]
    /\ UNCHANGED <<served, client, sigh, signal, sent, got>>

Event_Return(c) ==
    /\ handling[c]
    /\ ~avail(c)
    /\ handling' = [handling EXCEPT ![c] = FALSE]
    /\ UNCHANGED <<served, client, sigh, signal, sent, got>>

-----------------------------------------------------------------------------
Next ==
    \/ register_service
    \/ \E c \in Clients :
          \/ create_session(c) \/ Message_Connection(c) \/ Finalize(c) \/ destroy_session(c)
          \/ write(c) \/ event(c) \/ read(c) \/ Event_Return(c)
    \/ \E i \in 1..Slots : Send_Event(i)

Spec == Init /\ [][Next]_vars

\* A component that is scheduled handles its signals and finishes its handler
\* and its constructor; nobody has to open, close or send.
Fairness ==
    \A c \in Clients :
       /\ WF_vars(Message_Connection(c)) /\ WF_vars(event(c))
       /\ WF_vars(read(c)) /\ WF_vars(Event_Return(c))

FairSpec == Spec /\ Fairness

-----------------------------------------------------------------------------
(* Properties                                                              *)

\* Every variable has its type; a cache never holds more than the Basalt
\* queue has room for (gneiss-message-server.adb, Send).
TypeOK ==
    /\ root \in BOOLEAN
    /\ server \in [1..Slots -> Server_Session]
    /\ \A i \in 1..Slots : Len(server[i].cache) <= CacheSize
    /\ live \subseteq Clients \X (1..Slots)
    /\ client \in [Clients -> {"new", "created", "open", "closing", "closed", "denied"}]
    /\ sigh \in [Clients -> BOOLEAN] /\ signal \in [Clients -> BOOLEAN]
    /\ handling \in [Clients -> BOOLEAN]
    /\ sent \in [Clients -> 0..MaxMessages]
    /\ got \in [Clients -> Seq(Messages)]

\* A client with a session has exactly one component, in a session variable
\* that is Ready, Initialized and nobody else's; a component on the heap has
\* such a client (Dispatch, Session_Cleanup and create2/destroy agree).
EachItsOwn ==
    /\ \A c \in Clients :
          Cardinality({i \in 1..Slots : <<c, i>> \in live}) =
             IF client[c] \in {"created", "open", "closing"} THEN 1 ELSE 0
    /\ \A c \in Clients, i \in 1..Slots :
          <<c, i>> \in live =>
             server[i].component = c /\ Initialized(server[i]) /\ Ready(server[i])
    /\ \A i \in 1..Slots : Initialized(server[i]) => <<server[i].component, i>> \in live

\* What a client reads, and will read, of the messages sent to it comes in
\* the order of sending and once (Send, Get).
ReadInOrder ==
    \A c \in Clients :
       LET all == got[c] \o (IF Served(c) THEN server[Of(c)].cache ELSE <<>>)
       IN \A j, k \in 1..Len(all) :
             j < k /\ all[j].to = c /\ all[k].to = c => all[j].n < all[k].n

\* Every message sent to a client that leaves at most CacheSize of them unread
\* is kept and read by it, whatever the order of sending, signals and the end
\* of the handler, unless the client closes its session.
EveryMessageRead ==
    \A c \in Clients, n \in 1..MaxMessages :
       sent[c] = n ~> \/ client[c] # "open"
                      \/ \E j \in DOMAIN got[c] : got[c][j] = [to |-> c, n |-> n]

=============================================================================
