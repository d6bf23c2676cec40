---------------------------- MODULE BlockServer ----------------------------
(***************************************************************************)
(* The server side of block sessions on Genode: one Server_Session, the    *)
(* dispatcher that hands it to one client after the other, and the request *)
(* variables in which the server keeps what it has taken from the client's *)
(* packet stream.  From block/server/genode/gneiss-block-dispatcher.adb,   *)
(* gneiss-block-server.adb (actions and operators in their spelling),      *)
(* block_dispatcher.cc and block_server.cc (the lower-case operators).     *)
(*                                                                         *)
(* Abstractions.  A packet is its client and its number.  The server is    *)
(* the one of test/block_server: its Event goes through its requests until *)
(* no packet is left.  RPCs to the root and the signal handler share one   *)
(* entrypoint, so that a session is opened or closed only between two      *)
(* events; the client runs, and leaves, at any time.                       *)
(***************************************************************************)
EXTENDS Naturals, Sequences, FiniteSets, Functions

CONSTANTS
    Clients,      \* clients that ask for a session, in any order
    Index,        \* the index given to Session_Initialize, 42 in the tests
    Slots,        \* request variables of the server
    QueueSize,    \* entries of a packet stream's queues
    Outstanding,  \* packets a client may have unanswered: the size of its buffer
    MaxPackets    \* bound: packets a client submits

SizesAssumption ==
    /\ Index \in Nat \ {0} /\ Clients \subseteq Nat \ {0}
    /\ Slots \in Nat \ {0} /\ QueueSize \in Nat \ {0} /\ Outstanding \in Nat \ {0}
    /\ MaxPackets \in Nat

NoTag == 0
None == 0   \* a null pointer in place of a client's Block_root
Raw == [status |-> "Raw"]
Packets == Clients \X (1..MaxPackets)

VARIABLES
    root,        \* the dispatcher is announced
    tag,         \* S.Instance.Tag
    ready,       \* Serv.Ready
    session,     \* the client whose Block_root is in S.Instance.Session, or None
    client,      \* c :> "new", "open", "denied" or "closed"
    queue,       \* c :> packets submitted and not yet taken
    acks,        \* c :> acknowledgements not yet fetched
    slot,        \* r :> the server's request variables
    pos,         \* the request Event is at, 0 when no event is handled
    finished,    \* Finished in Event
    signal,      \* a signal for Event is pending
    wakeup,      \* the client has to be told of acknowledgements
    woken,       \* the client has been told
    packets,     \* c :> packets submitted so far
    answered     \* c :> acknowledgements the client has fetched, in order

dispatch == <<root, tag, ready, session, client>>
streams == <<queue, acks>>
handler == <<slot, pos, finished>>
vars == <<dispatch, streams, handler, signal, wakeup, woken, packets, answered>>

Server_Request ==
    {Raw} \cup [status: {"Pending"}, session: {NoTag, Index}, packet: Packets]

Init ==
    /\ root = FALSE
    /\ tag = NoTag
    /\ ready = FALSE
    /\ session = None
    /\ client = [c \in Clients |-> "new"]
    /\ queue = [c \in Clients |-> <<>>]
    /\ acks = [c \in Clients |-> <<>>]
    /\ slot = [r \in 1..Slots |-> Raw]
    /\ pos = 0
    /\ finished = FALSE
    /\ signal = FALSE
    /\ wakeup = FALSE
    /\ woken = FALSE
    /\ packets = [c \in Clients |-> 0]
    /\ answered = [c \in Clients |-> <<>>]

Initialized == session # None

-----------------------------------------------------------------------------
(* Sessions                                                                *)

\* Initialize of the dispatcher creates its root, Register announces it.
announce ==
    /\ ~root
    /\ root' = TRUE
    /\ UNCHANGED <<tag, ready, session, client, streams, handler, signal, wakeup, woken,
                   packets, answered>>

\* Block_root, or a null pointer if its constructor throws.
initialize(c) == session' \in {c, None}

\* Serv.Initialize may leave the server not ready, and without a Block_root
\* Serv.Finalize makes it so.
Session_Initialize(c) ==
    /\ tag' = Index
    /\ \/ session' = session /\ ready' = FALSE
       \/ initialize(c) /\ ready' = (session' # None)

\* The client gets the capability of the Block_root, if there is one.
session_accept(c, accepted) ==
    client' = [client EXCEPT ![c] = IF accepted THEN "open" ELSE "denied"]

\* The user's Dispatch on a session request: a session in use is not given
\* away, one that could not be initialized is not accepted.
Dispatch(c) ==
    IF ~ready /\ ~Initialized
    THEN /\ Session_Initialize(c)
         /\ session_accept(c, ready' /\ session' # None)
    ELSE /\ session_accept(c, FALSE)
         /\ UNCHANGED <<tag, ready, session>>

\* A buffer that exceeds the quota is refused before the dispatcher is asked.
create_session(c) ==
    /\ root
    /\ pos = 0
    /\ client[c] = "new"
    /\ \/ Dispatch(c)
       \/ session_accept(c, FALSE) /\ UNCHANGED <<tag, ready, session>>
    /\ UNCHANGED <<root, streams, handler, signal, wakeup, woken, packets, answered>>

\* Serv.Finalize, then the Block_root is destroyed and its stream with it.
\* The tag stays, and so do the requests.
finalize(c) ==
    /\ ready' = FALSE
    /\ session' = None
    /\ queue' = [queue EXCEPT ![c] = <<>>]
    /\ acks' = [acks EXCEPT ![c] = <<>>]
    /\ signal' = FALSE
    /\ wakeup' = FALSE
    /\ woken' = FALSE

\* The capability that is closed is the one of this session's Block_root.
session_cleanup(c) == session = c

\* Only the session whose capability is closed is cleaned up.
Session_Cleanup(c) ==
    IF session_cleanup(c) THEN finalize(c)
    ELSE UNCHANGED <<ready, session, streams, signal, wakeup, woken>>

\* The client may have packets under way, in the stream or in the requests.
close(c) ==
    /\ pos = 0
    /\ client[c] = "open"
    /\ client' = [client EXCEPT ![c] = "closed"]
    /\ Session_Cleanup(c)
    /\ UNCHANGED <<root, tag, handler, packets, answered>>

-----------------------------------------------------------------------------
(* Events                                                                  *)

Assigned(r) == slot[r].session = tag

\* Mutant: the packet stays in the queue.
process_request_Peeks(r) ==
    IF queue[session] = <<>>
    THEN UNCHANGED <<queue, slot>>
    ELSE /\ slot' = [slot EXCEPT ![r] =
                [status |-> "Pending", session |-> tag, packet |-> Head(queue[session])]]
         /\ UNCHANGED queue

\* with_requests offers packet after packet: the first is accepted, the next
\* is answered with RETRY and stays.
process_request(r) ==
    IF queue[session] = <<>>
    THEN UNCHANGED <<queue, slot>>
    ELSE /\ slot' = [slot EXCEPT ![r] =
                [status |-> "Pending", session |-> tag, packet |-> Head(queue[session])]]
         /\ queue' = [queue EXCEPT ![session] = Tail(@)]

\* try_acknowledge offers slots of the acknowledgement queue while there are
\* any; one is used.  With none the request stays Pending.
acknowledge(s, r) ==
    IF Len(acks[session]) < QueueSize
    THEN /\ acks' = [acks EXCEPT ![session] = Append(@, s[r].packet)]
         /\ slot' = [s EXCEPT ![r] = Raw]
         /\ wakeup' = TRUE
    ELSE /\ slot' = s
         /\ UNCHANGED <<acks, wakeup>>

\* The signal is delivered.  Without a session that is ready, Event does
\* nothing; finalize has taken the signal away then.
Event ==
    /\ signal
    /\ pos = 0
    /\ pos' = 1
    /\ finished' = FALSE
    /\ signal' = FALSE
    /\ UNCHANGED <<dispatch, streams, slot, wakeup, woken, packets, answered>>

\* The request Event is at: a raw one takes the next packet.
Process ==
    /\ pos \in 1..Slots
    /\ slot[pos].status = "Raw"
    /\ process_request(pos)
    /\ finished' = (slot'[pos] = Raw)
    /\ pos' = IF slot'[pos] = Raw THEN pos + 1 ELSE pos
    /\ UNCHANGED <<dispatch, acks, signal, wakeup, woken, packets, answered>>

\* One that is pending is handled and acknowledged.
Acknowledge ==
    /\ pos \in 1..Slots
    /\ slot[pos].status = "Pending"
    /\ IF Assigned(pos) THEN acknowledge(slot, pos) ELSE UNCHANGED <<acks, slot, wakeup>>
    /\ pos' = pos + 1
    /\ UNCHANGED <<dispatch, queue, finished, signal, woken, packets, answered>>

\* Mutant: the client is not told.
unblock_client_Not == UNCHANGED <<woken, wakeup>>

\* wakeup_client_if_needed.
unblock_client == woken' = (woken \/ wakeup) /\ wakeup' = FALSE

\* After the last request Event starts again, or ends with Unblock_Client.
Event_End ==
    /\ pos = Slots + 1
    /\ pos' = IF finished THEN 0 ELSE 1
    /\ IF finished THEN unblock_client ELSE UNCHANGED <<woken, wakeup>>
    /\ UNCHANGED <<dispatch, streams, slot, finished, signal, packets, answered>>

-----------------------------------------------------------------------------
(* The client                                                              *)

\* A packet that finds the queue empty raises the server's signal.
Client_Submit(c) ==
    /\ session = c /\ client[c] = "open"
    /\ Len(queue[c]) < QueueSize
    /\ packets[c] < MaxPackets
    /\ packets[c] - Len(answered[c]) < Outstanding
    /\ packets' = [packets EXCEPT ![c] = @ + 1]
    /\ queue' = [queue EXCEPT ![c] = Append(@, <<c, packets[c] + 1>>)]
    /\ signal' = (signal \/ queue[c] = <<>>)
    /\ UNCHANGED <<dispatch, acks, handler, wakeup, woken, answered>>

\* A client that was told takes an acknowledgement; it sleeps again when there
\* is none left.  The server hears of room in a queue that was full.
Client_Fetch(c) ==
    /\ session = c /\ client[c] = "open"
    /\ woken
    /\ IF acks[c] = <<>>
       THEN woken' = FALSE /\ UNCHANGED <<acks, answered, signal>>
       ELSE /\ answered' = [answered EXCEPT ![c] = Append(@, Head(acks[c]))]
            /\ acks' = [acks EXCEPT ![c] = Tail(@)]
            /\ signal' = (signal \/ Len(acks[c]) = QueueSize)
            /\ UNCHANGED woken
    /\ UNCHANGED <<dispatch, queue, handler, wakeup, packets>>

Next ==
    \/ announce
    \/ \E c \in Clients : create_session(c) \/ close(c)
    \/ \E c \in Clients : Client_Submit(c) \/ Client_Fetch(c)
    \/ Event \/ Process \/ Acknowledge \/ Event_End

Spec == Init /\ [][Next]_vars

\* The server handles its signals and its handler runs on; the client fetches
\* what it was told of.
Fairness ==
    /\ WF_vars(Event) /\ WF_vars(Process)
    /\ WF_vars(Acknowledge) /\ WF_vars(Event_End)
    /\ \A c \in Clients : WF_vars(Client_Fetch(c))

FairSpec == Spec /\ Fairness

-----------------------------------------------------------------------------
(* Properties                                                              *)

\* The variables have their types, and a stream never holds more than it has
\* room for.
TypeOK ==
    /\ root \in BOOLEAN /\ ready \in BOOLEAN /\ finished \in BOOLEAN
    /\ signal \in BOOLEAN /\ wakeup \in BOOLEAN /\ woken \in BOOLEAN
    /\ tag \in {NoTag, Index}
    /\ session \in Clients \cup {None}
    /\ client \in [Clients -> {"new", "open", "denied", "closed"}]
    /\ packets \in [Clients -> 0..MaxPackets]
    /\ \A c \in Clients :
          /\ queue[c] \in Seq(Packets) /\ Len(queue[c]) <= QueueSize
          /\ acks[c] \in Seq(Packets) /\ Len(acks[c]) <= QueueSize
          /\ answered[c] \in Seq(Packets)
    /\ slot \in [1..Slots -> Server_Request]
    /\ pos \in 0..(Slots + 1)

\* The entries of the clients' queues f that are packet p.
Entries(kind, f, p) ==
    UNION {{<<kind, c, i>> : i \in {j \in DOMAIN f[c] : f[c][j] = p}} : c \in Clients}

\* Where packet p is: in a stream, taken by the server, or answered.
Places(p) ==
    Entries("queue", queue, p) \cup Entries("acks", acks, p)
        \cup Entries("answered", answered, p)
        \cup {<<"slot", None, r>> : r \in {q \in 1..Slots : slot[q] # Raw /\ slot[q].packet = p}}

\* No packet is taken or acknowledged twice, to whomever, although an
\* acknowledgement is retried and what the server holds outlives the client
\* that submitted it.  While a client is there the session is its own and none
\* of its packets is lost, and the foreign ones that are acknowledged to it are
\* those of clients that left (process_request, acknowledge, Session_Cleanup).
PacketsKept ==
    \A c \in Clients :
        /\ \A n \in 1..packets[c] : Cardinality(Places(<<c, n>>)) <= 1
        /\ client[c] = "open" =>
              /\ session = c /\ ready
              /\ \A n \in 1..packets[c] : Places(<<c, n>>) # {}
              /\ \A p \in Range(acks[c]) \cup Range(answered[c]) :
                    p[1] = c \/ client[p[1]] = "closed"

\* Event is in a loop that it does not leave: all requests are Pending, the
\* acknowledgement queue is full, and its client has not been told, which
\* happens only at the end of Event.
Jammed ==
    /\ pos # 0 /\ ~woken /\ Len(acks[session]) = QueueSize
    /\ \A r \in 1..Slots : slot[r] # Raw

\* Every packet of a client that stays is answered, unless the client has so
\* many under way that the acknowledgements jam.
EveryPacketAnswered ==
    \A c \in Clients, n \in 1..MaxPackets :
        packets[c] = n ~> (\/ client[c] = "closed" \/ Jammed
                           \/ \E i \in DOMAIN answered[c] : answered[c][i] = <<c, n>>)
=============================================================================
