---------------------------- MODULE BlockClient ----------------------------
(***************************************************************************)
(* The client side of block sessions on Genode: the requests of one        *)
(* instance of Gneiss.Block.Client, its sessions, the packet streams they  *)
(* own and the cache of acknowledgements all of them share.  From          *)
(* block/client/genode/gneiss-block-client.adb (actions in its spelling)   *)
(* and block_client.cc (the lower-case operators).                         *)
(*                                                                         *)
(* Abstractions.  A packet carries its serial number, which the code does  *)
(* not have and which only the properties look at; its data is the cell of *)
(* the buffer that alloc_packet gave it.  Of the server only its answers   *)
(* are seen, in any order.  The application is the user of the tests:      *)
(* Event goes through all requests and updates those that are pending.     *)
(* Everything else it may do whenever the contracts of the operations      *)
(* allow it: identifiers may be used twice and sessions share an index,    *)
(* requests are released before they are finished and left behind by a     *)
(* session that is finalized.  The variables tainted and strayed record    *)
(* where that happened; no guard reads them.                               *)
(***************************************************************************)
EXTENDS Naturals, Sequences, FiniteSets

CONSTANTS
    Sessions,     \* Client_Session variables of the instance
    Indexes,      \* values of Session_Index the application uses (default 1)
    Requests,     \* Request variables
    Request_Id,   \* the identifiers an application may choose
    Kinds,        \* kinds of requests the application tries
    CacheLast,    \* H_Cache'Last, 128 in the code
    Cells,        \* packets the buffer of a session has room for
    QueueSize,    \* entries of a packet stream's queues
    MaxConns,     \* bound: connections opened
    MaxPackets    \* bound: packets allocated

ASSUME SessionsAssumption == Sessions # {} /\ Indexes \subseteq Nat \ {0}
ASSUME KindsAssumption == Kinds \subseteq {"Read", "Write", "Sync", "Trim"}
ASSUME SizesAssumption ==
    /\ CacheLast \in Nat \ {0} /\ Cells \in Nat \ {0} /\ QueueSize \in Nat \ {0}
    /\ MaxConns \in Nat /\ MaxPackets \in Nat

NoTag == 0
Tags == Nat
Conns == 1..MaxConns
Acks == [tag: Request_Id, success: BOOLEAN, serial: 1..MaxPackets]
Invalid == [valid |-> FALSE]
NoCall == <<>>

VARIABLES
    device,      \* s :> connection of the session, 0 for a null address
    tag,         \* s :> C.Instance.Tag
    req,         \* r :> the request and its packet
    H_Cache,     \* slot :> acknowledgement fetched and not yet matched
    buffer,      \* connection :> cell :> serial of the packet in it, or 0
    submitted,   \* connection :> packets handed over and not answered
    unread,      \* connection :> serials of those still in the submit queue
    acked,       \* connection :> acknowledgement queue
    signal,      \* connections with a signal pending, ack_avail or ready_to_submit
    todo,        \* requests the running Event has still to look at
    call,        \* the Enqueue that is blocked in submit_packet, or NoCall
    conns,       \* connections opened so far
    packets,     \* packets allocated so far
    tainted,     \* identifiers of two requests at a time, or of one that was
                 \* released while it was pending
    strayed      \* connections of a request and of another session that used it

streams == <<buffer, submitted, unread, acked>>
history == <<tainted, strayed>>
vars == <<device, tag, req, H_Cache, streams, signal, todo, call, conns, packets, history>>

\* A raw request: its other components are not read before they are assigned.
Raw == [status |-> "Raw"]

\* Client_Request: conn, serial and by are the connection whose buffer has the
\* packet, the packet's number and the number of the packet whose
\* acknowledgement set the status (0 before).
Client_Request ==
    {Raw} \cup
    [status: {"Allocated", "Pending", "Ok", "Error"}, id: Request_Id, session: Tags,
     cell: 1..Cells, conn: Conns, serial: 1..MaxPackets, by: 0..MaxPackets]

Init ==
    /\ device = [s \in Sessions |-> 0]
    /\ tag = [s \in Sessions |-> NoTag]
    /\ req = [r \in Requests |-> Raw]
    /\ H_Cache = [i \in 1..CacheLast |-> Invalid]
    /\ buffer = [c \in Conns |-> [o \in 1..Cells |-> 0]]
    /\ submitted = [c \in Conns |-> {}]
    /\ unread = [c \in Conns |-> <<>>]
    /\ acked = [c \in Conns |-> <<>>]
    /\ signal = {}
    /\ todo = {}
    /\ call = NoCall
    /\ conns = 0
    /\ packets = 0
    /\ tainted = {}
    /\ strayed = {}

Initialized(s) == device[s] # 0 /\ tag[s] # NoTag

Assigned(s, r) == tag[s] = req[r].session

\* The client's only thread is free to call an operation.
Idle == call = NoCall

-----------------------------------------------------------------------------
(* Sessions                                                                *)

\* Opening the connection fails as the constructor of Block_session throws;
\* the Factory then returns a null pointer.
initialize(s) ==
    \/ /\ conns < MaxConns
       /\ conns' = conns + 1
       /\ device' = [device EXCEPT ![s] = conns + 1]
    \/ UNCHANGED <<conns, device>>

Initialize(s, index) ==
    /\ Idle
    /\ ~Initialized(s)
    /\ initialize(s)
    /\ tag' = IF device'[s] # 0 THEN [tag EXCEPT ![s] = index] ELSE tag
    /\ UNCHANGED <<req, H_Cache, streams, signal, todo, call, packets, history>>

\* The signal handler and the stream go with the connection.
finalize(s) ==
    /\ device' = [device EXCEPT ![s] = 0]
    /\ signal' = signal \ {device[s]}
    /\ buffer' = [buffer EXCEPT ![device[s]] = [o \in 1..Cells |-> 0]]
    /\ submitted' = [submitted EXCEPT ![device[s]] = {}]
    /\ unread' = [unread EXCEPT ![device[s]] = <<>>]
    /\ acked' = [acked EXCEPT ![device[s]] = <<>>]

\* The requests, the tag and the cache stay as they are.
Finalize(s) ==
    /\ Idle
    /\ Initialized(s)
    /\ finalize(s)
    /\ UNCHANGED <<tag, req, H_Cache, todo, call, conns, packets, history>>

-----------------------------------------------------------------------------
(* Requests                                                                *)

\* History: a session uses a request of another one's connection.
Stray(s, r) ==
    strayed' = IF req[r].conn = device[s] THEN strayed
               ELSE strayed \cup {req[r].conn, device[s]}

\* Mutant: a full buffer is not noticed.
allocate_request_NoThrow(s, r, k, i) ==
    IF k \in {"Read", "Write"}
    THEN \E o \in 1..(Cells + 1) :
            /\ o \in 1..Cells => buffer[device[s]][o] = 0
            /\ req' = [req EXCEPT ![r] =
                         [status |-> "Allocated", id |-> i, session |-> tag[s],
                          cell |-> o, conn |-> device[s], serial |-> packets + 1, by |-> 0]]
            /\ buffer' = [buffer EXCEPT ![device[s]][o] = packets + 1]
            /\ packets' = packets + 1
    ELSE UNCHANGED <<req, buffer, packets>>

\* alloc_packet throws when the buffer is full (Out_Of_Memory); Sync and Trim
\* leave the packet as it is, so that Block_Count stays 0 (Unsupported).
allocate_request(s, r, k, i) ==
    IF k \in {"Read", "Write"} /\ \E o \in 1..Cells : buffer[device[s]][o] = 0
    THEN \E o \in 1..Cells :
            /\ buffer[device[s]][o] = 0
            /\ req' = [req EXCEPT ![r] =
                         [status |-> "Allocated", id |-> i, session |-> tag[s],
                          cell |-> o, conn |-> device[s], serial |-> packets + 1, by |-> 0]]
            /\ buffer' = [buffer EXCEPT ![device[s]][o] = packets + 1]
            /\ packets' = packets + 1
    ELSE UNCHANGED <<req, buffer, packets>>

Allocate_Request(s, r, k, i) ==
    /\ Idle
    /\ Initialized(s)
    /\ req[r].status = "Raw"
    /\ packets < MaxPackets
    /\ allocate_request(s, r, k, i)
    /\ tainted' = IF \E q \in Requests : req[q].status # "Raw" /\ req[q].id = i
                  THEN tainted \cup {i} ELSE tainted
    /\ UNCHANGED <<device, tag, H_Cache, submitted, unread, acked, signal, todo, call,
                   conns, strayed>>

\* submit_packet waits for a signal while the submit queue is full.  The signal
\* it waits for is ready_to_submit, for which the constructor has installed the
\* handler of Event, so that the call does not come back.
enqueue(s, r) ==
    IF Len(unread[device[s]]) < QueueSize
    THEN /\ submitted' = [submitted EXCEPT ![device[s]] =
                              @ \cup {[tag |-> req[r].id, serial |-> req[r].serial]}]
         /\ unread' = [unread EXCEPT ![device[s]] = Append(@, req[r].serial)]
         /\ req' = [req EXCEPT ![r].status = "Pending"]
         /\ UNCHANGED call
    ELSE /\ call' = <<s, r>>
         /\ UNCHANGED <<submitted, unread, req>>

Enqueue(s, r) ==
    /\ Idle
    /\ Initialized(s)
    /\ req[r].status = "Allocated"
    /\ Assigned(s, r)
    /\ enqueue(s, r)
    /\ Stray(s, r)
    /\ UNCHANGED <<device, tag, H_Cache, buffer, acked, signal, todo, conns, packets, tainted>>

\* Mutant: an acknowledgement is fetched even if the slot holds another.
update_response_queue_Always(u, i) ==
    IF u.queue = <<>> THEN u
    ELSE [u EXCEPT !.queue = Tail(@), !.cache[i] = [valid |-> TRUE, ack |-> Head(u.queue)]]

\* The next acknowledgement of the stream goes to slot i if that is free.
update_response_queue(u, i) ==
    IF u.cache[i].valid \/ u.queue = <<>> THEN u
    ELSE [u EXCEPT !.queue = Tail(@), !.cache[i] = [valid |-> TRUE, ack |-> Head(u.queue)]]

\* Mutant: the slot is not cleared.
Matched_Keeps(u, i, id) ==
    IF u.cache[i].valid /\ u.cache[i].ack.tag = id
    THEN [u EXCEPT !.status = IF u.cache[i].ack.success THEN "Ok" ELSE "Error",
                   !.by = u.cache[i].ack.serial]
    ELSE u

\* Slot i completes a request with identifier id if it has an acknowledgement
\* for that.
Matched(u, i, id) ==
    IF u.cache[i].valid /\ u.cache[i].ack.tag = id
    THEN [u EXCEPT !.status = IF u.cache[i].ack.success THEN "Ok" ELSE "Error",
                   !.by = u.cache[i].ack.serial,
                   !.cache[i] = Invalid]
    ELSE u

\* The loop of Update_Request goes on through all slots, after a match too.
Turns(before, id) ==
    LET turn[i \in 0..CacheLast] ==
            IF i = 0 THEN before
            ELSE Matched(update_response_queue(turn[i - 1], i), i, id)
    IN  turn

Update_Request(s, r) ==
    LET before == [status |-> req[r].status, by |-> req[r].by,
                   cache |-> H_Cache, queue |-> acked[device[s]]]
        after == Turns(before, req[r].id)[CacheLast]
    IN  /\ req' = [req EXCEPT ![r].status = after.status, ![r].by = after.by]
        /\ H_Cache' = after.cache
        /\ acked' = [acked EXCEPT ![device[s]] = after.queue]

\* packet_content: the packet that is found in the request's cell.
read_write(s, r) == buffer[device[s]][req[r].cell]

release(s, r) == buffer' = [buffer EXCEPT ![device[s]][req[r].cell] = 0]

\* Mutant: a pending request is not reset.
Release_Keeps(s, r) ==
    /\ Idle
    /\ Initialized(s)
    /\ req[r].status # "Raw"
    /\ Assigned(s, r)
    /\ release(s, r)
    /\ req' = IF req[r].status = "Pending" THEN req ELSE [req EXCEPT ![r] = Raw]
    /\ Stray(s, r)
    /\ UNCHANGED <<device, tag, H_Cache, submitted, unread, acked, signal, todo, call,
                   conns, packets, tainted>>

\* Unfinished requests may be released too; their packets stay on the way.
Release(s, r) ==
    /\ Idle
    /\ Initialized(s)
    /\ req[r].status # "Raw"
    /\ Assigned(s, r)
    /\ release(s, r)
    /\ req' = [req EXCEPT ![r] = Raw]
    /\ tainted' = IF req[r].status = "Pending" THEN tainted \cup {req[r].id} ELSE tainted
    /\ Stray(s, r)
    /\ UNCHANGED <<device, tag, H_Cache, submitted, unread, acked, signal, todo, call,
                   conns, packets>>

-----------------------------------------------------------------------------
(* Events                                                                  *)

\* The entrypoint calls the handler of a connection with a pending signal.
Event(c) ==
    /\ Idle
    /\ todo = {}
    /\ c \in signal
    /\ signal' = signal \ {c}
    /\ todo' = Requests
    /\ UNCHANGED <<device, tag, req, H_Cache, streams, call, conns, packets, history>>

\* Sessions that may update the request.
Updaters(r) == {s \in Sessions : Initialized(s) /\ Assigned(s, r)}

Event_Update(r) ==
    /\ Idle
    /\ r \in todo
    /\ todo' = todo \ {r}
    /\ IF req[r].status = "Pending" /\ Updaters(r) # {}
       THEN \E s \in Updaters(r) : Update_Request(s, r)
       ELSE UNCHANGED <<req, H_Cache, acked>>
    /\ UNCHANGED <<device, tag, buffer, submitted, unread, signal, call, conns, packets, history>>

\* The server takes a packet from the submit queue; a full queue has room
\* again, which the signal ready_to_submit tells.
Take(c) ==
    /\ unread[c] # <<>>
    /\ unread' = [unread EXCEPT ![c] = Tail(@)]
    /\ signal' = IF Len(unread[c]) = QueueSize THEN signal \cup {c} ELSE signal
    /\ UNCHANGED <<device, tag, req, H_Cache, buffer, submitted, acked, todo, call, conns,
                   packets, history>>

\* The server answers one of the packets it has taken; an acknowledgement that
\* finds the queue empty raises the signal ack_avail.
Acknowledge(c, p, success) ==
    /\ \A i \in DOMAIN unread[c] : unread[c][i] # p.serial
    /\ Len(acked[c]) < QueueSize
    /\ submitted' = [submitted EXCEPT ![c] = @ \ {p}]
    /\ acked' = [acked EXCEPT ![c] =
                    Append(@, [tag |-> p.tag, success |-> success, serial |-> p.serial])]
    /\ signal' = IF acked[c] = <<>> THEN signal \cup {c} ELSE signal
    /\ UNCHANGED <<device, tag, req, H_Cache, buffer, unread, todo, call, conns, packets, history>>

Next ==
    \/ \E s \in Sessions : Finalize(s) \/ \E index \in Indexes : Initialize(s, index)
    \/ \E s \in Sessions, r \in Requests :
          \/ \E k \in Kinds, i \in Request_Id : Allocate_Request(s, r, k, i)
          \/ Enqueue(s, r)
          \/ Release(s, r)
    \/ \E c \in Conns : Event(c) \/ Take(c)
    \/ \E r \in Requests : Event_Update(r)
    \/ \E c \in Conns : \E p \in submitted[c], success \in BOOLEAN : Acknowledge(c, p, success)

Spec == Init /\ [][Next]_vars

\* The server takes and answers what it is sent, the entrypoint delivers signals,
\* and the handler comes to its end.
Fairness ==
    /\ \A c \in Conns :
          /\ WF_vars(Take(c))
          /\ WF_vars(\E p \in submitted[c], b \in BOOLEAN : Acknowledge(c, p, b))
          /\ WF_vars(Event(c))
    /\ \A r \in Requests : WF_vars(Event_Update(r))

FairSpec == Spec /\ Fairness

-----------------------------------------------------------------------------
(* Properties                                                              *)

\* Every variable has its type and no queue grows beyond its size
\* (allocate_request, enqueue, Acknowledge).
TypeOK ==
    /\ device \in [Sessions -> 0..MaxConns]
    /\ tag \in [Sessions -> Tags]
    /\ req \in [Requests -> Client_Request]
    /\ \A i \in 1..CacheLast : H_Cache[i].valid => H_Cache[i].ack \in Acks
    /\ buffer \in [Conns -> [1..Cells -> 0..MaxPackets]]
    /\ \A c \in Conns : /\ submitted[c] \subseteq [tag: Request_Id, serial: 1..MaxPackets]
                        /\ \A i \in DOMAIN unread[c] : unread[c][i] \in 1..MaxPackets
                        /\ \A i \in DOMAIN acked[c] : acked[c][i] \in Acks
                        /\ Len(unread[c]) <= QueueSize /\ Len(acked[c]) <= QueueSize
    /\ signal \subseteq 1..conns
    /\ todo \subseteq Requests
    /\ call = NoCall \/ call \in Sessions \X Requests
    /\ conns \in 0..MaxConns
    /\ packets \in 0..MaxPackets
    /\ tainted \subseteq Request_Id
    /\ strayed \subseteq 1..conns

Live(r) == req[r].status # "Raw"

\* The connection of the request is that of a session, and only that session
\* has used its requests.
Home(r) == req[r].conn \notin strayed /\ \E s \in Sessions : device[s] = req[r].conn

\* A finished request was finished by the acknowledgement of its own packet,
\* although acknowledgements of all sessions, finalized ones included, meet in
\* one cache and are told apart by the identifier alone.  An identifier that
\* two requests had at a time, or whose request was released while it was
\* pending, is excepted.
CompletedByOwn ==
    \A r \in Requests :
        (req[r].status \in {"Ok", "Error"} /\ req[r].id \notin tainted) =>
            req[r].by = req[r].serial

\* A request stays assigned to the session that has allocated it and its data
\* there is that of its own packet, until a request of another connection is
\* used: sessions may have the same index, be finalized with requests left and
\* be initialized again (Assigned, read_write).
DataIsOwn ==
    \A s \in Sessions, r \in Requests :
        (Live(r) /\ device[s] = req[r].conn) =>
            /\ Assigned(s, r)
            /\ Home(r) => read_write(s, r) = req[r].serial

\* Where the packet of a request is: at the server, in the stream's queue, in
\* the cache.
PlacesOf(r) ==
    LET c == req[r].conn
    IN  {<<"server", p>> : p \in {p \in submitted[c] : p.serial = req[r].serial}}
        \cup {<<"queue", i>> : i \in {j \in DOMAIN acked[c] : acked[c][j].serial = req[r].serial}}
        \cup {<<"cache", i>> : i \in {j \in 1..CacheLast :
                  H_Cache[j].valid /\ H_Cache[j].ack.serial = req[r].serial}}

\* A pending request is in exactly one of the places from which it can be
\* finished, with the exceptions of CompletedByOwn and DataIsOwn.
PendingSomewhere ==
    \A r \in Requests :
        (req[r].status = "Pending" /\ Home(r) /\ req[r].id \notin tainted) =>
            Cardinality(PlacesOf(r)) = 1

\* The cells of a connection's buffer that are taken are those of its requests
\* that are not released: none is leaked by failed allocations, by errors or by
\* the release of unfinished requests.
BufferComesBack ==
    \A s \in Sessions : (device[s] # 0 /\ device[s] \notin strayed) =>
        {buffer[device[s]][o] : o \in 1..Cells} \ {0} =
            {req[r].serial : r \in {q \in Requests : Live(q) /\ req[q].conn = device[s]}}

\* An acknowledgement that no request of an open connection waits for: its slot
\* of the cache stays taken.
Orphan(i) ==
    /\ H_Cache[i].valid
    /\ \A r \in Requests : ~(req[r].status = "Pending" /\ req[r].id = H_Cache[i].ack.tag /\ Home(r))

\* The cache has a slot for each pending request besides the orphans.  With
\* fewer, an update can leave an acknowledgement in the stream's queue, for
\* which no signal comes any more.
Room ==
    Cardinality({r \in Requests : req[r].status = "Pending"})
        + Cardinality({i \in 1..CacheLast : Orphan(i)}) <= CacheLast

\* Every pending request is finished or its session finalized if the cache has
\* room throughout, unless Enqueue has blocked the component or identifiers or
\* sessions are confused: no merged signal and no fetch for another request
\* loses it (update_response_queue, Update_Request).
PendingCompletes ==
    []Room =>
        \A r \in Requests :
            req[r].status = "Pending" ~>
                \/ req[r].status # "Pending"
                \/ ~Home(r)
                \/ req[r].id \in tainted
                \/ call # NoCall
=============================================================================
