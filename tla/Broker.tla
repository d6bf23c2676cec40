------------------------------- MODULE Broker -------------------------------
(***************************************************************************)
(* Session brokering on Linux.  The core process (the broker) forks one    *)
(* process per <component> of the configuration and stays connected to     *)
(* each by a SOCK_SEQPACKET socket pair.  A component asks for a session   *)
(* with a Request on that socket and blocks until the answer arrives; a    *)
(* server announces itself with Register, also blocking, and gets the Disp *)
(* end of a second, per-kind service socket on which the broker forwards   *)
(* the requests of its clients and reads its answers back.                 *)
(*                                                                         *)
(* Modelled from core/linux (gneiss-broker-*.adb, gneiss-main.adb), from   *)
(* platform/linux (gneiss_internal-client.adb, -packet.adb, syscall.c) and *)
(* from the Linux clients and dispatchers of the session kinds.            *)
(*                                                                         *)
(* Abstractions.  A component is identified with its (unique) name; names  *)
(* and labels are opaque values with a length.  A socket is a FIFO queue   *)
(* per direction.  The file descriptors passed along with a message are    *)
(* one value, the session end (see Ends).  What a component does between   *)
(* two library calls is arbitrary; how many sessions it asks for is        *)
(* bounded by MaxCalls.                                                    *)
(***************************************************************************)
EXTENDS Naturals, Sequences, FiniteSets

CONSTANTS
    Components,   \* the components named in the configuration
    Kinds,        \* the kinds of session in use, a subset of Kind_Type
    Labels,       \* the session labels in use
    EmptyLabel,   \* the empty label
    NameLen,      \* the length of each component's name
    LabelLen,     \* the length of each label
    Services,     \* the <service> children of each <component>, in order
    NoLabel,      \* a <service> without a label attribute
    NoServer,     \* a <service> without a server attribute; also the core
    NoFd,         \* no valid file descriptor (-1)
    NoCall,       \* the component is not blocked in a library call
    NoMsg,        \* no request is being dispatched
    QueueLimit,   \* messages a socket holds before sendmsg fails with EAGAIN
    MaxCalls,     \* bound: session requests of each component
    MayExit,      \* the components that may exit or crash
    Outcomes      \* outcomes of allocating a descriptor: {TRUE} or BOOLEAN

KindType == {"Message", "Log", "Memory", "Rom", "Timer"}

\* The kinds a component can serve: only they have a dispatcher on Linux.
ServerKinds == Kinds \cap {"Message", "Log", "Memory"}

\* Name'Length + Label'Length must stay below this in Confirm and Reject.
AnswerLimit == 256

Services_Type ==
    [kind: Kinds, label: Labels \cup {NoLabel},
     server: Components \cup {NoServer}, resource: BOOLEAN]

\* One end of the socket pair made for a session.  The descriptor itself is
\* opaque to the code; client, server, kind and label record for which
\* request the broker made it, id tells two pairs apart.  The Disp end of
\* the service socket of s is the end with id 0 and s in both roles.
Ends ==
    [id: Nat, client: Components, server: Components \cup {NoServer},
     kind: Kinds, label: Labels]

\* The name is that of the client a message is about.  The code leaves it
\* empty on a component's own socket, where the socket says who it is.
\* Only a dispatcher sends Register.
Msgs ==
    {m \in [action: {"Request", "Confirm", "Reject", "Register"}, kind: Kinds,
            name: Components, label: Labels, fd: Ends \cup {NoFd}] :
        m.action = "Register" => m.kind \in ServerKinds}

Calls == [action: {"Request", "Register"}, kind: Kinds, label: Labels]

ASSUME ComponentsAssumption == IsFiniteSet(Components)
ASSUME KindsAssumption == Kinds \subseteq KindType
ASSUME EmptyAssumption == EmptyLabel \in Labels /\ NoLabel \notin Labels
ASSUME LengthAssumption ==
    /\ NameLen \in [Components -> 1..255]
    /\ LabelLen \in [Labels -> 0..255]
ASSUME ServicesAssumption == Services \in [Components -> Seq(Services_Type)]
ASSUME NoServerAssumption == NoServer \notin Components
ASSUME NoFdAssumption == NoFd \notin Ends
ASSUME NoCallAssumption == NoCall \notin Calls
ASSUME NoMsgAssumption == NoMsg \notin Msgs
ASSUME BoundsAssumption ==
    /\ QueueLimit \in Nat \ {0}
    /\ MaxCalls \in [Components -> Nat]
    /\ MayExit \subseteq Components
    /\ Outcomes \in {{TRUE}, BOOLEAN}

VARIABLES
    \* the broker
    fdValid,   \* c :> Components (c).Fd is a valid descriptor
    serv,      \* c :> the kinds whose service socket Components (c).Serv holds
    nextId,    \* socket pairs made for sessions so far
    \* the components
    status,    \* c :> "construct", "loop" (of Gneiss.Main.Run) or "exited"
    call,      \* c :> the library call c is blocked in, or NoCall
    calls,     \* c :> session requests made so far
    disp,      \* c :> kind :> Dispatch_Fd: "none", "armed", "deaf" (no epoll)
    cur,       \* c :> the request the user's Dispatch is working on, or NoMsg
    accepted,  \* c :> Dispatcher_Session.Accepted of that dispatch
    clientS,   \* c :> the ends of c's initialized client sessions
    serverS,   \* c :> the ends of c's accepted server sessions
    \* the sockets
    up,        \* c :> component to broker, on Components (c).Fd
    down,      \* c :> broker to component, on Components (c).Fd
    req,       \* c :> kind :> broker to server, on Serv (kind)
    ans        \* c :> kind :> server to broker, on Serv (kind)

brokerVars == <<fdValid, serv, nextId>>
dispVars   == <<disp, cur, accepted, serverS>>
procVars   == <<status, call, calls, clientS>>
sockVars   == <<up, down, req, ans>>
vars       == <<brokerVars, dispVars, procVars, sockVars>>

-----------------------------------------------------------------------------
(* Packet.Send: one packet, MSG_DONTWAIT, a full socket loses it.          *)

Packet(action, kind, name, label, fd) ==
    [action |-> action, kind |-> kind, name |-> name, label |-> label, fd |-> fd]

Send(queue, msg) == IF Len(queue) < QueueLimit THEN Append(queue, msg) ELSE queue

-----------------------------------------------------------------------------
(* Gneiss.Broker.Lookup                                                    *)

\* The positions of the <service> nodes of this kind with this label, or
\* with none.  Compare never matches an empty label.
ExactMatches(comp, kind, label) ==
    {i \in DOMAIN Services[comp] : /\ Services[comp][i].kind = kind
                                   /\ label # EmptyLabel
                                   /\ Services[comp][i].label = label}
DefaultMatches(comp, kind) ==
    {i \in DOMAIN Services[comp] : /\ Services[comp][i].kind = kind
                                   /\ Services[comp][i].label = NoLabel}

\* Mutant: a default is taken although there is an exact match.
Match_Service_DefaultFirst(comp, kind, label) ==
    LET found == DefaultMatches(comp, kind) \cup ExactMatches(comp, kind, label)
    IN  IF found = {} THEN 0 ELSE CHOOSE i \in found : \A j \in found : i <= j

\* The first exact match, else the last default; 0 when there is neither.
Match_Service(comp, kind, label) ==
    LET exact   == ExactMatches(comp, kind, label)
        default == DefaultMatches(comp, kind)
    IN  IF exact # {}
        THEN CHOOSE i \in exact : \A j \in exact : i <= j
        ELSE IF default # {}
             THEN CHOOSE i \in default : \A j \in default : i >= j
             ELSE 0

\* Only a component whose Fd is still valid is found.
Find_Component_By_Name(name) == fdValid[name]

Lookup_Request(service) ==
    service.server # NoServer => Find_Component_By_Name(service.server)

-----------------------------------------------------------------------------
(* Gneiss.Broker.Message.  These operators are the part of an event of the *)
(* broker that follows the receipt of a valid message; they say what       *)
(* happens to serv, nextId, down and req.                                  *)

\* Packet.Send on Components (dest).Fd; a dead peer loses the message.
ToComponent(dest, msg) ==
    down' = [down EXCEPT ![dest] = IF status[dest] = "exited" THEN @ ELSE Send(@, msg)]

Send_Confirm(dest, kind, label, fd) ==
    ToComponent(dest, Packet("Confirm", kind, dest, label, fd))

Send_Reject(dest, kind, label) ==
    /\ ToComponent(dest, Packet("Reject", kind, dest, label, NoFd))
    /\ UNCHANGED <<serv, nextId, req>>

\* Request of a kind the core provides itself: a file or a timer descriptor.
Provide(source, kind, label, ok) ==
    IF ok
    THEN /\ Send_Confirm(source, kind, label,
                         [id |-> nextId + 1, client |-> source, server |-> NoServer,
                          kind |-> kind, label |-> label])
         /\ nextId' = nextId + 1
         /\ UNCHANGED <<serv, req>>
    ELSE Send_Reject(source, kind, label)

\* The service socket of dest for this kind is the one there is, or a new one.
Setup_Service(dest, kind) == serv' = [serv EXCEPT ![dest] = @ \cup {kind}]

\* Request for a component: a socket pair, the service socket if there is
\* none yet, and the request to the server; any failure rejects.
Forward(source, dest, kind, label, ok) ==
    IF ok
    THEN /\ Setup_Service(dest, kind)
         /\ nextId' = nextId + 1
         /\ req' = [req EXCEPT ![dest][kind] =
                      Send(@, Packet("Request", kind, source, label,
                                     [id |-> nextId + 1, client |-> source,
                                      server |-> dest, kind |-> kind, label |-> label]))]
         /\ UNCHANGED down
    ELSE Send_Reject(source, kind, label)

Dispose == UNCHANGED <<serv, nextId, down, req>>

\* Mutant: the node found is that of a request without a label.
Process_Request_NoLabel(source, kind, label) ==
    LET i == Match_Service(source, kind, EmptyLabel)
    IN  IF i = 0
        THEN Send_Reject(source, kind, label)
        ELSE Forward(source, Services[source][i].server, kind, label, TRUE)

Process_Request(source, kind, label) ==
    LET i       == Match_Service(source, kind, label)
        service == Services[source][i]
        dest    == service.server
    IN  IF i = 0 \/ ~Lookup_Request(service)
        THEN Send_Reject(source, kind, label)
        ELSE CASE kind \in {"Message", "Log", "Memory"} ->
                    IF dest = NoServer
                    THEN Send_Reject(source, kind, label)
                    ELSE \E ok \in Outcomes : Forward(source, dest, kind, label, ok)
               [] kind = "Rom" ->
                    IF dest # NoServer
                    THEN Dispose   \* "Rom server currently not supported"
                    ELSE \E ok \in Outcomes :
                            Provide(source, kind, label, ok /\ service.resource)
               [] kind = "Timer" ->
                    \E ok \in Outcomes : Provide(source, kind, label, ok)

\* Confirm and Reject of a server, for the client it names.
Process_Confirm(name, kind, label, fd) ==
    IF ~Find_Component_By_Name(name)
    THEN Dispose
    ELSE IF fd # NoFd
         THEN /\ Send_Confirm(name, kind, label, fd)
              /\ UNCHANGED <<serv, nextId, req>>
         ELSE Send_Reject(name, kind, label)

Process_Reject(name, kind, label) ==
    IF Find_Component_By_Name(name)
    THEN Send_Reject(name, kind, label)
    ELSE Dispose

\* The server gets the service socket, which may hold requests already.
Process_Register(source, kind) ==
    \E ok \in Outcomes :
        IF kind \in serv[source] \/ ok
        THEN /\ Setup_Service(source, kind)
             /\ Send_Confirm(source, kind, EmptyLabel,
                             [id |-> 0, client |-> source, server |-> source,
                              kind |-> kind, label |-> EmptyLabel])
             /\ UNCHANGED <<nextId, req>>
        ELSE Send_Reject(source, kind, EmptyLabel)

\* A label has at most 255 characters, so the limit on requests never bites.
Handle_Message(source, msg) ==
    LET fits == NameLen[msg.name] + LabelLen[msg.label] < AnswerLimit
    IN  CASE msg.action = "Request"  -> Process_Request(source, msg.kind, msg.label)
          [] msg.action = "Register" -> Process_Register(source, msg.kind)
          [] msg.action = "Confirm"  ->
                IF fits THEN Process_Confirm(msg.name, msg.kind, msg.label, msg.fd)
                        ELSE Dispose
          [] msg.action = "Reject"   ->
                IF fits THEN Process_Reject(msg.name, msg.kind, msg.label)
                        ELSE Dispose

-----------------------------------------------------------------------------
(* Gneiss.Broker.Main.Event_Loop: one descriptor per turn.                 *)

\* A component's socket is readable and the component is alive.
Read_Message(c) ==
    /\ fdValid[c]
    /\ status[c] # "exited"
    /\ up[c] # <<>>
    /\ Handle_Message(c, Head(up[c]))
    /\ up' = [up EXCEPT ![c] = Tail(@)]
    /\ UNCHANGED <<fdValid, dispVars, procVars, ans>>

\* A component's socket has hung up: one message that is still there is
\* handled, then the socket is closed, with whatever else it holds.  Its
\* service sockets stay open and watched.
Hang_Up(c) ==
    /\ fdValid[c]
    /\ status[c] = "exited"
    /\ IF up[c] # <<>> THEN Handle_Message(c, Head(up[c])) ELSE Dispose
    /\ up' = [up EXCEPT ![c] = <<>>]
    /\ fdValid' = [fdValid EXCEPT ![c] = FALSE]
    /\ UNCHANGED <<dispVars, procVars, ans>>

\* A server's answer.  Once the server's own socket is closed the answer is
\* left in the service socket ("Invalid index") and the loop spins on it.
Read_Service(c, kind) ==
    /\ fdValid[c]
    /\ kind \in serv[c]
    /\ ans[c][kind] # <<>>
    /\ Handle_Message(c, Head(ans[c][kind]))
    /\ ans' = [ans EXCEPT ![c][kind] = Tail(@)]
    /\ UNCHANGED <<fdValid, dispVars, procVars, up>>

-----------------------------------------------------------------------------
(* A component.  It is one thread: while it is blocked in a call it does   *)
(* nothing else, events are delivered once Construct has returned, and one *)
(* at a time.                                                              *)

Active(c) == status[c] # "exited" /\ call[c] = NoCall

\* <Kind>.Client.Initialize up to its blocking receive.
Initialize(c, kind, label) ==
    /\ Active(c)
    /\ calls[c] < MaxCalls[c]
    /\ calls' = [calls EXCEPT ![c] = @ + 1]
    /\ call' = [call EXCEPT ![c] = [action |-> "Request", kind |-> kind, label |-> label]]
    /\ up' = [up EXCEPT ![c] = Send(@, Packet("Request", kind, c, label, NoFd))]
    /\ UNCHANGED <<brokerVars, dispVars, status, clientS, down, req, ans>>

\* Mutant: the descriptor of the answer is not tested.
Initialized_Unchecked(c) ==
    /\ status[c] # "exited"
    /\ call[c] # NoCall
    /\ call[c].action = "Request"
    /\ down[c] # <<>>
    /\ clientS' = [clientS EXCEPT ![c] = @ \cup {Head(down[c]).fd}]
    /\ down' = [down EXCEPT ![c] = Tail(@)]
    /\ call' = [call EXCEPT ![c] = NoCall]
    /\ UNCHANGED <<brokerVars, dispVars, status, calls, up, req, ans>>

\* Mutant: the call returns without a session when no answer is there yet.
Initialized_TimesOut(c) ==
    /\ status[c] # "exited"
    /\ call[c] # NoCall
    /\ call[c].action = "Request"
    /\ IF down[c] = <<>>
       THEN UNCHANGED <<clientS, down>>
       ELSE /\ clientS' = [clientS EXCEPT ![c] = @ \cup ({Head(down[c]).fd} \ {NoFd})]
            /\ down' = [down EXCEPT ![c] = Tail(@)]
    /\ call' = [call EXCEPT ![c] = NoCall]
    /\ UNCHANGED <<brokerVars, dispVars, status, calls, up, req, ans>>

\* The rest of Initialize: of the answer only the kind and the descriptor
\* are looked at.  Adding a Message or Timer session to epoll, or mapping a
\* Rom, can still fail and gives the session up.
Initialized(c) ==
    /\ status[c] # "exited"
    /\ call[c] # NoCall
    /\ call[c].action = "Request"
    /\ down[c] # <<>>
    /\ LET msg == Head(down[c])
       IN  \E ok \in IF call[c].kind \in {"Log", "Memory"} THEN {TRUE} ELSE Outcomes :
              clientS' = IF msg.kind = call[c].kind /\ msg.fd # NoFd /\ ok
                         THEN [clientS EXCEPT ![c] = @ \cup {msg.fd}]
                         ELSE clientS
    /\ down' = [down EXCEPT ![c] = Tail(@)]
    /\ call' = [call EXCEPT ![c] = NoCall]
    /\ UNCHANGED <<brokerVars, dispVars, status, calls, up, req, ans>>

\* <Kind>.Client.Finalize
Finalize(c, end) ==
    /\ Active(c)
    /\ end \in clientS[c]
    /\ clientS' = [clientS EXCEPT ![c] = @ \ {end}]
    /\ UNCHANGED <<brokerVars, dispVars, status, call, calls, sockVars>>

\* <Kind>.Dispatcher.Register up to its blocking receive.
Register(c, kind) ==
    /\ Active(c)
    /\ disp[c][kind] = "none"
    /\ call' = [call EXCEPT ![c] = [action |-> "Register", kind |-> kind,
                                    label |-> EmptyLabel]]
    /\ up' = [up EXCEPT ![c] = Send(@, Packet("Register", kind, c, EmptyLabel, NoFd))]
    /\ UNCHANGED <<brokerVars, dispVars, status, calls, clientS, down, req, ans>>

\* The rest of Register.  A failure to add the descriptor to epoll is
\* ignored: the dispatcher is registered but will hear of nothing.
Registered(c) ==
    /\ status[c] # "exited"
    /\ call[c] # NoCall
    /\ call[c].action = "Register"
    /\ down[c] # <<>>
    /\ LET msg  == Head(down[c])
           kind == call[c].kind
       IN  \E ok \in Outcomes :
              disp' = IF msg.fd # NoFd /\ msg.kind = kind
                      THEN [disp EXCEPT ![c][kind] = IF ok THEN "armed" ELSE "deaf"]
                      ELSE disp
    /\ down' = [down EXCEPT ![c] = Tail(@)]
    /\ call' = [call EXCEPT ![c] = NoCall]
    /\ UNCHANGED <<brokerVars, status, calls, clientS, cur, accepted, serverS, up, req, ans>>

\* Construct returns and Gneiss.Main.Run enters its loop.
Construct_Return(c) ==
    /\ Active(c)
    /\ status[c] = "construct"
    /\ status' = [status EXCEPT ![c] = "loop"]
    /\ UNCHANGED <<brokerVars, dispVars, call, calls, clientS, sockVars>>

\* Dispatch_Event on Dispatch_Fd, up to the call of the user's Dispatch.
Dispatch_Event(c, kind) ==
    /\ Active(c)
    /\ status[c] = "loop"
    /\ cur[c] = NoMsg
    /\ disp[c][kind] = "armed"
    /\ req[c][kind] # <<>>
    /\ cur' = [cur EXCEPT ![c] =
                 LET msg == Head(req[c][kind])
                 IN  [msg EXCEPT !.kind = kind,
                                 !.fd = IF msg.kind = kind THEN @ ELSE NoFd]]
    /\ accepted' = [accepted EXCEPT ![c] = FALSE]
    /\ req' = [req EXCEPT ![c][kind] = Tail(@)]
    /\ UNCHANGED <<brokerVars, procVars, disp, serverS, up, down, ans>>

\* Mutant: the server confirms a session it does not keep.
Session_Accept_NotKept(c) ==
    /\ Active(c)
    /\ cur[c] # NoMsg
    /\ cur[c].fd # NoFd
    /\ ~accepted[c]
    /\ ans' = [ans EXCEPT ![c][cur[c].kind] =
                 Send(@, Packet("Confirm", cur[c].kind, cur[c].name, cur[c].label, cur[c].fd))]
    /\ accepted' = [accepted EXCEPT ![c] = TRUE]
    /\ UNCHANGED <<brokerVars, procVars, disp, cur, serverS, up, down, req>>

\* Session_Initialize and Session_Accept, called by the user's Dispatch on
\* a valid session request.
Session_Accept(c) ==
    /\ Active(c)
    /\ cur[c] # NoMsg
    /\ cur[c].fd # NoFd
    /\ ~accepted[c]
    /\ serverS' = [serverS EXCEPT ![c] = @ \cup {cur[c].fd}]
    /\ ans' = [ans EXCEPT ![c][cur[c].kind] =
                 Send(@, Packet("Confirm", cur[c].kind, cur[c].name, cur[c].label, cur[c].fd))]
    /\ accepted' = [accepted EXCEPT ![c] = TRUE]
    /\ UNCHANGED <<brokerVars, procVars, disp, cur, up, down, req>>

\* Mutant: every request is rejected after Dispatch, an accepted one too.
Dispatch_Return_RejectsAll(c) ==
    /\ Active(c)
    /\ cur[c] # NoMsg
    /\ ans' = [ans EXCEPT ![c][cur[c].kind] =
                 Send(@, Packet("Reject", cur[c].kind, cur[c].name, cur[c].label, NoFd))]
    /\ cur' = [cur EXCEPT ![c] = NoMsg]
    /\ UNCHANGED <<brokerVars, procVars, disp, accepted, serverS, up, down, req>>

\* Mutant: a request that was not accepted gets no answer.
Dispatch_Return_Silent(c) ==
    /\ Active(c)
    /\ cur[c] # NoMsg
    /\ cur' = [cur EXCEPT ![c] = NoMsg]
    /\ UNCHANGED <<brokerVars, procVars, disp, accepted, serverS, sockVars>>

\* The user's Dispatch returns; a request it did not accept is rejected.
Dispatch_Return(c) ==
    /\ Active(c)
    /\ cur[c] # NoMsg
    /\ ans' = IF accepted[c]
              THEN ans
              ELSE [ans EXCEPT ![c][cur[c].kind] =
                      Send(@, Packet("Reject", cur[c].kind, cur[c].name, cur[c].label, NoFd))]
    /\ cur' = [cur EXCEPT ![c] = NoMsg]
    /\ UNCHANGED <<brokerVars, procVars, disp, accepted, serverS, up, down, req>>

\* The process ends, at its own wish (Vacate, Destruct) or not.  The kernel
\* closes its descriptors.  What it sent can still be read, and what waits
\* in its service sockets stays there, for the broker holds both ends.  The
\* call it was blocked in is kept, to say whose the pending messages are.
Exit(c) ==
    /\ c \in MayExit
    /\ status[c] # "exited"
    /\ status' = [status EXCEPT ![c] = "exited"]
    /\ down' = [down EXCEPT ![c] = <<>>]
    /\ disp' = [disp EXCEPT ![c] = [k \in ServerKinds |-> "none"]]
    /\ cur' = [cur EXCEPT ![c] = NoMsg]
    /\ clientS' = [clientS EXCEPT ![c] = {}]
    /\ serverS' = [serverS EXCEPT ![c] = {}]
    /\ UNCHANGED <<brokerVars, call, calls, accepted, up, req, ans>>

-----------------------------------------------------------------------------
\* Start_Components has forked every component before Event_Loop begins.
Init ==
    /\ fdValid  = [c \in Components |-> TRUE]
    /\ serv     = [c \in Components |-> {}]
    /\ nextId   = 0
    /\ status   = [c \in Components |-> "construct"]
    /\ call     = [c \in Components |-> NoCall]
    /\ calls    = [c \in Components |-> 0]
    /\ disp     = [c \in Components |-> [k \in ServerKinds |-> "none"]]
    /\ cur      = [c \in Components |-> NoMsg]
    /\ accepted = [c \in Components |-> FALSE]
    /\ clientS  = [c \in Components |-> {}]
    /\ serverS  = [c \in Components |-> {}]
    /\ up       = [c \in Components |-> <<>>]
    /\ down     = [c \in Components |-> <<>>]
    /\ req      = [c \in Components |-> [k \in ServerKinds |-> <<>>]]
    /\ ans      = [c \in Components |-> [k \in ServerKinds |-> <<>>]]

Next ==
    \E c \in Components :
        \/ Read_Message(c)
        \/ Hang_Up(c)
        \/ \E kind \in ServerKinds : Read_Service(c, kind)
        \/ \E kind \in Kinds, label \in Labels : Initialize(c, kind, label)
        \/ Initialized(c)
        \/ \E end \in clientS[c] : Finalize(c, end)
        \/ \E kind \in ServerKinds : Register(c, kind)
        \/ Registered(c)
        \/ Construct_Return(c)
        \/ \E kind \in ServerKinds : Dispatch_Event(c, kind)
        \/ Session_Accept(c)
        \/ Dispatch_Return(c)
        \/ Exit(c)

Spec == Init /\ [][Next]_vars

-----------------------------------------------------------------------------
(* Fairness.  The broker loops for ever and epoll is level triggered and   *)
(* returns ready descriptors in turn, so an event that stays pending is    *)
(* handled; a process that can run runs.  Of the user's code it is assumed *)
(* that Construct and Dispatch return and that a component which the       *)
(* configuration names as a server registers.                              *)

ServedKinds(c) ==
    {k \in ServerKinds : \E d \in Components : \E i \in DOMAIN Services[d] :
                            Services[d][i].kind = k /\ Services[d][i].server = c}

Fairness ==
    \A c \in Components :
        /\ WF_vars(Read_Message(c))
        /\ WF_vars(Hang_Up(c))
        /\ \A kind \in ServerKinds : WF_vars(Read_Service(c, kind))
        /\ WF_vars(Initialized(c))
        /\ WF_vars(Registered(c))
        /\ WF_vars(Construct_Return(c))
        /\ \A kind \in ServerKinds : WF_vars(Dispatch_Event(c, kind))
        /\ WF_vars(Dispatch_Return(c))
        /\ \A kind \in ServedKinds(c) : WF_vars(Register(c, kind))

LiveSpec == Spec /\ Fairness

-----------------------------------------------------------------------------
(* Properties                                                              *)

\* Every variable has the type its declaration in the code gives it.
TypeOK ==
    /\ fdValid  \in [Components -> BOOLEAN]
    /\ serv     \in [Components -> SUBSET ServerKinds]
    /\ nextId   \in Nat
    /\ status   \in [Components -> {"construct", "loop", "exited"}]
    /\ call     \in [Components -> Calls \cup {NoCall}]
    /\ calls    \in [Components -> Nat]
    /\ disp     \in [Components -> [ServerKinds -> {"none", "armed", "deaf"}]]
    /\ cur      \in [Components -> Msgs \cup {NoMsg}]
    /\ accepted \in [Components -> BOOLEAN]
    /\ clientS  \in [Components -> SUBSET Ends]
    /\ serverS  \in [Components -> SUBSET Ends]
    /\ up       \in [Components -> Seq(Msgs)]
    /\ down     \in [Components -> Seq(Msgs)]
    /\ req      \in [Components -> [ServerKinds -> Seq(Msgs)]]
    /\ ans      \in [Components -> [ServerKinds -> Seq(Msgs)]]

\* The server the configuration gives component c for a session; NoServer
\* when it is the core itself, or when there is none.
ServerOf(c, kind, label) ==
    LET i == Match_Service(c, kind, label)
    IN  IF i = 0 THEN NoServer ELSE Services[c][i].server

\* The places where a message about c's pending call can be: c's own socket,
\* a service socket, the hands of a dispatcher that has not answered yet.
UpPlaces(c)   == {<<"up", c, "Broker", i>> : i \in DOMAIN up[c]}
DownPlaces(c) == {<<"down", c, "Broker", i>> : i \in DOMAIN down[c]}
CurPlaces(c)  == {<<"cur", s, cur[s].kind, 1>> :
                    s \in {t \in Components : /\ cur[t] # NoMsg
                                              /\ cur[t].name = c
                                              /\ ~accepted[t]}}
ReqPlaces(c)  == UNION {{<<"req", s, k, i>> : i \in {j \in DOMAIN req[s][k] : req[s][k][j].name = c}}
                          : s \in Components, k \in ServerKinds}
AnsPlaces(c)  == UNION {{<<"ans", s, k, i>> : i \in {j \in DOMAIN ans[s][k] : ans[s][k][j].name = c}}
                          : s \in Components, k \in ServerKinds}
Places(c) == UpPlaces(c) \cup DownPlaces(c) \cup CurPlaces(c) \cup ReqPlaces(c) \cup AnsPlaces(c)

\* A blocked client has at most one message of its call under way, be it the
\* request, the request at the server or an answer; a client that is not
\* blocked has none.  Initialize and Register take the next packet on the
\* socket for their answer and look at nothing but its kind, so one answer
\* too many would be taken for the answer to a later call.
OneAnswerPerCall ==
    \A c \in Components :
        /\ call[c] = NoCall => Places(c) = {}
        /\ \A p, q \in Places(c) : p = q

\* A client session belongs to the component that asked for it, and a node
\* of the configuration says so: one of this kind and label, or one without
\* a label while no other has this label.  It leads to the server of that
\* node, or to the core for a Rom or a Timer.
SessionsAsConfigured ==
    \A c \in Components : \A end \in clientS[c] :
        /\ end.client = c
        /\ \E i \in DOMAIN Services[c] :
              LET node == Services[c][i]
              IN  /\ node.kind = end.kind
                  /\ \/ node.label = end.label
                     \/ /\ node.label = NoLabel
                        /\ ExactMatches(c, end.kind, end.label) = {}
                  /\ end.server = IF end.kind \in ServerKinds THEN node.server ELSE NoServer
        /\ end.kind \in ServerKinds => end.server \in Components

\* Whoever holds the client end of a session to another component can rely
\* on that component having accepted it and holding the server end, as long
\* as it lives.
SessionsServed ==
    \A c \in Components : \A end \in clientS[c] :
        end.server \in Components =>
            end \in serverS[end.server] \/ status[end.server] = "exited"

\* A service socket never holds more requests, or more answers, than there
\* are components blocked on this server (or that died so), so none is lost
\* to a full socket while there are no more components than it has room for.
SocketsBounded ==
    \A s \in Components, k \in ServerKinds :
        LET clients == {c \in Components : /\ call[c] # NoCall
                                           /\ call[c].kind = k
                                           /\ ServerOf(c, k, call[c].label) = s}
        IN  \/ req[s][k] = <<>> /\ ans[s][k] = <<>>
            \/ Len(req[s][k]) + Len(ans[s][k]) <= Cardinality(clients)

\* What a client gets out of a call is the session it asked for in that
\* call: same client, kind and label, and an end that was never its own
\* before.
GrantMatchesCall ==
    [][\A c \in Components : \A end \in clientS'[c] \ clientS[c] :
          /\ call[c] # NoCall
          /\ call[c].action = "Request"
          /\ end.client = c
          /\ end.kind = call[c].kind
          /\ end.label = call[c].label]_vars

\* Initialize and Register return, be it without success: of Initialize the
\* repository's README says "Since the initialization can fail it checks
\* again if it succeeded".
EveryCallReturns ==
    \A c \in Components :
        (call[c] # NoCall /\ status[c] # "exited")
            ~> (call[c] = NoCall \/ status[c] = "exited")

\* The broker, the sockets and the library calls together implement the
\* session service: what a client is given is what it asked for, it is given
\* at most once per call, and only after the server has taken up its end.
SS == INSTANCE SessionService WITH
    alive <- {c \in Components : status[c] # "exited"},
    asked <- call,
    open  <- clientS,
    held  <- serverS,
    Route <- [p \in Components \X Kinds \X Labels |-> ServerOf(p[1], p[2], p[3])]

ImplementsSessionService == SS!Spec
=============================================================================
