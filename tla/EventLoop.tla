----------------------------- MODULE EventLoop ------------------------------
(***************************************************************************)
(* The event loop of a component on Linux: descriptors registered with     *)
(* epoll together with the address of an event capability, one event taken *)
(* at a time, and the handlers of Message clients, Message servers and the *)
(* Message and Log dispatchers.  From platform/linux/epoll.c,              *)
(* gneiss_internal-epoll.ads, gneiss_internal.adb, core/linux/             *)
(* gneiss-main.adb, message/linux/gneiss_message.c and the clients and     *)
(* dispatchers of Message and Log sessions.                                *)
(*                                                                         *)
(* Other processes hold copies of every descriptor (module Descriptors),   *)
(* so closing one does not end its registration.  A peer hangs up only     *)
(* once the broker has ended.  Of messages the model has their number.     *)
(***************************************************************************)
EXTENDS Naturals, FiniteSets

CONSTANTS
    Clients,             \* session variables of Message clients
    Servers,             \* of Message servers
    MessageDispatchers,  \* dispatchers of Message servers
    LogDispatchers,      \* dispatchers of Log servers
    Fds,                 \* descriptor numbers, 1 and up
    Chans,               \* sockets, each used for one session
    Limit                \* messages sent to one session

Sessions == Clients \cup Servers \cup MessageDispatchers \cup LogDispatchers

ASSUME LoopAssumption ==
    /\ Sessions \cup Chans \cup Fds \subseteq Nat \ {0}
    /\ Limit \in Nat

None == 0

VARIABLES
    status,    \* Component_Status
    efd,       \* the epoll descriptor is open
    fd,        \* n :> the socket open as descriptor n
    regs,      \* registrations with epoll: [fd, chan, ptr]
    session,   \* s :> [fd, cap]: its descriptor, the one in its capability
    chan,      \* d :> [of, sent, in, hup]: session, messages ever sent to it,
               \* messages to read, peer gone
    broker     \* the broker runs

vars == <<status, efd, fd, regs, session, chan, broker>>

Client_Session == [fd: Fds \cup {None}, cap: Fds \cup {None}]
Event_Cap == [fd: Fds, chan: Chans, ptr: Sessions]

Init ==
    /\ status = "running"
    /\ efd = TRUE
    /\ fd = [n \in Fds |-> None]
    /\ regs = {}
    /\ session = [s \in Sessions |-> [fd |-> None, cap |-> None]]
    /\ chan = [d \in Chans |-> [of |-> None, sent |-> 0, in |-> 0, hup |-> FALSE]]
    /\ broker = TRUE

Initialized(s) == session[s].fd # None /\ session[s].cap # None
Channel(s) == fd[session[s].fd]

\* epoll_ctl with EPOLL_CTL_ADD.
epoll_add(n, d, s, added) ==
    regs' = IF added THEN regs \cup {[fd |-> n, chan |-> d, ptr |-> s]} ELSE regs

gneiss_close(n) == fd' = [fd EXCEPT ![n] = None]

\* epoll_ctl with EPOLL_CTL_DEL, on the socket the number stands for.
Remove(n) == {e \in regs : ~(e.fd = n /\ e.chan = fd[n])}

\* Message clients check whether epoll took the descriptor.
Added(s, added) == added \/ s \notin Clients

\* A new socket from the broker, at the lowest free number, is registered,
\* which may fail.  A client then closes it again; servers and dispatchers
\* ignore it (Initialize, Session_Initialize and Session_Accept, Register).
Initialize(s) ==
    /\ status = "running" /\ broker /\ efd /\ session[s].fd = None
    /\ \E n \in Fds, d \in Chans, added \in BOOLEAN :
          /\ fd[n] = None /\ \A m \in Fds : fd[m] = None => n <= m
          /\ chan[d].of = None /\ \A e \in Chans : chan[e].of = None => d <= e
          /\ chan' = [chan EXCEPT ![d].of = s]
          /\ fd' = IF Added(s, added) THEN [fd EXCEPT ![n] = d] ELSE fd
          /\ session' = IF Added(s, added) THEN [session EXCEPT ![s] = [fd |-> n, cap |-> n]]
                        ELSE session
          /\ epoll_add(n, d, s, added)
    /\ UNCHANGED <<status, efd, broker>>

\* Mutant: the descriptor stays with epoll.
Close_Keeps(s) ==
    /\ UNCHANGED regs
    /\ gneiss_close(session[s].fd)
    /\ session' = [session EXCEPT ![s] = [fd |-> None, cap |-> None]]

\* Finalize of a client and Session_Cleanup of a server: Remove, Close, and
\* the capability is invalidated.
Close(s) ==
    /\ regs' = Remove(session[s].fd)
    /\ gneiss_close(session[s].fd)
    /\ session' = [session EXCEPT ![s] = [fd |-> None, cap |-> None]]

Finalize(s) ==
    /\ status = "running" /\ s \in Clients /\ Initialized(s)
    /\ Close(s)
    /\ UNCHANGED <<status, efd, chan, broker>>

\* Set_Status: the loop ends.
Vacate ==
    /\ status = "running"
    /\ status' = "vacated"
    /\ UNCHANGED <<efd, fd, regs, session, chan, broker>>

-----------------------------------------------------------------------------
(* Handlers                                                                *)

\* Mutant: a server reads on without asking whether there is a message.
Session_Event_Twice(s) ==
    /\ chan' = [chan EXCEPT ![Channel(s)].in = IF s \in Clients THEN 0 ELSE @ - 2]
    /\ UNCHANGED <<efd, fd, regs, session>>

\* Event of a Message client reads while there is something; a Message
\* server and the dispatchers read one message.
Session_Event(s) ==
    /\ chan' = [chan EXCEPT ![Channel(s)].in = IF s \in Clients THEN 0 ELSE @ - 1]
    /\ UNCHANGED <<efd, fd, regs, session>>

\* Nothing in a Message client; Dispatch with Session_Cleanup for a server;
\* Dispatch_Error of a dispatcher takes the socket from epoll, that of a Log
\* dispatcher closes epoll as well.
Session_Error(s) ==
    \/ s \in Clients /\ UNCHANGED <<efd, fd, regs, session, chan>>
    \/ s \in Servers /\ Close(s) /\ UNCHANGED <<efd, chan>>
    \/ /\ s \in MessageDispatchers \cup LogDispatchers
       /\ regs' = Remove(session[s].fd)
       /\ efd' = (efd /\ s \notin LogDispatchers)
       /\ UNCHANGED <<fd, session, chan>>

\* An event with input and hang-up is of type Epoll_Er.
Get_Type(d) == IF chan[d].hup THEN "er" ELSE "ev"

\* Mutant: input is not an event.
Ready_Hup(e) == chan[e.chan].hup

Ready(e) == chan[e.chan].in > 0 \/ chan[e.chan].hup

\* Wait and Call: the handler the capability at the address has.  One that
\* was invalidated has none to call.
Event_Handler(e) ==
    /\ status = "running" /\ efd /\ e \in regs /\ Ready(e)
    /\ session[e.ptr].cap # None
    /\ IF Get_Type(e.chan) = "er" THEN Session_Error(e.ptr) ELSE Session_Event(e.ptr)
    /\ UNCHANGED <<status, broker>>

-----------------------------------------------------------------------------
(* Other processes                                                         *)

\* The peer sends, or the broker a session request; at most Limit.
Arrive(d) ==
    /\ chan[d].of # None /\ ~chan[d].hup /\ chan[d].sent < Limit
    /\ chan' = [chan EXCEPT ![d].in = @ + 1, ![d].sent = @ + 1]
    /\ UNCHANGED <<status, efd, fd, regs, session, broker>>

\* The broker ends, the last copies of its sockets are gone.
Broker_Exit ==
    /\ broker
    /\ broker' = FALSE
    /\ chan' = [d \in Chans |->
          IF chan[d].of \in MessageDispatchers \cup LogDispatchers
          THEN [chan[d] EXCEPT !.hup = TRUE] ELSE chan[d]]
    /\ UNCHANGED <<status, efd, fd, regs, session>>

\* The peer of a session ends after the broker has.
Hang_Up(d) ==
    /\ ~broker /\ chan[d].of # None /\ ~chan[d].hup
    /\ chan' = [chan EXCEPT ![d].hup = TRUE]
    /\ UNCHANGED <<status, efd, fd, regs, session, broker>>

-----------------------------------------------------------------------------
Next ==
    \/ \E s \in Sessions : Initialize(s) \/ Finalize(s)
    \/ Vacate
    \/ \E e \in regs : Event_Handler(e)
    \/ \E d \in Chans : Arrive(d) \/ Hang_Up(d)
    \/ Broker_Exit

Spec == Init /\ [][Next]_vars

\* epoll takes ready descriptors in turn, so each one's handler gets called.
Fairness ==
    \A s \in Sessions : WF_vars(\E e \in regs : e.ptr = s /\ Event_Handler(e))

FairSpec == Spec /\ Fairness

-----------------------------------------------------------------------------
(* Properties                                                              *)

\* Every variable has its type (gneiss_internal-message.ads).
TypeOK ==
    /\ status \in {"running", "vacated"}
    /\ efd \in BOOLEAN
    /\ fd \in [Fds -> Chans \cup {None}]
    /\ regs \subseteq Event_Cap
    /\ session \in [Sessions -> Client_Session]
    /\ chan \in [Chans -> [of: Sessions \cup {None}, sent: 0..Limit, in: 0..Limit, hup: BOOLEAN]]
    /\ broker \in BOOLEAN

\* epoll has no registration of a session that is over: the address of each
\* is that of a session that is initialized, whose descriptor is the one
\* registered and still the same socket.  So no handler runs for another
\* session's event or through a capability that is gone (Finalize,
\* Session_Cleanup, Event_Handler).
RegistrationsLive ==
    \A e \in regs :
       Initialized(e.ptr) /\ session[e.ptr].fd = e.fd /\ session[e.ptr].cap = e.fd
       /\ fd[e.fd] = e.chan /\ chan[e.chan].of = e.ptr

\* What arrives for a session that epoll has is read by its handler, unless
\* the session is finalized or the component ends.  Input is lost in two ways
\* only: the peer hangs up before it is read, or a Log dispatcher has closed
\* epoll (Event_Handler, Get_Type, Dispatch_Error).
InputIsHandled ==
    \A s \in Sessions, d \in Chans :
       (/\ \E e \in regs : e.ptr = s /\ e.chan = d
        /\ chan[d].in > 0)
          ~> \/ chan[d].in = 0
             \/ status # "running"
             \/ chan[d].hup \/ ~efd
             \/ s \in Clients /\ (session[s].fd = None \/ Channel(s) # d)

=============================================================================
