-------------------------- MODULE EventLoopProofs --------------------------
(***************************************************************************)
(* Proofs about EventLoop, for any number of sessions, descriptors and     *)
(* sockets, with any of the epoll_ctl calls failing: the state keeps its   *)
(* type, and epoll has no registration of a session that is over.          *)
(*                                                                         *)
(* RegistrationsLive alone is not inductive: a new session must not get a  *)
(* descriptor number or a socket that another session still has, so the    *)
(* descriptors of the sessions have to be known to be open, and to be the  *)
(* sockets that were made for these sessions (DescriptorsLive).            *)
(***************************************************************************)
EXTENDS EventLoop, TLAPS

\* The descriptor of a session is the one in its capability; it is open, and
\* what is open there is a socket made for this session.
DescriptorsLive ==
    \A s \in Sessions :
       /\ session[s].cap = session[s].fd
       /\ session[s].fd # None =>
             fd[session[s].fd] # None /\ chan[fd[session[s].fd]].of = s

\* Nothing is there to read that was not sent.
InWasSent == \A d \in Chans : chan[d].in <= chan[d].sent

IInv == TypeOK /\ RegistrationsLive /\ DescriptorsLive /\ InWasSent

-----------------------------------------------------------------------------
\* The initial state has no sessions and no registrations.
LEMMA InitIInv == Init => IInv
BY LoopAssumption
DEF Init, IInv, TypeOK, RegistrationsLive, DescriptorsLive, InWasSent, None,
    Client_Session, Event_Cap

\* The constants are numbers, and none of them is None.
LEMMA Constants ==
    /\ None \notin Sessions /\ None \notin Chans /\ None \notin Fds
    /\ Limit \in Nat
BY LoopAssumption DEF None

-----------------------------------------------------------------------------
\* Initialize takes a free number and a new socket: what it registers is its
\* own, and no other session has either of them (gneiss_epoll_add).
LEMMA InitializeIInv ==
    ASSUME IInv, NEW s \in Sessions, Initialize(s)
    PROVE  IInv'
<1>1. PICK n \in Fds, d \in Chans, added \in BOOLEAN :
          /\ fd[n] = None
          /\ chan[d].of = None
          /\ chan' = [chan EXCEPT ![d].of = s]
          /\ fd' = IF Added(s, added) THEN [fd EXCEPT ![n] = d] ELSE fd
          /\ session' = IF Added(s, added) THEN [session EXCEPT ![s] = [fd |-> n, cap |-> n]]
                        ELSE session
          /\ epoll_add(n, d, s, added)
    BY DEF Initialize
<1>2. UNCHANGED <<status, efd, broker>> /\ session[s].fd = None
    BY DEF Initialize
<1>3. added => Added(s, added)
    BY DEF Added
<1>4. chan'[d].of = s /\ \A e \in Chans \ {d} : chan'[e] = chan[e]
    BY <1>1 DEF IInv, TypeOK
<1>5. \A e \in regs : e \in Event_Cap /\ e.chan # d /\ e.fd # n /\ e.ptr # s
    BY <1>1, <1>2, Constants DEF IInv, TypeOK, RegistrationsLive, Event_Cap, Initialized
<1>6. TypeOK'
    BY <1>1, <1>2 DEF IInv, TypeOK, epoll_add, Event_Cap, Client_Session
<1>7. InWasSent'
    BY <1>1 DEF IInv, TypeOK, InWasSent
<1>8. ASSUME NEW t \in Sessions
      PROVE  /\ session'[t].cap = session'[t].fd
             /\ session'[t].fd # None =>
                   fd'[session'[t].fd] # None /\ chan'[fd'[session'[t].fd]].of = t
    <2>1. CASE Added(s, added) /\ t = s
        <3>1. session'[t].fd = n /\ session'[t].cap = n /\ fd'[n] = d
            BY <1>1, <2>1 DEF IInv, TypeOK
        <3> QED BY <3>1, <1>4, <2>1, Constants
    <2>2. CASE ~(Added(s, added) /\ t = s)
        <3>1. session'[t] = session[t]
            BY <1>1, <2>2 DEF IInv, TypeOK
        <3>2. session[t].fd # None => session[t].fd \in Fds /\ session[t].fd # n
            BY <1>1 DEF IInv, TypeOK, DescriptorsLive, Client_Session
        <3>3. session[t].fd # None => fd'[session[t].fd] = fd[session[t].fd]
            BY <1>1, <3>2 DEF IInv, TypeOK
        <3>4. session[t].fd # None => fd[session[t].fd] \in Chans \ {d}
            BY <1>1, <3>2, Constants DEF IInv, TypeOK, DescriptorsLive
        <3> QED BY <3>1, <3>3, <3>4, <1>4 DEF IInv, DescriptorsLive
    <2> QED BY <2>1, <2>2
<1>9. ASSUME NEW e \in regs'
      PROVE  /\ Initialized(e.ptr)' /\ session'[e.ptr].fd = e.fd /\ session'[e.ptr].cap = e.fd
             /\ fd'[e.fd] = e.chan /\ chan'[e.chan].of = e.ptr
    <2>1. CASE e \in regs
        <3>1. e.ptr \in Sessions \ {s} /\ e.fd \in Fds \ {n} /\ e.chan \in Chans \ {d}
            BY <2>1, <1>5 DEF Event_Cap
        <3>2. session'[e.ptr] = session[e.ptr] /\ fd'[e.fd] = fd[e.fd]
            BY <1>1, <3>1 DEF IInv, TypeOK
        <3> QED BY <2>1, <3>1, <3>2, <1>4 DEF IInv, RegistrationsLive, Initialized
    <2>2. CASE e \notin regs
        <3>1. added /\ e = [fd |-> n, chan |-> d, ptr |-> s]
            BY <1>1, <2>2 DEF epoll_add
        <3>2. session'[s] = [fd |-> n, cap |-> n] /\ fd'[n] = d
            BY <1>1, <1>3, <3>1 DEF IInv, TypeOK
        <3> QED BY <3>1, <3>2, <1>4, Constants DEF Initialized
    <2> QED BY <2>1, <2>2
<1>10. DescriptorsLive'
    BY <1>8 DEF DescriptorsLive
<1>11. RegistrationsLive'
    BY <1>9 DEF RegistrationsLive
<1> QED BY <1>6, <1>7, <1>10, <1>11 DEF IInv

\* Close takes the registration away before the descriptor, and leaves those
\* of other sessions alone (gneiss_epoll_remove, gneiss_close).
LEMMA CloseIInv ==
    ASSUME IInv, NEW s \in Sessions, session[s].fd # None, Close(s),
           UNCHANGED <<status, efd, chan, broker>>
    PROVE  IInv'
<1> DEFINE n == session[s].fd
<1>1. n \in Fds /\ fd[n] # None /\ chan[fd[n]].of = s
    BY DEF IInv, TypeOK, DescriptorsLive, Client_Session
<1>2. /\ regs' = {e \in regs : ~(e.fd = n /\ e.chan = fd[n])}
      /\ fd' = [fd EXCEPT ![n] = None]
      /\ session' = [session EXCEPT ![s] = [fd |-> None, cap |-> None]]
    BY DEF Close, Remove, gneiss_close
<1> HIDE DEF n
<1>3. TypeOK'
    BY <1>1, <1>2 DEF IInv, TypeOK, Client_Session
<1>4. ASSUME NEW t \in Sessions
      PROVE  /\ session'[t].cap = session'[t].fd
             /\ session'[t].fd # None =>
                   fd'[session'[t].fd] # None /\ chan'[fd'[session'[t].fd]].of = t
    <2>1. CASE t = s
        BY <1>2, <2>1 DEF IInv, TypeOK
    <2>2. CASE t # s
        <3>1. session'[t] = session[t]
            BY <1>2, <2>2 DEF IInv, TypeOK
        <3>2. session[t].fd # None => session[t].fd \in Fds /\ session[t].fd # n
            BY <1>1, <2>2 DEF IInv, TypeOK, DescriptorsLive, Client_Session
        <3>3. session[t].fd # None => fd'[session[t].fd] = fd[session[t].fd]
            BY <1>2, <3>2 DEF IInv, TypeOK
        <3> QED BY <3>1, <3>3 DEF IInv, DescriptorsLive
    <2> QED BY <2>1, <2>2
<1>5. ASSUME NEW e \in regs'
      PROVE  /\ Initialized(e.ptr)' /\ session'[e.ptr].fd = e.fd /\ session'[e.ptr].cap = e.fd
             /\ fd'[e.fd] = e.chan /\ chan'[e.chan].of = e.ptr
    <2>1. e \in regs /\ e \in Event_Cap /\ ~(e.fd = n /\ e.chan = fd[n])
        BY <1>2 DEF IInv, TypeOK
    <2>2. e.fd # n /\ e.ptr # s
        BY <2>1 DEF IInv, RegistrationsLive, n
    <2>3. session'[e.ptr] = session[e.ptr] /\ fd'[e.fd] = fd[e.fd]
        BY <1>2, <2>1, <2>2 DEF IInv, TypeOK, Event_Cap
    <2> QED BY <2>1, <2>3 DEF IInv, RegistrationsLive, Initialized
<1>6. DescriptorsLive' /\ RegistrationsLive'
    BY <1>4, <1>5 DEF DescriptorsLive, RegistrationsLive
<1> QED BY <1>3, <1>6 DEF IInv, InWasSent

\* Steps that change no more than what sockets hold, and whether they hang up.
LEMMA ChanIInv ==
    ASSUME IInv, UNCHANGED <<fd, session>>, regs' \subseteq regs,
           status' \in {"running", "vacated"}, efd' \in BOOLEAN, broker' \in BOOLEAN,
           chan' \in [Chans -> [of: Sessions \cup {None}, sent: 0..Limit, in: 0..Limit,
                                hup: BOOLEAN]],
           \A d \in Chans : chan'[d].of = chan[d].of /\ chan'[d].in <= chan'[d].sent
    PROVE  IInv'
<1>1. TypeOK' /\ InWasSent'
    BY DEF IInv, TypeOK, InWasSent
<1>2. \A s \in Sessions : session[s].fd # None => fd[session[s].fd] \in Chans
    BY DEF IInv, TypeOK, DescriptorsLive, Client_Session
<1>3. DescriptorsLive'
    BY <1>2 DEF IInv, DescriptorsLive
<1>4. \A e \in regs' : e \in regs /\ e.chan \in Chans
    BY DEF IInv, TypeOK, Event_Cap
<1>5. RegistrationsLive'
    BY <1>4 DEF IInv, RegistrationsLive, Initialized
<1> QED BY <1>1, <1>3, <1>5 DEF IInv

\* A handler reads from the socket that had something to read, or ends the
\* session that hung up (Event_Handler, Get_Type).
LEMMA Event_HandlerIInv ==
    ASSUME IInv, NEW e \in regs, Event_Handler(e)
    PROVE  IInv'
<1>1. e.ptr \in Sessions /\ e.chan \in Chans /\ session[e.ptr].fd = e.fd /\ fd[e.fd] = e.chan
    BY DEF IInv, TypeOK, RegistrationsLive, Event_Cap
<1>2. session[e.ptr].fd # None
    BY DEF IInv, RegistrationsLive, Initialized
<1>3. UNCHANGED <<status, broker>> /\ Ready(e)
    BY DEF Event_Handler
<1>4. CASE Get_Type(e.chan) = "er"
    <2>1. Session_Error(e.ptr)
        BY <1>4 DEF Event_Handler
    <2>2. CASE UNCHANGED <<efd, fd, regs, session, chan>>
        BY <2>2, <1>3, ChanIInv DEF IInv, TypeOK, InWasSent
    <2>3. CASE Close(e.ptr) /\ UNCHANGED <<efd, chan>>
        BY <2>3, <1>1, <1>2, <1>3, CloseIInv
    <2>4. CASE /\ regs' = Remove(session[e.ptr].fd)
               /\ efd' = (efd /\ e.ptr \notin LogDispatchers)
               /\ UNCHANGED <<fd, session, chan>>
        <3>1. regs' \subseteq regs
            BY <2>4 DEF Remove
        <3>2. efd' \in BOOLEAN
            BY <2>4
        <3> QED BY <3>1, <3>2, <2>4, <1>3, ChanIInv DEF IInv, TypeOK, InWasSent
    <2> QED BY <2>1, <2>2, <2>3, <2>4 DEF Session_Error
<1>5. CASE Get_Type(e.chan) # "er"
    <2>1. chan[e.chan].in > 0
        BY <1>3, <1>5 DEF Ready, Get_Type
    <2>2. /\ chan' = [chan EXCEPT ![e.chan].in = IF e.ptr \in Clients THEN 0 ELSE @ - 1]
          /\ UNCHANGED <<efd, fd, regs, session>>
        BY <1>1, <1>5 DEF Event_Handler, Session_Event, Channel
    <2>3. chan[e.chan].in \in 1..Limit /\ chan[e.chan].sent \in 0..Limit
        BY <2>1, <1>1, Constants DEF IInv, TypeOK
    <2>4. /\ chan' \in [Chans -> [of: Sessions \cup {None}, sent: 0..Limit, in: 0..Limit,
                                  hup: BOOLEAN]]
          /\ \A d \in Chans : chan'[d].of = chan[d].of /\ chan'[d].in <= chan'[d].sent
        BY <2>2, <2>3, <1>1, Constants DEF IInv, TypeOK, InWasSent
    <2> QED BY <2>2, <2>4, <1>3, ChanIInv DEF IInv, TypeOK
<1> QED BY <1>4, <1>5

\* The other processes send and hang up.
LEMMA PeersIInv ==
    ASSUME IInv, (\E d \in Chans : Arrive(d) \/ Hang_Up(d)) \/ Broker_Exit
    PROVE  IInv'
<1>1. ASSUME NEW d \in Chans, Arrive(d)
      PROVE  IInv'
    <2>1. chan[d].in \in 0..Limit /\ chan[d].sent \in 0..Limit /\ chan[d].in <= chan[d].sent
          /\ chan[d].sent < Limit
        BY <1>1 DEF IInv, TypeOK, InWasSent, Arrive
    <2>2. /\ chan' \in [Chans -> [of: Sessions \cup {None}, sent: 0..Limit, in: 0..Limit,
                                  hup: BOOLEAN]]
          /\ \A c \in Chans : chan'[c].of = chan[c].of /\ chan'[c].in <= chan'[c].sent
        BY <1>1, <2>1, Constants DEF IInv, TypeOK, InWasSent, Arrive
    <2> QED BY <1>1, <2>2, ChanIInv DEF IInv, TypeOK, Arrive
<1>2. ASSUME NEW d \in Chans, Hang_Up(d)
      PROVE  IInv'
    <2>1. /\ chan' \in [Chans -> [of: Sessions \cup {None}, sent: 0..Limit, in: 0..Limit,
                                  hup: BOOLEAN]]
          /\ \A c \in Chans : chan'[c].of = chan[c].of /\ chan'[c].in <= chan'[c].sent
        BY <1>2 DEF IInv, TypeOK, InWasSent, Hang_Up
    <2> QED BY <1>2, <2>1, ChanIInv DEF IInv, TypeOK, Hang_Up
<1>3. ASSUME Broker_Exit
      PROVE  IInv'
    <2>1. /\ chan' \in [Chans -> [of: Sessions \cup {None}, sent: 0..Limit, in: 0..Limit,
                                  hup: BOOLEAN]]
          /\ \A c \in Chans : chan'[c].of = chan[c].of /\ chan'[c].in <= chan'[c].sent
        BY <1>3 DEF IInv, TypeOK, InWasSent, Broker_Exit
    <2> QED BY <1>3, <2>1, ChanIInv DEF IInv, TypeOK, Broker_Exit
<1> QED BY <1>1, <1>2, <1>3

\* Every step of the component and of its peers keeps the invariant.
LEMMA NextIInv == IInv /\ [Next]_vars => IInv'
<1> SUFFICES ASSUME IInv, [Next]_vars
             PROVE  IInv'
    OBVIOUS
<1>1. ASSUME NEW s \in Sessions, Finalize(s)
      PROVE  IInv'
    BY <1>1, CloseIInv DEF Finalize, Initialized
<1>2. CASE Vacate
    BY <1>2, ChanIInv DEF Vacate, IInv, TypeOK, InWasSent
<1>3. CASE UNCHANGED vars
    BY <1>3, ChanIInv DEF vars, IInv, TypeOK, InWasSent
<1> QED BY <1>1, <1>2, <1>3, InitializeIInv, Event_HandlerIInv, PeersIInv DEF Next

-----------------------------------------------------------------------------
\* The inductive invariant: registrations, descriptors and sessions agree.
THEOREM LoopInvariance == Spec => []IInv
BY InitIInv, NextIInv, PTL DEF Spec

\* Every variable of the event loop keeps its type; in particular no handler
\* reads from a socket that has nothing to read (Session_Event).
THEOREM LoopTypes == Spec => []TypeOK
<1>1. IInv => TypeOK
    BY DEF IInv
<1> QED BY <1>1, LoopInvariance, PTL

\* epoll never holds a registration of a session that is over, so no event is
\* handled for a session it does not belong to (Event_Handler, Close).
THEOREM Registrations == Spec => []RegistrationsLive
<1>1. IInv => RegistrationsLive
    BY DEF IInv
<1> QED BY <1>1, LoopInvariance, PTL

=============================================================================
