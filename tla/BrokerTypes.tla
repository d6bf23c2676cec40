---------------------------- MODULE BrokerTypes -----------------------------
(***************************************************************************)
(* Type correctness of module Broker, for every configuration, every       *)
(* number of components and every limit of the sockets.                    *)
(***************************************************************************)
EXTENDS Broker, TLAPS, WellFoundedInduction

-----------------------------------------------------------------------------
(* Lookup                                                                  *)

\* A set of positions that is not empty has a first one,
LEMMA SetMin ==
    ASSUME NEW S \in SUBSET Nat, S # {}
    PROVE  \E i \in S : \A j \in S : i <= j
<1> DEFINE R == OpToRel(<, Nat)
<1>1. PICK x \in S : \A y \in S : ~(<<y, x>> \in R)
  <2> HIDE DEF R
  <2> QED BY NatLessThanWellFounded, WFMin DEF R
<1>2. \A y \in S : <<y, x>> \in Nat \X Nat
  OBVIOUS
<1>3. \A y \in S : ~(y < x)
  BY <1>1, <1>2 DEF OpToRel
<1> QED BY <1>3

\* and, being bounded, a last one.
LEMMA SetMax ==
    ASSUME NEW n \in Nat, NEW S \in SUBSET (1..n), S # {}
    PROVE  \E i \in S : \A j \in S : i >= j
<1> DEFINE T == {n - i : i \in S}
<1>1. T \subseteq Nat /\ T # {}
  <2>1. PICK e \in S : TRUE
    OBVIOUS
  <2>2. \A i \in S : n - i \in Nat
    OBVIOUS
  <2>3. n - e \in T
    BY <2>1
  <2> QED BY <2>2, <2>3
<1>2. PICK t \in T : \A u \in T : t <= u
  BY <1>1, SetMin
<1>3. PICK i \in S : t = n - i
  OBVIOUS
<1>4. \A j \in S : n - i <= n - j
  BY <1>2, <1>3
<1>5. \A j \in S : i >= j
  BY <1>4
<1> QED BY <1>5

\* Match_Service finds a node of the component, of the kind asked for, or
\* returns 0.  The node has the label asked for, or none while no other has
\* that label.
LEMMA MatchType ==
    ASSUME NEW comp \in Components, NEW kind \in Kinds, NEW label \in Labels,
           Match_Service(comp, kind, label) # 0
    PROVE  /\ Match_Service(comp, kind, label) \in DOMAIN Services[comp]
           /\ Services[comp][Match_Service(comp, kind, label)] \in Services_Type
           /\ Services[comp][Match_Service(comp, kind, label)].kind = kind
           /\ \/ Services[comp][Match_Service(comp, kind, label)].label = label
              \/ /\ Services[comp][Match_Service(comp, kind, label)].label = NoLabel
                 /\ ExactMatches(comp, kind, label) = {}
<1> DEFINE exact   == ExactMatches(comp, kind, label)
           default == DefaultMatches(comp, kind)
           i       == Match_Service(comp, kind, label)
           n       == Len(Services[comp])
<1>1. Services[comp] \in Seq(Services_Type)
  BY ServicesAssumption
<1>2. /\ n \in Nat
      /\ DOMAIN Services[comp] = 1..n
      /\ \A j \in 1..n : Services[comp][j] \in Services_Type
  BY <1>1
<1>3. exact \in SUBSET (1..n) /\ default \in SUBSET (1..n)
  BY <1>2 DEF ExactMatches, DefaultMatches
<1>4. exact \in SUBSET Nat /\ default \in SUBSET Nat
  BY <1>2, <1>3
<1> HIDE DEF exact, default
<1>5. CASE exact # {}
  <2>1. \E j \in exact : \A k \in exact : j <= k
    BY <1>4, <1>5, SetMin
  <2>2. i = CHOOSE j \in exact : \A k \in exact : j <= k
    BY <1>5 DEF Match_Service, exact
  <2>3. i \in exact
    BY <2>1, <2>2
  <2>4. i \in 1..n
    BY <2>3, <1>3
  <2>6. Services[comp][i].kind = kind /\ Services[comp][i].label = label
    <3> HIDE DEF i
    <3> QED BY <2>3 DEF exact, ExactMatches
  <2> HIDE DEF i, n
  <2>5. i \in DOMAIN Services[comp] /\ Services[comp][i] \in Services_Type
    BY <2>4, <1>2
  <2> QED BY <2>5, <2>6 DEF i
<1>6. CASE exact = {} /\ default # {}
  <2> HIDE DEF n
  <2>1. \E j \in default : \A k \in default : j >= k
    BY <1>2, <1>3, <1>6, SetMax
  <2>2. i = CHOOSE j \in default : \A k \in default : j >= k
    BY <1>6 DEF Match_Service, exact, default
  <2>3. i \in default
    BY <2>1, <2>2
  <2>4. i \in 1..n
    BY <2>3, <1>3
  <2> HIDE DEF i
  <2>5. i \in DOMAIN Services[comp] /\ Services[comp][i] \in Services_Type
    BY <2>4, <1>2
  <2>6. Services[comp][i].kind = kind /\ Services[comp][i].label = NoLabel
    BY <2>3 DEF default, DefaultMatches
  <2>7. ExactMatches(comp, kind, label) = {}
    BY <1>6 DEF exact
  <2> QED BY <2>5, <2>6, <2>7 DEF i
<1>7. CASE exact = {} /\ default = {}
  BY <1>7 DEF Match_Service, exact, default
<1> QED BY <1>5, <1>6, <1>7

-----------------------------------------------------------------------------
(* Types                                                                   *)

\* A packet made of values of the right types is a message.
LEMMA PacketType ==
    ASSUME NEW action \in {"Request", "Confirm", "Reject", "Register"},
           NEW kind \in Kinds, NEW name \in Components, NEW label \in Labels,
           NEW fd \in Ends \cup {NoFd},
           action = "Register" => kind \in ServerKinds
    PROVE  Packet(action, kind, name, label, fd) \in Msgs
BY DEF Packet, Msgs

\* Sending keeps a queue a queue of messages.
LEMMA SendType ==
    ASSUME NEW queue \in Seq(Msgs), NEW msg \in Msgs
    PROVE  Send(queue, msg) \in Seq(Msgs)
BY DEF Send

\* Replacing the value at one key of one component, or at no key.
LEMMA ExceptType ==
    ASSUME NEW T, NEW f \in [Components -> [ServerKinds -> T]],
           NEW c \in Components, NEW k, NEW v,
           k \in ServerKinds => v \in T
    PROVE  [f EXCEPT ![c][k] = v] \in [Components -> [ServerKinds -> T]]
<1>1. [f[c] EXCEPT ![k] = v] \in [ServerKinds -> T]
  OBVIOUS
<1> QED BY <1>1

\* What an event of the broker changes keeps its type: Handle_Message in all
\* its branches.
LEMMA HandleType ==
    ASSUME TypeOK, NEW source \in Components, NEW msg \in Msgs,
           Handle_Message(source, msg)
    PROVE  /\ serv'   \in [Components -> SUBSET ServerKinds]
           /\ nextId' \in Nat
           /\ down'   \in [Components -> Seq(Msgs)]
           /\ req'    \in [Components -> [ServerKinds -> Seq(Msgs)]]
<1> DEFINE Goal == /\ serv'   \in [Components -> SUBSET ServerKinds]
                   /\ nextId' \in Nat
                   /\ down'   \in [Components -> Seq(Msgs)]
                   /\ req'    \in [Components -> [ServerKinds -> Seq(Msgs)]]
<1> USE DEF TypeOK
<1>1. /\ msg.action \in {"Request", "Confirm", "Reject", "Register"}
      /\ msg.kind \in Kinds /\ msg.name \in Components /\ msg.label \in Labels
      /\ msg.fd \in Ends \cup {NoFd}
      /\ msg.action = "Register" => msg.kind \in ServerKinds
  BY DEF Msgs
<1>2. ASSUME NEW dest \in Components, NEW m \in Msgs, ToComponent(dest, m)
      PROVE  down' \in [Components -> Seq(Msgs)]
  BY <1>2, SendType DEF ToComponent
<1>3. ASSUME NEW dest \in Components, NEW kind \in Kinds, NEW label \in Labels,
             Send_Reject(dest, kind, label)
      PROVE  Goal
  <2>1. Packet("Reject", kind, dest, label, NoFd) \in Msgs
    BY PacketType
  <2> QED BY <2>1, <1>2, <1>3 DEF Send_Reject
<1>4. ASSUME NEW dest \in Components, NEW kind \in Kinds, NEW label \in Labels,
             NEW fd \in Ends \cup {NoFd}, Send_Confirm(dest, kind, label, fd)
      PROVE  down' \in [Components -> Seq(Msgs)]
  <2>1. Packet("Confirm", kind, dest, label, fd) \in Msgs
    BY PacketType
  <2> QED BY <2>1, <1>2, <1>4 DEF Send_Confirm
<1>5. ASSUME Dispose PROVE Goal
  BY <1>5 DEF Dispose
<1>6. ASSUME NEW kind \in Kinds, NEW label \in Labels, NEW ok \in BOOLEAN,
             Provide(source, kind, label, ok)
      PROVE  Goal
  <2> DEFINE end == [id |-> nextId + 1, client |-> source, server |-> NoServer,
                     kind |-> kind, label |-> label]
  <2>1. end \in Ends
    BY DEF Ends
  <2>2. CASE ok
    BY <2>1, <2>2, <1>4, <1>6 DEF Provide
  <2>3. CASE ~ok
    BY <2>3, <1>3, <1>6 DEF Provide
  <2> QED BY <2>2, <2>3
<1>7. ASSUME NEW dest \in Components, NEW kind \in ServerKinds, NEW label \in Labels,
             NEW ok \in BOOLEAN, Forward(source, dest, kind, label, ok)
      PROVE  Goal
  <2> DEFINE end == [id |-> nextId + 1, client |-> source, server |-> dest,
                     kind |-> kind, label |-> label]
             m   == Packet("Request", kind, source, label, end)
  <2>0. kind \in Kinds
    BY DEF ServerKinds
  <2>1. m \in Msgs
    <3>1. end \in Ends
      BY <2>0 DEF Ends
    <3> HIDE DEF end
    <3> QED BY <2>0, <3>1, PacketType
  <2>2. CASE ok
    <3>1. /\ serv' = [serv EXCEPT ![dest] = @ \cup {kind}]
          /\ nextId' = nextId + 1
          /\ req' = [req EXCEPT ![dest][kind] = Send(@, m)]
          /\ UNCHANGED down
      BY <2>2, <1>7 DEF Forward, Setup_Service
    <3>2. Send(req[dest][kind], m) \in Seq(Msgs)
      BY <2>1, SendType
    <3> HIDE DEF m
    <3>3. req' \in [Components -> [ServerKinds -> Seq(Msgs)]]
      BY <3>1, <3>2
    <3> QED BY <3>1, <3>3
  <2>3. CASE ~ok
    BY <2>0, <2>3, <1>3, <1>7 DEF Forward, Setup_Service
  <2> QED BY <2>2, <2>3
<1>8. CASE msg.action = "Request"
  <2> DEFINE kind    == msg.kind
             label   == msg.label
             i       == Match_Service(source, kind, label)
             service == Services[source][i]
  <2>1. Process_Request(source, kind, label)
    BY <1>8 DEF Handle_Message
  <2>2. CASE Send_Reject(source, kind, label)
    BY <2>2, <1>1, <1>3
  <2>3. CASE Dispose
    BY <2>3, <1>5
  <2>4. CASE /\ i # 0
             /\ kind \in ServerKinds
             /\ service.server # NoServer
             /\ \E ok \in Outcomes : Forward(source, service.server, kind, label, ok)
    <3>1. service.server \in Components
      BY <2>4, <1>1, MatchType DEF Services_Type
    <3>2. Outcomes \subseteq BOOLEAN
      BY BoundsAssumption
    <3>3. label \in Labels
      BY <1>1
    <3> HIDE DEF service, kind, label
    <3> QED BY <2>4, <3>1, <3>2, <3>3, <1>7
  <2>5. CASE \E ok \in BOOLEAN : Provide(source, kind, label, ok)
    BY <2>5, <1>1, <1>6
  <2> QED
    <3>1. kind \in {"Message", "Log", "Memory"} => kind \in ServerKinds
      BY <1>1 DEF ServerKinds
    <3>2. kind \in KindType
      BY <1>1, KindsAssumption
    <3>3. i # 0 => service.resource \in BOOLEAN
      BY <1>1, MatchType DEF Services_Type
    <3>4. Outcomes \subseteq BOOLEAN
      BY BoundsAssumption
    <3> HIDE DEF i, service
    <3> QED BY <2>1, <2>2, <2>3, <2>4, <2>5, <3>1, <3>2, <3>3, <3>4
          DEF Process_Request, KindType, i, service
<1>9. CASE msg.action = "Register"
  <2> DEFINE end == [id |-> 0, client |-> source, server |-> source,
                     kind |-> msg.kind, label |-> EmptyLabel]
  <2>1. EmptyLabel \in Labels /\ msg.kind \in ServerKinds /\ msg.kind \in Kinds
    BY <1>1, <1>9, EmptyAssumption
  <2>2. end \in Ends
    BY <2>1 DEF Ends
  <2>3. Process_Register(source, msg.kind)
    BY <1>9 DEF Handle_Message
  <2>4. CASE Send_Reject(source, msg.kind, EmptyLabel)
    BY <2>4, <2>1, <1>3
  <2>5. CASE /\ serv' = [serv EXCEPT ![source] = @ \cup {msg.kind}]
             /\ Send_Confirm(source, msg.kind, EmptyLabel, end)
             /\ UNCHANGED <<nextId, req>>
    BY <2>1, <2>2, <2>5, <1>4
  <2> QED BY <2>3, <2>4, <2>5 DEF Process_Register, Setup_Service
<1>10. CASE msg.action = "Confirm"
  BY <1>1, <1>3, <1>4, <1>5, <1>10 DEF Handle_Message, Process_Confirm
<1>11. CASE msg.action = "Reject"
  BY <1>1, <1>3, <1>5, <1>11 DEF Handle_Message, Process_Reject
<1> QED BY <1>1, <1>8, <1>9, <1>10, <1>11

\* A step of any kind keeps the types.
LEMMA NextType ==
    ASSUME TypeOK, [Next]_vars
    PROVE  TypeOK'
<1> USE DEF TypeOK
<1>0. CASE UNCHANGED vars
  BY <1>0 DEF vars, brokerVars, dispVars, procVars, sockVars
<1>1. ASSUME NEW queue \in Seq(Msgs), queue # <<>>
      PROVE  Head(queue) \in Msgs /\ Tail(queue) \in Seq(Msgs)
  BY <1>1
<1>2. ASSUME NEW c \in Components, Read_Message(c)
      PROVE  TypeOK'
  <2>1. Head(up[c]) \in Msgs /\ Tail(up[c]) \in Seq(Msgs)
    BY <1>1, <1>2 DEF Read_Message
  <2>2. Handle_Message(c, Head(up[c]))
    BY <1>2 DEF Read_Message
  <2> QED BY <2>1, <2>2, <1>2, HandleType DEF Read_Message, dispVars, procVars
<1>3. ASSUME NEW c \in Components, Hang_Up(c)
      PROVE  TypeOK'
  <2>1. CASE up[c] # <<>>
    <3>1. Head(up[c]) \in Msgs
      BY <1>1, <2>1
    <3>2. Handle_Message(c, Head(up[c]))
      BY <1>3, <2>1 DEF Hang_Up
    <3> QED BY <3>1, <3>2, <1>3, HandleType DEF Hang_Up, dispVars, procVars
  <2>2. CASE up[c] = <<>>
    BY <2>2, <1>3 DEF Hang_Up, Dispose, dispVars, procVars
  <2> QED BY <2>1, <2>2
<1>4. ASSUME NEW c \in Components, NEW kind \in ServerKinds, Read_Service(c, kind)
      PROVE  TypeOK'
  <2>1. Head(ans[c][kind]) \in Msgs /\ Tail(ans[c][kind]) \in Seq(Msgs)
    BY <1>1, <1>4 DEF Read_Service
  <2>2. Handle_Message(c, Head(ans[c][kind]))
    BY <1>4 DEF Read_Service
  <2> QED BY <2>1, <2>2, <1>4, HandleType DEF Read_Service, dispVars, procVars
<1>5. ASSUME NEW c \in Components, NEW kind \in Kinds, NEW label \in Labels,
             Initialize(c, kind, label)
      PROVE  TypeOK'
  <2>1. Packet("Request", kind, c, label, NoFd) \in Msgs
    BY PacketType
  <2>2. Send(up[c], Packet("Request", kind, c, label, NoFd)) \in Seq(Msgs)
    BY <2>1, SendType
  <2> QED BY <2>2, <1>5 DEF Initialize, Calls, brokerVars, dispVars
<1>6. ASSUME NEW c \in Components, Initialized(c)
      PROVE  TypeOK'
  <2>1. Head(down[c]) \in Msgs /\ Tail(down[c]) \in Seq(Msgs)
    BY <1>1, <1>6 DEF Initialized
  <2>2. Head(down[c]).fd # NoFd => Head(down[c]).fd \in Ends
    BY <2>1 DEF Msgs
  <2>3. clientS' \in [Components -> SUBSET Ends]
    BY <2>2, <1>6 DEF Initialized
  <2> QED BY <2>1, <2>3, <1>6 DEF Initialized, brokerVars, dispVars
<1>7. ASSUME NEW c \in Components, NEW end \in clientS[c], Finalize(c, end)
      PROVE  TypeOK'
  BY <1>7 DEF Finalize, brokerVars, dispVars, sockVars
<1>8. ASSUME NEW c \in Components, NEW kind \in ServerKinds, Register(c, kind)
      PROVE  TypeOK'
  <2>1. kind \in Kinds /\ EmptyLabel \in Labels
    BY EmptyAssumption DEF ServerKinds
  <2>2. Packet("Register", kind, c, EmptyLabel, NoFd) \in Msgs
    BY <2>1, PacketType
  <2>3. Send(up[c], Packet("Register", kind, c, EmptyLabel, NoFd)) \in Seq(Msgs)
    BY <2>2, SendType
  <2> QED BY <2>1, <2>3, <1>8 DEF Register, Calls, brokerVars, dispVars
<1>9. ASSUME NEW c \in Components, Registered(c)
      PROVE  TypeOK'
  <2>1. Tail(down[c]) \in Seq(Msgs)
    BY <1>1, <1>9 DEF Registered
  <2>2. disp' \in [Components -> [ServerKinds -> {"none", "armed", "deaf"}]]
    <3> DEFINE k == call[c].kind
    <3>1. PICK v \in {"none", "armed", "deaf"} :
             disp' = disp \/ disp' = [disp EXCEPT ![c][k] = v]
      BY <1>9 DEF Registered
    <3> HIDE DEF k
    <3>2. [disp EXCEPT ![c][k] = v]
             \in [Components -> [ServerKinds -> {"none", "armed", "deaf"}]]
      BY ExceptType
    <3> QED BY <3>1, <3>2
  <2> QED BY <2>1, <2>2, <1>9 DEF Registered, brokerVars
<1>10. ASSUME NEW c \in Components, Construct_Return(c)
       PROVE  TypeOK'
  BY <1>10 DEF Construct_Return, brokerVars, dispVars, sockVars
<1>11. ASSUME NEW c \in Components, NEW kind \in ServerKinds, Dispatch_Event(c, kind)
       PROVE  TypeOK'
  <2>1. Head(req[c][kind]) \in Msgs /\ Tail(req[c][kind]) \in Seq(Msgs)
    BY <1>1, <1>11 DEF Dispatch_Event
  <2>2. [Head(req[c][kind]) EXCEPT
            !.kind = kind,
            !.fd = IF Head(req[c][kind]).kind = kind THEN @ ELSE NoFd] \in Msgs
    BY <2>1 DEF Msgs, ServerKinds
  <2> QED BY <2>1, <2>2, <1>11 DEF Dispatch_Event, brokerVars, procVars
<1>12. ASSUME NEW c \in Components, Session_Accept(c)
       PROVE  TypeOK'
  <2> DEFINE m == Packet("Confirm", cur[c].kind, cur[c].name, cur[c].label, cur[c].fd)
  <2>1. cur[c] \in Msgs
    BY <1>12 DEF Session_Accept
  <2>2. cur[c].fd \in Ends
    BY <2>1, <1>12 DEF Msgs, Session_Accept
  <2>3. m \in Msgs
    BY <2>1, PacketType DEF Msgs
  <2> DEFINE k == cur[c].kind
             v == Send(ans[c][k], m)
  <2>4. ans' = [ans EXCEPT ![c][k] = v]
    BY <1>12 DEF Session_Accept
  <2>5. k \in ServerKinds => v \in Seq(Msgs)
    <3> HIDE DEF m, k
    <3> QED BY <2>3, SendType
  <2> HIDE DEF k, v
  <2>6. ans' \in [Components -> [ServerKinds -> Seq(Msgs)]]
    BY <2>4, <2>5, ExceptType
  <2> QED BY <2>2, <2>6, <1>12 DEF Session_Accept, brokerVars, procVars
<1>13. ASSUME NEW c \in Components, Dispatch_Return(c)
       PROVE  TypeOK'
  <2> DEFINE m == Packet("Reject", cur[c].kind, cur[c].name, cur[c].label, NoFd)
  <2>1. cur[c] \in Msgs
    BY <1>13 DEF Dispatch_Return
  <2>2. m \in Msgs
    BY <2>1, PacketType DEF Msgs
  <2> DEFINE k == cur[c].kind
             v == Send(ans[c][k], m)
  <2>3. ans' = ans \/ ans' = [ans EXCEPT ![c][k] = v]
    BY <1>13 DEF Dispatch_Return
  <2>4. k \in ServerKinds => v \in Seq(Msgs)
    <3> HIDE DEF m, k
    <3> QED BY <2>2, SendType
  <2> HIDE DEF k, v
  <2>5. ans' \in [Components -> [ServerKinds -> Seq(Msgs)]]
    <3>1. [ans EXCEPT ![c][k] = v] \in [Components -> [ServerKinds -> Seq(Msgs)]]
      BY <2>4, ExceptType
    <3> QED BY <3>1, <2>3
  <2> QED BY <2>5, <1>13 DEF Dispatch_Return, brokerVars, procVars
<1>14. ASSUME NEW c \in Components, Exit(c)
       PROVE  TypeOK'
  BY <1>14 DEF Exit, brokerVars
<1> QED BY <1>0, <1>2, <1>3, <1>4, <1>5, <1>6, <1>7, <1>8, <1>9, <1>10, <1>11,
           <1>12, <1>13, <1>14 DEF Next

\* Every variable of the broker, of the components and of the sockets has the
\* type its declaration gives it, in every reachable state.
THEOREM TypeCorrect == Spec => []TypeOK
<1>1. Init => TypeOK
  BY DEF Init, TypeOK
<1>2. TypeOK /\ [Next]_vars => TypeOK'
  BY NextType
<1> QED BY <1>1, <1>2, PTL DEF Spec
=============================================================================
