---------------------------- MODULE BrokerProofs ----------------------------
(***************************************************************************)
(* Safety of module Broker, for every configuration: a call has one answer *)
(* at most under way, what a client is given answers the call it is in,    *)
(* and whoever holds a client end has a server that holds the other.       *)
(*                                                                         *)
(* None of this is inductive by itself: that no second answer can come up  *)
(* depends on where the message of a call can be at all.  The invariant    *)
(* says that there is an assignment of a stage to each component, so that  *)
(* a message about a component is only ever found at the stage assigned to *)
(* it, where it belongs to the call the component is blocked in.  The      *)
(* stages stay in the proofs: the specification has no variable for them.  *)
(*                                                                         *)
(* From the same invariant: sessions are between the components that the   *)
(* configuration names, a service socket holds at most one message for     *)
(* each client that is blocked on it, and Broker implements                *)
(* SessionService.                                                         *)
(***************************************************************************)
EXTENDS BrokerTypes, FiniteSetTheorems

Stages == {"idle", "up", "req", "cur", "ans", "down"}

\* In what follows ph is an assignment of stages, ca stands for call, H for
\* the ends that the configuration allows and that their server is known to
\* hold, and the other parameters for the variables of their names.
Queues == [Components -> [ServerKinds -> Seq(Msgs)]]

\* The message m, found at server s on the service socket of kind k, belongs
\* to the call its client is blocked in and the configuration sends it there.
Pending(ca, m, s, k) ==
    /\ ca[m.name] # NoCall
    /\ ca[m.name].action = "Request"
    /\ ca[m.name].kind = k
    /\ ca[m.name].label = m.label
    /\ m.kind = k
    /\ ServerOf(m.name, k, m.label) = s
    /\ m.fd # NoFd => /\ m.fd.client = m.name
                      /\ m.fd.server = s
                      /\ m.fd.kind = k
                      /\ m.fd.label = m.label

\* The end m brings, if any, is one to give c for the call it is blocked in.
Suits(ca, H, m, c) ==
    (m.fd # NoFd /\ ca[c].action = "Request") =>
        /\ m.fd.client = c
        /\ m.fd.kind = ca[c].kind
        /\ m.fd.label = ca[c].label
        /\ m.fd \in H

CallInv(ph, ca) ==
    \A c \in Components : ca[c] = NoCall => ph[c] = "idle"

UpInv(ph, ca, u) ==
    \A c \in Components : u[c] # <<>> =>
        /\ ph[c] = "up"
        /\ Len(u[c]) = 1
        /\ u[c][1].name = c
        /\ u[c][1].action = ca[c].action
        /\ u[c][1].kind = ca[c].kind
        /\ u[c][1].label = ca[c].label

DownInv(ph, ca, H, d) ==
    \A c \in Components : d[c] # <<>> =>
        /\ ph[c] = "down"
        /\ Len(d[c]) = 1
        /\ Suits(ca, H, d[c][1], c)

CurInv(ph, ca, cu, ac) ==
    \A s \in Components : (cu[s] # NoMsg /\ ~ac[s]) =>
        /\ ph[cu[s].name] = "cur"
        /\ cu[s].kind \in ServerKinds
        /\ Pending(ca, cu[s], s, cu[s].kind)

\* q is req or ans.
QueueInv(ph, stage, ca, q) ==
    \A s \in Components, k \in ServerKinds :
        /\ \A i \in 1..Len(q[s][k]) : /\ ph[q[s][k][i].name] = stage
                                     /\ Pending(ca, q[s][k][i], s, k)
        /\ \A i, j \in 1..Len(q[s][k]) : q[s][k][i].name = q[s][k][j].name => i = j

\* A server answers, and confirms only what it holds.
AnswerInv(H, q) ==
    \A s \in Components, k \in ServerKinds : \A i \in 1..Len(q[s][k]) :
        /\ q[s][k][i].action \in {"Confirm", "Reject"}
        /\ q[s][k][i].fd # NoFd => q[s][k][i].fd \in H

\* A node of the configuration lets the client of this end have it, and the
\* broker finds that node's server for it.
Configured(end) ==
    /\ \E i \in DOMAIN Services[end.client] :
          LET node == Services[end.client][i]
          IN  /\ node.kind = end.kind
              /\ \/ node.label = end.label
                 \/ /\ node.label = NoLabel
                    /\ ExactMatches(end.client, end.kind, end.label) = {}
              /\ end.server = IF end.kind \in ServerKinds THEN node.server ELSE NoServer
    /\ end.kind \in ServerKinds => end.server \in Components
    /\ end.server # NoServer => ServerOf(end.client, end.kind, end.label) = end.server

\* The ends that a client may be given.
HeldEnds ==
    {end \in Ends :
        /\ Configured(end)
        /\ end.server \in Components =>
               end \in serverS[end.server] \/ status[end.server] = "exited"}

StageInv(ph) ==
    /\ CallInv(ph, call)
    /\ UpInv(ph, call, up)
    /\ DownInv(ph, call, HeldEnds, down)
    /\ CurInv(ph, call, cur, accepted)
    /\ QueueInv(ph, "req", call, req)
    /\ QueueInv(ph, "ans", call, ans)
    /\ AnswerInv(HeldEnds, ans)

\* SessionsAsConfigured, and that it is the server ServerOf finds.
SessionsRouted ==
    \A c \in Components : \A end \in clientS[c] : end.client = c /\ Configured(end)

IInv ==
    /\ TypeOK
    /\ SessionsServed
    /\ SessionsRouted
    /\ \E ph \in [Components -> Stages] : StageInv(ph)

-----------------------------------------------------------------------------
(* Queues                                                                  *)

\* Reading the first message moves the others up.
LEMMA TailElems ==
    ASSUME NEW q \in Seq(Msgs), q # <<>>
    PROVE  /\ Head(q) = q[1]
           /\ Len(q) \in Nat \ {0}
           /\ Len(Tail(q)) = Len(q) - 1
           /\ \A i \in 1..(Len(q) - 1) : Tail(q)[i] = q[i + 1]
           /\ Len(q) = 1 => Tail(q) = <<>>
OBVIOUS

\* A message sent is last in the queue, or lost.
LEMMA SendElems ==
    ASSUME NEW q \in Seq(Msgs), NEW m \in Msgs
    PROVE  \/ Send(q, m) = q
           \/ /\ Len(q) \in Nat
              /\ Len(Send(q, m)) = Len(q) + 1
              /\ \A i \in 1..Len(q) : Send(q, m)[i] = q[i]
              /\ Send(q, m)[Len(q) + 1] = m
BY DEF Send

\* What is sent on an empty socket is alone there, or lost.
LEMMA SendEmpty ==
    ASSUME NEW m \in Msgs
    PROVE  \/ Send(<<>>, m) = <<>>
           \/ Len(Send(<<>>, m)) = 1 /\ Send(<<>>, m)[1] = m
BY DEF Send

-----------------------------------------------------------------------------
(* How the parts of the invariant survive a step                           *)

\* The components at this stage, but for c, stay there and in their calls.
Keeps(ph, ph2, ca, ca2, stage, c) ==
    \A d \in Components \ {c} : ph[d] = stage => ph2[d] = stage /\ ca2[d] = ca[d]

\* Only the queue of s and k changes.
SameBut(q, q2, s, k) ==
    \A t \in Components, l \in ServerKinds : ~(t = s /\ l = k) => q2[t][l] = q[t][l]

\* Nothing happens to a queue, nor to those it has messages about.
LEMMA QueueFrame ==
    ASSUME NEW ph, NEW ph2, NEW ca, NEW ca2, NEW stage, NEW c, NEW q \in Queues,
           QueueInv(ph, stage, ca, q), Keeps(ph, ph2, ca, ca2, stage, c), ph[c] # stage
    PROVE  QueueInv(ph2, stage, ca2, q)
<1>1. ASSUME NEW s \in Components, NEW k \in ServerKinds, NEW i \in 1..Len(q[s][k])
      PROVE  ph2[q[s][k][i].name] = stage /\ Pending(ca2, q[s][k][i], s, k)
  <2>1. q[s][k][i] \in Msgs
    BY DEF Queues
  <2>2. q[s][k][i].name \in Components
    BY <2>1 DEF Msgs
  <2>3. ph[q[s][k][i].name] = stage /\ Pending(ca, q[s][k][i], s, k)
    BY DEF QueueInv
  <2> QED BY <2>2, <2>3 DEF Pending, Keeps
<1> QED BY <1>1 DEF QueueInv

\* A message about m.name joins a queue that had none about it.
LEMMA QueueSend ==
    ASSUME NEW ph, NEW ph2, NEW ca, NEW ca2, NEW stage, NEW q \in Queues, NEW q2,
           NEW s \in Components, NEW k \in ServerKinds, NEW m \in Msgs,
           QueueInv(ph, stage, ca, q), Keeps(ph, ph2, ca, ca2, stage, m.name),
           ph[m.name] # stage, ph2[m.name] = stage, Pending(ca2, m, s, k),
           q2[s][k] = Send(q[s][k], m), SameBut(q, q2, s, k)
    PROVE  QueueInv(ph2, stage, ca2, q2)
<1>1. QueueInv(ph2, stage, ca2, q)
  BY QueueFrame
<1>2. ASSUME NEW t \in Components, NEW l \in ServerKinds, NEW i \in 1..Len(q[t][l])
      PROVE  q[t][l][i].name # m.name
  BY DEF QueueInv
<1> SUFFICES ASSUME NEW t \in Components, NEW l \in ServerKinds
             PROVE  /\ \A i \in 1..Len(q2[t][l]) : /\ ph2[q2[t][l][i].name] = stage
                                                   /\ Pending(ca2, q2[t][l][i], t, l)
                    /\ \A i, j \in 1..Len(q2[t][l]) :
                          q2[t][l][i].name = q2[t][l][j].name => i = j
  BY DEF QueueInv
<1>3. CASE q2[t][l] = q[t][l]
  BY <1>1, <1>3 DEF QueueInv
<1>4. CASE /\ t = s /\ l = k
           /\ Len(q[t][l]) \in Nat
           /\ Len(q2[t][l]) = Len(q[t][l]) + 1
           /\ \A i \in 1..Len(q[t][l]) : q2[t][l][i] = q[t][l][i]
           /\ q2[t][l][Len(q[t][l]) + 1] = m
  <2>1. \A i \in 1..Len(q2[t][l]) : i \in 1..Len(q[t][l]) \/ i = Len(q[t][l]) + 1
    BY <1>4
  <2>2. ASSUME NEW i \in 1..Len(q2[t][l])
        PROVE  ph2[q2[t][l][i].name] = stage /\ Pending(ca2, q2[t][l][i], t, l)
    <3>1. CASE i \in 1..Len(q[t][l])
      <4>1. q2[t][l][i] = q[t][l][i]
        BY <3>1, <1>4
      <4> QED BY <3>1, <4>1, <1>1 DEF QueueInv
    <3>2. CASE i = Len(q[t][l]) + 1
      <4>1. q2[t][l][i] = m
        BY <3>2, <1>4
      <4> QED BY <4>1, <1>4
    <3> QED BY <2>1, <3>1, <3>2
  <2>3. \A i, j \in 1..Len(q[t][l]) : q[t][l][i].name = q[t][l][j].name => i = j
    BY DEF QueueInv
  <2>4. ASSUME NEW i \in 1..Len(q2[t][l]), NEW j \in 1..Len(q2[t][l]),
               q2[t][l][i].name = q2[t][l][j].name
        PROVE  i = j
    <3>1. CASE i \in 1..Len(q[t][l]) /\ j \in 1..Len(q[t][l])
      <4>1. q2[t][l][i] = q[t][l][i] /\ q2[t][l][j] = q[t][l][j]
        BY <3>1, <1>4
      <4> QED BY <3>1, <4>1, <2>3, <2>4
    <3>2. ASSUME NEW x \in 1..Len(q[t][l]), NEW y, y = Len(q[t][l]) + 1
          PROVE  q2[t][l][x].name # q2[t][l][y].name
      <4>1. q2[t][l][x] = q[t][l][x] /\ q2[t][l][y] = m
        BY <3>2, <1>4
      <4> QED BY <4>1, <1>2
    <3> QED BY <2>1, <2>4, <3>1, <3>2
  <2> QED BY <2>2, <2>4
<1> QED
  <2>1. CASE t = s /\ l = k
    <3>1. q2[t][l] = Send(q[t][l], m) /\ q[t][l] \in Seq(Msgs)
      BY <2>1 DEF Queues
    <3> QED BY <2>1, <3>1, <1>3, <1>4, SendElems
  <2>2. CASE ~(t = s /\ l = k)
    BY <2>2, <1>3 DEF SameBut
  <2> QED BY <2>1, <2>2

\* The first message leaves a queue, and with it the only one about its name.
LEMMA QueueTake ==
    ASSUME NEW ph, NEW ph2, NEW ca, NEW ca2, NEW stage, NEW q \in Queues, NEW q2,
           NEW s \in Components, NEW k \in ServerKinds, q[s][k] # <<>>,
           QueueInv(ph, stage, ca, q), Keeps(ph, ph2, ca, ca2, stage, q[s][k][1].name),
           q2[s][k] = Tail(q[s][k]), SameBut(q, q2, s, k)
    PROVE  QueueInv(ph2, stage, ca2, q2)
<1> DEFINE c == q[s][k][1].name
<1>0. q[s][k] \in Seq(Msgs) /\ Len(q[s][k]) \in Nat \ {0}
  <2>1. q[s][k] \in Seq(Msgs)
    BY DEF Queues
  <2> QED BY <2>1, TailElems
<1>1. ASSUME NEW t \in Components, NEW l \in ServerKinds, NEW i \in 1..Len(q[t][l]),
             ~(t = s /\ l = k /\ i = 1)
      PROVE  ph2[q[t][l][i].name] = stage /\ Pending(ca2, q[t][l][i], t, l)
  <2>1. q[t][l][i] \in Msgs
    BY DEF Queues
  <2>2. q[t][l][i].name \in Components
    BY <2>1 DEF Msgs
  <2>3. ph[q[t][l][i].name] = stage /\ Pending(ca, q[t][l][i], t, l)
    BY DEF QueueInv
  <2>4. Pending(ca, q[s][k][1], s, k)
    BY <1>0 DEF QueueInv
  <2>5. q[t][l][i].name # c
    <3>1. CASE t = s /\ l = k
      BY <3>1, <1>0, <1>1 DEF QueueInv
    <3>2. CASE ~(t = s /\ l = k)
      BY <3>2, <2>3, <2>4 DEF Pending
    <3> QED BY <3>1, <3>2
  <2> QED BY <2>2, <2>3, <2>5 DEF Pending, Keeps
<1> SUFFICES ASSUME NEW t \in Components, NEW l \in ServerKinds
             PROVE  /\ \A i \in 1..Len(q2[t][l]) : /\ ph2[q2[t][l][i].name] = stage
                                                   /\ Pending(ca2, q2[t][l][i], t, l)
                    /\ \A i, j \in 1..Len(q2[t][l]) :
                          q2[t][l][i].name = q2[t][l][j].name => i = j
  BY DEF QueueInv
<1>2. \A i, j \in 1..Len(q[t][l]) : q[t][l][i].name = q[t][l][j].name => i = j
  BY DEF QueueInv
<1>3. CASE t = s /\ l = k
  <2>1. q2[t][l] = Tail(q[t][l])
    BY <1>3 DEF Queues
  <2>2. /\ Len(q2[t][l]) = Len(q[t][l]) - 1
        /\ \A i \in 1..(Len(q[t][l]) - 1) : q2[t][l][i] = q[t][l][i + 1]
    <3>1. q[t][l] \in Seq(Msgs) /\ q[t][l] # <<>>
      BY <1>0, <1>3
    <3>2. /\ Len(Tail(q[t][l])) = Len(q[t][l]) - 1
          /\ \A i \in 1..(Len(q[t][l]) - 1) : Tail(q[t][l])[i] = q[t][l][i + 1]
      BY <3>1, TailElems
    <3> QED BY <3>2, <2>1
  <2>3. ASSUME NEW i \in 1..Len(q2[t][l])
        PROVE  /\ i + 1 \in 1..Len(q[t][l])
               /\ i + 1 # 1
               /\ q2[t][l][i] = q[t][l][i + 1]
    BY <2>2, <1>0, <1>3
  <2>4. ASSUME NEW i \in 1..Len(q2[t][l])
        PROVE  ph2[q2[t][l][i].name] = stage /\ Pending(ca2, q2[t][l][i], t, l)
    <3> DEFINE j == i + 1
    <3>1. j \in 1..Len(q[t][l]) /\ j # 1 /\ q2[t][l][i] = q[t][l][j]
      BY <2>3
    <3> HIDE DEF j
    <3> QED BY <3>1, <1>1
  <2>5. ASSUME NEW i \in 1..Len(q2[t][l]), NEW j \in 1..Len(q2[t][l]),
               q2[t][l][i].name = q2[t][l][j].name
        PROVE  i = j
    <3> DEFINE x == i + 1
               y == j + 1
    <3>1. /\ x \in 1..Len(q[t][l]) /\ q2[t][l][i] = q[t][l][x]
          /\ y \in 1..Len(q[t][l]) /\ q2[t][l][j] = q[t][l][y]
      BY <2>3
    <3>2. x = y
      <4> HIDE DEF x, y
      <4> QED BY <3>1, <2>5, <1>2
    <3> QED BY <3>2
  <2> QED BY <2>4, <2>5
<1>4. CASE ~(t = s /\ l = k)
  <2>1. q2[t][l] = q[t][l]
    BY <1>4 DEF SameBut
  <2> QED BY <2>1, <1>1, <1>2, <1>4
<1> QED BY <1>3, <1>4

\* Answers stay answers while no server gives up an end.
LEMMA AnswerFrame ==
    ASSUME NEW H, NEW H2, H \subseteq H2, NEW q \in Queues, AnswerInv(H, q)
    PROVE  AnswerInv(H2, q)
BY DEF AnswerInv

\* An answer joins the queue whose end, if it brings one, is held.
LEMMA AnswerSend ==
    ASSUME NEW H, NEW H2, H \subseteq H2, NEW q \in Queues, NEW q2, AnswerInv(H, q),
           NEW s \in Components, NEW k \in ServerKinds, NEW m \in Msgs,
           m.action \in {"Confirm", "Reject"}, m.fd # NoFd => m.fd \in H2,
           q2[s][k] = Send(q[s][k], m), SameBut(q, q2, s, k)
    PROVE  AnswerInv(H2, q2)
<1> DEFINE Ok(x) == x.action \in {"Confirm", "Reject"} /\ (x.fd # NoFd => x.fd \in H2)
<1>1. ASSUME NEW t \in Components, NEW l \in ServerKinds, NEW i \in 1..Len(q[t][l])
      PROVE  Ok(q[t][l][i])
  BY DEF AnswerInv
<1>2. ASSUME NEW t \in Components, NEW l \in ServerKinds, NEW i \in 1..Len(q2[t][l])
      PROVE  Ok(q2[t][l][i])
  <2>1. CASE t = s /\ l = k
    <3>1. q2[t][l] = Send(q[t][l], m) /\ q[t][l] \in Seq(Msgs)
      BY <2>1 DEF Queues
    <3>2. Ok(m)
      OBVIOUS
    <3> HIDE DEF Ok
    <3> QED BY <3>1, <3>2, <1>1, SendElems
  <2>2. CASE ~(t = s /\ l = k)
    <3>1. q2[t][l] = q[t][l]
      BY <2>2 DEF SameBut
    <3> HIDE DEF Ok
    <3> QED BY <3>1, <1>1
  <2> QED BY <2>1, <2>2
<1> QED BY <1>2 DEF AnswerInv

\* The broker takes the first answer of a queue.
LEMMA AnswerTake ==
    ASSUME NEW H, NEW H2, H \subseteq H2, NEW q \in Queues, NEW q2, AnswerInv(H, q),
           NEW s \in Components, NEW k \in ServerKinds, q[s][k] # <<>>,
           q2[s][k] = Tail(q[s][k]), SameBut(q, q2, s, k)
    PROVE  AnswerInv(H2, q2)
<1> DEFINE Ok(x) == x.action \in {"Confirm", "Reject"} /\ (x.fd # NoFd => x.fd \in H2)
<1>1. ASSUME NEW t \in Components, NEW l \in ServerKinds, NEW i \in 1..Len(q[t][l])
      PROVE  Ok(q[t][l][i])
  BY DEF AnswerInv
<1>2. ASSUME NEW t \in Components, NEW l \in ServerKinds, NEW i \in 1..Len(q2[t][l])
      PROVE  Ok(q2[t][l][i])
  <2>1. CASE t = s /\ l = k
    <3>1. q2[t][l] = Tail(q[t][l]) /\ q[t][l] \in Seq(Msgs) /\ q[t][l] # <<>>
      BY <2>1 DEF Queues
    <3> DEFINE j == i + 1
    <3>2. /\ Len(q[t][l]) \in Nat
          /\ Len(Tail(q[t][l])) = Len(q[t][l]) - 1
          /\ \A n \in 1..(Len(q[t][l]) - 1) : Tail(q[t][l])[n] = q[t][l][n + 1]
      BY <3>1, TailElems
    <3>3. j \in 1..Len(q[t][l]) /\ q2[t][l][i] = q[t][l][j]
      <4>1. i \in 1..(Len(q[t][l]) - 1)
        BY <3>1, <3>2
      <4>2. Tail(q[t][l])[i] = q[t][l][j]
        BY <4>1, <3>2
      <4>3. j \in 1..Len(q[t][l])
        BY <4>1, <3>2
      <4> HIDE DEF j
      <4> QED BY <4>2, <4>3, <3>1
    <3> HIDE DEF Ok, j
    <3> QED BY <3>3, <1>1
  <2>2. CASE ~(t = s /\ l = k)
    <3>1. q2[t][l] = q[t][l]
      BY <2>2 DEF SameBut
    <3> HIDE DEF Ok
    <3> QED BY <3>1, <1>1
  <2> QED BY <2>1, <2>2
<1> QED BY <1>2 DEF AnswerInv

\* The components' own sockets; u2[c] = <<>> is a message read or given up.
LEMMA UpFrame ==
    ASSUME NEW ph, NEW ph2, NEW ca, NEW ca2, NEW u, NEW u2, NEW c \in Components,
           UpInv(ph, ca, u), Keeps(ph, ph2, ca, ca2, "up", c), u2[c] = <<>>,
           \A d \in Components : d # c => u2[d] = u[d]
    PROVE  UpInv(ph2, ca2, u2)
BY DEF UpInv, Keeps

\* Likewise on the way back to the component.
LEMMA DownFrame ==
    ASSUME NEW ph, NEW ph2, NEW ca, NEW ca2, NEW H, NEW H2, H \subseteq H2,
           NEW d, NEW d2, NEW c \in Components,
           DownInv(ph, ca, H, d), Keeps(ph, ph2, ca, ca2, "down", c), d2[c] = <<>>,
           \A e \in Components : e # c => d2[e] = d[e]
    PROVE  DownInv(ph2, ca2, H2, d2)
BY DEF DownInv, Keeps, Suits

\* An answer comes to a component that had none on its socket.
LEMMA DownSend ==
    ASSUME NEW ph, NEW ph2, NEW ca, NEW ca2, NEW H, NEW H2, H \subseteq H2,
           NEW d \in [Components -> Seq(Msgs)], NEW d2,
           NEW c \in Components, NEW m \in Msgs,
           DownInv(ph, ca, H, d), Keeps(ph, ph2, ca, ca2, "down", c),
           ph[c] # "down", ph2[c] = "down", Suits(ca2, H2, m, c),
           d2[c] = Send(d[c], m), \A e \in Components : e # c => d2[e] = d[e]
    PROVE  DownInv(ph2, ca2, H2, d2)
<1>1. d[c] = <<>>
  BY DEF DownInv
<1>2. d2[c] = Send(<<>>, m)
  BY <1>1
<1>3. d2[c] = <<>> \/ (Len(d2[c]) = 1 /\ d2[c][1] = m)
  BY <1>2, SendEmpty
<1>4. ASSUME NEW e \in Components, e # c, d2[e] # <<>>
      PROVE  ph2[e] = "down" /\ Len(d2[e]) = 1 /\ Suits(ca2, H2, d2[e][1], e)
  <2>1. d2[e] = d[e]
    BY <1>4
  <2> QED BY <2>1, <1>4 DEF DownInv, Keeps, Suits
<1> QED BY <1>3, <1>4 DEF DownInv

\* The dispatchers; that of s may be done with its request, about c or not.
LEMMA CurFrame ==
    ASSUME NEW ph, NEW ph2, NEW ca, NEW ca2, NEW cu \in [Components -> Msgs \cup {NoMsg}],
           NEW cu2, NEW ac, NEW ac2, NEW c,
           CurInv(ph, ca, cu, ac), Keeps(ph, ph2, ca, ca2, "cur", c),
           \A s \in Components : (cu2[s] # NoMsg /\ ~ac2[s]) =>
               cu2[s] = cu[s] /\ ~ac[s] /\ cu[s].name # c
    PROVE  CurInv(ph2, ca2, cu2, ac2)
<1> SUFFICES ASSUME NEW s \in Components, cu2[s] # NoMsg, ~ac2[s]
             PROVE  /\ ph2[cu2[s].name] = "cur"
                    /\ cu2[s].kind \in ServerKinds
                    /\ Pending(ca2, cu2[s], s, cu2[s].kind)
  BY DEF CurInv
<1>1. cu2[s] = cu[s] /\ cu[s] # NoMsg /\ ~ac[s] /\ cu[s].name # c
  OBVIOUS
<1>2. cu[s].name \in Components
  BY <1>1 DEF Msgs
<1>3. ph[cu[s].name] = "cur" /\ cu[s].kind \in ServerKinds /\ Pending(ca, cu[s], s, cu[s].kind)
  BY <1>1 DEF CurInv
<1> QED BY <1>1, <1>2, <1>3 DEF Pending, Keeps

-----------------------------------------------------------------------------
(* What the broker does with a message                                     *)

\* m is what the broker sends the component that msg is about.
Answers(msg, m) ==
    m.fd # NoFd =>
        /\ msg.action = "Request" => /\ m.fd.client = msg.name
                                     /\ m.fd.server = NoServer
                                     /\ m.fd.kind = msg.kind
                                     /\ m.fd.label = msg.label
                                     /\ Configured(m.fd)
        /\ msg.action \in {"Confirm", "Reject"} => m.fd = msg.fd

\* m is what the broker forwards to server s for the request msg.
Forwards(msg, m, s) ==
    /\ m.name = msg.name
    /\ m.kind = msg.kind
    /\ m.label = msg.label
    /\ ServerOf(msg.name, msg.kind, msg.label) = s
    /\ m.fd # NoFd => /\ m.fd.client = msg.name
                      /\ m.fd.server = s
                      /\ m.fd.kind = msg.kind
                      /\ m.fd.label = msg.label

\* What Match_Service finds is the node that lets the client have the end.
LEMMA MatchConfigured ==
    ASSUME NEW end \in Ends, Match_Service(end.client, end.kind, end.label) # 0,
           end.server = IF end.kind \in ServerKinds
                        THEN ServerOf(end.client, end.kind, end.label) ELSE NoServer,
           end.kind \in ServerKinds => end.server \in Components
    PROVE  Configured(end)
<1> DEFINE c == end.client
           i == Match_Service(c, end.kind, end.label)
<1>1. c \in Components /\ end.kind \in Kinds /\ end.label \in Labels
  BY DEF Ends
<1>2. /\ i \in DOMAIN Services[c]
      /\ Services[c][i].kind = end.kind
      /\ \/ Services[c][i].label = end.label
         \/ Services[c][i].label = NoLabel /\ ExactMatches(c, end.kind, end.label) = {}
  BY <1>1, MatchType
<1>3. end.kind \in ServerKinds => end.server = Services[c][i].server
  BY DEF ServerOf
<1>4. end.server # NoServer => ServerOf(c, end.kind, end.label) = end.server
  OBVIOUS
<1> HIDE DEF i
<1> QED BY <1>2, <1>3, <1>4 DEF Configured

\* Handle_Message drops the message, or answers the component it is about,
\* once, or forwards a request to the server configured for it.
LEMMA HandleEffect ==
    ASSUME TypeOK, NEW source \in Components, NEW msg \in Msgs,
           msg.action \in {"Request", "Register"} => msg.name = source,
           Handle_Message(source, msg)
    PROVE  \/ down' = down /\ req' = req
           \/ /\ req' = req
              /\ \E m \in Msgs :
                    /\ Answers(msg, m)
                    /\ down' = [down EXCEPT ![msg.name] = Send(down[msg.name], m)]
           \/ /\ down' = down
              /\ msg.action = "Request"
              /\ msg.kind \in ServerKinds
              /\ \E m \in Msgs, s \in Components :
                    /\ Forwards(msg, m, s)
                    /\ req' = [req EXCEPT ![s][msg.kind] = Send(req[s][msg.kind], m)]
<1> DEFINE Drop == down' = down /\ req' = req
           Answer == /\ req' = req
                     /\ \E m \in Msgs :
                           /\ Answers(msg, m)
                           /\ down' = [down EXCEPT ![msg.name] = Send(down[msg.name], m)]
           Pass == /\ down' = down
                   /\ msg.action = "Request"
                   /\ msg.kind \in ServerKinds
                   /\ \E m \in Msgs, s \in Components :
                         /\ Forwards(msg, m, s)
                         /\ req' = [req EXCEPT ![s][msg.kind] = Send(req[s][msg.kind], m)]
<1> SUFFICES Drop \/ Answer \/ Pass
  OBVIOUS
<1>1. /\ msg.action \in {"Request", "Confirm", "Reject", "Register"}
      /\ msg.kind \in Kinds /\ msg.name \in Components /\ msg.label \in Labels
      /\ msg.fd \in Ends \cup {NoFd}
      /\ msg.action = "Register" => msg.kind \in ServerKinds
  BY DEF Msgs
<1>2. ASSUME NEW m \in Msgs, ToComponent(msg.name, m), Answers(msg, m), req' = req
      PROVE  Drop \/ Answer
  <2>1. CASE status[msg.name] = "exited"
    BY <2>1, <1>1, <1>2 DEF ToComponent, TypeOK
  <2>2. CASE status[msg.name] # "exited"
    BY <2>2, <1>1, <1>2 DEF ToComponent, TypeOK
  <2> QED BY <2>1, <2>2
<1>3. ASSUME NEW label \in Labels, Send_Reject(msg.name, msg.kind, label)
      PROVE  Drop \/ Answer
  <2> DEFINE m == Packet("Reject", msg.kind, msg.name, label, NoFd)
  <2>1. m \in Msgs
    BY <1>1, PacketType
  <2>2. Answers(msg, m)
    BY DEF Answers, Packet
  <2>3. ToComponent(msg.name, m) /\ req' = req
    BY <1>3 DEF Send_Reject
  <2> HIDE DEF m
  <2> QED BY <2>1, <2>2, <2>3, <1>2
<1>4. ASSUME NEW label \in Labels, NEW fd \in Ends,
             Send_Confirm(msg.name, msg.kind, label, fd), req' = req,
             msg.action = "Request" => /\ fd.client = msg.name
                                       /\ fd.server = NoServer
                                       /\ fd.kind = msg.kind
                                       /\ fd.label = msg.label
                                       /\ Configured(fd),
             msg.action \in {"Confirm", "Reject"} => fd = msg.fd
      PROVE  Drop \/ Answer
  <2> DEFINE m == Packet("Confirm", msg.kind, msg.name, label, fd)
  <2>1. m \in Msgs
    BY <1>1, PacketType
  <2>2. Answers(msg, m)
    BY <1>4 DEF Answers, Packet
  <2>3. ToComponent(msg.name, m)
    BY <1>4 DEF Send_Confirm
  <2> HIDE DEF m
  <2> QED BY <2>1, <2>2, <2>3, <1>2, <1>4
<1>5. ASSUME Dispose
      PROVE  Drop
  BY <1>5 DEF Dispose
<1>6. CASE msg.action = "Request"
  <2> DEFINE kind    == msg.kind
             label   == msg.label
             i       == Match_Service(source, kind, label)
             service == Services[source][i]
  <2>0. msg.name = source
    BY <1>6
  <2>1. Process_Request(source, kind, label)
    BY <1>6 DEF Handle_Message
  <2>2. CASE Send_Reject(source, kind, label)
    BY <2>0, <2>2, <1>1, <1>3
  <2>3. CASE Dispose
    BY <2>3, <1>5
  <2>4. ASSUME NEW ok \in BOOLEAN, i # 0, kind \in ServerKinds, service.server # NoServer,
               Forward(source, service.server, kind, label, ok)
        PROVE  Drop \/ Answer \/ Pass
    <3> DEFINE dest == service.server
               end  == [id |-> nextId + 1, client |-> source, server |-> dest,
                        kind |-> kind, label |-> label]
               m    == Packet("Request", kind, source, label, end)
    <3>1. dest \in Components
      BY <2>4, <1>1, MatchType DEF Services_Type
    <3>2. dest = ServerOf(source, kind, label)
      BY <2>4 DEF ServerOf
    <3>3. CASE ok
      <4> HIDE DEF dest
      <4>1. end \in Ends
        BY <3>1, <1>1 DEF Ends, TypeOK
      <4>2. m \in Msgs
        <5> HIDE DEF end
        <5> QED BY <4>1, <1>1, PacketType
      <4>3. Forwards(msg, m, dest)
        BY <2>0, <3>2 DEF Forwards, Packet
      <4>4. down' = down /\ req' = [req EXCEPT ![dest][kind] = Send(req[dest][kind], m)]
        BY <2>4, <3>3 DEF Forward, Setup_Service, dest
      <4> HIDE DEF m
      <4> QED BY <2>4, <3>1, <4>2, <4>3, <4>4, <1>6
    <3>4. CASE ~ok
      <4>1. Send_Reject(source, kind, label)
        BY <2>4, <3>4 DEF Forward, Setup_Service
      <4> QED BY <4>1, <2>2
    <3> QED BY <3>3, <3>4
  <2>5. ASSUME NEW ok \in BOOLEAN, i # 0, kind \notin ServerKinds,
               Provide(source, kind, label, ok)
        PROVE  Drop \/ Answer \/ Pass
    <3> DEFINE end == [id |-> nextId + 1, client |-> source, server |-> NoServer,
                       kind |-> kind, label |-> label]
    <3>1. CASE ok
      <4>1. end \in Ends
        BY <1>1 DEF Ends, TypeOK
      <4>2. /\ Send_Confirm(msg.name, kind, label, end)
            /\ req' = req
        BY <2>0, <2>5, <3>1 DEF Provide
      <4>3. /\ end.client = msg.name /\ end.server = NoServer
            /\ end.kind = kind /\ end.label = label
        BY <2>0
      <4> HIDE DEF end
      <4>4. Configured(end)
        BY <2>0, <2>5, <4>1, <4>3, MatchConfigured
      <4> QED BY <4>1, <4>2, <4>3, <4>4, <1>1, <1>4, <1>6
    <3>2. CASE ~ok
      <4>1. Send_Reject(source, kind, label)
        BY <2>5, <3>2 DEF Provide
      <4> QED BY <2>2, <4>1
    <3> QED BY <3>1, <3>2
  <2> QED
    <3>1. kind \in {"Message", "Log", "Memory"} <=> kind \in ServerKinds
      BY <1>1 DEF ServerKinds
    <3>2. kind \in KindType
      BY <1>1, KindsAssumption
    <3>3. i # 0 => service.resource \in BOOLEAN
      BY <2>0, <1>1, MatchType DEF Services_Type
    <3>4. Outcomes \subseteq BOOLEAN
      BY BoundsAssumption
    <3> HIDE DEF i, service, Drop, Answer, Pass
    <3> QED BY <2>1, <2>2, <2>3, <2>4, <2>5, <3>1, <3>2, <3>3, <3>4
          DEF Process_Request, KindType, i, service
<1>7. CASE msg.action = "Register"
  <2> DEFINE end == [id |-> 0, client |-> source, server |-> source,
                     kind |-> msg.kind, label |-> EmptyLabel]
  <2>1. EmptyLabel \in Labels /\ msg.name = source
    BY <1>7, EmptyAssumption
  <2>2. end \in Ends
    BY <2>1, <1>1 DEF Ends
  <2>3. Process_Register(source, msg.kind)
    BY <1>7 DEF Handle_Message
  <2>4. CASE Send_Reject(source, msg.kind, EmptyLabel)
    BY <2>4, <2>1, <1>3
  <2>5. CASE Send_Confirm(source, msg.kind, EmptyLabel, end) /\ req' = req
    <3> HIDE DEF end
    <3> QED BY <2>1, <2>2, <2>5, <1>4, <1>7
  <2> HIDE DEF Drop, Answer, Pass
  <2> QED BY <2>3, <2>4, <2>5 DEF Process_Register, Setup_Service
<1>8. CASE msg.action = "Confirm"
  <2>1. \/ Dispose
        \/ Send_Reject(msg.name, msg.kind, msg.label)
        \/ /\ msg.fd # NoFd
           /\ Send_Confirm(msg.name, msg.kind, msg.label, msg.fd)
           /\ req' = req
    BY <1>8 DEF Handle_Message, Process_Confirm
  <2> HIDE DEF Drop, Answer, Pass
  <2> QED BY <2>1, <1>1, <1>3, <1>4, <1>5, <1>8
<1>9. CASE msg.action = "Reject"
  <2>1. Dispose \/ Send_Reject(msg.name, msg.kind, msg.label)
    BY <1>9 DEF Handle_Message, Process_Reject
  <2> HIDE DEF Drop, Answer, Pass
  <2> QED BY <2>1, <1>1, <1>3, <1>5
<1> HIDE DEF Drop, Answer, Pass
<1> QED BY <1>1, <1>6, <1>7, <1>8, <1>9

-----------------------------------------------------------------------------
(* Steps                                                                   *)

\* A server gives up the ends it holds only by exiting, for good.
LEMMA HeldKept ==
    ASSUME \A c \in Components :
              /\ serverS[c] \subseteq serverS'[c] \/ status'[c] = "exited"
              /\ status[c] = "exited" => status'[c] = "exited"
    PROVE  HeldEnds \subseteq HeldEnds'
BY DEF HeldEnds

\* Initialize and Register: a component that is not blocked asks.
LEMMA AskStep ==
    ASSUME TypeOK, NEW ph \in [Components -> Stages], StageInv(ph),
           NEW c \in Components, NEW r \in Calls, NEW m \in Msgs,
           call[c] = NoCall, call'[c] = r,
           \A d \in Components : d # c => call'[d] = call[d],
           m.name = c, m.action = r.action, m.kind = r.kind, m.label = r.label,
           up'[c] = Send(up[c], m), \A d \in Components : d # c => up'[d] = up[d],
           UNCHANGED <<status, serverS, down, req, ans, cur, accepted>>
    PROVE  \E ph2 \in [Components -> Stages] : StageInv(ph2)'
<1> DEFINE ph2 == [ph EXCEPT ![c] = "up"]
<1>a. /\ UpInv(ph, call, up)
      /\ DownInv(ph, call, HeldEnds, down)
      /\ CurInv(ph, call, cur, accepted)
      /\ QueueInv(ph, "req", call, req)
      /\ QueueInv(ph, "ans", call, ans)
      /\ AnswerInv(HeldEnds, ans)
  BY DEF StageInv
<1>0. req \in Queues /\ ans \in Queues
  BY DEF TypeOK, Queues
<1>1. ph[c] = "idle"
  BY DEF StageInv, CallInv
<1>2. call'[c] = r /\ r # NoCall /\ \A d \in Components : d # c => call'[d] = call[d]
  BY NoCallAssumption DEF TypeOK
<1>3. /\ ph2 \in [Components -> Stages]
      /\ ph2[c] = "up"
  BY DEF Stages
<1>k. ASSUME NEW stage
      PROVE  Keeps(ph, ph2, call, call', stage, c)
  BY <1>2 DEF Keeps
<1>4. HeldEnds \subseteq HeldEnds'
  BY HeldKept
<1>5. CallInv(ph2, call')
  BY <1>2 DEF StageInv, CallInv
<1> HIDE DEF ph2
<1>6. UpInv(ph2, call', up')
  <2>1. up[c] = <<>>
    BY <1>1, <1>a DEF UpInv
  <2>2. up'[c] = Send(<<>>, m)
    BY <2>1
  <2>3. up'[c] = <<>> \/ (Len(up'[c]) = 1 /\ up'[c][1] = m)
    BY <2>2, SendEmpty
  <2>4. Keeps(ph, ph2, call, call', "up", c)
    BY <1>k
  <2> QED BY <2>3, <2>4, <1>2, <1>3, <1>a DEF UpInv, Keeps
<1>7. DownInv(ph2, call', HeldEnds', down')
  <2>1. down'[c] = <<>>
    BY <1>1 DEF StageInv, DownInv
  <2>2. Keeps(ph, ph2, call, call', "down", c)
    BY <1>k
  <2> QED BY <2>1, <2>2, <1>4, <1>a, DownFrame
<1>8. CurInv(ph2, call', cur', accepted')
  <2>1. \A s \in Components : (cur'[s] # NoMsg /\ ~accepted'[s]) =>
           cur'[s] = cur[s] /\ ~accepted[s] /\ cur[s].name # c
    BY <1>1, <1>a DEF CurInv
  <2>2. Keeps(ph, ph2, call, call', "cur", c)
    BY <1>k
  <2>3. cur \in [Components -> Msgs \cup {NoMsg}]
    BY DEF TypeOK
  <2> QED BY <2>1, <2>2, <2>3, <1>a, CurFrame
<1>9. QueueInv(ph2, "req", call', req') /\ QueueInv(ph2, "ans", call', ans')
  <2>1. Keeps(ph, ph2, call, call', "req", c) /\ Keeps(ph, ph2, call, call', "ans", c)
    BY <1>k
  <2> QED BY <2>1, <1>0, <1>1, <1>a, QueueFrame
<1>10. AnswerInv(HeldEnds', ans')
  BY <1>0, <1>4, <1>a, AnswerFrame
<1> QED BY <1>3, <1>5, <1>6, <1>7, <1>8, <1>9, <1>10 DEF StageInv

\* Initialized and Registered: the answer is read and the call returns.
LEMMA ReturnStep ==
    ASSUME TypeOK, NEW ph \in [Components -> Stages], StageInv(ph),
           NEW c \in Components, down[c] # <<>>,
           call'[c] = NoCall, \A d \in Components : d # c => call'[d] = call[d],
           down'[c] = Tail(down[c]), \A d \in Components : d # c => down'[d] = down[d],
           UNCHANGED <<status, serverS, up, req, ans, cur, accepted>>
    PROVE  \E ph2 \in [Components -> Stages] : StageInv(ph2)'
<1> DEFINE ph2 == [ph EXCEPT ![c] = "idle"]
<1>a. /\ UpInv(ph, call, up)
      /\ DownInv(ph, call, HeldEnds, down)
      /\ CurInv(ph, call, cur, accepted)
      /\ QueueInv(ph, "req", call, req)
      /\ QueueInv(ph, "ans", call, ans)
      /\ AnswerInv(HeldEnds, ans)
  BY DEF StageInv
<1>0. req \in Queues /\ ans \in Queues /\ down[c] \in Seq(Msgs)
  BY DEF TypeOK, Queues
<1>1. ph[c] = "down" /\ Len(down[c]) = 1
  BY DEF StageInv, DownInv
<1>2. call'[c] = NoCall /\ \A d \in Components : d # c => call'[d] = call[d]
  BY DEF TypeOK
<1>3. /\ ph2 \in [Components -> Stages]
      /\ ph2[c] = "idle"
  BY DEF Stages
<1>k. ASSUME NEW stage
      PROVE  Keeps(ph, ph2, call, call', stage, c)
  BY <1>2 DEF Keeps
<1>4. HeldEnds \subseteq HeldEnds'
  BY HeldKept
<1>5. CallInv(ph2, call')
  BY <1>2 DEF StageInv, CallInv
<1> HIDE DEF ph2
<1>6. UpInv(ph2, call', up')
  <2>1. up'[c] = <<>>
    BY <1>1 DEF StageInv, UpInv
  <2>2. Keeps(ph, ph2, call, call', "up", c)
    BY <1>k
  <2> QED BY <2>1, <2>2, <1>a, UpFrame
<1>7. DownInv(ph2, call', HeldEnds', down')
  <2>1. down'[c] = <<>> /\ \A e \in Components : e # c => down'[e] = down[e]
    BY <1>0, <1>1, TailElems DEF TypeOK
  <2>2. Keeps(ph, ph2, call, call', "down", c)
    BY <1>k
  <2> QED BY <2>1, <2>2, <1>4, <1>a, DownFrame
<1>8. CurInv(ph2, call', cur', accepted')
  <2>1. \A s \in Components : (cur'[s] # NoMsg /\ ~accepted'[s]) =>
           cur'[s] = cur[s] /\ ~accepted[s] /\ cur[s].name # c
    BY <1>1, <1>a DEF CurInv
  <2>2. Keeps(ph, ph2, call, call', "cur", c)
    BY <1>k
  <2>3. cur \in [Components -> Msgs \cup {NoMsg}]
    BY DEF TypeOK
  <2> QED BY <2>1, <2>2, <2>3, <1>a, CurFrame
<1>9. QueueInv(ph2, "req", call', req') /\ QueueInv(ph2, "ans", call', ans')
  <2>1. Keeps(ph, ph2, call, call', "req", c) /\ Keeps(ph, ph2, call, call', "ans", c)
    BY <1>k
  <2> QED BY <2>1, <1>0, <1>1, <1>a, QueueFrame
<1>10. AnswerInv(HeldEnds', ans')
  BY <1>0, <1>4, <1>a, AnswerFrame
<1> QED BY <1>3, <1>5, <1>6, <1>7, <1>8, <1>9, <1>10 DEF StageInv

\* Read_Message, Hang_Up, Read_Service: the broker handles a message that
\* has left its place.
LEMMA HandleStep ==
    ASSUME TypeOK, NEW ph \in [Components -> Stages], StageInv(ph),
           NEW source \in Components, NEW msg \in Msgs, NEW c \in Components,
           msg.name = c, ph[c] \in {"up", "ans"},
           call[c] # NoCall, call[c].kind = msg.kind, call[c].label = msg.label,
           msg.action \in {"Request", "Register"} =>
               source = c /\ call[c].action = msg.action,
           (msg.action \in {"Confirm", "Reject"} /\ msg.fd # NoFd) =>
               /\ msg.fd.client = c
               /\ msg.fd.kind = msg.kind
               /\ msg.fd.label = msg.label
               /\ msg.fd \in HeldEnds,
           Handle_Message(source, msg),
           UNCHANGED <<status, serverS, call, cur, accepted>>
    PROVE  \E st \in {"down", "req"} :
              /\ CallInv([ph EXCEPT ![c] = st], call')
              /\ DownInv([ph EXCEPT ![c] = st], call', HeldEnds', down')
              /\ CurInv([ph EXCEPT ![c] = st], call', cur', accepted')
              /\ QueueInv([ph EXCEPT ![c] = st], "req", call', req')
<1>a. /\ CallInv(ph, call)
      /\ DownInv(ph, call, HeldEnds, down)
      /\ CurInv(ph, call, cur, accepted)
      /\ QueueInv(ph, "req", call, req)
  BY DEF StageInv
<1>0. req \in Queues /\ down \in [Components -> Seq(Msgs)]
  BY DEF TypeOK, Queues
<1>1. HeldEnds' = HeldEnds
  BY DEF HeldEnds
<1>2. msg.fd \in Ends \cup {NoFd}
  BY DEF Msgs
<1>3. ASSUME NEW st \in {"down", "req"}, NEW ph2, ph2 = [ph EXCEPT ![c] = st]
      PROVE  /\ CallInv(ph2, call')
             /\ CurInv(ph2, call', cur', accepted')
             /\ ph2[c] = st
             /\ Keeps(ph, ph2, call, call', "down", c)
             /\ Keeps(ph, ph2, call, call', "req", c)
  <2>1. ph2[c] = st /\ \A d \in Components : d # c => ph2[d] = ph[d]
    BY <1>3
  <2>2. CallInv(ph2, call')
    BY <2>1, <1>a DEF CallInv
  <2>3. \A s \in Components : (cur'[s] # NoMsg /\ ~accepted'[s]) =>
           cur'[s] = cur[s] /\ ~accepted[s] /\ cur[s].name # c
    BY <1>a DEF CurInv
  <2>4. /\ Keeps(ph, ph2, call, call', "cur", c)
        /\ Keeps(ph, ph2, call, call', "down", c)
        /\ Keeps(ph, ph2, call, call', "req", c)
    BY <2>1 DEF Keeps
  <2>5. cur \in [Components -> Msgs \cup {NoMsg}]
    BY DEF TypeOK
  <2>6. CurInv(ph2, call', cur', accepted')
    BY <2>3, <2>4, <2>5, <1>a, CurFrame
  <2> QED BY <2>1, <2>2, <2>4, <2>6
<1>4. CASE down' = down /\ req' = req
  <2> DEFINE ph2 == [ph EXCEPT ![c] = "down"]
  <2>1. /\ CallInv(ph2, call')
        /\ CurInv(ph2, call', cur', accepted')
        /\ Keeps(ph, ph2, call, call', "down", c)
        /\ Keeps(ph, ph2, call, call', "req", c)
    BY <1>3
  <2> HIDE DEF ph2
  <2>2. down'[c] = <<>>
    BY <1>4, <1>a DEF DownInv
  <2>3. DownInv(ph2, call', HeldEnds', down')
    BY <2>1, <2>2, <1>1, <1>4, <1>a, DownFrame
  <2>4. QueueInv(ph2, "req", call', req')
    BY <2>1, <1>0, <1>4, <1>a, QueueFrame
  <2> QED BY <2>1, <2>3, <2>4 DEF ph2
<1>5. ASSUME req' = req, NEW m \in Msgs, Answers(msg, m),
             down' = [down EXCEPT ![c] = Send(down[c], m)]
      PROVE  /\ CallInv([ph EXCEPT ![c] = "down"], call')
             /\ DownInv([ph EXCEPT ![c] = "down"], call', HeldEnds', down')
             /\ CurInv([ph EXCEPT ![c] = "down"], call', cur', accepted')
             /\ QueueInv([ph EXCEPT ![c] = "down"], "req", call', req')
  <2> DEFINE ph2 == [ph EXCEPT ![c] = "down"]
  <2>1. /\ CallInv(ph2, call')
        /\ CurInv(ph2, call', cur', accepted')
        /\ ph2[c] = "down"
        /\ Keeps(ph, ph2, call, call', "down", c)
        /\ Keeps(ph, ph2, call, call', "req", c)
    BY <1>3
  <2> HIDE DEF ph2
  <2>2. down'[c] = Send(down[c], m) /\ \A e \in Components : e # c => down'[e] = down[e]
    BY <1>0, <1>5
  <2>3. Suits(call', HeldEnds', m, c)
    <3> SUFFICES ASSUME m.fd # NoFd, call[c].action = "Request"
                 PROVE  /\ m.fd.client = c
                        /\ m.fd.kind = call[c].kind
                        /\ m.fd.label = call[c].label
                        /\ m.fd \in HeldEnds
      BY <1>1 DEF Suits
    <3>1. msg.action \in {"Request", "Confirm", "Reject", "Register"} /\ m.fd \in Ends
      BY DEF Msgs
    <3>2. CASE msg.action = "Request"
      <4>1. /\ m.fd.client = c /\ m.fd.server = NoServer
            /\ m.fd.kind = msg.kind /\ m.fd.label = msg.label
            /\ Configured(m.fd)
        BY <3>2, <1>5 DEF Answers
      <4>2. m.fd \in HeldEnds
        BY <3>1, <4>1, NoServerAssumption DEF HeldEnds
      <4> QED BY <4>1, <4>2
    <3>3. CASE msg.action \in {"Confirm", "Reject"}
      <4>1. m.fd = msg.fd
        BY <3>3, <1>5 DEF Answers
      <4> QED BY <3>3, <4>1
    <3>4. CASE msg.action = "Register"
      BY <3>4
    <3> QED BY <3>1, <3>2, <3>3, <3>4
  <2>4. DownInv(ph2, call', HeldEnds', down')
    <3>1. ph[c] # "down" /\ HeldEnds \subseteq HeldEnds'
      BY <1>1
    <3> QED BY <2>1, <2>2, <2>3, <3>1, <1>0, <1>a, DownSend
  <2>5. QueueInv(ph2, "req", call', req')
    BY <2>1, <1>0, <1>5, <1>a, QueueFrame
  <2> QED BY <2>1, <2>4, <2>5 DEF ph2
<1>6. ASSUME down' = down, msg.action = "Request", msg.kind \in ServerKinds,
             NEW m \in Msgs, NEW s \in Components, Forwards(msg, m, s),
             req' = [req EXCEPT ![s][msg.kind] = Send(req[s][msg.kind], m)]
      PROVE  /\ CallInv([ph EXCEPT ![c] = "req"], call')
             /\ DownInv([ph EXCEPT ![c] = "req"], call', HeldEnds', down')
             /\ CurInv([ph EXCEPT ![c] = "req"], call', cur', accepted')
             /\ QueueInv([ph EXCEPT ![c] = "req"], "req", call', req')
  <2> DEFINE ph2 == [ph EXCEPT ![c] = "req"]
             k   == msg.kind
  <2>1. /\ CallInv(ph2, call')
        /\ CurInv(ph2, call', cur', accepted')
        /\ ph2[c] = "req"
        /\ Keeps(ph, ph2, call, call', "down", c)
        /\ Keeps(ph, ph2, call, call', "req", c)
    BY <1>3
  <2> HIDE DEF ph2
  <2>2. down'[c] = <<>>
    BY <1>6, <1>a DEF DownInv
  <2>3. DownInv(ph2, call', HeldEnds', down')
    BY <2>1, <2>2, <1>1, <1>6, <1>a, DownFrame
  <2>4. k \in ServerKinds /\ req'[s][k] = Send(req[s][k], m) /\ SameBut(req, req', s, k)
    BY <1>0, <1>6 DEF Queues, SameBut
  <2>5. Pending(call', m, s, k) /\ m.name = c
    BY <1>6 DEF Pending, Forwards
  <2> HIDE DEF k
  <2>6. QueueInv(ph2, "req", call', req')
    <3>1. ph[c] # "req"
      OBVIOUS
    <3> QED BY <2>1, <2>4, <2>5, <3>1, <1>0, <1>a, QueueSend
  <2> QED BY <2>1, <2>3, <2>6 DEF ph2
<1> QED BY <1>4, <1>5, <1>6, HandleEffect

\* The broker reads from a component's own socket, before or after its end.
LEMMA ReadUpStep ==
    ASSUME TypeOK, NEW ph \in [Components -> Stages], StageInv(ph), NEW c \in Components,
           up[c] # <<>>, Handle_Message(c, Head(up[c])), up'[c] = <<>>,
           \A d \in Components : d # c => up'[d] = up[d],
           UNCHANGED <<status, serverS, call, cur, accepted, ans>>
    PROVE  \E ph2 \in [Components -> Stages] : StageInv(ph2)'
<1> DEFINE msg == up[c][1]
<1>1. /\ ph[c] = "up" /\ Len(up[c]) = 1
      /\ msg.name = c /\ msg.action = call[c].action
      /\ msg.kind = call[c].kind /\ msg.label = call[c].label
      /\ call[c] # NoCall
  BY DEF StageInv, UpInv, CallInv
<1>2. msg \in Msgs /\ Head(up[c]) = msg
  BY <1>1 DEF TypeOK
<1>3. call[c].action \in {"Request", "Register"}
  BY <1>1 DEF TypeOK, Calls
<1> HIDE DEF msg
<1>4. PICK st \in {"down", "req"} :
         /\ CallInv([ph EXCEPT ![c] = st], call')
         /\ DownInv([ph EXCEPT ![c] = st], call', HeldEnds', down')
         /\ CurInv([ph EXCEPT ![c] = st], call', cur', accepted')
         /\ QueueInv([ph EXCEPT ![c] = st], "req", call', req')
  BY <1>1, <1>2, <1>3, HandleStep
<1> DEFINE ph2 == [ph EXCEPT ![c] = st]
<1>5. /\ ph2 \in [Components -> Stages]
      /\ Keeps(ph, ph2, call, call', "up", c)
      /\ Keeps(ph, ph2, call, call', "ans", c)
  BY DEF Stages, Keeps
<1>6. CallInv(ph2, call') /\ DownInv(ph2, call', HeldEnds', down')
      /\ CurInv(ph2, call', cur', accepted') /\ QueueInv(ph2, "req", call', req')
  BY <1>4
<1> HIDE DEF ph2
<1>7. UpInv(ph2, call', up')
  <2>1. UpInv(ph, call, up)
    BY DEF StageInv
  <2> QED BY <2>1, <1>5, UpFrame
<1>8. QueueInv(ph2, "ans", call', ans') /\ AnswerInv(HeldEnds', ans')
  <2>1. ans \in Queues /\ HeldEnds' = HeldEnds
    BY DEF TypeOK, Queues, HeldEnds
  <2>2. QueueInv(ph, "ans", call, ans) /\ AnswerInv(HeldEnds, ans) /\ ph[c] # "ans"
    BY <1>1 DEF StageInv
  <2> QED BY <2>1, <2>2, <1>5, QueueFrame
<1> QED BY <1>5, <1>6, <1>7, <1>8 DEF StageInv

\* The broker reads a server's answer.
LEMMA ReadAnsStep ==
    ASSUME TypeOK, NEW ph \in [Components -> Stages], StageInv(ph),
           NEW s \in Components, NEW k \in ServerKinds,
           ans[s][k] # <<>>, Handle_Message(s, Head(ans[s][k])),
           ans'[s][k] = Tail(ans[s][k]), SameBut(ans, ans', s, k),
           UNCHANGED <<status, serverS, call, cur, accepted, up>>
    PROVE  \E ph2 \in [Components -> Stages] : StageInv(ph2)'
<1> DEFINE msg == ans[s][k][1]
           c   == msg.name
<1>0. ans \in Queues /\ ans[s][k] \in Seq(Msgs) /\ HeldEnds' = HeldEnds
  BY DEF TypeOK, Queues, HeldEnds
<1>1. Head(ans[s][k]) = msg /\ Len(ans[s][k]) \in Nat \ {0}
  BY <1>0, TailElems
<1>2. msg \in Msgs
  BY <1>0, <1>1
<1>3. c \in Components
  BY <1>2 DEF Msgs
<1>4. /\ ph[c] = "ans"
      /\ Pending(call, msg, s, k)
      /\ msg.action \in {"Confirm", "Reject"}
      /\ msg.fd # NoFd => msg.fd \in HeldEnds
  BY <1>1 DEF StageInv, QueueInv, AnswerInv
<1>5. /\ call[c] # NoCall /\ call[c].kind = msg.kind /\ call[c].label = msg.label
      /\ msg.fd # NoFd => /\ msg.fd.client = c
                          /\ msg.fd.kind = msg.kind
                          /\ msg.fd.label = msg.label
  BY <1>4 DEF Pending
<1> HIDE DEF msg
<1>6. PICK st \in {"down", "req"} :
         /\ CallInv([ph EXCEPT ![c] = st], call')
         /\ DownInv([ph EXCEPT ![c] = st], call', HeldEnds', down')
         /\ CurInv([ph EXCEPT ![c] = st], call', cur', accepted')
         /\ QueueInv([ph EXCEPT ![c] = st], "req", call', req')
  BY <1>1, <1>2, <1>3, <1>4, <1>5, HandleStep
<1> DEFINE ph2 == [ph EXCEPT ![c] = st]
<1>7. /\ ph2 \in [Components -> Stages]
      /\ Keeps(ph, ph2, call, call', "up", c)
      /\ Keeps(ph, ph2, call, call', "ans", c)
  BY DEF Stages, Keeps
<1>8. CallInv(ph2, call') /\ DownInv(ph2, call', HeldEnds', down')
      /\ CurInv(ph2, call', cur', accepted') /\ QueueInv(ph2, "req", call', req')
  BY <1>6
<1> HIDE DEF ph2
<1>9. UpInv(ph2, call', up')
  <2>1. UpInv(ph, call, up)
    BY DEF StageInv
  <2>2. up'[c] = <<>>
    BY <2>1, <1>3, <1>4 DEF UpInv
  <2> QED BY <2>1, <2>2, <1>3, <1>7, UpFrame
<1>10. QueueInv(ph2, "ans", call', ans')
  <2>1. QueueInv(ph, "ans", call, ans)
    BY DEF StageInv
  <2> QED BY <2>1, <1>0, <1>7, QueueTake DEF msg
<1>11. AnswerInv(HeldEnds', ans')
  <2>1. AnswerInv(HeldEnds, ans)
    BY DEF StageInv
  <2> QED BY <2>1, <1>0, AnswerTake
<1> QED BY <1>7, <1>8, <1>9, <1>10, <1>11 DEF StageInv

\* A dispatcher takes the next request.
LEMMA DispatchStep ==
    ASSUME TypeOK, NEW ph \in [Components -> Stages], StageInv(ph),
           NEW s \in Components, NEW k \in ServerKinds, Dispatch_Event(s, k)
    PROVE  \E ph2 \in [Components -> Stages] : StageInv(ph2)'
<1> DEFINE msg == req[s][k][1]
           c   == msg.name
           ph2 == [ph EXCEPT ![c] = "cur"]
<1>0. /\ req \in Queues /\ ans \in Queues /\ req[s][k] \in Seq(Msgs) /\ req[s][k] # <<>>
      /\ HeldEnds' = HeldEnds /\ call' = call /\ up' = up /\ down' = down /\ ans' = ans
  BY DEF Dispatch_Event, TypeOK, Queues, HeldEnds, procVars
<1>1. Head(req[s][k]) = msg /\ Len(req[s][k]) \in Nat \ {0}
  BY <1>0, TailElems
<1>2. msg \in Msgs
  BY <1>0, <1>1
<1>3. c \in Components
  BY <1>2 DEF Msgs
<1>4. ph[c] = "req" /\ Pending(call, msg, s, k)
  BY <1>1 DEF StageInv, QueueInv
<1>5. msg.kind = k
  BY <1>4 DEF Pending
<1>6. /\ req'[s][k] = Tail(req[s][k]) /\ SameBut(req, req', s, k)
      /\ \A t \in Components : t # s => cur'[t] = cur[t] /\ accepted'[t] = accepted[t]
      /\ accepted'[s] = FALSE
  BY DEF Dispatch_Event, TypeOK, SameBut
<1>7. cur'[s] = msg
  <2>1. cur'[s] = [msg EXCEPT !.kind = k, !.fd = IF msg.kind = k THEN @ ELSE NoFd]
    BY <1>1 DEF Dispatch_Event, TypeOK
  <2>2. [msg EXCEPT !.kind = k, !.fd = IF msg.kind = k THEN @ ELSE NoFd] = msg
    BY <1>2, <1>5 DEF Msgs
  <2> QED BY <2>1, <2>2
<1>8. /\ ph2 \in [Components -> Stages]
      /\ ph2[c] = "cur"
      /\ \A d \in Components : d # c => ph2[d] = ph[d]
  BY <1>3 DEF Stages
<1> HIDE DEF msg, ph2
<1>9. /\ Keeps(ph, ph2, call, call', "up", c) /\ Keeps(ph, ph2, call, call', "down", c)
      /\ Keeps(ph, ph2, call, call', "req", c) /\ Keeps(ph, ph2, call, call', "ans", c)
      /\ Keeps(ph, ph2, call, call', "cur", c)
  BY <1>0, <1>8 DEF Keeps
<1>10. CallInv(ph2, call')
  <2>1. call[c] # NoCall
    BY <1>4 DEF Pending
  <2> QED BY <2>1, <1>0, <1>3, <1>8 DEF StageInv, CallInv
<1>11. UpInv(ph2, call', up')
  <2>1. UpInv(ph, call, up)
    BY DEF StageInv
  <2>2. up'[c] = <<>>
    BY <2>1, <1>0, <1>3, <1>4 DEF UpInv
  <2> QED BY <2>1, <2>2, <1>0, <1>3, <1>9, UpFrame
<1>12. DownInv(ph2, call', HeldEnds', down')
  <2>1. DownInv(ph, call, HeldEnds, down)
    BY DEF StageInv
  <2>2. down'[c] = <<>>
    BY <2>1, <1>0, <1>3, <1>4 DEF DownInv
  <2> QED BY <2>1, <2>2, <1>0, <1>3, <1>9, DownFrame
<1>13. CurInv(ph2, call', cur', accepted')
  <2>1. ASSUME NEW t \in Components, t # s, cur[t] # NoMsg, ~accepted[t]
        PROVE  /\ ph2[cur[t].name] = "cur" /\ cur[t].kind \in ServerKinds
               /\ Pending(call, cur[t], t, cur[t].kind)
    <3>1. ph[cur[t].name] = "cur" /\ cur[t].kind \in ServerKinds
          /\ Pending(call, cur[t], t, cur[t].kind)
      BY <2>1 DEF StageInv, CurInv
    <3>2. cur[t].name \in Components
      BY <2>1 DEF TypeOK, Msgs
    <3> QED BY <3>1, <3>2, <1>4, <1>8
  <2> QED BY <2>1, <1>0, <1>4, <1>5, <1>6, <1>7, <1>8 DEF CurInv
<1>14. QueueInv(ph2, "req", call', req')
  <2>1. QueueInv(ph, "req", call, req)
    BY DEF StageInv
  <2> QED BY <2>1, <1>0, <1>6, <1>9, QueueTake DEF msg
<1>15. QueueInv(ph2, "ans", call', ans') /\ AnswerInv(HeldEnds', ans')
  <2>1. QueueInv(ph, "ans", call, ans) /\ AnswerInv(HeldEnds, ans) /\ ph[c] # "ans"
    BY <1>4 DEF StageInv
  <2> QED BY <2>1, <1>0, <1>9, QueueFrame
<1> QED BY <1>8, <1>10, <1>11, <1>12, <1>13, <1>14, <1>15 DEF StageInv

\* A dispatcher answers the request it has in hand.
LEMMA AnswerStep ==
    ASSUME TypeOK, NEW ph \in [Components -> Stages], StageInv(ph),
           NEW s \in Components, cur[s] # NoMsg, ~accepted[s],
           NEW m \in Msgs, m.action \in {"Confirm", "Reject"},
           m.name = cur[s].name, m.kind = cur[s].kind, m.label = cur[s].label,
           m.fd = NoFd \/ (m.fd = cur[s].fd /\ m.fd \in serverS'[s]),
           HeldEnds \subseteq HeldEnds',
           cur'[s] = NoMsg \/ accepted'[s],
           \A t \in Components : t # s => cur'[t] = cur[t] /\ accepted'[t] = accepted[t],
           ans'[s][cur[s].kind] = Send(ans[s][cur[s].kind], m),
           SameBut(ans, ans', s, cur[s].kind),
           UNCHANGED <<call, up, down, req>>
    PROVE  \E ph2 \in [Components -> Stages] : StageInv(ph2)'
<1> DEFINE c   == m.name
           k   == cur[s].kind
           ph2 == [ph EXCEPT ![c] = "ans"]
<1>0. req \in Queues /\ ans \in Queues
  BY DEF TypeOK, Queues
<1>1. c \in Components /\ cur[s] \in Msgs /\ m.fd \in Ends \cup {NoFd}
  BY DEF TypeOK, Msgs
<1>2. ph[c] = "cur" /\ k \in ServerKinds /\ Pending(call, cur[s], s, k)
  BY DEF StageInv, CurInv
<1>3. Pending(call, m, s, k) /\ call[c] # NoCall
  BY <1>2 DEF Pending
<1>4. m.fd # NoFd => m.fd \in HeldEnds'
  <2> SUFFICES ASSUME m.fd # NoFd
               PROVE  m.fd \in HeldEnds'
    OBVIOUS
  <2>1. /\ m.fd \in Ends /\ m.fd.server = s /\ m.fd \in serverS'[s]
        /\ m.fd.client = c /\ m.fd.kind = k /\ m.fd.label = m.label
    BY <1>1, <1>2 DEF Pending
  <2>2. ServerOf(c, k, m.label) = s
    BY <1>2 DEF Pending
  <2>3. Match_Service(c, k, m.label) # 0
    BY <2>2, NoServerAssumption DEF ServerOf
  <2>4. Configured(m.fd)
    BY <2>1, <2>2, <2>3, <1>2, MatchConfigured
  <2> QED BY <2>1, <2>4 DEF HeldEnds, Configured
<1>5. /\ ph2 \in [Components -> Stages]
      /\ ph2[c] = "ans"
      /\ \A d \in Components : d # c => ph2[d] = ph[d]
  BY <1>1 DEF Stages
<1> HIDE DEF ph2
<1>6. /\ Keeps(ph, ph2, call, call', "up", c) /\ Keeps(ph, ph2, call, call', "down", c)
      /\ Keeps(ph, ph2, call, call', "req", c) /\ Keeps(ph, ph2, call, call', "ans", c)
      /\ Keeps(ph, ph2, call, call', "cur", c)
  BY <1>5 DEF Keeps
<1>7. CallInv(ph2, call')
  BY <1>3, <1>5 DEF StageInv, CallInv
<1>8. UpInv(ph2, call', up')
  <2>1. UpInv(ph, call, up)
    BY DEF StageInv
  <2>2. up'[c] = <<>>
    BY <2>1, <1>1, <1>2 DEF UpInv
  <2> QED BY <2>1, <2>2, <1>1, <1>6, UpFrame
<1>9. DownInv(ph2, call', HeldEnds', down')
  <2>1. DownInv(ph, call, HeldEnds, down)
    BY DEF StageInv
  <2>2. down'[c] = <<>>
    BY <2>1, <1>1, <1>2 DEF DownInv
  <2> QED BY <2>1, <2>2, <1>1, <1>6, DownFrame
<1>10. CurInv(ph2, call', cur', accepted')
  <2>1. CurInv(ph, call, cur, accepted) /\ cur \in [Components -> Msgs \cup {NoMsg}]
    BY DEF StageInv, TypeOK
  <2>2. ASSUME NEW t \in Components, cur'[t] # NoMsg, ~accepted'[t]
        PROVE  cur'[t] = cur[t] /\ ~accepted[t] /\ cur[t].name # c
    <3>1. t # s /\ cur'[t] = cur[t] /\ ~accepted[t]
      BY <2>2
    <3>2. Pending(call, cur[t], t, cur[t].kind)
      BY <2>1, <2>2, <3>1 DEF CurInv
    <3> QED BY <3>1, <3>2, <1>2 DEF Pending
  <2> QED BY <2>1, <2>2, <1>6, CurFrame
<1>11. QueueInv(ph2, "req", call', req')
  <2>1. QueueInv(ph, "req", call, req) /\ ph[c] # "req"
    BY <1>2 DEF StageInv
  <2> QED BY <2>1, <1>0, <1>6, QueueFrame
<1> HIDE DEF k
<1>12. /\ ans'[s][k] = Send(ans[s][k], m)
       /\ SameBut(ans, ans', s, k)
  BY DEF k
<1>13. QueueInv(ph2, "ans", call', ans')
  <2>1. QueueInv(ph, "ans", call, ans) /\ ph[c] # "ans" /\ Pending(call', m, s, k)
    BY <1>2, <1>3 DEF StageInv
  <2> QED BY <2>1, <1>0, <1>2, <1>5, <1>6, <1>12, QueueSend
<1>14. AnswerInv(HeldEnds', ans')
  <2>1. AnswerInv(HeldEnds, ans)
    BY DEF StageInv
  <2> QED BY <2>1, <1>0, <1>2, <1>4, <1>12, AnswerSend
<1> QED BY <1>5, <1>7, <1>8, <1>9, <1>10, <1>11, <1>13, <1>14 DEF StageInv

\* Steps after which every component is at the stage it was at: a component
\* may drop what was in its hands and on its way to it.
LEMMA IdleStep ==
    ASSUME TypeOK, NEW ph \in [Components -> Stages], StageInv(ph),
           HeldEnds \subseteq HeldEnds',
           \A c \in Components : down'[c] = down[c] \/ down'[c] = <<>>,
           \A c \in Components : up'[c] = up[c] \/ up'[c] = <<>>,
           \A s \in Components : cur'[s] = cur[s] \/ cur'[s] = NoMsg,
           UNCHANGED <<call, req, ans, accepted>>
    PROVE  StageInv(ph)'
<1>1. CallInv(ph, call') /\ UpInv(ph, call', up')
  BY DEF StageInv, CallInv, UpInv
<1>2. DownInv(ph, call', HeldEnds', down')
  BY DEF StageInv, DownInv, Suits
<1>3. CurInv(ph, call', cur', accepted')
  BY DEF StageInv, CurInv
<1>4. QueueInv(ph, "req", call', req') /\ QueueInv(ph, "ans", call', ans')
  BY DEF StageInv
<1>5. AnswerInv(HeldEnds', ans')
  BY AnswerFrame DEF StageInv, TypeOK, Queues
<1> QED BY <1>1, <1>2, <1>3, <1>4, <1>5 DEF StageInv

-----------------------------------------------------------------------------
(* The theorems                                                            *)

\* Every step of the broker or of a component takes the message it is about,
\* if any, from the stage of its client to the next one.
LEMMA StageStep ==
    ASSUME TypeOK, NEW ph \in [Components -> Stages], StageInv(ph), [Next]_vars
    PROVE  \E ph2 \in [Components -> Stages] : StageInv(ph2)'
<1>0. CASE UNCHANGED vars
  <2>1. UNCHANGED <<status, serverS, call, up, down, req, ans, cur, accepted>>
    BY <1>0 DEF vars, dispVars, procVars, sockVars
  <2>2. HeldEnds \subseteq HeldEnds'
    BY <2>1, HeldKept
  <2> QED BY <2>1, <2>2, IdleStep
<1>1. ASSUME NEW c \in Components, Read_Message(c)
      PROVE  \E ph2 \in [Components -> Stages] : StageInv(ph2)'
  <2>1. /\ up[c] # <<>> /\ Handle_Message(c, Head(up[c]))
        /\ UNCHANGED <<status, serverS, call, cur, accepted, ans>>
        /\ \A d \in Components : d # c => up'[d] = up[d]
        /\ up'[c] = Tail(up[c])
    BY <1>1 DEF Read_Message, dispVars, procVars, TypeOK
  <2>2. up[c] \in Seq(Msgs) /\ Len(up[c]) = 1
    BY <2>1 DEF TypeOK, StageInv, UpInv
  <2>3. up'[c] = <<>>
    BY <2>1, <2>2, TailElems
  <2> QED BY <2>1, <2>3, ReadUpStep
<1>2. ASSUME NEW c \in Components, Hang_Up(c)
      PROVE  \E ph2 \in [Components -> Stages] : StageInv(ph2)'
  <2>1. /\ UNCHANGED <<status, serverS, call, cur, accepted, ans>>
        /\ \A d \in Components : d # c => up'[d] = up[d]
        /\ up'[c] = <<>>
    BY <1>2 DEF Hang_Up, dispVars, procVars, TypeOK
  <2>2. CASE up[c] # <<>>
    <3>1. Handle_Message(c, Head(up[c]))
      BY <2>2, <1>2 DEF Hang_Up
    <3> QED BY <2>1, <2>2, <3>1, ReadUpStep
  <2>3. CASE up[c] = <<>>
    <3>1. down' = down /\ req' = req
      BY <2>3, <1>2 DEF Hang_Up, Dispose
    <3>2. HeldEnds \subseteq HeldEnds'
      BY <2>1, HeldKept
    <3> QED BY <2>1, <3>1, <3>2, IdleStep
  <2> QED BY <2>2, <2>3
<1>3. ASSUME NEW c \in Components, NEW kind \in ServerKinds, Read_Service(c, kind)
      PROVE  \E ph2 \in [Components -> Stages] : StageInv(ph2)'
  <2>1. /\ ans[c][kind] # <<>> /\ Handle_Message(c, Head(ans[c][kind]))
        /\ UNCHANGED <<status, serverS, call, cur, accepted, up>>
        /\ ans'[c][kind] = Tail(ans[c][kind]) /\ SameBut(ans, ans', c, kind)
    BY <1>3 DEF Read_Service, dispVars, procVars, TypeOK, SameBut
  <2> QED BY <2>1, ReadAnsStep
<1>4. ASSUME NEW c \in Components, NEW kind \in Kinds, NEW label \in Labels,
             Initialize(c, kind, label)
      PROVE  \E ph2 \in [Components -> Stages] : StageInv(ph2)'
  <2> DEFINE r == [action |-> "Request", kind |-> kind, label |-> label]
             m == Packet("Request", kind, c, label, NoFd)
  <2>1. /\ call[c] = NoCall /\ call'[c] = r
        /\ \A d \in Components : d # c => call'[d] = call[d]
        /\ up'[c] = Send(up[c], m)
        /\ \A d \in Components : d # c => up'[d] = up[d]
        /\ UNCHANGED <<status, serverS, down, req, ans, cur, accepted>>
    BY <1>4 DEF Initialize, Active, dispVars, TypeOK
  <2>2. r \in Calls /\ m \in Msgs
    BY PacketType DEF Calls
  <2>3. m.name = c /\ m.action = r.action /\ m.kind = r.kind /\ m.label = r.label
    BY DEF Packet
  <2> HIDE DEF r, m
  <2> QED BY <2>1, <2>2, <2>3, AskStep
<1>5. ASSUME NEW c \in Components, NEW kind \in ServerKinds, Register(c, kind)
      PROVE  \E ph2 \in [Components -> Stages] : StageInv(ph2)'
  <2> DEFINE r == [action |-> "Register", kind |-> kind, label |-> EmptyLabel]
             m == Packet("Register", kind, c, EmptyLabel, NoFd)
  <2>1. /\ call[c] = NoCall /\ call'[c] = r
        /\ \A d \in Components : d # c => call'[d] = call[d]
        /\ up'[c] = Send(up[c], m)
        /\ \A d \in Components : d # c => up'[d] = up[d]
        /\ UNCHANGED <<status, serverS, down, req, ans, cur, accepted>>
    BY <1>5 DEF Register, Active, dispVars, TypeOK
  <2>2. r \in Calls /\ m \in Msgs
    BY PacketType, EmptyAssumption DEF Calls, ServerKinds
  <2>3. m.name = c /\ m.action = r.action /\ m.kind = r.kind /\ m.label = r.label
    BY DEF Packet
  <2> HIDE DEF r, m
  <2> QED BY <2>1, <2>2, <2>3, AskStep
<1>6. ASSUME NEW c \in Components, Initialized(c) \/ Registered(c)
      PROVE  \E ph2 \in [Components -> Stages] : StageInv(ph2)'
  <2>1. /\ down[c] # <<>> /\ down'[c] = Tail(down[c]) /\ call'[c] = NoCall
        /\ \A d \in Components : d # c => call'[d] = call[d] /\ down'[d] = down[d]
    BY <1>6 DEF Initialized, Registered, TypeOK
  <2>2. UNCHANGED <<status, serverS, up, req, ans, cur, accepted>>
    BY <1>6 DEF Initialized, Registered, dispVars
  <2> QED BY <2>1, <2>2, ReturnStep
<1>7. ASSUME NEW c \in Components, NEW end \in clientS[c], Finalize(c, end)
      PROVE  \E ph2 \in [Components -> Stages] : StageInv(ph2)'
  <2>1. UNCHANGED <<status, serverS, call, up, down, req, ans, cur, accepted>>
    BY <1>7 DEF Finalize, dispVars, sockVars
  <2>2. HeldEnds \subseteq HeldEnds'
    BY <2>1, HeldKept
  <2> QED BY <2>1, <2>2, IdleStep
<1>8. ASSUME NEW c \in Components, Construct_Return(c)
      PROVE  \E ph2 \in [Components -> Stages] : StageInv(ph2)'
  <2>1. UNCHANGED <<serverS, call, up, down, req, ans, cur, accepted>>
    BY <1>8 DEF Construct_Return, dispVars, sockVars
  <2>2. HeldEnds \subseteq HeldEnds'
    <3>1. \A d \in Components : status[d] = "exited" => status'[d] = "exited"
      BY <1>8 DEF Construct_Return, TypeOK
    <3> QED BY <2>1, <3>1, HeldKept
  <2> QED BY <2>1, <2>2, IdleStep
<1>9. ASSUME NEW c \in Components, NEW kind \in ServerKinds, Dispatch_Event(c, kind)
      PROVE  \E ph2 \in [Components -> Stages] : StageInv(ph2)'
  BY <1>9, DispatchStep
<1>10. ASSUME NEW c \in Components, Session_Accept(c)
       PROVE  \E ph2 \in [Components -> Stages] : StageInv(ph2)'
  <2> DEFINE m == Packet("Confirm", cur[c].kind, cur[c].name, cur[c].label, cur[c].fd)
             k == cur[c].kind
  <2>1. cur[c] # NoMsg /\ ~accepted[c] /\ cur[c] \in Msgs /\ k \in ServerKinds
    BY <1>10 DEF Session_Accept, TypeOK, StageInv, CurInv
  <2>2. m \in Msgs
    BY <2>1, PacketType DEF Msgs
  <2>3. /\ m.action = "Confirm" /\ m.name = cur[c].name /\ m.kind = k
        /\ m.label = cur[c].label /\ m.fd = cur[c].fd
    BY DEF Packet
  <2>4. ans' = [ans EXCEPT ![c][k] = Send(ans[c][k], m)]
    BY <1>10 DEF Session_Accept
  <2> HIDE DEF m, k
  <2>5. ans'[c][k] = Send(ans[c][k], m) /\ SameBut(ans, ans', c, k)
    BY <2>1, <2>4 DEF TypeOK, SameBut
  <2>6. /\ UNCHANGED <<status, call, cur, up, down, req>>
        /\ cur[c].fd \in serverS'[c]
        /\ \A d \in Components : serverS[d] \subseteq serverS'[d]
        /\ accepted'[c]
        /\ \A d \in Components : d # c => accepted'[d] = accepted[d]
    BY <1>10 DEF Session_Accept, procVars, TypeOK
  <2>7. HeldEnds \subseteq HeldEnds'
    BY <2>6, HeldKept
  <2> QED BY <2>1, <2>2, <2>3, <2>5, <2>6, <2>7, AnswerStep DEF k
<1>11. ASSUME NEW c \in Components, Dispatch_Return(c)
       PROVE  \E ph2 \in [Components -> Stages] : StageInv(ph2)'
  <2> DEFINE m == Packet("Reject", cur[c].kind, cur[c].name, cur[c].label, NoFd)
             k == cur[c].kind
  <2>1. cur[c] # NoMsg /\ cur[c] \in Msgs
    BY <1>11 DEF Dispatch_Return, TypeOK
  <2>2. /\ UNCHANGED <<status, serverS, accepted, call, up, down, req>>
        /\ cur'[c] = NoMsg
        /\ \A d \in Components : d # c => cur'[d] = cur[d]
    BY <1>11 DEF Dispatch_Return, procVars, TypeOK
  <2>3. HeldEnds \subseteq HeldEnds'
    BY <2>2, HeldKept
  <2>4. CASE accepted[c]
    <3>1. ans' = ans
      BY <2>4, <1>11 DEF Dispatch_Return
    <3> QED BY <2>2, <2>3, <3>1, IdleStep
  <2>5. CASE ~accepted[c]
    <3>1. k \in ServerKinds
      BY <2>1, <2>5 DEF StageInv, CurInv
    <3>2. m \in Msgs
      BY <2>1, PacketType DEF Msgs
    <3>3. /\ m.action = "Reject" /\ m.name = cur[c].name /\ m.kind = k
          /\ m.label = cur[c].label /\ m.fd = NoFd
      BY DEF Packet
    <3>4. ans' = [ans EXCEPT ![c][k] = Send(ans[c][k], m)]
      BY <2>5, <1>11 DEF Dispatch_Return
    <3> HIDE DEF m, k
    <3>5. ans'[c][k] = Send(ans[c][k], m) /\ SameBut(ans, ans', c, k)
      BY <3>1, <3>4 DEF TypeOK, SameBut
    <3> QED BY <2>1, <2>2, <2>3, <2>5, <3>2, <3>3, <3>5, AnswerStep DEF k
  <2> QED BY <2>4, <2>5
<1>12. ASSUME NEW c \in Components, Exit(c)
       PROVE  \E ph2 \in [Components -> Stages] : StageInv(ph2)'
  <2>1. /\ UNCHANGED <<call, accepted, up, req, ans>>
        /\ \A d \in Components : down'[d] = down[d] \/ down'[d] = <<>>
        /\ \A d \in Components : cur'[d] = cur[d] \/ cur'[d] = NoMsg
    BY <1>12 DEF Exit, TypeOK
  <2>2. \A d \in Components : /\ serverS'[d] = serverS[d] \/ status'[d] = "exited"
                              /\ status[d] = "exited" => status'[d] = "exited"
    BY <1>12 DEF Exit, TypeOK
  <2>3. HeldEnds \subseteq HeldEnds'
    BY <2>2, HeldKept
  <2> QED BY <2>1, <2>3, IdleStep
<1> QED BY <1>0, <1>1, <1>2, <1>3, <1>4, <1>5, <1>6, <1>7, <1>8, <1>9, <1>10, <1>11,
           <1>12 DEF Next

\* No server gives up an end while it lives.
LEMMA HeldStep ==
    ASSUME TypeOK, [Next]_vars
    PROVE  HeldEnds \subseteq HeldEnds'
<1>1. CASE UNCHANGED <<status, serverS>>
  BY <1>1, HeldKept
<1>2. ASSUME NEW c \in Components, Construct_Return(c)
      PROVE  HeldEnds \subseteq HeldEnds'
  <2>1. \A d \in Components : serverS'[d] = serverS[d]
                              /\ (status[d] = "exited" => status'[d] = "exited")
    BY <1>2 DEF Construct_Return, dispVars, TypeOK
  <2> QED BY <2>1, HeldKept
<1>3. ASSUME NEW c \in Components, Session_Accept(c)
      PROVE  HeldEnds \subseteq HeldEnds'
  <2>1. status' = status /\ \A d \in Components : serverS[d] \subseteq serverS'[d]
    BY <1>3 DEF Session_Accept, procVars, TypeOK
  <2> QED BY <2>1, HeldKept
<1>4. ASSUME NEW c \in Components, Exit(c)
      PROVE  HeldEnds \subseteq HeldEnds'
  <2>1. \A d \in Components : /\ serverS'[d] = serverS[d] \/ status'[d] = "exited"
                              /\ status[d] = "exited" => status'[d] = "exited"
    BY <1>4 DEF Exit, TypeOK
  <2> QED BY <2>1, HeldKept
<1>5. ASSUME NEW c \in Components,
             \/ Read_Message(c)
             \/ Hang_Up(c)
             \/ \E kind \in ServerKinds : Read_Service(c, kind)
             \/ \E kind \in Kinds, label \in Labels : Initialize(c, kind, label)
             \/ Initialized(c)
             \/ \E end \in clientS[c] : Finalize(c, end)
             \/ \E kind \in ServerKinds : Register(c, kind)
             \/ Registered(c)
             \/ \E kind \in ServerKinds : Dispatch_Event(c, kind)
             \/ Dispatch_Return(c)
      PROVE  UNCHANGED <<status, serverS>>
  BY <1>5 DEF Read_Message, Hang_Up, Read_Service, Initialize, Initialized, Finalize,
              Register, Registered, Dispatch_Event, Dispatch_Return, dispVars, procVars
<1>6. CASE UNCHANGED vars
  BY <1>6, <1>1 DEF vars, dispVars, procVars
<1> QED BY <1>1, <1>2, <1>3, <1>4, <1>5, <1>6 DEF Next

\* A component comes by an end only where Initialize returns, and there it
\* is what the component is blocked for.
LEMMA GrantStep ==
    ASSUME TypeOK, NEW ph \in [Components -> Stages], StageInv(ph), [Next]_vars,
           NEW c \in Components, NEW end \in clientS'[c], end \notin clientS[c]
    PROVE  /\ call[c] # NoCall
           /\ call[c].action = "Request"
           /\ end.client = c
           /\ end.kind = call[c].kind
           /\ end.label = call[c].label
           /\ end \in HeldEnds
<1>1. ASSUME Initialized(c)
      PROVE  /\ call[c] # NoCall /\ call[c].action = "Request"
             /\ Suits(call, HeldEnds, down[c][1], c)
             /\ down[c][1].fd # NoFd /\ end = down[c][1].fd
  <2>1. down[c] # <<>> /\ down[c] \in Seq(Msgs) /\ call[c] # NoCall /\ call[c].action = "Request"
    BY <1>1 DEF Initialized, TypeOK
  <2>2. Head(down[c]) = down[c][1]
    BY <2>1, TailElems
  <2>3. Suits(call, HeldEnds, down[c][1], c)
    BY <2>1 DEF StageInv, DownInv
  <2>4. down[c][1].fd # NoFd /\ end = down[c][1].fd
    <3> DEFINE x == down[c][1]
    <3>1. \/ clientS' = clientS
          \/ x.fd # NoFd /\ clientS' = [clientS EXCEPT ![c] = clientS[c] \cup {x.fd}]
      BY <1>1, <2>2 DEF Initialized
    <3> HIDE DEF x
    <3>2. x.fd # NoFd /\ end = x.fd
      BY <3>1 DEF TypeOK
    <3> QED BY <3>2 DEF x
  <2> QED BY <2>1, <2>3, <2>4
<1>2. ASSUME NEW d \in Components, Initialized(d), d # c
      PROVE  clientS'[c] = clientS[c]
  BY <1>2 DEF Initialized, TypeOK
<1>3. ASSUME NEW d \in Components, NEW e \in clientS[d], Finalize(d, e)
      PROVE  clientS'[c] \subseteq clientS[c]
  BY <1>3 DEF Finalize, TypeOK
<1>4. ASSUME NEW d \in Components, Exit(d)
      PROVE  clientS'[c] \subseteq clientS[c]
  BY <1>4 DEF Exit, TypeOK
<1>5. ASSUME NEW d \in Components,
             \/ Read_Message(d)
             \/ Hang_Up(d)
             \/ \E kind \in ServerKinds : Read_Service(d, kind)
             \/ \E kind \in Kinds, label \in Labels : Initialize(d, kind, label)
             \/ \E kind \in ServerKinds : Register(d, kind)
             \/ Registered(d)
             \/ Construct_Return(d)
             \/ \E kind \in ServerKinds : Dispatch_Event(d, kind)
             \/ Session_Accept(d)
             \/ Dispatch_Return(d)
      PROVE  clientS' = clientS
  BY <1>5 DEF Read_Message, Hang_Up, Read_Service, Initialize, Register, Registered,
              Construct_Return, Dispatch_Event, Session_Accept, Dispatch_Return, procVars
<1>6. UNCHANGED vars => clientS' = clientS
  BY DEF vars, procVars
<1>7. Initialized(c)
  <2>1. ~(clientS'[c] \subseteq clientS[c])
    OBVIOUS
  <2>2. ASSUME NEW d \in Components, NEW e \in clientS[d]
        PROVE  ~Finalize(d, e)
    BY <1>3, <2>1
  <2>3. ASSUME NEW d \in Components
        PROVE  ~Exit(d)
    BY <1>4, <2>1
  <2>4. ASSUME NEW d \in Components, Initialized(d)
        PROVE  d = c
    BY <1>2, <2>1, <2>4
  <2>5. clientS' # clientS /\ ~UNCHANGED vars
    BY <1>6, <2>1
  <2> QED BY <1>5, <2>2, <2>3, <2>4, <2>5 DEF Next
<1> QED BY <1>1, <1>7 DEF Suits

\* The sessions a component has stay served and configured, and those it is
\* given are.
LEMMA ServedStep ==
    ASSUME IInv, [Next]_vars
    PROVE  SessionsServed' /\ SessionsRouted'
<1>1. PICK ph \in [Components -> Stages] : StageInv(ph)
  BY DEF IInv
<1>2. TypeOK /\ TypeOK' /\ SessionsServed /\ HeldEnds \subseteq HeldEnds'
  BY NextType, HeldStep DEF IInv
<1>3. ASSUME NEW c \in Components, NEW end \in clientS'[c]
      PROVE  end \in HeldEnds' /\ end.client = c
  <2>1. CASE end \in clientS[c]
    <3>1. end \in Ends
      BY <2>1, <1>2 DEF TypeOK
    <3>2. end.client = c /\ Configured(end)
      BY <2>1 DEF IInv, SessionsRouted
    <3>3. end \in HeldEnds
      BY <2>1, <3>1, <3>2, <1>2 DEF SessionsServed, HeldEnds
    <3> QED BY <3>2, <3>3, <1>2
  <2>2. CASE end \notin clientS[c]
    BY <2>2, <1>1, <1>2, GrantStep
  <2> QED BY <2>1, <2>2
<1>4. SessionsServed'
  BY <1>3 DEF SessionsServed, HeldEnds
<1>5. ASSUME NEW c \in Components, NEW end \in clientS'[c]
      PROVE  Configured(end) /\ end.client = c
  BY <1>3 DEF HeldEnds, Configured
<1>6. SessionsRouted'
  BY <1>5 DEF SessionsRouted, Configured
<1> QED BY <1>4, <1>6

\* At the start nobody is blocked and every socket is empty.
LEMMA InitIInv == Init => IInv
<1> SUFFICES ASSUME Init
             PROVE  IInv
  OBVIOUS
<1> DEFINE ph == [c \in Components |-> "idle"]
<1>1. TypeOK /\ SessionsServed /\ SessionsRouted
  BY DEF Init, TypeOK, SessionsServed, SessionsRouted
<1>2. ph \in [Components -> Stages]
  BY DEF Stages
<1>3. CallInv(ph, call) /\ UpInv(ph, call, up) /\ DownInv(ph, call, HeldEnds, down)
      /\ CurInv(ph, call, cur, accepted)
  BY DEF Init, CallInv, UpInv, DownInv, CurInv
<1>4. QueueInv(ph, "req", call, req) /\ QueueInv(ph, "ans", call, ans)
      /\ AnswerInv(HeldEnds, ans)
  BY DEF Init, QueueInv, AnswerInv
<1> HIDE DEF ph
<1>5. StageInv(ph)
  BY <1>3, <1>4 DEF StageInv
<1> QED BY <1>1, <1>2, <1>5 DEF IInv

\* The invariant holds in every reachable state.
THEOREM Invariance == Spec => []IInv
<1>1. Init => IInv
  BY InitIInv
<1>2. IInv /\ [Next]_vars => IInv'
  <2> SUFFICES ASSUME IInv, [Next]_vars
               PROVE  IInv'
    OBVIOUS
  <2>1. TypeOK' /\ SessionsServed' /\ SessionsRouted'
    BY NextType, ServedStep DEF IInv
  <2>2. \E ph \in [Components -> Stages] : StageInv(ph)'
    BY StageStep DEF IInv
  <2> QED BY <2>1, <2>2 DEF IInv
<1> QED BY <1>1, <1>2, PTL DEF Spec

\* A living server holds the other end of every session its clients have.
THEOREM Served == Spec => []SessionsServed
<1>1. IInv => SessionsServed
  BY DEF IInv
<1> QED BY <1>1, Invariance, PTL

\* A session leads where the configuration says, for every configuration
\* (Match_Service, Process_Request).
THEOREM AsConfigured == Spec => []SessionsAsConfigured
<1>1. IInv => SessionsAsConfigured
  <2> SUFFICES ASSUME IInv, NEW c \in Components, NEW end \in clientS[c]
               PROVE  /\ end.client = c
                      /\ \E i \in DOMAIN Services[c] :
                            /\ Services[c][i].kind = end.kind
                            /\ \/ Services[c][i].label = end.label
                               \/ /\ Services[c][i].label = NoLabel
                                  /\ ExactMatches(c, end.kind, end.label) = {}
                            /\ end.server = IF end.kind \in ServerKinds
                                            THEN Services[c][i].server ELSE NoServer
                      /\ end.kind \in ServerKinds => end.server \in Components
    BY DEF SessionsAsConfigured
  <2>1. end.client = c /\ Configured(end)
    BY DEF IInv, SessionsRouted
  <2> QED BY <2>1 DEF Configured
<1> QED BY <1>1, Invariance, PTL

\* What a client is given is the session it asks for in the call it is in.
THEOREM Grants == Spec => GrantMatchesCall
<1> DEFINE Granted == \A c \in Components : \A end \in clientS'[c] \ clientS[c] :
                          /\ call[c] # NoCall
                          /\ call[c].action = "Request"
                          /\ end.client = c
                          /\ end.kind = call[c].kind
                          /\ end.label = call[c].label
<1>1. IInv /\ [Next]_vars => Granted
  BY GrantStep DEF IInv
<1>2. GrantMatchesCall <=> [][Granted]_vars
  BY DEF GrantMatchesCall
<1> HIDE DEF Granted
<1> QED BY <1>1, <1>2, Invariance, PTL DEF Spec

\* Where the message of a call is found tells the stage of its client.
LEMMA PlaceStage ==
    ASSUME TypeOK, NEW ph \in [Components -> Stages], StageInv(ph), NEW c \in Components
    PROVE  /\ UpPlaces(c) # {} => ph[c] = "up"
           /\ DownPlaces(c) # {} => ph[c] = "down"
           /\ CurPlaces(c) # {} => ph[c] = "cur"
           /\ ReqPlaces(c) # {} => ph[c] = "req"
           /\ AnsPlaces(c) # {} => ph[c] = "ans"
<1>1. UpPlaces(c) # {} => ph[c] = "up"
  <2>1. UpPlaces(c) # {} => up[c] # <<>>
    BY DEF UpPlaces
  <2> QED BY <2>1 DEF StageInv, UpInv
<1>2. DownPlaces(c) # {} => ph[c] = "down"
  <2>1. DownPlaces(c) # {} => down[c] # <<>>
    BY DEF DownPlaces
  <2> QED BY <2>1 DEF StageInv, DownInv
<1>3. CurPlaces(c) # {} => ph[c] = "cur"
  BY DEF CurPlaces, StageInv, CurInv
<1>4. ReqPlaces(c) # {} => ph[c] = "req"
  <2>1. ASSUME ReqPlaces(c) # {}
        PROVE  \E s \in Components, k \in ServerKinds :
                  \E i \in DOMAIN req[s][k] : req[s][k][i].name = c
    BY <2>1 DEF ReqPlaces
  <2>2. \A s \in Components, k \in ServerKinds : DOMAIN req[s][k] = 1..Len(req[s][k])
    BY DEF TypeOK
  <2> QED BY <2>1, <2>2 DEF StageInv, QueueInv
<1>5. AnsPlaces(c) # {} => ph[c] = "ans"
  <2>1. ASSUME AnsPlaces(c) # {}
        PROVE  \E s \in Components, k \in ServerKinds :
                  \E i \in DOMAIN ans[s][k] : ans[s][k][i].name = c
    BY <2>1 DEF AnsPlaces
  <2>2. \A s \in Components, k \in ServerKinds : DOMAIN ans[s][k] = 1..Len(ans[s][k])
    BY DEF TypeOK
  <2> QED BY <2>1, <2>2 DEF StageInv, QueueInv
<1> QED BY <1>1, <1>2, <1>3, <1>4, <1>5

\* Two messages about a client in service sockets of the same direction are
\* one and the same.
LEMMA QueuePlace ==
    ASSUME NEW ph, NEW stage, NEW ca, NEW q \in Queues, QueueInv(ph, stage, ca, q),
           NEW s \in Components, NEW k \in ServerKinds, NEW i \in DOMAIN q[s][k],
           NEW t \in Components, NEW l \in ServerKinds, NEW j \in DOMAIN q[t][l],
           q[s][k][i].name = q[t][l][j].name
    PROVE  s = t /\ k = l /\ i = j
<1>1. i \in 1..Len(q[s][k]) /\ j \in 1..Len(q[t][l])
  BY DEF Queues
<1>2. Pending(ca, q[s][k][i], s, k) /\ Pending(ca, q[t][l][j], t, l)
  BY <1>1 DEF QueueInv
<1>3. s = t /\ k = l
  BY <1>2 DEF Pending
<1> QED BY <1>1, <1>3 DEF QueueInv

\* There is one place at most of each sort.
LEMMA PlaceUnique ==
    ASSUME TypeOK, NEW ph \in [Components -> Stages], StageInv(ph), NEW c \in Components
    PROVE  /\ \A p, q \in UpPlaces(c) : p = q
           /\ \A p, q \in DownPlaces(c) : p = q
           /\ \A p, q \in CurPlaces(c) : p = q
           /\ \A p, q \in ReqPlaces(c) : p = q
           /\ \A p, q \in AnsPlaces(c) : p = q
<1>0. req \in Queues /\ ans \in Queues
  BY DEF TypeOK, Queues
<1>1. \A p, q \in UpPlaces(c) : p = q
  <2>1. up[c] \in Seq(Msgs) /\ (up[c] # <<>> => Len(up[c]) = 1)
    BY DEF TypeOK, StageInv, UpInv
  <2>2. \A i, j \in DOMAIN up[c] : i = j
    BY <2>1
  <2> QED BY <2>2 DEF UpPlaces
<1>2. \A p, q \in DownPlaces(c) : p = q
  <2>1. down[c] \in Seq(Msgs) /\ (down[c] # <<>> => Len(down[c]) = 1)
    BY DEF TypeOK, StageInv, DownInv
  <2>2. \A i, j \in DOMAIN down[c] : i = j
    BY <2>1
  <2> QED BY <2>2 DEF DownPlaces
<1>3. \A p, q \in CurPlaces(c) : p = q
  <2>1. ASSUME NEW s \in Components, cur[s] # NoMsg, cur[s].name = c, ~accepted[s],
               NEW t \in Components, cur[t] # NoMsg, cur[t].name = c, ~accepted[t]
        PROVE  s = t
    <3>1. Pending(call, cur[s], s, cur[s].kind) /\ Pending(call, cur[t], t, cur[t].kind)
      BY <2>1 DEF StageInv, CurInv
    <3> QED BY <3>1, <2>1 DEF Pending
  <2> QED BY <2>1 DEF CurPlaces
<1>4. \A p, q \in ReqPlaces(c) : p = q
  <2> SUFFICES ASSUME NEW p \in ReqPlaces(c), NEW q \in ReqPlaces(c)
               PROVE  p = q
    OBVIOUS
  <2>a. PICK s \in Components, k \in ServerKinds : \E i \in DOMAIN req[s][k] :
           p = <<"req", s, k, i>> /\ req[s][k][i].name = c
    BY DEF ReqPlaces
  <2>1. PICK i \in DOMAIN req[s][k] : p = <<"req", s, k, i>> /\ req[s][k][i].name = c
    BY <2>a
  <2>b. PICK t \in Components, l \in ServerKinds : \E j \in DOMAIN req[t][l] :
           q = <<"req", t, l, j>> /\ req[t][l][j].name = c
    BY DEF ReqPlaces
  <2>2. PICK j \in DOMAIN req[t][l] : q = <<"req", t, l, j>> /\ req[t][l][j].name = c
    BY <2>b
  <2>3. QueueInv(ph, "req", call, req)
    BY DEF StageInv
  <2>4. s = t /\ k = l /\ i = j
    BY <2>1, <2>2, <2>3, <1>0, QueuePlace
  <2> QED BY <2>1, <2>2, <2>4
<1>5. \A p, q \in AnsPlaces(c) : p = q
  <2> SUFFICES ASSUME NEW p \in AnsPlaces(c), NEW q \in AnsPlaces(c)
               PROVE  p = q
    OBVIOUS
  <2>a. PICK s \in Components, k \in ServerKinds : \E i \in DOMAIN ans[s][k] :
           p = <<"ans", s, k, i>> /\ ans[s][k][i].name = c
    BY DEF AnsPlaces
  <2>1. PICK i \in DOMAIN ans[s][k] : p = <<"ans", s, k, i>> /\ ans[s][k][i].name = c
    BY <2>a
  <2>b. PICK t \in Components, l \in ServerKinds : \E j \in DOMAIN ans[t][l] :
           q = <<"ans", t, l, j>> /\ ans[t][l][j].name = c
    BY DEF AnsPlaces
  <2>2. PICK j \in DOMAIN ans[t][l] : q = <<"ans", t, l, j>> /\ ans[t][l][j].name = c
    BY <2>b
  <2>3. QueueInv(ph, "ans", call, ans)
    BY DEF StageInv
  <2>4. s = t /\ k = l /\ i = j
    BY <2>1, <2>2, <2>3, <1>0, QueuePlace
  <2> QED BY <2>1, <2>2, <2>4
<1> QED BY <1>1, <1>2, <1>3, <1>4, <1>5

\* A call has one message at most under way, and one that is over has none,
\* so that no answer can be taken for that of a later call.
THEOREM OneAnswer == Spec => []OneAnswerPerCall
<1>1. IInv => OneAnswerPerCall
  <2> SUFFICES ASSUME IInv, NEW c \in Components
               PROVE  /\ call[c] = NoCall => Places(c) = {}
                      /\ \A p, q \in Places(c) : p = q
    BY DEF OneAnswerPerCall
  <2>1. TypeOK
    BY DEF IInv
  <2>2. PICK ph \in [Components -> Stages] : StageInv(ph)
    BY DEF IInv
  <2>3. /\ UpPlaces(c) # {} => ph[c] = "up"
        /\ DownPlaces(c) # {} => ph[c] = "down"
        /\ CurPlaces(c) # {} => ph[c] = "cur"
        /\ ReqPlaces(c) # {} => ph[c] = "req"
        /\ AnsPlaces(c) # {} => ph[c] = "ans"
    BY <2>1, <2>2, PlaceStage
  <2>4. /\ \A p, q \in UpPlaces(c) : p = q
        /\ \A p, q \in DownPlaces(c) : p = q
        /\ \A p, q \in CurPlaces(c) : p = q
        /\ \A p, q \in ReqPlaces(c) : p = q
        /\ \A p, q \in AnsPlaces(c) : p = q
    BY <2>1, <2>2, PlaceUnique
  <2>5. call[c] = NoCall => ph[c] = "idle"
    BY <2>2 DEF StageInv, CallInv
  <2> QED BY <2>3, <2>4, <2>5 DEF Places
<1> QED BY <1>1, Invariance, PTL

\* Every message in a service socket is about another component that is
\* blocked on that server, so there is no more of them than there are such
\* components, whatever order the requests are made and answered in.
THEOREM Bounded == Spec => []SocketsBounded
<1>1. IInv => SocketsBounded
  <2> SUFFICES ASSUME IInv, NEW s \in Components, NEW k \in ServerKinds
               PROVE  Len(req[s][k]) + Len(ans[s][k]) <=
                         Cardinality({c \in Components :
                                         /\ call[c] # NoCall
                                         /\ call[c].kind = k
                                         /\ ServerOf(c, k, call[c].label) = s})
    BY DEF SocketsBounded
  <2> DEFINE clients == {c \in Components : /\ call[c] # NoCall
                                            /\ call[c].kind = k
                                            /\ ServerOf(c, k, call[c].label) = s}
             n == Len(req[s][k])
             m == Len(ans[s][k])
             name == [i \in 1..(n + m) |-> IF i <= n THEN req[s][k][i].name
                                                    ELSE ans[s][k][i - n].name]
  <2>1. n \in Nat /\ m \in Nat
    BY DEF IInv, TypeOK
  <2>2. PICK ph \in [Components -> Stages] : StageInv(ph)
    BY DEF IInv
  <2>3. QueueInv(ph, "req", call, req) /\ QueueInv(ph, "ans", call, ans)
    BY <2>2 DEF StageInv
  <2>4. /\ \A i \in 1..n : req[s][k][i] \in Msgs
        /\ \A i \in 1..m : ans[s][k][i] \in Msgs
    <3>1. req[s][k] \in Seq(Msgs) /\ ans[s][k] \in Seq(Msgs)
      BY DEF IInv, TypeOK
    <3> QED BY <3>1
  <2>5. /\ \A i \in 1..n : req[s][k][i].name \in clients /\ ph[req[s][k][i].name] = "req"
        /\ \A i \in 1..m : ans[s][k][i].name \in clients /\ ph[ans[s][k][i].name] = "ans"
    <3>1. \A x \in Msgs : x.name \in Components
      BY DEF Msgs
    <3> QED BY <2>3, <2>4, <3>1 DEF QueueInv, Pending
  <2>6. /\ \A i, j \in 1..n : req[s][k][i].name = req[s][k][j].name => i = j
        /\ \A i, j \in 1..m : ans[s][k][i].name = ans[s][k][j].name => i = j
    BY <2>3 DEF QueueInv
  <2>7. /\ DOMAIN name = 1..(n + m)
        /\ \A i \in 1..(n + m) :
              \/ i \in 1..n /\ name[i] = req[s][k][i].name
              \/ i \notin 1..n /\ i - n \in 1..m /\ name[i] = ans[s][k][i - n].name
    <3>1. \A i \in 1..(n + m) :
             name[i] = IF i <= n THEN req[s][k][i].name ELSE ans[s][k][i - n].name
      OBVIOUS
    <3>2. DOMAIN name = 1..(n + m)
      OBVIOUS
    <3> HIDE DEF n, m, name
    <3>3. \A i \in 1..(n + m) : /\ i <= n => i \in 1..n
                                /\ ~(i <= n) => i \notin 1..n /\ i - n \in 1..m
      BY <2>1
    <3> QED BY <3>1, <3>2, <3>3
  <2>8. name \in [1..(n + m) -> clients]
    <3>1. \A i \in 1..(n + m) : name[i] \in clients
      <4> HIDE DEF clients, n, m, name
      <4> QED BY <2>5, <2>7
    <3>2. name = [i \in 1..(n + m) |-> name[i]]
      OBVIOUS
    <3> HIDE DEF clients, n, m, name
    <3> QED BY <3>1, <3>2
  <2> HIDE DEF clients, n, m, name
  <2>9. \A i, j \in 1..(n + m) : name[i] = name[j] => i = j
    <3> SUFFICES ASSUME NEW i \in 1..(n + m), NEW j \in 1..(n + m), name[i] = name[j]
                 PROVE  i = j
      OBVIOUS
    <3>1. CASE i \in 1..n /\ j \in 1..n
      BY <3>1, <2>6, <2>7
    <3>2. CASE i \in 1..n /\ j \notin 1..n
      BY <3>2, <2>5, <2>7
    <3>3. CASE i \notin 1..n /\ j \in 1..n
      BY <3>3, <2>5, <2>7
    <3>4. CASE i \notin 1..n /\ j \notin 1..n
      <4>1. i - n = j - n
        BY <3>4, <2>6, <2>7
      <4> QED BY <4>1, <2>1
    <3> QED BY <3>1, <3>2, <3>3, <3>4
  <2>10. name \in Injection(1..(n + m), clients)
    BY <2>8, <2>9 DEF Injection, IsInjective
  <2>11. IsFiniteSet(clients) /\ Cardinality(1..(n + m)) = n + m
    <3>1. IsFiniteSet(clients)
      BY ComponentsAssumption, FS_Subset DEF clients
    <3>2. Cardinality(1..(n + m)) = IF 1 > n + m THEN 0 ELSE (n + m) - 1 + 1
      BY <2>1, FS_Interval
    <3> QED BY <3>1, <3>2, <2>1
  <2>12. n + m <= Cardinality(clients)
    BY <2>10, <2>11, FS_Injection
  <2> QED BY <2>12 DEF n, m, clients
<1> QED BY <1>1, Invariance, PTL

-----------------------------------------------------------------------------
(* The session service                                                     *)

Alive == {c \in Components : status[c] # "exited"}

\* Steps of the broker, and of the components where they neither ask, answer
\* nor end, are not seen by the session service.
LEMMA QuietStep ==
    ASSUME TypeOK, NEW c \in Components,
           \/ Read_Message(c)
           \/ Hang_Up(c)
           \/ \E kind \in ServerKinds : Read_Service(c, kind)
           \/ Construct_Return(c)
           \/ \E kind \in ServerKinds : Dispatch_Event(c, kind)
           \/ Dispatch_Return(c)
    PROVE  UNCHANGED SS!vars
<1>1. UNCHANGED <<call, clientS, serverS>>
  BY DEF Read_Message, Hang_Up, Read_Service, Construct_Return, Dispatch_Event,
         Dispatch_Return, dispVars, procVars
<1>2. Alive' = Alive
  BY DEF Alive, TypeOK, Read_Message, Hang_Up, Read_Service, Construct_Return,
         Dispatch_Event, Dispatch_Return, dispVars, procVars
<1> QED BY <1>1, <1>2 DEF SS!vars, Alive

\* A component asks where Initialize or Register sends its message.
LEMMA AskRefines ==
    ASSUME TypeOK, NEW c \in Components,
           \/ \E kind \in Kinds, label \in Labels : Initialize(c, kind, label)
           \/ \E kind \in ServerKinds : Register(c, kind)
    PROVE  \E x \in Calls : SS!Ask(c, x)
<1>1. PICK x \in Calls : call' = [call EXCEPT ![c] = x]
  BY EmptyAssumption DEF Initialize, Register, Calls, ServerKinds
<1>2. status[c] # "exited" /\ call[c] = NoCall /\ UNCHANGED <<status, clientS, serverS>>
  BY DEF Initialize, Register, Active, dispVars
<1> QED BY <1>1, <1>2 DEF SS!Ask

\* Initialize returns with the session asked for, or with none, and so does
\* Register.
LEMMA ReturnRefines ==
    ASSUME IInv, [Next]_vars, NEW c \in Components, Initialized(c) \/ Registered(c)
    PROVE  SS!Refuse(c) \/ \E end \in clientS'[c] : SS!Grant(c, end)
<1>1. /\ status[c] # "exited" /\ call[c] # NoCall
      /\ call' = [call EXCEPT ![c] = NoCall] /\ UNCHANGED <<status, serverS>>
  BY DEF Initialized, Registered, dispVars
<1>2. TypeOK
  BY DEF IInv
<1>3. CASE clientS' = clientS
  BY <1>1, <1>3 DEF SS!Refuse
<1>4. CASE clientS' # clientS
  <2>1. Initialized(c)
    BY <1>4 DEF Registered
  <2>2. PICK end : clientS' = [clientS EXCEPT ![c] = @ \cup {end}]
    BY <1>4, <2>1 DEF Initialized
  <2>3. end \in clientS'[c] /\ end \notin clientS[c]
    BY <1>2, <1>4, <2>2 DEF TypeOK
  <2>4. PICK ph \in [Components -> Stages] : StageInv(ph)
    BY DEF IInv
  <2>5. /\ call[c].action = "Request" /\ end.client = c /\ end.kind = call[c].kind
        /\ end.label = call[c].label /\ end \in HeldEnds
    BY <1>2, <2>3, <2>4, GrantStep
  <2>6. end.kind \in Kinds /\ end.label \in Labels
    BY <2>5 DEF HeldEnds, Ends
  <2>7. end.server # NoServer => ServerOf(c, end.kind, end.label) = end.server
    BY <2>5 DEF HeldEnds, Configured
  <2>8. end.server \in Alive => end \in serverS[end.server]
    BY <2>5 DEF HeldEnds, Alive
  <2>9. SS!Suits(c, end)
    BY <1>1, <2>5 DEF SS!Suits
  <2>10. SS!Grant(c, end)
    BY <1>1, <2>2, <2>3, <2>6, <2>7, <2>8, <2>9 DEF SS!Grant, Alive
  <2> QED BY <2>3, <2>10
<1> QED BY <1>3, <1>4

\* A server takes up its end where it accepts the session.
LEMMA AcceptRefines ==
    ASSUME IInv, NEW s \in Components, Session_Accept(s)
    PROVE  UNCHANGED SS!vars \/ \E end \in serverS'[s] : SS!Accept(s, end)
<1> DEFINE end == cur[s].fd
<1>1. /\ status[s] # "exited" /\ cur[s] # NoMsg /\ end # NoFd /\ ~accepted[s]
      /\ serverS' = [serverS EXCEPT ![s] = @ \cup {end}]
      /\ UNCHANGED <<status, call, clientS>>
  BY DEF Session_Accept, Active, procVars
<1>2. TypeOK /\ end \in Ends
  BY <1>1 DEF IInv, TypeOK, Msgs
<1>3. PICK ph \in [Components -> Stages] : StageInv(ph)
  BY DEF IInv
<1>4. Pending(call, cur[s], s, cur[s].kind)
  BY <1>1, <1>3 DEF StageInv, CurInv
<1>5. /\ end.server = s /\ end.client = cur[s].name /\ end.kind = cur[s].kind
      /\ end.label = cur[s].label
      /\ call[end.client] # NoCall /\ call[end.client].action = "Request"
      /\ call[end.client].kind = end.kind /\ call[end.client].label = end.label
      /\ ServerOf(end.client, end.kind, end.label) = s
  BY <1>1, <1>4 DEF Pending
<1>6. end.client \in Components /\ end.kind \in Kinds /\ end.label \in Labels
  BY <1>2 DEF Ends
<1> HIDE DEF end
<1>7. CASE end \in serverS[s]
  <2>1. serverS' = serverS
    BY <1>1, <1>2, <1>7 DEF TypeOK
  <2> QED BY <1>1, <2>1 DEF SS!vars
<1>8. CASE end \notin serverS[s]
  <2>1. SS!Suits(end.client, end)
    BY <1>5 DEF SS!Suits
  <2>2. SS!Accept(s, end)
    BY <1>1, <1>5, <1>6, <1>8, <2>1 DEF SS!Accept
  <2>3. end \in serverS'[s]
    BY <1>1, <1>2 DEF TypeOK
  <2> QED BY <2>2, <2>3
<1> QED BY <1>7, <1>8

\* The broker, its sockets and the library calls implement the session
\* service, whatever the configuration, the order of messages, the failures
\* of descriptors and sockets and the exits of components.
THEOREM Refinement == Spec => ImplementsSessionService
<1>1. Init => SS!Init
  BY DEF Init, SS!Init
<1>2. ASSUME IInv, [Next]_vars
      PROVE  [SS!Next]_(SS!vars)
  <2>0. TypeOK
    BY <1>2 DEF IInv
  <2>1. CASE UNCHANGED vars
    BY <2>1 DEF vars, procVars, dispVars, SS!vars
  <2>2. ASSUME NEW c \in Components,
               \/ Read_Message(c)
               \/ Hang_Up(c)
               \/ \E kind \in ServerKinds : Read_Service(c, kind)
               \/ Construct_Return(c)
               \/ \E kind \in ServerKinds : Dispatch_Event(c, kind)
               \/ Dispatch_Return(c)
        PROVE  UNCHANGED SS!vars
    BY <2>0, <2>2, QuietStep
  <2>3. ASSUME NEW c \in Components,
               \/ \E kind \in Kinds, label \in Labels : Initialize(c, kind, label)
               \/ \E kind \in ServerKinds : Register(c, kind)
        PROVE  SS!Next
    <3>1. \E x \in Calls : SS!Ask(c, x)
      BY <2>0, <2>3, AskRefines
    <3> QED BY <3>1 DEF SS!Next
  <2>4. ASSUME NEW c \in Components, Initialized(c) \/ Registered(c)
        PROVE  SS!Next
    <3>1. SS!Refuse(c) \/ \E end \in clientS'[c] : SS!Grant(c, end)
      BY <1>2, <2>4, ReturnRefines
    <3> QED BY <3>1 DEF SS!Next
  <2>5. ASSUME NEW c \in Components, Session_Accept(c)
        PROVE  [SS!Next]_(SS!vars)
    <3>1. UNCHANGED SS!vars \/ \E end \in serverS'[c] : SS!Accept(c, end)
      BY <1>2, <2>5, AcceptRefines
    <3> QED BY <3>1 DEF SS!Next
  <2>6. ASSUME NEW c \in Components, NEW end \in clientS[c], Finalize(c, end)
        PROVE  SS!Next
    <3>1. SS!Close(c, end)
      BY <2>6 DEF Finalize, Active, SS!Close, dispVars
    <3> QED BY <3>1 DEF SS!Next
  <2>7. ASSUME NEW c \in Components, Exit(c)
        PROVE  SS!Next
    <3>1. c \in Alive /\ Alive' = Alive \ {c}
      BY <2>0, <2>7 DEF Exit, Alive, TypeOK
    <3>2. SS!Die(c)
      BY <2>7, <3>1 DEF Exit, SS!Die, Alive
    <3> QED BY <3>2 DEF SS!Next
  <2> QED BY <1>2, <2>1, <2>2, <2>3, <2>4, <2>5, <2>6, <2>7 DEF Next
<1>3. SS!Spec <=> SS!Init /\ [][SS!Next]_(SS!vars)
  BY DEF SS!Spec
<1> QED BY <1>1, <1>2, <1>3, Invariance, PTL DEF Spec, ImplementsSessionService
=============================================================================
