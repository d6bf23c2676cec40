---------------------------- MODULE GenodeProofs -----------------------------
(***************************************************************************)
(* Safety of the components of MCGenode, for any number of clients,        *)
(* session variables, messages, characters and signals and any size of     *)
(* the buffers.                                                            *)
(*                                                                         *)
(* IInv (Message): every client has one session variable of its own, and   *)
(* what it reads of the messages sent to it comes in order and once.       *)
(* Which variable a client's RPCs go to (Of) is only known to be one as    *)
(* long as components, session variables and clients agree; the cache of a *)
(* variable outlives the session, so the order has to be said of messages  *)
(* to clients that are gone as well, and against the number sent to each.  *)
(*                                                                         *)
(* MainInv (life of a component): a status that is set was vacated with,   *)
(* and the exit signal is pending whenever it is not the one reported.     *)
(*                                                                         *)
(* LogHomes, MemoryHomes: the same agreement for Log and Memory sessions.  *)
(*                                                                         *)
(* LogText: what the server has printed, the slices under way and the      *)
(* client's buffer are together the text the client printed.  The lemmas   *)
(* before it say what FlattenSeq makes of slices, by induction on numbers. *)
(***************************************************************************)
EXTENDS MCGenode, FiniteSetTheorems, NaturalsInduction, SequenceTheorems, WellFoundedInduction, TLAPS

\* A client with a session has one component, and components, session
\* variables and clients agree on that (EachItsOwn).
Homes ==
    /\ \A c \in Clients : Served(c) <=> client[c] \in {"created", "open", "closing"}
    /\ \A c \in Clients : \A i, j \in 1..Slots :
          <<c, i>> \in live /\ <<c, j>> \in live => i = j
    /\ \A c \in Clients, i \in 1..Slots : <<c, i>> \in live =>
          server[i].component = c /\ Initialized(server[i]) /\ Ready(server[i])
    /\ \A i \in 1..Slots : Initialized(server[i]) => <<server[i].component, i>> \in live

\* Only a client that has a session handles signals; nothing was sent to one
\* that has not had one yet.
Started ==
    \A c \in Clients : /\ handling[c] => client[c] = "open"
                       /\ client[c] = "new" => sent[c] = 0

\* The messages to c in the sequence q are in the order of sending.
Ordered(q, c) ==
    \A j, k \in 1..Len(q) : j < k /\ q[j].to = c /\ q[k].to = c => q[j].n < q[k].n

\* The messages to c in the sequence q are among the first n.
UpTo(q, c, n) ==
    \A j \in 1..Len(q) : q[j].to = c => q[j].n <= n

\* The messages to c in p were sent before those in q.
Before(p, q, c) ==
    \A j \in 1..Len(p), k \in 1..Len(q) : p[j].to = c /\ q[k].to = c => p[j].n < q[k].n

Order ==
    \A c \in Clients :
       /\ UpTo(got[c], c, sent[c]) /\ Ordered(got[c], c)
       /\ \A i \in 1..Slots :
             /\ UpTo(server[i].cache, c, sent[c]) /\ Ordered(server[i].cache, c)
             /\ <<c, i>> \in live => Before(got[c], server[i].cache, c)

IInv == TypeOK /\ Homes /\ Started /\ Order

-----------------------------------------------------------------------------
(* Sequences                                                               *)

LEMMA MessageTypes ==
    ASSUME NEW q \in Seq(Messages)
    PROVE  /\ \A m \in Messages : m.n \in Nat \ {0} /\ m.to \in Clients
           /\ Len(q) \in Nat
           /\ \A j \in 1..Len(q) : q[j] \in Messages /\ q[j].n \in Nat \ {0}
<1>1. \A m \in Messages : m.n \in Nat \ {0} /\ m.to \in Clients
  BY SizesAssumption DEF Messages
<1>2. \A j \in 1..Len(q) : q[j] \in Messages
  OBVIOUS
<1> QED BY <1>1, <1>2

\* A message at the end that is newer than those before it keeps the order.
LEMMA AppendOrder ==
    ASSUME NEW q \in Seq(Messages), NEW m \in Messages, NEW c \in Clients, Ordered(q, c),
           \A j \in 1..Len(q) : q[j].to = c /\ m.to = c => q[j].n < m.n
    PROVE  Ordered(Append(q, m), c)
<1>1. Append(q, m) \in Seq(Messages) /\ Len(Append(q, m)) = Len(q) + 1
  OBVIOUS
<1>2. \A j \in 1..(Len(q) + 1) : Append(q, m)[j] = IF j <= Len(q) THEN q[j] ELSE m
  OBVIOUS
<1> SUFFICES ASSUME NEW j \in 1..(Len(q) + 1), NEW k \in 1..(Len(q) + 1), j < k,
                    Append(q, m)[j].to = c, Append(q, m)[k].to = c
             PROVE  Append(q, m)[j].n < Append(q, m)[k].n
  BY <1>1 DEF Ordered
<1>3. j \in 1..Len(q) /\ Append(q, m)[j] = q[j]
  BY <1>2
<1>4. CASE k \in 1..Len(q)
  BY <1>2, <1>3, <1>4 DEF Ordered
<1>5. CASE k = Len(q) + 1
  BY <1>2, <1>3, <1>5
<1> QED BY <1>4, <1>5

\* One that is among the first n, as the others are, keeps them so.
LEMMA AppendUpTo ==
    ASSUME NEW q \in Seq(Messages), NEW m \in Messages, NEW c \in Clients, NEW n \in Nat,
           UpTo(q, c, n), m.to = c => m.n <= n
    PROVE  UpTo(Append(q, m), c, n)
<1>1. Len(Append(q, m)) = Len(q) + 1
  OBVIOUS
<1>2. \A j \in 1..(Len(q) + 1) : Append(q, m)[j] = IF j <= Len(q) THEN q[j] ELSE m
  OBVIOUS
<1> SUFFICES ASSUME NEW j \in 1..(Len(q) + 1), Append(q, m)[j].to = c
             PROVE  Append(q, m)[j].n <= n
  BY <1>1 DEF UpTo
<1>3. CASE j \in 1..Len(q)
  BY <1>2, <1>3 DEF UpTo
<1>4. CASE j = Len(q) + 1
  BY <1>2, <1>4
<1> QED BY <1>3, <1>4

\* More may have been sent by now.
LEMMA UpToMore ==
    ASSUME NEW q \in Seq(Messages), NEW c \in Clients, NEW n \in Nat, NEW p \in Nat,
           UpTo(q, c, n), n <= p
    PROVE  UpTo(q, c, p)
BY MessageTypes DEF UpTo

\* Taking the first message moves the others up.
LEMMA TakeElems ==
    ASSUME NEW q \in Seq(Messages), q # <<>>
    PROVE  /\ Head(q) = q[1] /\ Head(q) \in Messages
           /\ Len(q) \in Nat \ {0}
           /\ Tail(q) \in Seq(Messages) /\ Len(Tail(q)) = Len(q) - 1
           /\ \A j \in 1..(Len(q) - 1) : Tail(q)[j] = q[j + 1]
OBVIOUS

\* The rest of a sequence keeps its order, and comes after the first message.
LEMMA TakeOrder ==
    ASSUME NEW q \in Seq(Messages), q # <<>>, NEW c \in Clients, NEW n \in Nat,
           Ordered(q, c), UpTo(q, c, n)
    PROVE  /\ Ordered(Tail(q), c) /\ UpTo(Tail(q), c, n)
           /\ Head(q).to = c => Head(q).n <= n
           /\ \A k \in 1..Len(Tail(q)) :
                 Head(q).to = c /\ Tail(q)[k].to = c => Head(q).n < Tail(q)[k].n
<1>1. /\ Len(q) \in Nat \ {0} /\ Len(Tail(q)) = Len(q) - 1 /\ Head(q) = q[1]
      /\ \A j \in 1..(Len(q) - 1) : Tail(q)[j] = q[j + 1]
  BY TakeElems
<1>2. \A j \in 1..(Len(q) - 1) : j + 1 \in 1..Len(q) /\ 1 < j + 1
  BY <1>1
<1>3. Ordered(Tail(q), c)
  BY <1>1, <1>2 DEF Ordered
<1>4. UpTo(Tail(q), c, n)
  BY <1>1, <1>2 DEF UpTo
<1>5. Head(q).to = c => Head(q).n <= n
  BY <1>1 DEF UpTo
<1>6. \A k \in 1..(Len(q) - 1) :
         q[1].to = c /\ q[k + 1].to = c => q[1].n < q[k + 1].n
  BY <1>1, <1>2 DEF Ordered
<1> QED BY <1>1, <1>3, <1>4, <1>5, <1>6

\* What was sent before all of a sequence was sent before the rest of it.
LEMMA TakeBefore ==
    ASSUME NEW p \in Seq(Messages), NEW q \in Seq(Messages), q # <<>>, NEW c \in Clients,
           Before(p, q, c)
    PROVE  /\ Before(p, Tail(q), c)
           /\ \A j \in 1..Len(p) : p[j].to = c /\ Head(q).to = c => p[j].n < Head(q).n
<1>1. /\ Len(q) \in Nat \ {0} /\ Len(Tail(q)) = Len(q) - 1 /\ Head(q) = q[1]
      /\ \A j \in 1..(Len(q) - 1) : Tail(q)[j] = q[j + 1] /\ j + 1 \in 1..Len(q)
  BY TakeElems
<1> QED BY <1>1 DEF Before

\* Extending either side of Before.
LEMMA AppendBefore ==
    ASSUME NEW p \in Seq(Messages), NEW q \in Seq(Messages), NEW m \in Messages,
           NEW c \in Clients, Before(p, q, c)
    PROVE  /\ (\A j \in 1..Len(p) : p[j].to = c /\ m.to = c => p[j].n < m.n)
                 => Before(p, Append(q, m), c)
           /\ (\A k \in 1..Len(q) : m.to = c /\ q[k].to = c => m.n < q[k].n)
                 => Before(Append(p, m), q, c)
<1>1. /\ \A j \in 1..(Len(q) + 1) : Append(q, m)[j] = IF j <= Len(q) THEN q[j] ELSE m
      /\ \A j \in 1..(Len(p) + 1) : Append(p, m)[j] = IF j <= Len(p) THEN p[j] ELSE m
      /\ Len(Append(q, m)) = Len(q) + 1 /\ Len(Append(p, m)) = Len(p) + 1
  OBVIOUS
<1>2. /\ \A j \in 1..(Len(q) + 1) : j \in 1..Len(q) \/ Append(q, m)[j] = m
      /\ \A j \in 1..(Len(p) + 1) : j \in 1..Len(p) \/ Append(p, m)[j] = m
      /\ \A j \in 1..Len(q) : Append(q, m)[j] = q[j]
      /\ \A j \in 1..Len(p) : Append(p, m)[j] = p[j]
  BY <1>1
<1> QED BY <1>1, <1>2 DEF Before

\* Two ordered sequences, one sent before the other, are one ordered sequence.
LEMMA ConcatOrder ==
    ASSUME NEW p \in Seq(Messages), NEW q \in Seq(Messages), NEW c \in Clients,
           Ordered(p, c), Ordered(q, c), Before(p, q, c)
    PROVE  Ordered(p \o q, c)
<1>1. /\ Len(p) \in Nat /\ Len(q) \in Nat /\ Len(p \o q) = Len(p) + Len(q)
      /\ \A j \in 1..Len(p) : (p \o q)[j] = p[j]
      /\ \A j \in (Len(p) + 1)..(Len(p) + Len(q)) : (p \o q)[j] = q[j - Len(p)]
  OBVIOUS
<1> SUFFICES ASSUME NEW j \in 1..(Len(p) + Len(q)), NEW k \in 1..(Len(p) + Len(q)), j < k,
                    (p \o q)[j].to = c, (p \o q)[k].to = c
             PROVE  (p \o q)[j].n < (p \o q)[k].n
  BY <1>1 DEF Ordered
<1>2. CASE k \in 1..Len(p)
  BY <1>1, <1>2 DEF Ordered
<1>3. CASE j \in 1..Len(p) /\ k \notin 1..Len(p)
  <2>1. k \in (Len(p) + 1)..(Len(p) + Len(q)) /\ k - Len(p) \in 1..Len(q)
    BY <1>1, <1>3
  <2> QED BY <1>1, <1>3, <2>1 DEF Before
<1>4. CASE j \notin 1..Len(p)
  <2>1. /\ j \in (Len(p) + 1)..(Len(p) + Len(q)) /\ j - Len(p) \in 1..Len(q)
        /\ k \in (Len(p) + 1)..(Len(p) + Len(q)) /\ k - Len(p) \in 1..Len(q)
        /\ j - Len(p) < k - Len(p)
    BY <1>1, <1>4
  <2> QED BY <1>1, <2>1 DEF Ordered
<1> QED BY <1>1, <1>2, <1>3, <1>4

-----------------------------------------------------------------------------
(* Session variables                                                       *)

\* Session_Initialize leaves the cache, and a variable that is neither Ready
\* nor Initialized unless the outcome is "ready".
LEMMA InitializeEffect ==
    ASSUME NEW c \in Clients, NEW s \in Server_Session, NEW o \in Outcomes
    PROVE  /\ Session_Initialize(c, s, o) \in Server_Session
           /\ Session_Initialize(c, s, o).cache = s.cache
           /\ o = "ready" => /\ Session_Initialize(c, s, o).component = c
                             /\ Initialized(Session_Initialize(c, s, o))
                             /\ Ready(Session_Initialize(c, s, o))
           /\ (o # "ready" /\ ~Ready(s)) => /\ ~Initialized(Session_Initialize(c, s, o))
                                            /\ ~Ready(Session_Initialize(c, s, o))
<1>1. c # None
  BY SizesAssumption DEF None
<1>2. CASE o = "none"
  BY <1>1, <1>2 DEF Session_Initialize, initialize, Server_Session, Initialized, Ready
<1>3. CASE o = "refused"
  BY <1>1, <1>3 DEF Session_Initialize, initialize, Server_Session, Initialized, Ready
<1>4. CASE o = "ready"
  BY <1>1, <1>4 DEF Session_Initialize, initialize, Server_Session, Initialized, Ready
<1> QED BY <1>2, <1>3, <1>4 DEF Outcomes

\* A request is given one free session variable, or none; of the others, only
\* free ones are touched, and they stay so.
LEMMA DispatchEffect ==
    ASSUME TypeOK, NEW c \in Clients, NEW o \in [1..Slots -> Outcomes],
           NEW a \in SUBSET (1..Slots), Dispatch(c, o, a)
    PROVE  /\ server' \in [1..Slots -> Server_Session]
           /\ \A i \in 1..Slots : server'[i].cache = server[i].cache
           /\ \A i, j \in a : i = j
           /\ a \subseteq Free
           /\ \A i \in a : /\ server'[i].component = c
                           /\ Initialized(server'[i]) /\ Ready(server'[i])
           /\ \A i \in (1..Slots) \ a : \/ server'[i] = server[i]
                                        \/ i \in Free /\ ~Initialized(server'[i])
           /\ live' = live \cup {<<c, i>> : i \in a}
<1> DEFINE tried == {i \in Free : \A j \in Free : j < i => o[j] # "ready"}
<1>1. /\ a = {i \in tried : o[i] = "ready"}
      /\ server' = [i \in 1..Slots |-> IF i \in tried THEN Session_Initialize(c, server[i], o[i])
                                                      ELSE server[i]]
      /\ live' = live \cup {<<c, i>> : i \in a}
  BY DEF Dispatch
<1>2. tried \subseteq Free /\ Free \subseteq 1..Slots
  BY DEF Free
<1>3. \A i, j \in a : i = j
  <2> SUFFICES ASSUME NEW i \in a, NEW j \in a, i < j
               PROVE  FALSE
    BY <1>1, <1>2, SizesAssumption
  <2> QED BY <1>1
<1> HIDE DEF tried
<1>4. ASSUME NEW i \in tried
      PROVE  /\ server'[i] = Session_Initialize(c, server[i], o[i])
             /\ server'[i] \in Server_Session
             /\ server'[i].cache = server[i].cache
             /\ o[i] = "ready" => /\ server'[i].component = c
                                  /\ Initialized(server'[i]) /\ Ready(server'[i])
             /\ o[i] # "ready" => ~Initialized(server'[i])
  <2>1. server'[i] = Session_Initialize(c, server[i], o[i]) /\ i \in 1..Slots /\ i \in Free
    BY <1>1, <1>2
  <2>2. server[i] \in Server_Session /\ o[i] \in Outcomes /\ ~Ready(server[i])
    BY <2>1 DEF TypeOK, Free
  <2> QED BY <2>1, <2>2, InitializeEffect
<1>5. ASSUME NEW i \in 1..Slots, i \notin tried
      PROVE  server'[i] = server[i] /\ server[i] \in Server_Session
  BY <1>1, <1>5 DEF TypeOK
<1>6. server' \in [1..Slots -> Server_Session]
  <2>1. \A i \in 1..Slots : server'[i] \in Server_Session
    BY <1>4, <1>5
  <2>2. server' = [i \in 1..Slots |-> server'[i]]
    BY <1>1
  <2> QED BY <2>1, <2>2
<1>7. \A i \in 1..Slots : server'[i].cache = server[i].cache
  BY <1>4, <1>5
<1>8. \A i \in a : server'[i].component = c /\ Initialized(server'[i]) /\ Ready(server'[i])
  BY <1>1, <1>4
<1>9. \A i \in (1..Slots) \ a : server'[i] = server[i] \/ (i \in Free /\ ~Initialized(server'[i]))
  BY <1>1, <1>2, <1>4, <1>5
<1> QED BY <1>1, <1>2, <1>3, <1>6, <1>7, <1>8, <1>9

-----------------------------------------------------------------------------
(* Steps                                                                   *)

\* The variable the RPCs of a client with a session go to is its own.
LEMMA OfHome ==
    ASSUME Homes, NEW c \in Clients, client[c] \in {"created", "open", "closing"}
    PROVE  /\ Of(c) \in 1..Slots /\ <<c, Of(c)>> \in live
           /\ server[Of(c)].component = c /\ Initialized(server[Of(c)]) /\ Ready(server[Of(c)])
<1>1. Of(c) \in 1..Slots /\ <<c, Of(c)>> \in live
  <2>1. \E i \in 1..Slots : <<c, i>> \in live
    BY DEF Homes, Served
  <2> QED BY <2>1 DEF Of
<1> QED BY <1>1 DEF Homes

\* A new session takes a free variable; nothing in its cache is for the client.
LEMMA CreateStep ==
    ASSUME IInv, NEW c \in Clients, create_session(c)
    PROVE  IInv'
<1>0. /\ TypeOK /\ Homes /\ Started /\ Order /\ client[c] = "new"
      /\ UNCHANGED <<root, sigh, signal, handling, sent, got>>
  BY DEF IInv, create_session
<1>1. \A i \in 1..Slots : <<c, i>> \notin live
  BY <1>0 DEF Homes, Served
<1>2. CASE client' = [client EXCEPT ![c] = "denied"] /\ UNCHANGED <<server, live>>
  <2>1. TypeOK'
    BY <1>0, <1>2 DEF TypeOK
  <2>2. Homes'
    BY <1>0, <1>1, <1>2 DEF Homes, Served, Initialized, Ready, TypeOK
  <2>3. Started'
    BY <1>0, <1>2 DEF Started, TypeOK
  <2>4. Order'
    BY <1>0, <1>2 DEF Order
  <2> QED BY <2>1, <2>2, <2>3, <2>4 DEF IInv
<1>3. ASSUME NEW o \in [1..Slots -> Outcomes], NEW a \in SUBSET (1..Slots), Dispatch(c, o, a),
             client' = [client EXCEPT ![c] = IF a # {} THEN "created" ELSE "denied"]
      PROVE  IInv'
  <2>1. /\ server' \in [1..Slots -> Server_Session]
        /\ \A i \in 1..Slots : server'[i].cache = server[i].cache
        /\ \A i, j \in a : i = j
        /\ a \subseteq Free
        /\ \A i \in a : /\ server'[i].component = c
                        /\ Initialized(server'[i]) /\ Ready(server'[i])
        /\ \A i \in (1..Slots) \ a : \/ server'[i] = server[i]
                                     \/ i \in Free /\ ~Initialized(server'[i])
        /\ live' = live \cup {<<c, i>> : i \in a}
    BY <1>0, <1>3, DispatchEffect
  <2>2. TypeOK'
    <3>1. \A i \in 1..Slots : Len(server'[i].cache) <= CacheSize
      BY <1>0, <2>1 DEF TypeOK
    <3>2. live' \subseteq Clients \X (1..Slots)
      BY <1>0, <2>1 DEF TypeOK
    <3>3. client' \in [Clients -> {"new", "created", "open", "closing", "closed", "denied"}]
      BY <1>0, <1>3 DEF TypeOK
    <3> QED BY <1>0, <2>1, <3>1, <3>2, <3>3 DEF TypeOK
  <2>3. Homes'
    <3>1. \A d \in Clients, i \in 1..Slots :
             <<d, i>> \in live' <=> <<d, i>> \in live \/ (d = c /\ i \in a)
      BY <2>1
    <3>2. \A i \in Free : ~Initialized(server[i]) /\ \A d \in Clients : <<d, i>> \notin live
      BY <1>0 DEF Homes, Free
    <3>3. ASSUME NEW d \in Clients
          PROVE  Served(d)' <=> client'[d] \in {"created", "open", "closing"}
      <4>1. CASE d = c
        BY <4>1, <1>0, <1>1, <1>3, <3>1 DEF Served, TypeOK
      <4>2. CASE d # c
        BY <4>2, <1>0, <1>3, <3>1 DEF Served, TypeOK, Homes
      <4> QED BY <4>1, <4>2
    <3>4. \A d \in Clients : \A i, j \in 1..Slots :
             <<d, i>> \in live' /\ <<d, j>> \in live' => i = j
      BY <1>0, <1>1, <2>1, <3>1 DEF Homes
    <3>5. ASSUME NEW d \in Clients, NEW i \in 1..Slots, <<d, i>> \in live'
          PROVE  server'[i].component = d /\ Initialized(server'[i]) /\ Ready(server'[i])
      <4>1. CASE i \in a
        BY <4>1, <2>1, <3>1, <3>2, <3>5
      <4>2. CASE i \notin a
        <5>1. <<d, i>> \in live /\ i \notin Free
          BY <4>2, <3>1, <3>2, <3>5
        <5>2. server'[i] = server[i]
          BY <4>2, <2>1, <5>1
        <5> QED BY <1>0, <5>1, <5>2 DEF Homes
      <4> QED BY <4>1, <4>2
    <3>6. ASSUME NEW i \in 1..Slots, Initialized(server'[i])
          PROVE  <<server'[i].component, i>> \in live'
      <4>1. CASE i \in a
        BY <4>1, <2>1
      <4>2. CASE i \notin a
        <5>1. server'[i] = server[i]
          BY <4>2, <2>1, <3>6
        <5>2. <<server[i].component, i>> \in live
          BY <1>0, <5>1, <3>6 DEF Homes
        <5> QED BY <2>1, <5>1, <5>2
      <4> QED BY <4>1, <4>2
    <3> QED BY <3>3, <3>4, <3>5, <3>6 DEF Homes, Initialized, Ready
  <2>4. Started'
    BY <1>0, <1>3 DEF Started, TypeOK
  <2>5. Order'
    <3>1. sent[c] = 0 /\ got[c] \in Seq(Messages)
      BY <1>0 DEF Started, TypeOK
    <3>2. \A q : Before(got[c], q, c)
      <4>1. UpTo(got[c], c, 0)
        BY <1>0, <3>1 DEF Order
      <4>2. \A j \in 1..Len(got[c]) : got[c][j].n \in Nat \ {0}
        BY <3>1, MessageTypes
      <4>3. \A j \in 1..Len(got[c]) : got[c][j].to # c
        BY <4>1, <4>2 DEF UpTo
      <4> QED BY <4>3 DEF Before
    <3>3. \A d \in Clients, i \in 1..Slots : <<d, i>> \in live' => <<d, i>> \in live \/ d = c
      BY <2>1
    <3> QED BY <1>0, <2>1, <3>2, <3>3 DEF Order
  <2> QED BY <2>2, <2>3, <2>4, <2>5 DEF IInv
<1> QED BY <1>2, <1>3 DEF create_session

\* Steps of a client alone: its session is neither opened nor closed, and no
\* message moves.
LEMMA ClientStep ==
    ASSUME IInv,
           \/ register_service
           \/ \E c \in Clients : \/ Message_Connection(c) \/ Finalize(c)
                                 \/ event(c) \/ Event_Return(c)
    PROVE  IInv'
<1>0. TypeOK /\ Homes /\ Started /\ Order
  BY DEF IInv
<1>1. UNCHANGED <<server, live, sent, got>>
  BY DEF register_service, Message_Connection, Finalize, event, Event_Return, served
<1> DEFINE Kept(d) == /\ client[d] \in {"created", "open", "closing"}
                            <=> client'[d] \in {"created", "open", "closing"}
                      /\ client'[d] = "new" => client[d] = "new"
                      /\ handling'[d] => client'[d] = "open"
<1>2. \A d \in Clients : Kept(d)
  <2>1. CASE register_service
    BY <1>0, <2>1 DEF register_service, TypeOK, Started
  <2>2. ASSUME NEW c \in Clients, Message_Connection(c)
        PROVE  \A d \in Clients : Kept(d)
    BY <1>0, <2>2 DEF Message_Connection, TypeOK, Started
  <2>3. ASSUME NEW c \in Clients, Finalize(c)
        PROVE  \A d \in Clients : Kept(d)
    BY <1>0, <2>3 DEF Finalize, TypeOK, Started
  <2>4. ASSUME NEW c \in Clients, event(c) \/ Event_Return(c)
        PROVE  \A d \in Clients : Kept(d)
    BY <1>0, <2>4 DEF event, Event_Return, served, TypeOK, Started
  <2> QED BY <2>1, <2>2, <2>3, <2>4
<1>3. TypeOK'
  <2>1. CASE register_service
    BY <1>0, <2>1 DEF register_service, TypeOK
  <2>2. ASSUME NEW c \in Clients, Message_Connection(c)
        PROVE  TypeOK'
    BY <1>0, <2>2 DEF Message_Connection, served, TypeOK
  <2>3. ASSUME NEW c \in Clients, Finalize(c)
        PROVE  TypeOK'
    BY <1>0, <2>3 DEF Finalize, served, TypeOK
  <2>4. ASSUME NEW c \in Clients, event(c) \/ Event_Return(c)
        PROVE  TypeOK'
    BY <1>0, <2>4 DEF event, Event_Return, served, TypeOK
  <2> QED BY <2>1, <2>2, <2>3, <2>4
<1>4. Homes'
  BY <1>0, <1>1, <1>2 DEF Homes, Served, Initialized, Ready
<1>5. Started'
  BY <1>0, <1>1, <1>2 DEF Started
<1>6. Order'
  BY <1>0, <1>1 DEF Order
<1> QED BY <1>3, <1>4, <1>5, <1>6 DEF IInv

\* A session that is closed leaves its variable free; no other is touched.
LEMMA DestroyStep ==
    ASSUME IInv, NEW c \in Clients, destroy_session(c)
    PROVE  IInv'
<1>0. /\ TypeOK /\ Homes /\ Started /\ Order /\ client[c] = "closing"
      /\ client' = [client EXCEPT ![c] = "closed"]
      /\ UNCHANGED <<root, sigh, signal, handling, sent, got>>
  BY DEF IInv, destroy_session
<1>1. PICK i \in 1..Slots : /\ Initialized(server[i]) /\ server[i].component = c
                            /\ server' = [server EXCEPT ![i].index = FALSE, ![i].ready = FALSE]
                            /\ live' = live \ {<<c, i>>}
  <2>1. Of(c) \in {j \in 1..Slots : Initialized(server[j]) /\ server[j].component = c}
    BY <1>0, OfHome
  <2> QED BY <2>1 DEF destroy_session, Session_Cleanup, finalize
<1>2. /\ \A j \in (1..Slots) \ {i} : server'[j] = server[j]
      /\ server'[i].component = c /\ server'[i].cache = server[i].cache
      /\ ~Initialized(server'[i]) /\ server' \in [1..Slots -> Server_Session]
  <2>1. /\ \A j \in (1..Slots) \ {i} : server'[j] = server[j] /\ server[j] \in Server_Session
        /\ server[i] \in Server_Session
        /\ server'[i] = [server[i] EXCEPT !.index = FALSE, !.ready = FALSE]
        /\ server' = [j \in 1..Slots |-> server'[j]]
    BY <1>0, <1>1 DEF TypeOK
  <2>2. /\ server'[i].component = server[i].component /\ server'[i].cache = server[i].cache
        /\ server'[i].index = FALSE /\ server'[i] \in Server_Session
    BY <2>1 DEF Server_Session
  <2>3. \A j \in 1..Slots : server'[j] \in Server_Session
    BY <2>1, <2>2
  <2>4. server' \in [1..Slots -> Server_Session]
    BY <2>1, <2>3
  <2> QED BY <1>1, <2>1, <2>2, <2>4 DEF Initialized
<1>3. <<c, i>> \in live
  BY <1>0, <1>1 DEF Homes
<1>4. TypeOK'
  <2>1. \A j \in 1..Slots : Len(server'[j].cache) <= CacheSize
    BY <1>0, <1>2 DEF TypeOK
  <2>2. client' \in [Clients -> {"new", "created", "open", "closing", "closed", "denied"}]
        /\ live' \subseteq Clients \X (1..Slots)
    BY <1>0, <1>1 DEF TypeOK
  <2> QED BY <1>0, <1>2, <2>1, <2>2 DEF TypeOK
<1>5. Homes'
  <2>1. \A d \in Clients, j \in 1..Slots :
           <<d, j>> \in live' <=> <<d, j>> \in live /\ d # c
    BY <1>0, <1>1, <1>3 DEF Homes
  <2>2. \A d \in Clients, j \in 1..Slots : <<d, j>> \in live' => j # i
    BY <1>0, <1>3, <2>1 DEF Homes
  <2>3. ASSUME NEW d \in Clients
        PROVE  Served(d)' <=> client'[d] \in {"created", "open", "closing"}
    BY <1>0, <2>1 DEF Homes, Served, TypeOK
  <2>4. \A d \in Clients : \A j, k \in 1..Slots :
           <<d, j>> \in live' /\ <<d, k>> \in live' => j = k
    BY <1>0, <2>1 DEF Homes
  <2>5. \A d \in Clients, j \in 1..Slots : <<d, j>> \in live' =>
           server'[j].component = d /\ Initialized(server'[j]) /\ Ready(server'[j])
    BY <1>0, <1>2, <2>1, <2>2 DEF Homes
  <2>6. ASSUME NEW j \in 1..Slots, Initialized(server'[j])
        PROVE  <<server'[j].component, j>> \in live'
    <3>1. j # i /\ server'[j] = server[j]
      BY <1>2, <2>6
    <3> QED BY <1>0, <1>1, <2>6, <3>1 DEF Homes
  <2> QED BY <2>3, <2>4, <2>5, <2>6 DEF Homes, Initialized, Ready
<1>6. Started'
  BY <1>0 DEF Started, TypeOK
<1>7. Order'
  <2>1. \A j \in 1..Slots : server'[j].cache = server[j].cache
    BY <1>2
  <2> QED BY <1>0, <1>1, <2>1 DEF Order
<1> QED BY <1>4, <1>5, <1>6, <1>7 DEF IInv

\* Where only caches, counters and what is read change, the homes stay.
LEMMA HomesFrame ==
    ASSUME Homes, UNCHANGED <<live, client>>,
           \A i \in 1..Slots : /\ server'[i].component = server[i].component
                               /\ server'[i].index = server[i].index
                               /\ server'[i].ready = server[i].ready
    PROVE  Homes'
<1>1. \A i \in 1..Slots : /\ Initialized(server'[i]) <=> Initialized(server[i])
                          /\ Ready(server'[i]) <=> Ready(server[i])
  BY DEF Initialized, Ready
<1>2. \A c \in Clients : Served(c)' <=> Served(c)
  BY DEF Served
<1> QED BY <1>1, <1>2 DEF Homes, Initialized, Ready

\* The server sends to a client in that client's own variable, or drops the
\* message at a full cache.
LEMMA SendStep ==
    ASSUME IInv, NEW c \in Clients, NEW i \in 1..Slots, <<c, i>> \in live,
           sent[c] < MaxMessages, Send(i, Next_Message(c)),
           sent' = [sent EXCEPT ![c] = @ + 1],
           UNCHANGED <<root, live, client, sigh, handling, got>>
    PROVE  IInv'
<1> DEFINE m == Next_Message(c)
<1>0. TypeOK /\ Homes /\ Started /\ Order
  BY DEF IInv
<1>1. m \in Messages /\ m.to = c /\ m.n = sent[c] + 1 /\ sent[c] \in Nat /\ sent'[c] = sent[c] + 1
      /\ sent' \in [Clients -> 0..MaxMessages]
      /\ \A d \in Clients : d # c => sent'[d] = sent[d]
  BY <1>0, SizesAssumption DEF TypeOK, Next_Message, Messages
<1> HIDE DEF m
<1>2. /\ \A j \in 1..Slots : /\ server'[j].component = server[j].component
                             /\ server'[j].index = server[j].index
                             /\ server'[j].ready = server[j].ready
                             /\ j # i => server'[j] = server[j]
      /\ \/ server'[i].cache = server[i].cache
         \/ server'[i].cache = Append(server[i].cache, m) /\ Len(server[i].cache) < CacheSize
      /\ server' \in [1..Slots -> Server_Session]
      /\ signal' \in [Clients -> BOOLEAN]
  <2>1. CASE Len(server[i].cache) < CacheSize
    <3>1. /\ server' = [server EXCEPT ![i].cache = Append(@, m)]
          /\ signal' = [signal EXCEPT ![c] = sigh[c] /\ client[c] = "open"]
      BY <1>1, <2>1 DEF Send, send_signal, m
    <3>2. server[i] \in Server_Session /\ Append(server[i].cache, m) \in Seq(Messages)
      BY <1>0, <1>1 DEF TypeOK, Server_Session
    <3>3. signal' \in [Clients -> BOOLEAN]
      BY <1>0, <3>1 DEF TypeOK
    <3>4. server'[i] = [server[i] EXCEPT !.cache = Append(server[i].cache, m)]
          /\ \A j \in 1..Slots : j # i => server'[j] = server[j]
      BY <1>0, <3>1 DEF TypeOK
    <3>5. server'[i] \in Server_Session
      BY <3>2, <3>4 DEF Server_Session
    <3>6. server' \in [1..Slots -> Server_Session]
      BY <1>0, <3>1, <3>4, <3>5 DEF TypeOK
    <3>7. /\ server'[i].component = server[i].component /\ server'[i].index = server[i].index
          /\ server'[i].ready = server[i].ready
          /\ server'[i].cache = Append(server[i].cache, m)
      BY <3>2, <3>4 DEF Server_Session
    <3> QED BY <2>1, <3>3, <3>4, <3>6, <3>7
  <2>2. CASE ~(Len(server[i].cache) < CacheSize)
    BY <1>0, <2>2 DEF Send, TypeOK
  <2> QED BY <2>1, <2>2
<1>3. \A j \in 1..Slots : server[j].cache \in Seq(Messages)
  BY <1>0 DEF TypeOK, Server_Session
<1>4. TypeOK'
  <2>1. \A j \in 1..Slots : Len(server'[j].cache) <= CacheSize
    BY <1>0, <1>1, <1>2, <1>3, SizesAssumption DEF TypeOK
  <2> QED BY <1>0, <1>1, <1>2, <2>1 DEF TypeOK
<1>5. Homes'
  BY <1>0, <1>2, HomesFrame
<1>6. Started'
  <2>1. client[c] # "new"
    BY <1>0 DEF Homes, Served
  <2> QED BY <1>0, <1>1, <2>1 DEF Started
<1>7. Order'
  <2> SUFFICES ASSUME NEW d \in Clients
               PROVE  /\ UpTo(got[d], d, sent'[d]) /\ Ordered(got[d], d)
                      /\ \A j \in 1..Slots :
                            /\ UpTo(server'[j].cache, d, sent'[d])
                            /\ Ordered(server'[j].cache, d)
                            /\ <<d, j>> \in live => Before(got[d], server'[j].cache, d)
    BY DEF Order
  <2>1. /\ UpTo(got[d], d, sent[d]) /\ Ordered(got[d], d)
        /\ \A j \in 1..Slots :
              /\ UpTo(server[j].cache, d, sent[d]) /\ Ordered(server[j].cache, d)
              /\ <<d, j>> \in live => Before(got[d], server[j].cache, d)
    BY <1>0 DEF Order
  <2>2. sent[d] \in Nat /\ sent'[d] \in Nat /\ sent[d] <= sent'[d] /\ got[d] \in Seq(Messages)
    BY <1>0, <1>1, SizesAssumption DEF TypeOK
  <2>3. \A q \in Seq(Messages) : UpTo(q, d, sent[d]) => UpTo(q, d, sent'[d])
    BY <2>2, UpToMore
  <2>4. \A q \in Seq(Messages) : UpTo(q, d, sent[d]) =>
           \A j \in 1..Len(q) : q[j].to = d /\ m.to = d => q[j].n < m.n
    <3> SUFFICES ASSUME NEW q \in Seq(Messages), UpTo(q, d, sent[d]),
                        NEW j \in 1..Len(q), q[j].to = d, m.to = d
                 PROVE  q[j].n < m.n
      OBVIOUS
    <3>1. q[j].n <= sent[d] /\ q[j].n \in Nat /\ m.n = sent[d] + 1
      BY <1>1, MessageTypes DEF UpTo
    <3> QED BY <2>2, <3>1
  <2>5. ASSUME NEW j \in 1..Slots, server'[j].cache = Append(server[j].cache, m)
        PROVE  /\ UpTo(server'[j].cache, d, sent'[d])
               /\ Ordered(server'[j].cache, d)
               /\ <<d, j>> \in live => Before(got[d], server'[j].cache, d)
    <3>1. m.to = d => m.n <= sent'[d]
      BY <1>1
    <3>2. UpTo(Append(server[j].cache, m), d, sent'[d])
      BY <1>1, <1>3, <2>1, <2>2, <2>3, <3>1, AppendUpTo
    <3>3. Ordered(Append(server[j].cache, m), d)
      BY <1>1, <1>3, <2>1, <2>4, AppendOrder
    <3>4. <<d, j>> \in live => Before(got[d], Append(server[j].cache, m), d)
      BY <1>1, <1>3, <2>1, <2>2, <2>4, AppendBefore
    <3> QED BY <2>5, <3>2, <3>3, <3>4
  <2>6. ASSUME NEW j \in 1..Slots, server'[j].cache = server[j].cache
        PROVE  /\ UpTo(server'[j].cache, d, sent'[d])
               /\ Ordered(server'[j].cache, d)
               /\ <<d, j>> \in live => Before(got[d], server'[j].cache, d)
    BY <1>3, <2>1, <2>3, <2>6
  <2>7. UpTo(got[d], d, sent'[d])
    BY <2>1, <2>2, <2>3
  <2> QED BY <1>2, <2>1, <2>5, <2>6, <2>7
<1> QED BY <1>4, <1>5, <1>6, <1>7 DEF IInv

\* A client takes the oldest message of its own variable's cache.
LEMMA ReadStep ==
    ASSUME IInv, NEW c \in Clients, read(c)
    PROVE  IInv'
<1> DEFINE i == Of(c)
           q == server[i].cache
<1>0. /\ TypeOK /\ Homes /\ Started /\ Order /\ handling[c] /\ q # <<>>
      /\ got' = [got EXCEPT ![c] = Append(@, Head(q))]
      /\ server' = [server EXCEPT ![i].cache = Tail(@)]
      /\ UNCHANGED <<root, live, client, sigh, signal, handling, sent>>
  BY DEF IInv, read, avail
<1>1. i \in 1..Slots /\ <<c, i>> \in live
  BY <1>0, OfHome DEF Started
<1> HIDE DEF i
<1>2. /\ server[i] \in Server_Session /\ Len(q) <= CacheSize
      /\ \A j \in 1..Slots : server[j].cache \in Seq(Messages)
      /\ \A d \in Clients : got[d] \in Seq(Messages) /\ sent[d] \in Nat
  BY <1>0, <1>1, SizesAssumption DEF TypeOK, Server_Session
<1>3. /\ \A j \in 1..Slots : j # i => server'[j] = server[j]
      /\ server'[i] = [server[i] EXCEPT !.cache = Tail(q)]
      /\ server' = [j \in 1..Slots |-> server'[j]]
      /\ got'[c] = Append(got[c], Head(q)) /\ \A d \in Clients : d # c => got'[d] = got[d]
      /\ got' = [d \in Clients |-> got'[d]]
  BY <1>0, <1>1 DEF TypeOK
<1>4. /\ q \in Seq(Messages) /\ Head(q) \in Messages /\ Tail(q) \in Seq(Messages)
      /\ Len(q) \in Nat \ {0} /\ Len(Tail(q)) = Len(q) - 1
  BY <1>0, <1>1, <1>2, TakeElems
<1> HIDE DEF q
<1>5. /\ server'[i].component = server[i].component /\ server'[i].index = server[i].index
      /\ server'[i].ready = server[i].ready /\ server'[i].cache = Tail(q)
      /\ server'[i] \in Server_Session
  BY <1>2, <1>3, <1>4 DEF Server_Session
<1>6. TypeOK'
  <2>1. \A j \in 1..Slots : server'[j] \in Server_Session
    BY <1>0, <1>3, <1>5 DEF TypeOK
  <2>2. \A d \in Clients : got'[d] \in Seq(Messages)
    <3>1. Append(got[c], Head(q)) \in Seq(Messages)
      BY <1>2, <1>4
    <3> QED BY <1>2, <1>3, <3>1
  <2>3. server' \in [1..Slots -> Server_Session] /\ got' \in [Clients -> Seq(Messages)]
    BY <1>3, <2>1, <2>2
  <2>4. \A j \in 1..Slots : Len(server'[j].cache) <= CacheSize
    BY <1>0, <1>2, <1>3, <1>4, <1>5, SizesAssumption DEF TypeOK
  <2> QED BY <1>0, <2>3, <2>4 DEF TypeOK
<1>7. Homes'
  BY <1>0, <1>3, <1>5, HomesFrame
<1>8. Started'
  BY <1>0 DEF Started
<1>9. Order'
  <2> SUFFICES ASSUME NEW d \in Clients
               PROVE  /\ UpTo(got'[d], d, sent[d]) /\ Ordered(got'[d], d)
                      /\ \A j \in 1..Slots :
                            /\ UpTo(server'[j].cache, d, sent[d])
                            /\ Ordered(server'[j].cache, d)
                            /\ <<d, j>> \in live => Before(got'[d], server'[j].cache, d)
    BY <1>0 DEF Order
  <2>1. /\ UpTo(got[d], d, sent[d]) /\ Ordered(got[d], d)
        /\ \A j \in 1..Slots :
              /\ UpTo(server[j].cache, d, sent[d]) /\ Ordered(server[j].cache, d)
              /\ <<d, j>> \in live => Before(got[d], server[j].cache, d)
    BY <1>0 DEF Order
  <2>2. UpTo(q, d, sent[d]) /\ Ordered(q, d) /\ (<<d, i>> \in live => Before(got[d], q, d))
    BY <1>1, <2>1 DEF q
  <2>3. /\ Ordered(Tail(q), d) /\ UpTo(Tail(q), d, sent[d])
        /\ Head(q).to = d => Head(q).n <= sent[d]
        /\ \A k \in 1..Len(Tail(q)) :
              Head(q).to = d /\ Tail(q)[k].to = d => Head(q).n < Tail(q)[k].n
    BY <1>0, <1>2, <1>4, <2>2, TakeOrder
  <2>4. <<d, i>> \in live =>
           /\ Before(got[d], Tail(q), d)
           /\ \A j \in 1..Len(got[d]) : got[d][j].to = d /\ Head(q).to = d
                                           => got[d][j].n < Head(q).n
    BY <1>0, <1>2, <1>4, <2>2, TakeBefore
  <2>5. \A j \in 1..Slots : UpTo(server'[j].cache, d, sent[d]) /\ Ordered(server'[j].cache, d)
    BY <1>3, <1>5, <2>1, <2>3
  <2>6. CASE d # c
    <3>1. got'[d] = got[d]
      BY <1>3, <2>6
    <3>2. \A j \in 1..Slots : <<d, j>> \in live => Before(got[d], server'[j].cache, d)
      BY <1>3, <1>5, <2>1, <2>4
    <3> QED BY <2>1, <2>5, <3>1, <3>2
  <2>7. CASE d = c
    <3>1. UpTo(Append(got[d], Head(q)), d, sent[d])
      BY <1>2, <1>4, <2>1, <2>3, AppendUpTo
    <3>2. Ordered(Append(got[d], Head(q)), d)
      BY <1>1, <1>2, <1>4, <2>1, <2>4, <2>7, AppendOrder
    <3>3. Before(Append(got[d], Head(q)), Tail(q), d)
      BY <1>1, <1>2, <1>4, <2>3, <2>4, <2>7, AppendBefore
    <3>4. \A j \in 1..Slots : <<d, j>> \in live => j = i
      BY <1>0, <1>1, <2>7 DEF Homes
    <3> QED BY <1>3, <1>5, <2>5, <2>7, <3>1, <3>2, <3>3, <3>4
  <2> QED BY <2>6, <2>7
<1> QED BY <1>6, <1>7, <1>8, <1>9 DEF IInv

-----------------------------------------------------------------------------
(* Theorems                                                                *)

\* The invariant holds in every reachable state.
THEOREM MessageInvariance == Spec => []IInv
<1>1. Init => IInv
  <2> SUFFICES ASSUME Init
               PROVE  IInv
    OBVIOUS
  <2>1. TypeOK
    <3>1. [component |-> None, index |-> FALSE, ready |-> FALSE, cache |-> <<>>] \in Server_Session
      BY DEF Server_Session
    <3>2. /\ server \in [1..Slots -> Server_Session]
          /\ \A i \in 1..Slots : server[i].cache = <<>>
      BY <3>1 DEF Init
    <3>3. \A i \in 1..Slots : Len(server[i].cache) <= CacheSize
      BY <3>2, SizesAssumption
    <3>4. /\ sent \in [Clients -> 0..MaxMessages] /\ got \in [Clients -> Seq(Messages)]
          /\ live \subseteq Clients \X (1..Slots)
      BY SizesAssumption DEF Init
    <3>5. /\ client \in [Clients -> {"new", "created", "open", "closing", "closed", "denied"}]
          /\ root \in BOOLEAN /\ sigh \in [Clients -> BOOLEAN]
          /\ signal \in [Clients -> BOOLEAN] /\ handling \in [Clients -> BOOLEAN]
      BY DEF Init
    <3> QED BY <3>2, <3>3, <3>4, <3>5 DEF TypeOK
  <2>2. Homes
    BY DEF Init, Homes, Served, Initialized
  <2>3. Started
    BY DEF Init, Started
  <2>4. Order
    BY DEF Init, Order, UpTo, Ordered, Before
  <2> QED BY <2>1, <2>2, <2>3, <2>4 DEF IInv
<1>2. IInv /\ [Next]_vars => IInv'
  <2> SUFFICES ASSUME IInv, [Next]_vars
               PROVE  IInv'
    OBVIOUS
  <2>1. ASSUME NEW c \in Clients, create_session(c)
        PROVE  IInv'
    BY <2>1, CreateStep
  <2>2. ASSUME \/ register_service
               \/ \E c \in Clients : \/ Message_Connection(c) \/ Finalize(c)
                                     \/ event(c) \/ Event_Return(c)
        PROVE  IInv'
    BY <2>2, ClientStep
  <2>3. ASSUME NEW c \in Clients, destroy_session(c)
        PROVE  IInv'
    BY <2>3, DestroyStep
  <2>4. ASSUME NEW c \in Clients, write(c)
        PROVE  IInv'
    <3>1. /\ Of(c) \in 1..Slots /\ <<c, Of(c)>> \in live /\ Ready(server[Of(c)])
      BY <2>4, OfHome DEF IInv, write
    <3>2. /\ sent[c] < MaxMessages /\ Send(Of(c), Next_Message(c))
          /\ sent' = [sent EXCEPT ![c] = @ + 1]
          /\ UNCHANGED <<root, live, client, sigh, handling, got>>
      BY <2>4, <3>1 DEF write
    <3> QED BY <3>1, <3>2, SendStep
  <2>5. ASSUME NEW i \in 1..Slots, Send_Event(i)
        PROVE  IInv'
    <3> DEFINE c == server[i].component
    <3>1. <<c, i>> \in live /\ c \in Clients
      BY <2>5 DEF Send_Event, IInv, Homes, TypeOK
    <3>2. /\ sent[c] < MaxMessages /\ Send(i, Next_Message(c))
          /\ sent' = [sent EXCEPT ![c] = @ + 1]
          /\ UNCHANGED <<root, live, client, sigh, handling, got>>
      BY <2>5 DEF Send_Event
    <3> HIDE DEF c
    <3> QED BY <3>1, <3>2, SendStep
  <2>6. ASSUME NEW c \in Clients, read(c)
        PROVE  IInv'
    BY <2>6, ReadStep
  <2>7. CASE UNCHANGED vars
    BY <2>7 DEF vars, IInv, TypeOK, Homes, Served, Initialized, Ready, Started, Order
  <2> QED BY <2>1, <2>2, <2>3, <2>4, <2>5, <2>6, <2>7 DEF Next
<1> QED BY <1>1, <1>2, PTL DEF Spec

\* Every variable keeps its type, and a cache never holds more than it has
\* room for (Send).
THEOREM MessageTypeCorrect == Spec => []TypeOK
<1>1. IInv => TypeOK
  BY DEF IInv
<1> QED BY <1>1, MessageInvariance, PTL

\* A client with a session has one session variable of the server, nobody
\* else's, whatever the order of opening and closing and whichever attempts
\* to initialize fail (Dispatch, Session_Cleanup).
THEOREM OwnSession == Spec => []EachItsOwn
<1>1. IInv => EachItsOwn
  <2> SUFFICES ASSUME IInv, NEW c \in Clients
               PROVE  Cardinality({i \in 1..Slots : <<c, i>> \in live}) =
                         IF client[c] \in {"created", "open", "closing"} THEN 1 ELSE 0
    BY DEF IInv, Homes, EachItsOwn
  <2>1. CASE client[c] \in {"created", "open", "closing"}
    <3>1. PICK i \in 1..Slots : <<c, i>> \in live
      BY <2>1 DEF IInv, Homes, Served
    <3>2. {j \in 1..Slots : <<c, j>> \in live} = {i}
      BY <3>1 DEF IInv, Homes
    <3> QED BY <2>1, <3>2, FS_Singleton
  <2>2. CASE client[c] \notin {"created", "open", "closing"}
    <3>1. {j \in 1..Slots : <<c, j>> \in live} = {}
      BY <2>2 DEF IInv, Homes, Served
    <3> QED BY <2>2, <3>1, FS_EmptySet
  <2> QED BY <2>1, <2>2
<1> QED BY <1>1, MessageInvariance, PTL

\* Messages to a client are read in the order of sending and once, also by a
\* client whose session variable was another's before (Send, Get).
THEOREM ReadingOrder == Spec => []ReadInOrder
<1>1. IInv => ReadInOrder
  <2> SUFFICES ASSUME IInv, NEW c \in Clients
               PROVE  Ordered(got[c] \o (IF Served(c) THEN server[Of(c)].cache ELSE <<>>), c)
    BY DEF ReadInOrder, Ordered
  <2>1. got[c] \in Seq(Messages) /\ Ordered(got[c], c)
    BY DEF IInv, TypeOK, Order
  <2>2. CASE Served(c)
    <3>1. Of(c) \in 1..Slots /\ <<c, Of(c)>> \in live
      BY <2>2, OfHome DEF IInv, Homes
    <3>2. server[Of(c)] \in Server_Session
      BY <3>1 DEF IInv, TypeOK
    <3>3. /\ server[Of(c)].cache \in Seq(Messages)
          /\ Ordered(server[Of(c)].cache, c) /\ Before(got[c], server[Of(c)].cache, c)
      BY <3>1, <3>2 DEF IInv, Order, Server_Session
    <3>4. Ordered(got[c] \o server[Of(c)].cache, c)
      BY <2>1, <3>3, ConcatOrder
    <3> QED BY <2>2, <3>4
  <2>3. CASE ~Served(c)
    <3>1. got[c] \o <<>> = got[c]
      BY <2>1
    <3> QED BY <2>1, <2>3, <3>1
  <2> QED BY <2>2, <2>3
<1> QED BY <1>1, MessageInvariance, PTL
-----------------------------------------------------------------------------
(* The parts together                                                      *)

\* Every step of the parts is one of each of them, or leaves it.
LEMMA PartsStep ==
    ASSUME [PartsNext]_all
    PROVE  [Next]_vars /\ [Log!Next]_log /\ [Memory!Next]_memory /\ [Main!Next]_main
BY DEF PartsNext, all

\* A behaviour of the parts is one of the Message sessions.
LEMMA PartsMessage == PartsSpec => Spec
<1>1. PartsInit => Init
  BY DEF PartsInit
<1>2. [PartsNext]_all => [Next]_vars
  BY PartsStep
<1> QED BY <1>1, <1>2, PTL DEF PartsSpec, Spec

\* The instances count alike.
LEMMA CountAlike ==
    ASSUME NEW S
    PROVE  Log!Cardinality(S) = Cardinality(S) /\ Memory!Cardinality(S) = Cardinality(S)
BY Zenon DEF Cardinality, Log!Cardinality, Memory!Cardinality

-----------------------------------------------------------------------------
(* The life of a component                                                 *)

\* The Rom session is there as a whole or not at all, and so is its object;
\* the exit signal follows Vacate; nothing is destructed or reported before
\* the component was constructed, nor reported without Destruct.
MainInv ==
    /\ Main!TypeOK
    /\ rom.index = rom.ptr /\ rom.read = rom.ptr
    /\ phase = "new" => rom.ptr = FALSE /\ destructs = 0
    /\ destructs = 0 => reported = Main!None
    /\ capability.exit => capability.status \in vacated
    /\ Main!LastStatusReported

LEMMA MainInit ==
    ASSUME Main!Init
    PROVE  MainInv
<1>1. /\ capability.status = "running" /\ capability.exit = FALSE
      /\ capability \in Main!Capability
  BY DEF Main!Init, Main!Capability, Main!Statuses
<1>2. rom \in Main!Rom_Client /\ rom.index = FALSE /\ rom.ptr = FALSE /\ rom.read = FALSE
  BY DEF Main!Init, Main!Rom_Client, Main!Null
<1>3. Main!TypeOK
  BY <1>1, <1>2 DEF Main!Init, Main!TypeOK, Main!MaxDestructs
<1>4. destructs = 0 /\ reported = Main!None
  BY DEF Main!Init
<1>5. Main!LastStatusReported
  BY <1>1, <1>4 DEF Main!LastStatusReported
<1>6. rom.index = rom.ptr /\ rom.read = rom.ptr
  BY <1>2
<1>7. rom.ptr = FALSE /\ capability.exit = FALSE
  BY <1>1, <1>2
<1> QED BY <1>3, <1>4, <1>5, <1>6, <1>7 DEF MainInv

LEMMA MainTypes ==
    ASSUME MainInv
    PROVE  /\ capability \in Main!Capability /\ rom \in Main!Rom_Client
           /\ capability.status \in Main!Statuses /\ capability.exit \in BOOLEAN
           /\ rom.index \in BOOLEAN /\ rom.ptr \in BOOLEAN /\ rom.read \in BOOLEAN
           /\ pending \subseteq Events /\ vacated \subseteq Main!Statuses
           /\ phase \in {"new", "loop", "gone"} /\ reported \in Main!Statuses \cup {Main!None}
           /\ destructs \in 0..2 /\ heap = (IF rom.ptr THEN 1 ELSE 0)
BY DEF MainInv, Main!TypeOK, Main!Capability, Main!Rom_Client, Main!MaxDestructs

LEMMA MainVacate ==
    ASSUME MainInv, NEW st \in Main!Statuses, Main!vacate(st)
    PROVE  /\ capability' \in Main!Capability /\ capability'.exit = TRUE /\ capability'.status = st
           /\ st \in vacated' /\ vacated' \subseteq Main!Statuses /\ vacated \subseteq vacated'
<1>1. capability' = [status |-> st, exit |-> TRUE] /\ vacated' = vacated \cup {st}
  BY DEF Main!vacate
<1> QED BY <1>1, MainTypes DEF Main!Capability

LEMMA MainConstruct ==
    ASSUME MainInv, Main!Construct
    PROVE  MainInv'
<1>0. /\ phase = "new" /\ phase' = "loop" /\ UNCHANGED <<pending, destructs, reported>>
      /\ destructs = 0 /\ reported = Main!None /\ rom.ptr = FALSE
  BY DEF MainInv, Main!Construct
<1>1. PICK created \in BOOLEAN :
          /\ Main!initialize(created)
          /\ \/ Main!vacate(IF created THEN "success" ELSE "error")
             \/ created /\ UNCHANGED <<capability, vacated>>
  BY DEF Main!Construct
<1>2. heap = 0
  BY <1>0, MainTypes
<1>3. /\ rom' \in Main!Rom_Client /\ rom'.index = created /\ rom'.ptr = created /\ rom'.read = created
  <2>1. CASE created
    <3>1. rom' = [index |-> TRUE, ptr |-> TRUE, read |-> TRUE] /\ created = TRUE
      BY <1>1, <2>1 DEF Main!initialize
    <3> QED BY <3>1 DEF Main!Rom_Client
  <2>2. CASE ~created
    <3>1. rom' = [index |-> FALSE, ptr |-> FALSE, read |-> FALSE] /\ created = FALSE
      BY <1>1, <2>2 DEF Main!initialize, Main!Null
    <3> QED BY <3>1 DEF Main!Rom_Client
  <2> QED BY <2>1, <2>2
<1>4. heap' = IF created THEN 1 ELSE 0
  BY <1>1, <1>2 DEF Main!initialize
<1>5. /\ capability' \in Main!Capability /\ vacated' \subseteq Main!Statuses
      /\ capability'.exit => capability'.status \in vacated'
      /\ capability'.status # "running" => capability'.exit
  <2>1. CASE UNCHANGED <<capability, vacated>>
    <3>1. /\ capability.exit => capability.status \in vacated
          /\ capability.status # "running" => capability.exit
      BY <1>0, MainTypes DEF MainInv, Main!LastStatusReported, Main!Statuses, Main!None
    <3> QED BY <2>1, <3>1, MainTypes
  <2>2. ASSUME NEW st \in Main!Statuses, Main!vacate(st)
        PROVE  /\ capability' \in Main!Capability /\ vacated' \subseteq Main!Statuses
               /\ capability'.exit => capability'.status \in vacated'
               /\ capability'.status # "running" => capability'.exit
    BY <2>2, MainVacate
  <2>3. (IF created THEN "success" ELSE "error") \in Main!Statuses
    BY DEF Main!Statuses
  <2> QED BY <1>1, <2>1, <2>2, <2>3
<1>6. Main!TypeOK'
  <2>1. heap' = IF rom'.ptr THEN 1 ELSE 0
    BY <1>3, <1>4
  <2> QED BY <1>0, <1>3, <1>5, <2>1, MainTypes DEF Main!TypeOK, Main!MaxDestructs
<1>7. Main!LastStatusReported'
  BY <1>0, <1>5 DEF Main!LastStatusReported
<1> QED BY <1>0, <1>3, <1>5, <1>6, <1>7 DEF MainInv

LEMMA MainHandle ==
    ASSUME MainInv, NEW e \in Events, Main!Submit(e) \/ Main!Handle(e)
    PROVE  MainInv'
<1>0. /\ phase = "loop" /\ UNCHANGED <<phase, rom, heap, destructs, reported>>
      /\ pending' \subseteq Events
  BY MainTypes DEF MainInv, Main!Submit, Main!Handle
<1>1. /\ capability' \in Main!Capability /\ vacated' \subseteq Main!Statuses
      /\ capability'.exit => capability'.status \in vacated'
      /\ vacated \subseteq vacated'
      /\ capability'.exit \/ UNCHANGED capability
  <2>1. CASE UNCHANGED <<capability, vacated>>
    <3>1. capability.exit => capability.status \in vacated
      BY DEF MainInv
    <3> QED BY <2>1, <3>1, MainTypes
  <2>2. ASSUME NEW st \in Main!Statuses, Main!vacate(st)
        PROVE  /\ capability' \in Main!Capability /\ vacated' \subseteq Main!Statuses
               /\ capability'.exit => capability'.status \in vacated'
               /\ vacated \subseteq vacated' /\ capability'.exit
    BY <2>2, MainVacate
  <2>3. (IF Main!Initialized THEN "success" ELSE "error") \in Main!Statuses
    BY DEF Main!Statuses
  <2>4. UNCHANGED <<capability, vacated>> \/ Main!vacate(IF Main!Initialized THEN "success" ELSE "error")
    BY DEF Main!Submit, Main!Handle
  <2> QED BY <2>1, <2>2, <2>3, <2>4
<1>2. Main!TypeOK'
  BY <1>0, <1>1, MainTypes DEF Main!TypeOK, Main!MaxDestructs
<1>3. Main!LastStatusReported'
  BY <1>0, <1>1 DEF MainInv, Main!LastStatusReported
<1> QED BY <1>0, <1>1, <1>2, <1>3 DEF MainInv

\* The handler of the exit signal, with a Destruct that vacates or does not.
LEMMA MainExit ==
    ASSUME MainInv, Main!exit_handler
    PROVE  MainInv'
<1>0. /\ phase = "loop" /\ UNCHANGED <<phase, pending>> /\ capability.exit
      /\ destructs < 2 /\ destructs' = destructs + 1 /\ reported' = capability'.status
  BY DEF Main!exit_handler, Main!MaxDestructs
<1>1. capability.status \in vacated
  BY <1>0 DEF MainInv
<1>2. /\ rom' = Main!Null /\ heap' = 0
  <2>1. rom.index = rom.ptr /\ rom.read = rom.ptr /\ rom \in Main!Rom_Client
        /\ heap = IF rom.ptr THEN 1 ELSE 0
    BY MainTypes DEF MainInv
  <2>2. CASE rom.ptr
    <3>1. Main!Initialized
      BY <2>1, <2>2, MainTypes DEF Main!Initialized
    <3> QED BY <2>1, <2>2, <3>1 DEF Main!exit_handler, Main!destruct, Main!Finalize, Main!finalize
  <2>3. CASE ~rom.ptr
    <3>1. UNCHANGED <<rom, heap>>
      BY <2>1, <2>3 DEF Main!exit_handler, Main!destruct, Main!Finalize, Main!Initialized
    <3>2. rom = [index |-> FALSE, ptr |-> FALSE, read |-> FALSE]
      BY <2>1, <2>3, MainTypes DEF Main!Rom_Client
    <3> QED BY <2>1, <2>3, <3>1, <3>2 DEF Main!Null
  <2> QED BY <2>2, <2>3
<1>3. /\ capability' \in Main!Capability /\ vacated' \subseteq Main!Statuses
      /\ capability'.status \in vacated'
  <2>1. CASE Main!vacate("error")
    <3>1. "error" \in Main!Statuses
      BY DEF Main!Statuses
    <3> QED BY <2>1, <3>1, MainVacate
  <2>2. CASE capability' = [capability EXCEPT !.exit = FALSE] /\ UNCHANGED vacated
    BY <1>1, <2>2, MainTypes DEF Main!Capability
  <2> QED BY <2>1, <2>2 DEF Main!exit_handler, Main!destruct
<1>4. rom' \in Main!Rom_Client /\ rom'.index = FALSE /\ rom'.ptr = FALSE /\ rom'.read = FALSE
  BY <1>2 DEF Main!Null, Main!Rom_Client
<1>5. destructs' \in 0..2 /\ destructs' > 0
  BY <1>0, MainTypes
<1>6. reported' \in Main!Statuses /\ reported' # Main!None
  BY <1>0, <1>3 DEF Main!Statuses, Main!None
<1>7. Main!TypeOK'
  BY <1>0, <1>2, <1>3, <1>4, <1>5, <1>6, MainTypes DEF Main!TypeOK, Main!MaxDestructs
<1>8. Main!LastStatusReported'
  BY <1>0, <1>2, <1>3, <1>5, <1>6 DEF Main!LastStatusReported
<1>9. (rom.index = rom.ptr /\ rom.read = rom.ptr)'
  BY <1>4
<1>10. phase' # "new" /\ destructs' # 0
  BY <1>0, <1>5
<1> QED BY <1>3, <1>7, <1>8, <1>9, <1>10 DEF MainInv

LEMMA MainStep ==
    ASSUME MainInv, [Main!Next]_main
    PROVE  MainInv'
<1>1. CASE UNCHANGED main
  <2>1. UNCHANGED <<phase, capability, pending, rom, heap, vacated, destructs, reported>>
    BY <1>1 DEF main
  <2> QED BY <2>1 DEF MainInv, Main!TypeOK, Main!LastStatusReported
<1>2. CASE Main!Destroy
  <2>1. /\ phase' = "gone"
        /\ UNCHANGED <<capability, pending, rom, heap, vacated, destructs, reported>>
    BY <1>2 DEF Main!Destroy
  <2> QED BY <2>1 DEF MainInv, Main!TypeOK, Main!LastStatusReported
<1>3. ASSUME NEW e \in Events, Main!Submit(e) \/ Main!Handle(e)
      PROVE  MainInv'
  BY <1>3, MainHandle
<1> QED BY <1>1, <1>2, <1>3, MainConstruct, MainExit DEF Main!Next

LEMMA MainInvariance == PartsSpec => []MainInv
<1>1. PartsInit => MainInv
  BY MainInit DEF PartsInit
<1>2. MainInv /\ [PartsNext]_all => MainInv'
  BY MainStep, PartsStep
<1> QED BY <1>1, <1>2, PTL DEF PartsSpec

\* However often and in which handlers a component vacates, and although it is
\* still called after Destruct, the parent was told the status of the last
\* Vacate or the exit signal is pending, and after Destruct the component has
\* no session and no object of the factory (vacate, exit_handler).
THEOREM StatusReported == PartsSpec => []LastStatusReported
<1>1. MainInv => LastStatusReported
  BY DEF MainInv, LastStatusReported
<1> QED BY <1>1, MainInvariance, PTL
-----------------------------------------------------------------------------
(* The session variables of a Log server                                   *)

\* A client has a session exactly if it has a session variable, which is
\* Ready and its only one; the other variables are as they were at first.
LogHomes ==
    /\ logRoot \in BOOLEAN /\ logAlive \in BOOLEAN
    /\ logServer \in [1..LogSlots -> Log!Server_Session]
    /\ logState \in [LogClients -> {"new", "open", "closed", "denied"}]
    /\ \A i \in 1..LogSlots : \/ logServer[i] = Log!Unused
                              \/ Log!Initialized(logServer[i]) /\ Log!Ready(logServer[i])
    /\ \A c \in LogClients :
          logState[c] = "open" <=> \E i \in 1..LogSlots : logServer[i].component = c
    /\ \A c \in LogClients : \A i, j \in 1..LogSlots :
          logServer[i].component = c /\ logServer[j].component = c => i = j

LEMMA LogSizes ==
    /\ LogClients \subseteq Nat \ {0} /\ LogSlots \in Nat \ {0} /\ BufferSize \in Nat \ {0}
    /\ SliceSize \in Nat \ {0} /\ MaxChars \in Nat /\ \A c \in LogClients : c # Log!None
BY PartsAssumption DEF Log!SizesAssumption, Log!None

LEMMA LogUnused ==
    /\ Log!Unused \in Log!Server_Session /\ Log!Unused.component = Log!None
    /\ ~Log!Initialized(Log!Unused) /\ ~Log!Ready(Log!Unused)
BY DEF Log!Unused, Log!Server_Session, Log!Initialized, Log!Ready, Log!None

LEMMA LogHomesInit ==
    ASSUME Log!Init
    PROVE  LogHomes
<1>1. \A i \in 1..LogSlots : logServer[i] = Log!Unused
  BY DEF Log!Init
<1>2. \A i \in 1..LogSlots : \A c \in LogClients : logServer[i].component # c
  BY <1>1, LogUnused, LogSizes
<1>3. \A c \in LogClients : logState[c] = "new"
  BY DEF Log!Init
<1>4. /\ logServer \in [1..LogSlots -> Log!Server_Session]
      /\ logState \in [LogClients -> {"new", "open", "closed", "denied"}]
      /\ logRoot \in BOOLEAN /\ logAlive \in BOOLEAN
  BY LogUnused DEF Log!Init
<1> QED BY <1>1, <1>2, <1>3, <1>4 DEF LogHomes

\* What becomes of an unused session variable that is offered to c.
LEMMA LogSessionInitialize ==
    ASSUME NEW c \in LogClients, NEW o \in Log!Outcomes, NEW s, s = Log!Session_Initialize(c, Log!Unused, o)
    PROVE  /\ o = "ready" => /\ s \in Log!Server_Session /\ s.component = c
                             /\ Log!Initialized(s) /\ Log!Ready(s)
           /\ o # "ready" => s = Log!Unused
<1> USE LogSizes
<1>1. CASE o = "none"
  BY <1>1 DEF Log!Session_Initialize, Log!initialize, Log!Unused, Log!Ready, Log!cleanup
<1>2. CASE o = "refused"
  BY <1>2 DEF Log!Session_Initialize, Log!initialize, Log!Unused, Log!Ready, Log!cleanup
<1>3. CASE o = "ready"
  BY <1>3 DEF Log!Session_Initialize, Log!initialize, Log!Unused, Log!Ready, Log!Initialized,
              Log!Server_Session
<1> QED BY <1>1, <1>2, <1>3 DEF Log!Outcomes

LEMMA LogCreate ==
    ASSUME LogHomes, NEW c \in LogClients, Log!create_session(c)
    PROVE  LogHomes'
<1> USE LogSizes
<1>0. logState[c] = "new" /\ logRoot' \in BOOLEAN
  BY DEF LogHomes, Log!create_session
<1>1. CASE logState' = [logState EXCEPT ![c] = "denied"] /\ UNCHANGED <<logServer, logAlive>>
  <2>1. /\ logState' \in [LogClients -> {"new", "open", "closed", "denied"}]
        /\ \A d \in LogClients : logState'[d] = "open" <=> logState[d] = "open"
    BY <1>0, <1>1 DEF LogHomes
  <2> QED BY <1>0, <1>1, <2>1 DEF LogHomes
<1>2. ASSUME NEW o \in [1..LogSlots -> Log!Outcomes], Log!Dispatch(c, o)
      PROVE  LogHomes'
  <2> DEFINE tried == {i \in Log!Free : \A j \in Log!Free : j < i => o[j] # "ready"}
  <2> DEFINE ok == {i \in tried : o[i] = "ready"}
  <2>1. CASE logAlive' = FALSE /\ UNCHANGED <<logServer, logState>>
    BY <1>0, <2>1 DEF LogHomes
  <2>2. CASE /\ logAlive' = TRUE
             /\ logServer' = [i \in 1..LogSlots |-> IF i \in tried
                   THEN Log!Session_Initialize(c, logServer[i], o[i]) ELSE logServer[i]]
             /\ logState' = [logState EXCEPT ![c] =
                   IF \E i \in tried : o[i] = "ready" THEN "open" ELSE "denied"]
    <3>1. \A i \in tried : i \in 1..LogSlots /\ logServer[i] = Log!Unused
      BY DEF LogHomes, Log!Free
    <3>2. ASSUME NEW i \in 1..LogSlots
          PROVE  /\ i \in ok => /\ logServer'[i] \in Log!Server_Session /\ logServer'[i].component = c
                                /\ Log!Initialized(logServer'[i]) /\ Log!Ready(logServer'[i])
                 /\ i \notin ok => logServer'[i] = logServer[i]
      <4>1. CASE i \in tried
        <5>1. logServer'[i] = Log!Session_Initialize(c, Log!Unused, o[i]) /\ o[i] \in Log!Outcomes
          BY <2>2, <3>1, <4>1
        <5> QED BY <3>1, <4>1, <5>1, LogSessionInitialize
      <4>2. CASE i \notin tried
        BY <2>2, <3>2, <4>2
      <4> QED BY <4>1, <4>2
    <3>3. \A i, j \in ok : i = j
      BY <3>1
    <3>4. /\ \A d \in LogClients : d # c => logState'[d] = logState[d]
          /\ logState'[c] = IF ok # {} THEN "open" ELSE "denied"
          /\ logState' \in [LogClients -> {"new", "open", "closed", "denied"}]
      BY <2>2 DEF LogHomes
    <3>5. \A i \in ok : i \in 1..LogSlots /\ logServer[i].component = Log!None
      BY <3>1, LogUnused
    <3>7. DOMAIN logServer' = 1..LogSlots /\ logServer' = [i \in 1..LogSlots |-> logServer'[i]]
      BY <2>2
    <3> HIDE DEF ok, tried
    <3>8. logServer' \in [1..LogSlots -> Log!Server_Session]
      BY <3>2, <3>7 DEF LogHomes
    <3>9. \A i \in 1..LogSlots : logServer[i].component # c
      BY <1>0 DEF LogHomes
    <3>10. \A d \in LogClients : \A i \in 1..LogSlots :
              logServer'[i].component = d <=> IF d = c THEN i \in ok ELSE logServer[i].component = d
      BY <3>2, <3>5, <3>9
    <3>11. \A i \in 1..LogSlots : \/ logServer'[i] = Log!Unused
                                  \/ Log!Initialized(logServer'[i]) /\ Log!Ready(logServer'[i])
      BY <3>2 DEF LogHomes
    <3>12. \A d \in LogClients :
              logState'[d] = "open" <=> \E i \in 1..LogSlots : logServer'[i].component = d
      BY <3>4, <3>5, <3>10 DEF LogHomes
    <3>13. \A d \in LogClients : \A i, j \in 1..LogSlots :
              logServer'[i].component = d /\ logServer'[j].component = d => i = j
      BY <3>3, <3>10 DEF LogHomes
    <3> QED BY <1>0, <2>2, <3>4, <3>8, <3>11, <3>12, <3>13 DEF LogHomes
  <2> QED BY <1>2, <2>1, <2>2 DEF Log!Dispatch
<1> QED BY <1>1, <1>2 DEF Log!create_session

LEMMA LogDestroy ==
    ASSUME LogHomes, NEW c \in LogClients, Log!destroy_session(c)
    PROVE  LogHomes'
<1> USE LogSizes
<1>1. /\ logState' = [logState EXCEPT ![c] = "closed"] /\ UNCHANGED <<logRoot, logAlive>>
      /\ logServer' = [i \in 1..LogSlots |-> Log!Session_Cleanup(c, logServer[i])]
  BY DEF Log!destroy_session
<1>2. \A i \in 1..LogSlots :
         logServer'[i] = IF logServer[i].component = c THEN Log!Unused ELSE logServer[i]
  BY <1>1 DEF Log!Session_Cleanup, Log!Initialized, Log!cleanup
<1>3. \A d \in LogClients : \A i \in 1..LogSlots :
         logServer'[i].component = d <=> d # c /\ logServer[i].component = d
  BY <1>2, LogUnused
<1>4. /\ logState' \in [LogClients -> {"new", "open", "closed", "denied"}]
      /\ \A d \in LogClients : logState'[d] = IF d = c THEN "closed" ELSE logState[d]
  BY <1>1 DEF LogHomes
<1>5. logServer' \in [1..LogSlots -> Log!Server_Session]
  <2>1. logServer' = [i \in 1..LogSlots |-> logServer'[i]]
    BY <1>1
  <2> QED BY <1>2, <2>1, LogUnused DEF LogHomes
<1>6. \A i \in 1..LogSlots : \/ logServer'[i] = Log!Unused
                             \/ Log!Initialized(logServer'[i]) /\ Log!Ready(logServer'[i])
  BY <1>2 DEF LogHomes
<1> QED BY <1>1, <1>3, <1>4, <1>5, <1>6 DEF LogHomes

LEMMA LogHomesStep ==
    ASSUME LogHomes, [Log!Next]_log
    PROVE  LogHomes'
<1>1. CASE UNCHANGED <<logRoot, logAlive, logServer, logState>>
  BY <1>1 DEF LogHomes
<1>2. CASE Log!register_service
  BY <1>2 DEF Log!register_service, LogHomes
<1>3. UNCHANGED log => UNCHANGED <<logRoot, logAlive, logServer, logState>>
  BY DEF log
<1>4. ASSUME NEW c \in LogClients, NEW k \in 0..MaxChars, NEW newline \in BOOLEAN,
             Log!Call(c, k, newline)
      PROVE  UNCHANGED <<logRoot, logAlive, logServer, logState>>
  BY <1>4 DEF Log!Call, Log!serving
<1>5. ASSUME NEW c \in LogClients, Log!write(c)
      PROVE  UNCHANGED <<logRoot, logAlive, logServer, logState>>
  BY <1>5 DEF Log!write, Log!serving
<1> QED BY <1>1, <1>2, <1>3, <1>4, <1>5, LogCreate, LogDestroy DEF Log!Next

LEMMA LogHomesInvariance == PartsSpec => []LogHomes
<1>1. PartsInit => LogHomes
  BY LogHomesInit DEF PartsInit
<1>2. LogHomes /\ [PartsNext]_all => LogHomes'
  BY LogHomesStep, PartsStep
<1> QED BY <1>1, <1>2, PTL DEF PartsSpec

\* Of the session variables a client has one, if any.
LEMMA LogOwn ==
    ASSUME LogHomes
    PROVE  Log!EachItsOwn
<1> USE LogSizes
<1>1. ASSUME NEW c \in LogClients
      PROVE  Log!Cardinality({i \in 1..LogSlots : logServer[i].component = c /\ Log!Ready(logServer[i])})
                = IF logState[c] = "open" THEN 1 ELSE 0
  <2> DEFINE own == {i \in 1..LogSlots : logServer[i].component = c /\ Log!Ready(logServer[i])}
  <2>1. \A i \in 1..LogSlots : i \in own <=> logServer[i].component = c
    BY <1>1, LogUnused DEF LogHomes
  <2>2. CASE logState[c] = "open"
    <3>1. PICK i \in 1..LogSlots : logServer[i].component = c
      BY <2>2, <1>1 DEF LogHomes
    <3>2. \A z : z \in own <=> z = i
      BY <1>1, <2>1, <3>1 DEF LogHomes
    <3> HIDE DEF own
    <3>3. own = {i}
      BY Zenon, <3>2
    <3>4. Log!Cardinality(own) = 1
      BY <3>3, FS_Singleton, CountAlike
    <3> QED BY <2>2, <3>4 DEF own
  <2>3. CASE logState[c] # "open"
    <3>1. \A z : z \notin own
      BY <1>1, <2>1, <2>3 DEF LogHomes
    <3> HIDE DEF own
    <3>2. own = {}
      BY Zenon, <3>1
    <3>3. Log!Cardinality(own) = 0
      BY <3>2, FS_EmptySet, CountAlike
    <3> QED BY <2>3, <3>3 DEF own
  <2> QED BY <2>2, <2>3
<1>2. \A i \in 1..LogSlots : Log!Initialized(logServer[i]) \/ logServer[i] = Log!Unused
  BY DEF LogHomes
<1> QED BY <1>1, <1>2 DEF Log!EachItsOwn
-----------------------------------------------------------------------------
(* The session variables of a Memory server                                *)

\* A client's states while it has a dataspace.
Held == {"created", "open", "closing"}

\* A client has a dataspace exactly from its creation to its cleanup, in one
\* session variable, which is Ready, with the size it asked for; the greeting
\* is in it until it is closed.  A variable with a component and without memory
\* is Ready, and so not free; its client asked for nothing and was denied.
MemoryHomes ==
    /\ Memory!TypeOK
    /\ \A i \in 1..MemorySlots : memServer[i].component # Memory!None => Memory!Ready(memServer[i])
    /\ \A c \in MemoryClients : memClient[c] \in Held =>
          \E i \in 1..MemorySlots : memServer[i].component = c /\ memServer[i].addr = TRUE
    /\ \A c \in MemoryClients : \A i, j \in 1..MemorySlots :
          memClient[c] \in Held /\ memServer[i].component = c /\ memServer[j].component = c => i = j
    /\ \A c \in MemoryClients : \A i \in 1..MemorySlots : memServer[i].component = c =>
          /\ memServer[i].size = memSize[c]
          /\ memClient[c] \notin Held => memClient[c] = "denied" /\ memSize[c] = 0
    /\ \A c \in MemoryClients :
          memClient[c] \in {"created", "open"} /\ memSize[c] > 11 => c \in memGreeted

LEMMA MemorySizesFacts ==
    /\ MemoryClients \subseteq Nat \ {0} /\ MemorySlots \in Nat \ {0} /\ MemorySizes \subseteq Nat
    /\ \A c \in MemoryClients : c # Memory!None
BY PartsAssumption DEF Memory!SizesAssumption, Memory!None

LEMMA MemoryTypes ==
    ASSUME MemoryHomes, NEW i \in 1..MemorySlots
    PROVE  /\ memServer[i] \in Memory!Server_Session
           /\ memServer[i].addr = (memServer[i].component # Memory!None /\ memServer[i].size > 0)
           /\ ~(memServer[i].size > 0) => memServer[i].addr = FALSE
           /\ memServer[i].component \in MemoryClients \cup {Memory!None}
           /\ memServer[i].size \in MemorySizes \cup {0}
<1>1. /\ memServer[i] \in Memory!Server_Session
      /\ memServer[i].addr = (memServer[i].component # Memory!None /\ memServer[i].size > 0)
  BY DEF MemoryHomes, Memory!TypeOK
<1>2. ~(memServer[i].size > 0) => memServer[i].addr = FALSE
  BY Zenon, <1>1
<1> QED BY <1>1, <1>2 DEF Memory!Server_Session

LEMMA MemoryInit ==
    ASSUME Memory!Init
    PROVE  MemoryHomes
<1> USE MemorySizesFacts
<1>1. \A i \in 1..MemorySlots : memServer[i].component = Memory!None /\ memServer[i].addr = FALSE
  BY DEF Memory!Init
<1>2. memServer \in [1..MemorySlots -> Memory!Server_Session]
  BY DEF Memory!Init, Memory!Server_Session
<1>3. \A c \in MemoryClients : memClient[c] = "new"
  BY DEF Memory!Init
<1>4. Memory!TypeOK
  BY <1>1, <1>2 DEF Memory!Init, Memory!TypeOK
<1> QED BY <1>1, <1>3, <1>4 DEF MemoryHomes, Held

\* A step in which clients move on and nothing changes at the server.
LEMMA MemoryApart ==
    ASSUME MemoryHomes, memRoot' \in BOOLEAN, UNCHANGED <<memServer, memGreeted>>,
           memClient' \in [MemoryClients -> {"new", "created", "open", "closing", "closed", "denied"}],
           memSize' \in [MemoryClients -> MemorySizes \cup {0}],
           \A c \in MemoryClients : /\ memClient'[c] \in Held <=> memClient[c] \in Held
                                    /\ memClient[c] \in Held \cup {"denied"} => memSize'[c] = memSize[c]
                                    /\ memClient[c] = "denied" => memClient'[c] = "denied"
                                    /\ memClient'[c] \in {"created", "open"} =>
                                          memClient[c] \in {"created", "open"}
    PROVE  MemoryHomes'
<1>1. Memory!TypeOK'
  BY DEF MemoryHomes, Memory!TypeOK
<1>2. \A c \in MemoryClients : \A i \in 1..MemorySlots : memServer[i].component = c =>
         /\ memServer[i].size = memSize'[c]
         /\ memClient'[c] \notin Held => memClient'[c] = "denied" /\ memSize'[c] = 0
  BY DEF MemoryHomes
<1>3. \A c \in MemoryClients :
         memClient'[c] \in {"created", "open"} /\ memSize'[c] > 11 => c \in memGreeted
  BY DEF MemoryHomes, Held
<1> QED BY <1>1, <1>2, <1>3 DEF MemoryHomes

\* A session variable with c's dataspace, and one without any.
Taken(t, c, sz) ==
    /\ t.component = c /\ t.addr = TRUE /\ t.size = sz
    /\ Memory!Initialized(t) /\ Memory!Ready(t)
Spare(t) == t.component = Memory!None /\ t.addr = FALSE

\* One that is lost: it has c's component, of size 0 and without memory, and
\* its server is Ready.
Lost(t, c) == t.component = c /\ t.addr = FALSE /\ t.size = 0 /\ Memory!Ready(t)

\* What becomes of a free session variable that is offered to c.
LEMMA MemorySessionInitialize ==
    ASSUME NEW c \in MemoryClients, NEW sz \in MemorySizes, NEW o \in Memory!Outcomes,
           NEW s \in Memory!Server_Session, Spare(s),
           NEW t, t = Memory!Session_Initialize(c, s, sz, o)
    PROVE  /\ t \in Memory!Server_Session
           /\ Memory!Good(o, sz) => Taken(t, c, sz)
           /\ ~Memory!Good(o, sz) => Spare(t) \/ (sz = 0 /\ Lost(t, c))
<1> USE MemorySizesFacts
<1>1. o.created \in BOOLEAN /\ o.ready \in BOOLEAN /\ sz \in Nat
  BY DEF Memory!Outcomes
<1> DEFINE given == Memory!initialize(c, s, sz, o.created)
           ready == [given EXCEPT !.index = TRUE, !.ready = o.ready]
<1>2. t = IF Memory!Ready(ready) THEN ready ELSE [Memory!finalize(ready) EXCEPT !.index = FALSE]
  BY DEF Memory!Session_Initialize
<1>3. /\ given \in Memory!Server_Session
      /\ o.created => given.component = c /\ given.size = sz
      /\ o.created /\ sz > 0 => given.addr = TRUE
      /\ o.created /\ sz = 0 => given.addr = FALSE
      /\ ~o.created => given.component = Memory!None /\ given.addr = FALSE
  <2>1. CASE o.created
    <3>1. \E a \in BOOLEAN : a = (sz > 0)
      <4>1. CASE sz > 0
        <5>1. TRUE = (sz > 0)
          BY Zenon, <4>1
        <5> QED BY Zenon, <5>1
      <4>2. CASE ~(sz > 0)
        <5>1. FALSE = (sz > 0)
          BY <4>2
        <5> QED BY Zenon, <5>1
      <4> QED BY Zenon, <4>1, <4>2
    <3>a. PICK a \in BOOLEAN : a = (sz > 0)
      BY Zenon, <3>1
    <3>2. given = [s EXCEPT !.component = c, !.addr = a, !.size = sz]
      BY Zenon, <2>1, <3>a DEF Memory!initialize, Memory!Memory_Component
    <3>3. (sz > 0 => a = TRUE) /\ (~(sz > 0) => a = FALSE)
      BY Zenon, <3>a
    <3>4. given \in Memory!Server_Session /\ given.component = c /\ given.addr = a /\ given.size = sz
      BY <3>2 DEF Memory!Server_Session
    <3> HIDE DEF given
    <3> QED BY <1>1, <2>1, <3>3, <3>4
  <2>2. CASE ~o.created
    BY <2>2 DEF Memory!initialize, Memory!Server_Session, Spare
  <2> QED BY <2>1, <2>2
<1> HIDE DEF given
<1>4. /\ ready \in Memory!Server_Session /\ ready.component = given.component
      /\ ready.addr = given.addr /\ ready.size = given.size
      /\ ready.index = TRUE /\ ready.ready = o.ready
  BY <1>1, <1>3 DEF Memory!Server_Session
<1> HIDE DEF ready
<1>5. CASE o.ready
  <2>1. t = ready /\ Memory!Ready(t)
    BY <1>2, <1>4, <1>5 DEF Memory!Ready
  <2>2. CASE ~o.created
    BY <1>3, <1>4, <2>1, <2>2 DEF Memory!Good, Spare
  <2>3. CASE o.created /\ sz > 0
    <3>1. t.component = c /\ t.addr = TRUE /\ t.size = sz /\ t.index = TRUE
      BY <1>3, <1>4, <2>1, <2>3
    <3>2. Memory!Initialized(t)
      BY <3>1 DEF Memory!Initialized
    <3>3. Taken(t, c, sz)
      BY <2>1, <3>1, <3>2 DEF Taken
    <3> QED BY <1>4, <1>5, <2>1, <2>3, <3>3 DEF Memory!Good
  <2>4. CASE o.created /\ sz = 0
    <3>1. t.component = c /\ t.addr = FALSE /\ t.size = 0
      BY <1>3, <1>4, <2>1, <2>4
    <3> QED BY <1>4, <2>1, <2>4, <3>1 DEF Memory!Good, Lost
  <2> QED BY <1>1, <2>2, <2>3, <2>4
<1>6. CASE ~o.ready
  <2>1. t = [Memory!finalize(ready) EXCEPT !.index = FALSE]
    BY <1>2, <1>4, <1>6 DEF Memory!Ready
  <2>2. /\ Memory!finalize(ready) \in Memory!Server_Session
        /\ Memory!finalize(ready).component = Memory!None /\ Memory!finalize(ready).addr = FALSE
    BY <1>4 DEF Memory!finalize, Memory!Server_Session
  <2>3. t \in Memory!Server_Session /\ t.component = Memory!None /\ t.addr = FALSE
    BY <2>1, <2>2 DEF Memory!Server_Session
  <2> QED BY <1>6, <2>3 DEF Memory!Good, Spare
<1> QED BY <1>1, <1>5, <1>6

LEMMA MemoryDispatch ==
    ASSUME MemoryHomes, NEW c \in MemoryClients, NEW sz \in MemorySizes, UNCHANGED memRoot,
           memClient[c] = "new", memSize' = [memSize EXCEPT ![c] = sz],
           NEW o \in [1..MemorySlots -> Memory!Outcomes], Memory!Dispatch(c, sz, o)
    PROVE  MemoryHomes'
<1> USE MemorySizesFacts
<1> DEFINE tried == {i \in Memory!Free : \A j \in Memory!Free : j < i => ~Memory!Good(o[j], sz)}
           ok == {i \in tried : Memory!Good(o[i], sz)}
<1>1. /\ memServer' = [i \in 1..MemorySlots |-> IF i \in tried
              THEN Memory!Session_Initialize(c, memServer[i], sz, o[i]) ELSE memServer[i]]
      /\ memGreeted' = memGreeted \cup Memory!Modify(memServer')
      /\ memClient' = [memClient EXCEPT ![c] = IF ok # {} THEN "created" ELSE "denied"]
  BY DEF Memory!Dispatch
<1>2. \A i \in tried : i \in 1..MemorySlots /\ memServer[i].component = Memory!None
  BY DEF MemoryHomes, Memory!Free
<1>3. ASSUME NEW i \in 1..MemorySlots
      PROVE  /\ memServer'[i] \in Memory!Server_Session
             /\ i \in ok => Taken(memServer'[i], c, sz) /\ memServer[i].component = Memory!None
             /\ i \notin ok => \/ memServer'[i] = memServer[i]
                               \/ /\ Spare(memServer'[i]) \/ (sz = 0 /\ Lost(memServer'[i], c))
                                  /\ memServer[i].component = Memory!None
  <2>1. CASE i \in tried
    <3>1. memServer'[i] = Memory!Session_Initialize(c, memServer[i], sz, o[i]) /\ o[i] \in Memory!Outcomes
      BY <1>1, <1>2, <2>1
    <3>2. /\ memServer[i] \in Memory!Server_Session /\ memServer[i].component = Memory!None
          /\ memServer[i].addr = FALSE
      BY <1>2, <2>1, MemoryTypes
    <3>3. /\ memServer'[i] \in Memory!Server_Session
          /\ Memory!Good(o[i], sz) => Taken(memServer'[i], c, sz)
          /\ ~Memory!Good(o[i], sz) => Spare(memServer'[i]) \/ (sz = 0 /\ Lost(memServer'[i], c))
      <4>1. Spare(memServer[i])
        BY <3>2 DEF Spare
      <4> QED BY Zenon, <3>1, <3>2, <4>1, MemorySessionInitialize
    <3>4. i \in ok <=> Memory!Good(o[i], sz)
      BY <2>1
    <3> HIDE DEF ok, tried
    <3> QED BY <3>2, <3>3, <3>4
  <2>2. CASE i \notin tried
    <3>1. memServer'[i] = memServer[i] /\ i \notin ok
      BY <1>1, <1>3, <2>2
    <3> HIDE DEF ok, tried
    <3> QED BY <3>1, MemoryTypes
  <2> QED BY <2>1, <2>2
<1>4. \A i, j \in ok : i = j
  BY <1>2
<1>5. \A i \in ok : i \in 1..MemorySlots
  BY <1>2
<1>6. /\ memClient' \in [MemoryClients -> {"new", "created", "open", "closing", "closed", "denied"}]
      /\ memClient'[c] = IF ok # {} THEN "created" ELSE "denied"
      /\ \A d \in MemoryClients : d # c => memClient'[d] = memClient[d]
  BY <1>1 DEF MemoryHomes, Memory!TypeOK
<1>7. /\ memSize' \in [MemoryClients -> MemorySizes \cup {0}] /\ memSize'[c] = sz
      /\ \A d \in MemoryClients : d # c => memSize'[d] = memSize[d]
  BY DEF MemoryHomes, Memory!TypeOK
<1>8. \A i \in 1..MemorySlots : memServer[i].component # c
  BY DEF MemoryHomes, Held
<1>9. memServer' \in [1..MemorySlots -> Memory!Server_Session]
  <2>1. memServer' = [i \in 1..MemorySlots |-> memServer'[i]]
    BY <1>1
  <2> HIDE DEF ok, tried
  <2> QED BY <1>3, <2>1
<1>0. ok # {} => sz > 0 /\ sz \in Nat
  BY DEF Memory!Good
<1> HIDE DEF ok, tried
<1>10. \A d \in MemoryClients : \A i \in 1..MemorySlots :
          /\ d # c => /\ memServer'[i].component = d <=> memServer[i].component = d
                      /\ memServer[i].component = d => memServer'[i] = memServer[i]
          /\ memServer'[i].component = c => i \in ok \/ (sz = 0 /\ Lost(memServer'[i], c))
  <2> SUFFICES ASSUME NEW d \in MemoryClients, NEW i \in 1..MemorySlots
               PROVE  /\ d # c => /\ memServer'[i].component = d <=> memServer[i].component = d
                                  /\ memServer[i].component = d => memServer'[i] = memServer[i]
                      /\ memServer'[i].component = c => i \in ok \/ (sz = 0 /\ Lost(memServer'[i], c))
    OBVIOUS
  <2>1. CASE i \in ok
    BY <1>3, <2>1 DEF Taken
  <2>2. CASE i \notin ok
    BY <1>3, <1>8, <2>2 DEF Spare, Lost
  <2> QED BY <2>1, <2>2
<1>11. memGreeted' \subseteq MemoryClients
  <2>1. \A i \in 1..MemorySlots : memServer'[i].component \in MemoryClients \cup {Memory!None}
    BY <1>3 DEF Memory!Server_Session
  <2>2. Memory!Modify(memServer') \subseteq MemoryClients
    BY <2>1 DEF Memory!Modify, Memory!Initialized
  <2>3. memGreeted \subseteq MemoryClients
    BY DEF MemoryHomes, Memory!TypeOK
  <2> QED BY <1>1, <2>2, <2>3
<1>12. Memory!TypeOK'
  <2>1. memRoot' \in BOOLEAN
    BY DEF MemoryHomes, Memory!TypeOK
  <2>2. ASSUME NEW i \in 1..MemorySlots
        PROVE  memServer'[i].addr = (memServer'[i].component # Memory!None /\ memServer'[i].size > 0)
    <3>1. CASE i \in ok
      <4>1. memServer'[i].component = c /\ memServer'[i].addr = TRUE /\ memServer'[i].size = sz
        BY <1>3, <3>1 DEF Taken
      <4> QED BY <1>0, <3>1, <4>1
    <3>2. CASE memServer'[i] = memServer[i]
      BY <3>2, MemoryTypes
    <3>3. CASE Spare(memServer'[i])
      BY <3>3 DEF Spare
    <3>4. CASE Lost(memServer'[i], c)
      <4>1. memServer'[i].addr = FALSE /\ ~(memServer'[i].size > 0)
        BY <3>4 DEF Lost
      <4> QED BY Zenon, <4>1
    <3> QED BY <1>3, <3>1, <3>2, <3>3, <3>4
  <2> QED BY <1>6, <1>7, <1>9, <1>11, <2>1, <2>2 DEF Memory!TypeOK
<1>13. \A i \in 1..MemorySlots : memServer'[i].component # Memory!None => Memory!Ready(memServer'[i])
  BY <1>3 DEF MemoryHomes, Taken, Spare, Lost
<1>14. \A d \in MemoryClients : memClient'[d] \in Held =>
          \E i \in 1..MemorySlots : memServer'[i].component = d /\ memServer'[i].addr = TRUE
  <2> SUFFICES ASSUME NEW d \in MemoryClients, memClient'[d] \in Held
               PROVE  \E i \in 1..MemorySlots : memServer'[i].component = d /\ memServer'[i].addr = TRUE
    OBVIOUS
  <2>1. CASE d = c
    BY <1>3, <1>5, <1>6, <2>1 DEF Held, Taken
  <2>2. CASE d # c
    <3>1. PICK i \in 1..MemorySlots : memServer[i].component = d /\ memServer[i].addr = TRUE
      BY <1>6, <2>2 DEF MemoryHomes
    <3>2. memServer'[i] = memServer[i]
      BY <1>10, <2>2, <3>1
    <3> QED BY <3>1, <3>2
  <2> QED BY <2>1, <2>2
<1>15. \A d \in MemoryClients : \A i, j \in 1..MemorySlots :
          memClient'[d] \in Held /\ memServer'[i].component = d /\ memServer'[j].component = d => i = j
  <2> SUFFICES ASSUME NEW d \in MemoryClients, NEW i \in 1..MemorySlots, NEW j \in 1..MemorySlots,
                      memClient'[d] \in Held, memServer'[i].component = d, memServer'[j].component = d
               PROVE  i = j
    OBVIOUS
  <2>1. CASE d = c
    <3>1. sz > 0
      BY <1>0, <1>6, <2>1 DEF Held
    <3> QED BY <1>4, <1>10, <2>1, <3>1
  <2>2. CASE d # c
    BY <1>6, <1>10, <2>2 DEF MemoryHomes
  <2> QED BY <2>1, <2>2
<1>16. \A d \in MemoryClients : \A i \in 1..MemorySlots : memServer'[i].component = d =>
          /\ memServer'[i].size = memSize'[d]
          /\ memClient'[d] \notin Held => memClient'[d] = "denied" /\ memSize'[d] = 0
  <2> SUFFICES ASSUME NEW d \in MemoryClients, NEW i \in 1..MemorySlots, memServer'[i].component = d
               PROVE  /\ memServer'[i].size = memSize'[d]
                      /\ memClient'[d] \notin Held => memClient'[d] = "denied" /\ memSize'[d] = 0
    OBVIOUS
  <2>1. CASE d = c
    <3>1. CASE i \in ok
      <4>1. memServer'[i].size = sz
        BY <1>3, <3>1 DEF Taken
      <4> QED BY <1>6, <1>7, <2>1, <3>1, <4>1 DEF Held
    <3>2. CASE sz = 0 /\ Lost(memServer'[i], c)
      BY <1>6, <1>7, <2>1, <3>2 DEF Held, Lost
    <3> QED BY <1>10, <2>1, <3>1, <3>2
  <2>2. CASE d # c
    BY <1>6, <1>7, <1>10, <2>2 DEF MemoryHomes
  <2> QED BY <2>1, <2>2
<1>17. \A d \in MemoryClients :
          memClient'[d] \in {"created", "open"} /\ memSize'[d] > 11 => d \in memGreeted'
  <2> SUFFICES ASSUME NEW d \in MemoryClients, memClient'[d] \in {"created", "open"}, memSize'[d] > 11
               PROVE  d \in memGreeted'
    OBVIOUS
  <2>1. CASE d = c
    <3>1. PICK i \in 1..MemorySlots : i \in ok
      BY <1>5, <1>6, <2>1
    <3>2. /\ Memory!Initialized(memServer'[i]) /\ Memory!Ready(memServer'[i])
          /\ memServer'[i].component = c /\ memServer'[i].size > 11
      BY <1>3, <1>7, <2>1, <3>1 DEF Taken
    <3> QED BY <1>1, <2>1, <3>2 DEF Memory!Modify
  <2>2. CASE d # c
    BY <1>1, <1>6, <1>7, <2>2 DEF MemoryHomes
  <2> QED BY <2>1, <2>2
<1> QED BY <1>12, <1>13, <1>14, <1>15, <1>16, <1>17 DEF MemoryHomes

LEMMA MemoryCreate ==
    ASSUME MemoryHomes, NEW c \in MemoryClients, NEW sz \in MemorySizes, Memory!create_session(c, sz)
    PROVE  MemoryHomes'
<1>1. /\ memClient[c] = "new" /\ memSize' = [memSize EXCEPT ![c] = sz] /\ UNCHANGED memRoot
      /\ memRoot' \in BOOLEAN
  BY DEF Memory!create_session, MemoryHomes, Memory!TypeOK
<1>2. CASE memClient' = [memClient EXCEPT ![c] = "denied"] /\ UNCHANGED <<memServer, memGreeted>>
  <2>1. /\ memClient' \in [MemoryClients -> {"new", "created", "open", "closing", "closed", "denied"}]
        /\ memSize' \in [MemoryClients -> MemorySizes \cup {0}]
    BY <1>1, <1>2 DEF MemoryHomes, Memory!TypeOK
  <2>2. \A d \in MemoryClients : /\ memClient'[d] = IF d = c THEN "denied" ELSE memClient[d]
                                 /\ memSize'[d] = IF d = c THEN sz ELSE memSize[d]
    BY <1>1, <1>2 DEF MemoryHomes, Memory!TypeOK
  <2> QED BY <1>1, <1>2, <2>1, <2>2, MemoryApart DEF Held
<1>3. CASE \E o \in [1..MemorySlots -> Memory!Outcomes] : Memory!Dispatch(c, sz, o)
  BY <1>1, <1>3, MemoryDispatch
<1> QED BY <1>2, <1>3 DEF Memory!create_session

LEMMA MemoryDestroy ==
    ASSUME MemoryHomes, NEW c \in MemoryClients, Memory!destroy_session(c)
    PROVE  MemoryHomes'
<1> USE MemorySizesFacts
<1>1. /\ memClient[c] = "closing" /\ memClient' = [memClient EXCEPT ![c] = "closed"]
      /\ memServer' = [i \in 1..MemorySlots |-> Memory!Session_Cleanup(c, i)]
      /\ memGreeted' = (memGreeted \ {c}) \cup Memory!Modify(memServer')
      /\ UNCHANGED <<memRoot, memSize>>
  BY DEF Memory!destroy_session
<1>2. ASSUME NEW i \in 1..MemorySlots
      PROVE  /\ memServer'[i] \in Memory!Server_Session
             /\ memServer'[i].addr = (memServer'[i].component # Memory!None /\ memServer'[i].size > 0)
             /\ memServer[i].component = c => memServer'[i].component = Memory!None
             /\ memServer[i].component # c => memServer'[i] = memServer[i]
  <2>1. CASE memServer[i].component = c
    <3>1. Memory!Initialized(memServer[i])
      <4>1. PICK j \in 1..MemorySlots : memServer[j].component = c /\ memServer[j].addr = TRUE
        BY <1>1 DEF MemoryHomes, Held
      <4>2. i = j /\ Memory!Ready(memServer[i])
        BY <1>1, <2>1, <4>1 DEF MemoryHomes, Held
      <4> QED BY <4>1, <4>2 DEF Memory!Initialized, Memory!Ready
    <3>2. memServer'[i] = [Memory!finalize(memServer[i]) EXCEPT !.ready = FALSE]
      BY <1>1, <1>2, <2>1, <3>1 DEF Memory!Session_Cleanup
    <3>3. memServer[i] \in Memory!Server_Session
      BY MemoryTypes
    <3>4. /\ Memory!finalize(memServer[i]) \in Memory!Server_Session
          /\ Memory!finalize(memServer[i]).component = Memory!None
          /\ Memory!finalize(memServer[i]).addr = FALSE
      BY <3>3 DEF Memory!finalize, Memory!Server_Session
    <3>5. memServer'[i] \in Memory!Server_Session /\ memServer'[i].component = Memory!None /\ memServer'[i].addr = FALSE
      BY <3>2, <3>4 DEF Memory!Server_Session
    <3> QED BY <2>1, <3>5
  <2>2. CASE memServer[i].component # c
    <3>1. memServer'[i] = memServer[i]
      BY <1>1, <1>2, <2>2 DEF Memory!Session_Cleanup
    <3> QED BY <2>2, <3>1, MemoryTypes
  <2> QED BY <2>1, <2>2
<1>3. /\ memClient' \in [MemoryClients -> {"new", "created", "open", "closing", "closed", "denied"}]
      /\ \A d \in MemoryClients : memClient'[d] = IF d = c THEN "closed" ELSE memClient[d]
  BY <1>1 DEF MemoryHomes, Memory!TypeOK
<1>4. memServer' \in [1..MemorySlots -> Memory!Server_Session]
  <2>1. memServer' = [i \in 1..MemorySlots |-> memServer'[i]]
    BY <1>1
  <2> QED BY <1>2, <2>1
<1>5. \A d \in MemoryClients : \A i \in 1..MemorySlots :
         memServer'[i].component = d <=> d # c /\ memServer[i].component = d
  BY <1>2
<1>6. memGreeted' \subseteq MemoryClients
  <2>1. \A i \in 1..MemorySlots : memServer'[i].component \in MemoryClients \cup {Memory!None}
    BY <1>2 DEF Memory!Server_Session
  <2>2. Memory!Modify(memServer') \subseteq MemoryClients
    BY <2>1 DEF Memory!Modify, Memory!Initialized
  <2>3. memGreeted \subseteq MemoryClients
    BY DEF MemoryHomes, Memory!TypeOK
  <2> QED BY <1>1, <2>2, <2>3
<1>7. Memory!TypeOK'
  BY <1>1, <1>2, <1>3, <1>4, <1>6 DEF MemoryHomes, Memory!TypeOK
<1>8. \A i \in 1..MemorySlots : memServer'[i].component # Memory!None => Memory!Ready(memServer'[i])
  BY <1>2 DEF MemoryHomes
<1>9. \A d \in MemoryClients : memClient'[d] \in Held =>
         \E i \in 1..MemorySlots : memServer'[i].component = d /\ memServer'[i].addr = TRUE
  BY <1>2, <1>3 DEF MemoryHomes, Held
<1>10. \A d \in MemoryClients : \A i, j \in 1..MemorySlots :
          memClient'[d] \in Held /\ memServer'[i].component = d /\ memServer'[j].component = d => i = j
  BY <1>3, <1>5 DEF MemoryHomes
<1>11. \A d \in MemoryClients : \A i \in 1..MemorySlots : memServer'[i].component = d =>
          /\ memServer'[i].size = memSize'[d]
          /\ memClient'[d] \notin Held => memClient'[d] = "denied" /\ memSize'[d] = 0
  BY <1>1, <1>2, <1>3, <1>5 DEF MemoryHomes
<1>12. \A d \in MemoryClients :
          memClient'[d] \in {"created", "open"} /\ memSize'[d] > 11 => d \in memGreeted'
  BY <1>1, <1>3 DEF MemoryHomes
<1> QED BY <1>7, <1>8, <1>9, <1>10, <1>11, <1>12 DEF MemoryHomes

LEMMA MemoryStep ==
    ASSUME MemoryHomes, [Memory!Next]_memory
    PROVE  MemoryHomes'
<1>0. /\ memRoot \in BOOLEAN /\ memSize \in [MemoryClients -> MemorySizes \cup {0}]
      /\ memClient \in [MemoryClients -> {"new", "created", "open", "closing", "closed", "denied"}]
  BY DEF MemoryHomes, Memory!TypeOK
<1>1. CASE UNCHANGED memory
  <2>1. UNCHANGED <<memRoot, memServer, memGreeted, memClient, memSize>>
    BY <1>1 DEF memory
  <2> QED BY <1>0, <2>1, MemoryApart
<1>2. CASE Memory!register_service
  <2>1. memRoot' \in BOOLEAN /\ UNCHANGED <<memServer, memGreeted, memClient, memSize>>
    BY <1>2 DEF Memory!register_service
  <2> QED BY <1>0, <2>1, MemoryApart
<1>3. ASSUME NEW c \in MemoryClients, Memory!Memory_Connection(c) \/ Memory!Finalize(c)
      PROVE  MemoryHomes'
  <2>1. PICK st \in {"open", "closing"} :
           /\ memClient' = [memClient EXCEPT ![c] = st]
           /\ memClient[c] \in {"created", "open"}
           /\ UNCHANGED <<memRoot, memServer, memGreeted, memSize>>
    BY <1>3 DEF Memory!Memory_Connection, Memory!Finalize
  <2>2. \A d \in MemoryClients : memClient'[d] = IF d = c THEN st ELSE memClient[d]
    BY <1>0, <2>1
  <2>3. memClient' \in [MemoryClients -> {"new", "created", "open", "closing", "closed", "denied"}]
    BY <1>0, <2>1
  <2> QED BY <1>0, <2>1, <2>2, <2>3, MemoryApart DEF Held
<1> QED BY <1>1, <1>2, <1>3, MemoryCreate, MemoryDestroy DEF Memory!Next

LEMMA MemoryInvariance == PartsSpec => []MemoryHomes
<1>1. PartsInit => MemoryHomes
  BY MemoryInit DEF PartsInit
<1>2. MemoryHomes /\ [PartsNext]_all => MemoryHomes'
  BY MemoryStep, PartsStep
<1> QED BY <1>1, <1>2, PTL DEF PartsSpec

LEMMA MemoryOwn ==
    ASSUME MemoryHomes
    PROVE  Memory!MemoryIsOwn
<1> USE MemorySizesFacts
<1> SUFFICES ASSUME NEW c \in MemoryClients
             PROVE  LET own == {i \in 1..MemorySlots : memServer[i].component = c}
                    IN /\ memClient[c] \in {"created", "open", "closing"} =>
                             /\ Memory!Cardinality(own) = 1
                             /\ \A i \in own : /\ Memory!Initialized(memServer[i]) /\ Memory!Ready(memServer[i])
                                               /\ memServer[i].size = memSize[c]
                       /\ memClient[c] \notin {"created", "open", "closing"} =>
                             \A i \in own : /\ ~Memory!Initialized(memServer[i])
                                            /\ memClient[c] = "denied" /\ memSize[c] = 0
                       /\ memClient[c] \in {"created", "open"} /\ memSize[c] > 11 => c \in memGreeted
  BY Zenon DEF Memory!MemoryIsOwn
<1> DEFINE mine == {i \in 1..MemorySlots : memServer[i].component = c}
<1>1. CASE memClient[c] \in Held
  <2>1. PICK i \in 1..MemorySlots : memServer[i].component = c /\ memServer[i].addr = TRUE
    BY <1>1 DEF MemoryHomes
  <2>2. \A z : z \in mine <=> z = i
    BY <1>1, <2>1 DEF MemoryHomes
  <2>3. mine = {i}
    BY Zenon, <2>2
  <2>4. Memory!Cardinality(mine) = 1
    BY <2>3, FS_Singleton, CountAlike
  <2>5. /\ Memory!Initialized(memServer[i]) /\ Memory!Ready(memServer[i])
        /\ memServer[i].size = memSize[c]
    BY <2>1 DEF MemoryHomes, Memory!Initialized, Memory!Ready
  <2> QED BY <1>1, <2>3, <2>4, <2>5 DEF MemoryHomes, Held
<1>2. CASE memClient[c] \notin Held
  <2>1. ASSUME NEW i \in mine
        PROVE  ~Memory!Initialized(memServer[i]) /\ memClient[c] = "denied" /\ memSize[c] = 0
    <3>1. /\ memServer[i].size = memSize[c] /\ memClient[c] = "denied" /\ memSize[c] = 0
          /\ i \in 1..MemorySlots
      BY <1>2, <2>1 DEF MemoryHomes
    <3>2. memServer[i].addr = FALSE
      <4>1. ~(memServer[i].size > 0)
        BY <3>1
      <4> QED BY <3>1, <4>1, MemoryTypes
    <3> QED BY <3>1, <3>2 DEF Memory!Initialized
  <2> QED BY <1>2, <2>1 DEF Held
<1> QED BY <1>1, <1>2

\* Each Log client with a session has one session variable, Ready, of its own,
\* and each Memory client a dataspace of its own with the size it asked for
\* and the server's greeting in it, from the acceptance of its session to its
\* cleanup, whatever component or server fails in between and although a
\* failed initialization may leave a variable with the empty component of a
\* client that was denied (Session_Initialize, Session_Cleanup, Dispatch).
THEOREM KeptApart == PartsSpec => []ClientsKeptApart
<1>1. LogHomes /\ MemoryHomes => ClientsKeptApart
  BY LogOwn, MemoryOwn DEF ClientsKeptApart
<1> QED BY <1>1, LogHomesInvariance, MemoryInvariance, PTL
-----------------------------------------------------------------------------
(* Slices and what they make up                                            *)

\* Counting up from 0 reaches every number up to n.
LEMMA CountUp ==
    ASSUME NEW n \in Nat, NEW S, 0 \in S, \A i \in 0..n : i < n /\ i \in S => i + 1 \in S
    PROVE  n \in S
<1> SUFFICES ASSUME (0..n) \ S # {}
             PROVE  FALSE
  OBVIOUS
<1> DEFINE R == OpToRel(<, Nat)
           T == (0..n) \ S
<1>1. PICK x \in T : \A y \in T : ~(<<y, x>> \in R)
  <2> HIDE DEF R
  <2>1. T \subseteq Nat /\ T # {}
    OBVIOUS
  <2> HIDE DEF T
  <2> QED BY <2>1, NatLessThanWellFounded, WFMin DEF R
<1>2. x \in 0..n /\ x \notin S
  OBVIOUS
<1>3. \A y \in T : ~(y < x)
  <2>1. \A y \in T : <<y, x>> \in Nat \X Nat
    OBVIOUS
  <2> QED BY <1>1, <2>1 DEF OpToRel
<1>4. x - 1 \in 0..n /\ x - 1 < x /\ x - 1 < n
  BY <1>2
<1>5. x - 1 \in S
  BY <1>3, <1>4
<1>6. (x - 1) + 1 \in S
  BY <1>4, <1>5
<1> QED BY <1>2, <1>6

Chars == 1..MaxChars

\* f[i] is what the first i of the texts make up.
Joins(texts, f) ==
    /\ f \in [0..Len(texts) -> Seq(Chars)]
    /\ f[0] = <<>>
    /\ \A i \in 1..Len(texts) : f[i] = f[i - 1] \o texts[i]

LEMMA JoinsExist ==
    ASSUME NEW texts \in Seq(Seq(Chars))
    PROVE  \E f : Joins(texts, f)
<1> DEFINE n == Len(texts)
           Upto(k, f) == /\ f \in [0..k -> Seq(Chars)] /\ f[0] = <<>>
                         /\ \A i \in 1..k : f[i] = f[i - 1] \o texts[i]
           S == {k \in 0..n : \E f : Upto(k, f)}
<1>0. n \in Nat /\ <<>> \in Seq(Chars)
  OBVIOUS
<1>1. 0 \in S
  <2>1. Upto(0, [i \in 0..0 |-> <<>>])
    BY <1>0
  <2> HIDE DEF Upto
  <2> QED BY <1>0, <2>1
<1>2. ASSUME NEW k \in 0..n, k < n, k \in S
      PROVE  k + 1 \in S
  <2>1. PICK f : Upto(k, f)
    BY <1>2
  <2> DEFINE e == f[k] \o texts[k + 1]
             g == [i \in 0..(k + 1) |-> IF i = k + 1 THEN e ELSE f[i]]
  <2>2. f[k] \in Seq(Chars) /\ texts[k + 1] \in Seq(Chars) /\ k + 1 \in 1..n /\ k + 1 \in 0..n
    BY <1>0, <1>2, <2>1
  <2>3. e \in Seq(Chars)
    BY <2>2, ConcatProperties
  <2> HIDE DEF e
  <2>4. g \in [0..(k + 1) -> Seq(Chars)] /\ g[0] = <<>>
    BY <1>2, <2>1, <2>3
  <2>5. \A i \in 1..(k + 1) : g[i] = g[i - 1] \o texts[i]
    <3> SUFFICES ASSUME NEW i \in 1..(k + 1)
                 PROVE  g[i] = g[i - 1] \o texts[i]
      OBVIOUS
    <3>1. CASE i = k + 1
      <4>1. g[k + 1] = f[k] \o texts[k + 1] /\ g[k] = f[k]
        <5>1. g[k + 1] = e /\ g[k] = f[k]
          BY <1>2
        <5> QED BY <5>1 DEF e
      <4>2. (k + 1) - 1 = k
        BY <1>2
      <4> HIDE DEF g
      <4> QED BY <3>1, <4>1, <4>2
    <3>2. CASE i # k + 1
      <4>1. i \in 1..k /\ i - 1 \in 0..k
        BY <1>2, <3>2
      <4>2. g[i] = f[i] /\ g[i - 1] = f[i - 1]
        BY <1>2, <4>1
      <4> QED BY <2>1, <4>1, <4>2
    <3> QED BY <3>1, <3>2
  <2>6. Upto(k + 1, g)
    BY <2>4, <2>5
  <2> HIDE DEF Upto, g
  <2> QED BY <2>2, <2>6
<1>3. n \in S
  <2> HIDE DEF S
  <2> QED BY <1>0, <1>1, <1>2, CountUp
<1>4. PICK f : Upto(n, f)
  BY <1>3
<1> QED BY <1>4 DEF Joins

\* FlattenSeq is what all of the texts make up.
LEMMA JoinsFlatten ==
    ASSUME NEW texts \in Seq(Seq(Chars)), NEW f, Joins(texts, f)
    PROVE  Log!FlattenSeq(texts) = f[Len(texts)] /\ Log!FlattenSeq(texts) \in Seq(Chars)
<1> DEFINE n == Len(texts)
<1>0. n \in Nat /\ f[n] \in Seq(Chars)
  BY DEF Joins
<1>1. CASE n = 0
  <2>1. Log!FlattenSeq(texts) = texts /\ texts = <<>>
    BY <1>1 DEF Log!FlattenSeq
  <2> QED BY <1>0, <1>1, <2>1 DEF Joins
<1>2. CASE n # 0
  <2> DEFINE Body(g) == [i \in 1..n |-> IF i = 1 THEN texts[i] ELSE g[i - 1] \o texts[i]]
             g0 == [i \in 1..n |-> f[i]]
             h == CHOOSE g : g = Body(g)
  <2>1. Log!FlattenSeq(texts) = h[n]
    BY <1>2 DEF Log!FlattenSeq
  <2>2. \A i \in 1..n : texts[i] \in Seq(Chars)
    OBVIOUS
  <2>3. \A i \in 1..n : Body(g0)[i] = f[i]
    <3> SUFFICES ASSUME NEW i \in 1..n
                 PROVE  Body(g0)[i] = f[i]
      OBVIOUS
    <3>1. CASE i = 1
      <4>1. Body(g0)[i] = texts[i] /\ f[i] = <<>> \o texts[i]
        <5>1. Body(g0)[i] = texts[i]
          BY <3>1
        <5>2. i - 1 = 0
          BY <3>1
        <5>3. f[i] = f[i - 1] \o texts[i]
          BY DEF Joins
        <5> QED BY <5>1, <5>2, <5>3 DEF Joins
      <4> HIDE DEF Body
      <4> QED BY <2>2, <4>1, ConcatEmptySeq
    <3>2. CASE i # 1
      <4>1. i - 1 \in 1..n
        BY <1>0, <3>2
      <4>2. g0[i - 1] = f[i - 1]
        BY <4>1
      <4>3. Body(g0)[i] = g0[i - 1] \o texts[i]
        BY <3>2
      <4> QED BY <4>2, <4>3 DEF Joins
    <3> QED BY <3>1, <3>2
  <2>4. g0 = Body(g0)
    BY <2>3
  <2>5. h = Body(h)
    <3> HIDE DEF Body, g0
    <3> QED BY <2>4
  <2> HIDE DEF h, g0
  <2>6. h[1] = texts[1] /\ \A i \in 2..n : h[i] = h[i - 1] \o texts[i]
    <3> DEFINE b == Body(h)
    <3>1. b[1] = texts[1] /\ \A i \in 2..n : b[i] = h[i - 1] \o texts[i]
      <4>1. 1 \in 1..n /\ \A i \in 2..n : i \in 1..n /\ i # 1
        BY <1>0, <1>2
      <4> QED BY <4>1
    <3>2. h = b
      BY <2>5
    <3> HIDE DEF b
    <3> QED BY <3>1, <3>2
  <2> HIDE DEF Body
  <2> DEFINE S == {i \in 0..n : i = 0 \/ h[i] = f[i]}
  <2>7. 0 \in S
    BY <1>0
  <2>8. ASSUME NEW i \in 0..n, i < n, i \in S
        PROVE  i + 1 \in S
    <3>1. i + 1 \in 1..n /\ (i + 1) - 1 = i
      BY <1>0, <2>8
    <3>2. f[i + 1] = f[i] \o texts[i + 1]
      BY <3>1 DEF Joins
    <3>3. CASE i = 0
      <4>1. f[1] = <<>> \o texts[1] /\ texts[1] \in Seq(Chars)
        <5>1. i + 1 = 1 /\ 1 \in 1..n
          BY <3>1, <3>3
        <5> QED BY <2>2, <3>2, <3>3, <5>1 DEF Joins
      <4>2. f[1] = texts[1]
        BY <4>1, ConcatEmptySeq
      <4> QED BY <2>6, <3>1, <3>3, <4>2
    <3>4. CASE i # 0
      <4>1. h[i] = f[i] /\ i + 1 \in 2..n
        BY <1>0, <2>8, <3>4
      <4>2. h[i + 1] = h[i] \o texts[i + 1]
        BY <2>6, <3>1, <4>1
      <4>3. h[i + 1] = f[i + 1]
        BY <3>2, <4>1, <4>2
      <4> QED BY <1>0, <3>1, <4>3
    <3> QED BY <3>3, <3>4
  <2>9. n \in S
    <3> HIDE DEF S
    <3> QED BY <1>0, <2>7, <2>8, CountUp
  <2>10. h[n] = f[n]
    BY <1>2, <2>9
  <2> QED BY <1>0, <2>1, <2>10
<1> QED BY <1>1, <1>2
LEMMA FlattenType ==
    ASSUME NEW texts \in Seq(Seq(Chars))
    PROVE  Log!FlattenSeq(texts) \in Seq(Chars)
BY JoinsExist, JoinsFlatten

LEMMA FlattenEmpty == Log!FlattenSeq(<<>>) = <<>>
BY DEF Log!FlattenSeq

LEMMA FlattenOne ==
    ASSUME NEW text \in Seq(Chars)
    PROVE  Log!FlattenSeq(<<text>>) = text
<1> DEFINE f == [i \in 0..1 |-> IF i = 0 THEN <<>> ELSE text]
<1>1. <<text>> \in Seq(Seq(Chars)) /\ Len(<<text>>) = 1 /\ <<text>>[1] = text /\ <<>> \in Seq(Chars)
  OBVIOUS
<1>2. f \in [0..1 -> Seq(Chars)] /\ f[0] = <<>> /\ f[1] = text
  BY <1>1
<1> HIDE DEF f
<1>3. f[1] = f[0] \o text
  BY <1>2, ConcatEmptySeq
<1>4. \A i \in 1..1 : f[i] = f[i - 1] \o <<text>>[i]
  BY <1>1, <1>3
<1>5. Joins(<<text>>, f)
  BY <1>1, <1>2, <1>4 DEF Joins
<1> QED BY <1>1, <1>2, <1>5, JoinsFlatten

\* Texts one after the other make up one after the other.
LEMMA FlattenConcat ==
    ASSUME NEW s \in Seq(Seq(Chars)), NEW t \in Seq(Seq(Chars))
    PROVE  Log!FlattenSeq(s \o t) = Log!FlattenSeq(s) \o Log!FlattenSeq(t)
<1>1. PICK f : Joins(s, f)
  BY JoinsExist
<1>2. PICK g : Joins(t, g)
  BY JoinsExist
<1> DEFINE m == Len(s)
           n == Len(t)
<1>3. m \in Nat /\ n \in Nat
  OBVIOUS
<1>4. /\ s \o t \in Seq(Seq(Chars)) /\ Len(s \o t) = m + n
      /\ \A i \in 1..(m + n) : (s \o t)[i] = IF i <= m THEN s[i] ELSE t[i - m]
  BY ConcatProperties
<1>5. \A i \in 1..m : s[i] \in Seq(Chars)
  OBVIOUS
<1>6. \A i \in 1..n : t[i] \in Seq(Chars)
  OBVIOUS
<1>7. /\ f \in [0..m -> Seq(Chars)] /\ f[0] = <<>> /\ \A i \in 1..m : f[i] = f[i - 1] \o s[i]
      /\ g \in [0..n -> Seq(Chars)] /\ g[0] = <<>> /\ \A i \in 1..n : g[i] = g[i - 1] \o t[i]
  BY <1>1, <1>2 DEF Joins
<1>8. Log!FlattenSeq(s) = f[m] /\ Log!FlattenSeq(t) = g[n]
  BY <1>1, <1>2, JoinsFlatten
<1> DEFINE u == s \o t
           F(i) == f[m] \o g[i - m]
           h == [i \in 0..(m + n) |-> IF i <= m THEN f[i] ELSE F(i)]
<1> HIDE DEF m, n, u
<1>9. \A i \in m..(m + n) : F(i) \in Seq(Chars)
  <2> SUFFICES ASSUME NEW i \in m..(m + n)
               PROVE  f[m] \o g[i - m] \in Seq(Chars)
    OBVIOUS
  <2>1. f[m] \in Seq(Chars) /\ g[i - m] \in Seq(Chars)
    BY <1>3, <1>7
  <2> QED BY <2>1, ConcatProperties
<1>10. F(m) = f[m]
  <2>1. m - m = 0 /\ f[m] \in Seq(Chars)
    BY <1>3, <1>7
  <2> QED BY <1>7, <2>1, ConcatEmptySeq
<1>11. \A i \in 1..(m + n) : i > m => F(i) = F(i - 1) \o t[i - m]
  <2> SUFFICES ASSUME NEW i \in 1..(m + n), i > m
               PROVE  f[m] \o g[i - m] = (f[m] \o g[(i - 1) - m]) \o t[i - m]
    OBVIOUS
  <2>1. i - m \in 1..n /\ (i - m) - 1 = (i - 1) - m /\ (i - 1) - m \in 0..n
    BY <1>3
  <2>2. g[i - m] = g[(i - 1) - m] \o t[i - m]
    BY <1>7, <2>1
  <2>3. f[m] \in Seq(Chars) /\ g[(i - 1) - m] \in Seq(Chars) /\ t[i - m] \in Seq(Chars)
    BY <1>3, <1>6, <1>7, <2>1
  <2>4. (f[m] \o g[(i - 1) - m]) \o t[i - m] = f[m] \o (g[(i - 1) - m] \o t[i - m])
    <3> DEFINE a == f[m]
               b == g[(i - 1) - m]
               d == t[i - m]
    <3>1. a \in Seq(Chars) /\ b \in Seq(Chars) /\ d \in Seq(Chars)
      BY <2>3
    <3> HIDE DEF a, b, d
    <3>2. (a \o b) \o d = a \o (b \o d)
      BY <3>1, ConcatAssociative
    <3> QED BY <3>2 DEF a, b, d
  <2> QED BY <2>2, <2>4
<1> HIDE DEF F
<1>12. h \in [0..(m + n) -> Seq(Chars)]
  <2>1. \A i \in 0..(m + n) : i <= m => f[i] \in Seq(Chars)
    BY <1>3, <1>7
  <2>2. \A i \in 0..(m + n) : ~(i <= m) => F(i) \in Seq(Chars)
    BY <1>3, <1>9
  <2> QED BY <2>1, <2>2
<1>13. h[0] = <<>> /\ h[m + n] = F(m + n)
  <2>1. h[0] = f[0]
    BY <1>3
  <2>2. n = 0 \/ ~(m + n <= m)
    BY <1>3
  <2>3. CASE n = 0
    <3>1. h[m + n] = f[m] /\ m + n = m
      BY <1>3, <2>3
    <3> QED BY <1>7, <1>10, <2>1, <3>1
  <2>4. CASE ~(m + n <= m)
    <3>1. h[m + n] = F(m + n)
      BY <1>3, <2>4
    <3> QED BY <1>7, <2>1, <3>1
  <2> QED BY <2>2, <2>3, <2>4
<1>14. \A i \in 1..(m + n) : h[i] = h[i - 1] \o u[i]
  <2> SUFFICES ASSUME NEW i \in 1..(m + n)
               PROVE  h[i] = h[i - 1] \o u[i]
    OBVIOUS
  <2>1. CASE i <= m
    <3>1. h[i] = f[i] /\ h[i - 1] = f[i - 1] /\ i \in 1..m
      BY <1>3, <2>1
    <3>2. u[i] = s[i]
      BY <1>4, <2>1 DEF u
    <3> HIDE DEF h
    <3> QED BY <1>7, <3>1, <3>2
  <2>2. CASE i > m
    <3>1. h[i] = F(i)
      BY <1>3, <2>2
    <3>2. u[i] = t[i - m]
      BY <1>3, <1>4, <2>2 DEF u
    <3>3. h[i - 1] = F(i - 1)
      <4>1. CASE i - 1 = m
        <5>1. h[i - 1] = f[m]
          BY <1>3, <4>1
        <5> QED BY <1>10, <4>1, <5>1
      <4>2. CASE i - 1 # m
        BY <1>3, <2>2, <4>2
      <4> QED BY <4>1, <4>2
    <3> HIDE DEF h
    <3> QED BY <1>11, <2>2, <3>1, <3>2, <3>3
  <2>3. i <= m \/ i > m
    BY <1>3
  <2> HIDE DEF h
  <2> QED BY <2>1, <2>2, <2>3
<1> HIDE DEF h
<1>15. Joins(u, h)
  BY <1>4, <1>12, <1>13, <1>14 DEF Joins, u
<1>16. Log!FlattenSeq(u) = h[m + n]
  BY <1>4, <1>15, JoinsFlatten DEF u
<1>17. F(m + n) = f[m] \o g[n]
  <2>1. (m + n) - m = n
    BY <1>3
  <2> QED BY <2>1 DEF F
<1> QED BY <1>8, <1>13, <1>16, <1>17 DEF m, n, u

\* The first text and the others.
LEMMA FlattenHead ==
    ASSUME NEW texts \in Seq(Seq(Chars)), texts # <<>>
    PROVE  Log!FlattenSeq(texts) = Head(texts) \o Log!FlattenSeq(Tail(texts))
<1>1. Head(texts) \in Seq(Chars) /\ Tail(texts) \in Seq(Seq(Chars)) /\ <<Head(texts)>> \in Seq(Seq(Chars))
  BY HeadTailProperties
<1>2. texts = <<Head(texts)>> \o Tail(texts)
  OBVIOUS
<1>3. Log!FlattenSeq(<<Head(texts)>> \o Tail(texts)) = Log!FlattenSeq(<<Head(texts)>>) \o Log!FlattenSeq(Tail(texts))
  BY <1>1, FlattenConcat
<1> QED BY <1>1, <1>2, <1>3, FlattenOne

\* The slices of a text have one to SliceSize characters and make it up.
LEMMA SlicesEffect ==
    ASSUME NEW text \in Seq(Chars)
    PROVE  /\ Log!Slices(text) \in Seq(Seq(Chars))
           /\ \A k \in 1..Len(Log!Slices(text)) : Len(Log!Slices(text)[k]) \in 1..SliceSize
           /\ Log!FlattenSeq(Log!Slices(text)) = text
<1> DEFINE z == SliceSize
           len == Len(text)
           n == (len + z - 1) \div z
           End(k) == IF k * z > len THEN len ELSE k * z
           Piece(k) == SubSeq(text, (k - 1) * z + 1, End(k))
           f == [k \in 0..n |-> SubSeq(text, 1, End(k))]
<1>1. z \in Nat \ {0} /\ len \in Nat
  BY LogSizes
<1> HIDE DEF z, len
<1>2. n \in Nat
  BY <1>1
<1>3. z * n <= len + z - 1 /\ len + z - 1 < z * n + z
  BY <1>1
<1>4. Log!Slices(text) = [k \in 1..n |-> Piece(k)]
  BY DEF Log!Slices, z, len
<1> HIDE DEF n
<1>5. ASSUME NEW k \in 1..n
      PROVE  /\ (k - 1) * z \in 0..(len - 1) /\ (k - 1) * z = k * z - z
             /\ End(k) \in ((k - 1) * z + 1)..len /\ End(k) - (k - 1) * z \in 1..z
             /\ End(k - 1) = (k - 1) * z
  <2>1. k \in Int /\ n \in Int /\ k <= n /\ 1 <= k
    BY <1>2, <1>5
  <2>2. (k - 1) * z = k * z - z /\ k * z \in Int
    BY <1>1, <2>1
  <2>3. k * z <= n * z /\ n * z = z * n /\ z * n \in Int
    BY <1>1, <2>1
  <2>4. 0 <= (k - 1) * z
    BY <1>1, <2>1
  <2>5. k * z <= len + z - 1
    BY <1>1, <1>3, <2>2, <2>3
  <2> QED BY <1>1, <2>2, <2>4, <2>5
<1>6. End(0) = 0 /\ End(n) = len /\ n * z >= len
  <2>1. 0 * z = 0
    BY <1>1
  <2>2. n * z = z * n /\ z * n \in Int
    BY <1>1, <1>2
  <2>3. n * z >= len
    BY <1>1, <1>3, <2>2
  <2> QED BY <1>1, <2>1, <2>2, <2>3
<1>7. \A k \in 0..n : End(k) \in 0..len
  <2> SUFFICES ASSUME NEW k \in 0..n
               PROVE  End(k) \in 0..len
    OBVIOUS
  <2>1. k * z \in Nat
    BY <1>1, <1>2
  <2> QED BY <1>1, <2>1
<1> HIDE DEF End
<1>8. ASSUME NEW k \in 1..n
      PROVE  Piece(k) \in Seq(Chars) /\ Len(Piece(k)) \in 1..z
  <2> DEFINE a == (k - 1) * z + 1
             b == End(k)
  <2>1. a \in 1..len /\ b \in a..len /\ b - a + 1 \in 1..z
    BY <1>1, <1>5, <1>8
  <2> HIDE DEF a, b
  <2>2. \A i \in a..b : text[i] \in Chars
    BY <1>1, <2>1 DEF len
  <2>3. SubSeq(text, a, b) \in Seq(Chars) /\ Len(SubSeq(text, a, b)) = b - a + 1
    BY <1>1, <2>1, <2>2, SubSeqProperties
  <2> QED BY <2>1, <2>3 DEF a, b
<1>9. /\ [k \in 1..n |-> Piece(k)] \in Seq(Seq(Chars)) /\ Len([k \in 1..n |-> Piece(k)]) = n
      /\ \A k \in 1..n : [j \in 1..n |-> Piece(j)][k] = Piece(k)
  <2> HIDE DEF Piece
  <2> QED BY <1>2, <1>8
<1>10. \A k \in 0..n : SubSeq(text, 1, End(k)) \in Seq(Chars)
  <2> SUFFICES ASSUME NEW k \in 0..n
               PROVE  SubSeq(text, 1, End(k)) \in Seq(Chars)
    OBVIOUS
  <2>1. End(k) \in 0..len
    BY <1>7
  <2>2. \A i \in 1..End(k) : text[i] \in Chars
    BY <1>1, <2>1 DEF len
  <2> QED BY <1>1, <2>1, <2>2, SubSeqProperties
<1>11. \A k \in 1..n : SubSeq(text, 1, End(k)) = SubSeq(text, 1, End(k - 1)) \o Piece(k)
  <2> SUFFICES ASSUME NEW k \in 1..n
               PROVE  SubSeq(text, 1, End(k)) = SubSeq(text, 1, End(k - 1)) \o Piece(k)
    OBVIOUS
  <2> DEFINE a == End(k - 1)
             b == End(k)
  <2>1. a = (k - 1) * z /\ a \in 0..len /\ b \in a..len
    BY <1>1, <1>5
  <2>2. Piece(k) = SubSeq(text, a + 1, b)
    BY <2>1
  <2> HIDE DEF a, b, Piece
  <2>3. 1 \in 1..(Len(text) + 1) /\ a \in (1 - 1)..Len(text) /\ b \in a..Len(text)
    BY <1>1, <2>1 DEF len
  <2>4. SubSeq(text, 1, a) \o SubSeq(text, a + 1, b) = SubSeq(text, 1, b)
    BY <2>3, ConcatAdjacentSubSeq
  <2> QED BY <2>2, <2>4 DEF a, b
<1>12. f \in [0..n -> Seq(Chars)] /\ f[0] = <<>> /\ f[n] = text
  <2>1. f \in [0..n -> Seq(Chars)]
    BY <1>10
  <2>2. f[0] = SubSeq(text, 1, 0) /\ f[n] = SubSeq(text, 1, len)
    <3>1. 0 \in 0..n /\ n \in 0..n
      BY <1>2
    <3>2. f[0] = SubSeq(text, 1, End(0)) /\ f[n] = SubSeq(text, 1, End(n))
      BY <3>1
    <3> QED BY <1>6, <3>2
  <2>3. SubSeq(text, 1, 0) = <<>>
    BY SubSeqEmpty
  <2>4. SubSeq(text, 1, len) = text
    BY SubSeqFull DEF len
  <2> HIDE DEF f
  <2> QED BY <2>1, <2>2, <2>3, <2>4
<1>13. \A k \in 1..n : f[k] = f[k - 1] \o Piece(k)
  <2> SUFFICES ASSUME NEW k \in 1..n
               PROVE  f[k] = f[k - 1] \o Piece(k)
    OBVIOUS
  <2>1. k \in 0..n /\ k - 1 \in 0..n
    BY <1>2
  <2>2. f[k] = SubSeq(text, 1, End(k)) /\ f[k - 1] = SubSeq(text, 1, End(k - 1))
    BY <2>1
  <2> HIDE DEF f, Piece
  <2> QED BY <1>11, <2>2
<1> HIDE DEF f, Piece
<1>14. Joins(Log!Slices(text), f)
  BY <1>4, <1>9, <1>12, <1>13 DEF Joins
<1>15. Log!FlattenSeq(Log!Slices(text)) = text
  BY <1>4, <1>9, <1>12, <1>14, JoinsFlatten
<1> QED BY <1>4, <1>8, <1>9, <1>15 DEF z
-----------------------------------------------------------------------------
(* The text of a Log client                                                *)

\* The Cursor is in the buffer and the slices are not too long; what a client
\* has printed and its server not got yet.
Fits(s) ==
    /\ s \in Log!Client_Session
    /\ Len(s.buffer) + 1 <= BufferSize
    /\ \A j \in 1..Len(s.out) : Len(s.out[j]) \in 1..SliceSize
Unsent(s) == Log!FlattenSeq(s.out) \o s.buffer

LEMMA FitsTypes ==
    ASSUME NEW s, Fits(s)
    PROVE  /\ s.buffer \in Seq(Chars) /\ s.out \in Seq(Seq(Chars)) /\ Len(s.buffer) \in Nat
           /\ Log!FlattenSeq(s.out) \in Seq(Chars) /\ Unsent(s) \in Seq(Chars)
<1>1. s.buffer \in Seq(Chars) /\ s.out \in Seq(Seq(Chars))
  BY DEF Fits, Log!Client_Session, Chars
<1>2. Log!FlattenSeq(s.out) \in Seq(Chars)
  BY <1>1, FlattenType
<1>3. Unsent(s) \in Seq(Chars)
  BY <1>1, <1>2, ConcatProperties DEF Unsent
<1> QED BY <1>1, <1>2, <1>3

\* The slices of a text behind those there are.
LEMMA SlicesBehind ==
    ASSUME NEW out \in Seq(Seq(Chars)), \A j \in 1..Len(out) : Len(out[j]) \in 1..SliceSize,
           NEW text \in Seq(Chars), NEW u, u = out \o Log!Slices(text)
    PROVE  /\ u \in Seq(Seq(Chars)) /\ \A j \in 1..Len(u) : Len(u[j]) \in 1..SliceSize
           /\ Log!FlattenSeq(u) = Log!FlattenSeq(out) \o text
<1> DEFINE t == Log!Slices(text)
<1>1. /\ t \in Seq(Seq(Chars)) /\ \A k \in 1..Len(t) : Len(t[k]) \in 1..SliceSize
      /\ Log!FlattenSeq(t) = text
  BY SlicesEffect
<1> HIDE DEF t
<1>2. u = out \o t
  BY DEF t
<1>3. /\ u \in Seq(Seq(Chars)) /\ Len(u) = Len(out) + Len(t)
      /\ \A i \in 1..(Len(out) + Len(t)) : u[i] = IF i <= Len(out) THEN out[i] ELSE t[i - Len(out)]
  BY <1>1, <1>2, ConcatProperties
<1>4. \A j \in 1..Len(u) : Len(u[j]) \in 1..SliceSize
  <2> SUFFICES ASSUME NEW j \in 1..(Len(out) + Len(t))
               PROVE  Len(u[j]) \in 1..SliceSize
    BY <1>3
  <2>1. Len(out) \in Nat /\ Len(t) \in Nat
    BY <1>1
  <2>2. CASE j <= Len(out)
    <3>1. u[j] = out[j] /\ j \in 1..Len(out)
      BY <1>3, <2>1, <2>2
    <3> QED BY <3>1
  <2>3. CASE ~(j <= Len(out))
    <3>1. u[j] = t[j - Len(out)] /\ j - Len(out) \in 1..Len(t)
      BY <1>3, <2>1, <2>3
    <3> QED BY <1>1, <3>1
  <2> QED BY <2>2, <2>3
<1>5. Log!FlattenSeq(out \o t) = Log!FlattenSeq(out) \o Log!FlattenSeq(t)
  BY <1>1, FlattenConcat
<1> QED BY <1>1, <1>2, <1>3, <1>4, <1>5

LEMMA FlushEffect ==
    ASSUME NEW s, Fits(s)
    PROVE  /\ Fits(Log!Flush(s)) /\ Unsent(Log!Flush(s)) = Unsent(s)
           /\ Log!Flush(s).buffer = <<>>
<1> DEFINE out == s.out \o Log!Slices(s.buffer)
           t == Log!Flush(s)
<1>0. s.buffer \in Seq(Chars) /\ s.out \in Seq(Seq(Chars)) /\ Log!FlattenSeq(s.out) \in Seq(Chars)
  BY FitsTypes
<1>1. /\ out \in Seq(Seq(Chars)) /\ \A j \in 1..Len(out) : Len(out[j]) \in 1..SliceSize
      /\ Log!FlattenSeq(out) = Log!FlattenSeq(s.out) \o s.buffer
  BY <1>0, SlicesBehind DEF Fits
<1> HIDE DEF out
<1>2. t = [buffer |-> <<>>, out |-> out]
  BY DEF Log!Flush, out
<1> HIDE DEF t
<1>3. t.buffer = <<>> /\ t.out = out /\ Len(<<>>) = 0
  BY <1>2
<1>4. t \in Log!Client_Session
  BY <1>1, <1>2 DEF Log!Client_Session, Chars
<1>5. Fits(t)
  BY <1>1, <1>3, <1>4, LogSizes DEF Fits
<1>6. Log!FlattenSeq(out) \o <<>> = Log!FlattenSeq(out)
  BY <1>1, FlattenType, ConcatEmptySeq
<1>7. Unsent(t) = Unsent(s)
  BY <1>1, <1>3, <1>6 DEF Unsent
<1> QED BY <1>3, <1>5, <1>7 DEF t

LEMMA PutEffect ==
    ASSUME NEW s, Fits(s), NEW msg \in Seq(Chars)
    PROVE  Fits(Log!Put(s, msg)) /\ Unsent(Log!Put(s, msg)) = Unsent(s) \o msg
<1>0. /\ s.buffer \in Seq(Chars) /\ s.out \in Seq(Seq(Chars)) /\ Len(s.buffer) \in Nat
      /\ Log!FlattenSeq(s.out) \in Seq(Chars) /\ Unsent(s) \in Seq(Chars)
  BY FitsTypes
<1>1. CASE msg = <<>>
  <2>1. Log!Put(s, msg) = s
    BY <1>1 DEF Log!Put
  <2> QED BY <1>0, <1>1, <2>1, ConcatEmptySeq
<1>2. CASE msg # <<>> /\ Len(msg) > BufferSize - (Len(s.buffer) + 1)
  <2> DEFINE p == Log!Flush(s)
             out == p.out \o Log!Slices(msg)
             t == Log!Put(s, msg)
  <2>1. Fits(p) /\ Unsent(p) = Unsent(s) /\ p.buffer = <<>>
    BY FlushEffect
  <2>2. t = [p EXCEPT !.out = p.out \o Log!Slices(msg)]
    BY <1>2 DEF Log!Put
  <2> HIDE DEF p
  <2>3. p.out \in Seq(Seq(Chars)) /\ Log!FlattenSeq(p.out) \in Seq(Chars) /\ p \in Log!Client_Session
    BY <2>1, FitsTypes DEF Fits
  <2>4. /\ out \in Seq(Seq(Chars)) /\ \A j \in 1..Len(out) : Len(out[j]) \in 1..SliceSize
        /\ Log!FlattenSeq(out) = Log!FlattenSeq(p.out) \o msg
    BY <2>1, <2>3, SlicesBehind DEF Fits
  <2>5. t = [p EXCEPT !.out = out]
    BY <2>2
  <2> HIDE DEF out, t
  <2>6. t \in Log!Client_Session /\ t.buffer = <<>> /\ t.out = out
    BY <2>1, <2>3, <2>4, <2>5 DEF Log!Client_Session, Chars
  <2>7. Fits(t)
    BY <2>1, <2>4, <2>6 DEF Fits
  <2>8. Unsent(s) = Log!FlattenSeq(p.out)
    BY <2>1, <2>3, ConcatEmptySeq DEF Unsent
  <2>9. Unsent(t) = Log!FlattenSeq(out)
    BY <2>4, <2>6, FlattenType, ConcatEmptySeq DEF Unsent
  <2> QED BY <2>4, <2>7, <2>8, <2>9 DEF t
<1>3. CASE msg # <<>> /\ ~(Len(msg) > BufferSize - (Len(s.buffer) + 1))
  <2> DEFINE buf == s.buffer \o msg
             t == Log!Put(s, msg)
  <2>1. t = [s EXCEPT !.buffer = buf]
    BY <1>3 DEF Log!Put
  <2>2. buf \in Seq(Chars) /\ Len(buf) = Len(s.buffer) + Len(msg) /\ Len(msg) \in Nat
    BY <1>0, ConcatProperties
  <2>3. Len(buf) + 1 <= BufferSize
    BY <1>0, <1>3, <2>2, LogSizes
  <2>4. (Log!FlattenSeq(s.out) \o s.buffer) \o msg = Log!FlattenSeq(s.out) \o buf
    <3> DEFINE a == Log!FlattenSeq(s.out)
               b == s.buffer
    <3>1. a \in Seq(Chars) /\ b \in Seq(Chars)
      BY <1>0
    <3> HIDE DEF a, b
    <3>2. (a \o b) \o msg = a \o (b \o msg)
      BY <3>1, ConcatAssociative
    <3> QED BY <3>2 DEF a, b
  <2> HIDE DEF buf, t
  <2>5. t \in Log!Client_Session /\ t.buffer = buf /\ t.out = s.out
    BY <2>1, <2>2 DEF Fits, Log!Client_Session, Chars
  <2>6. Fits(t)
    BY <2>3, <2>5 DEF Fits
  <2>7. Unsent(t) = Unsent(s) \o msg
    BY <2>4, <2>5 DEF Unsent
  <2> QED BY <2>6, <2>7 DEF t
<1> QED BY <1>1, <1>2, <1>3

LEMMA InfoEffect ==
    ASSUME NEW s, Fits(s), NEW msg \in Seq(Chars), msg # <<>>, NEW newline \in BOOLEAN
    PROVE  Fits(Log!Info(s, msg, newline)) /\ Unsent(Log!Info(s, msg, newline)) = Unsent(s) \o msg
<1>1. CASE ~newline
  <2>1. Log!Info(s, msg, newline) = Log!Put(s, msg)
    BY <1>1 DEF Log!Info
  <2> QED BY <2>1, PutEffect
<1>2. CASE newline
  <2> DEFINE n == Len(msg)
             front == SubSeq(msg, 1, n - 1)
             last == <<msg[n]>>
             a == Log!Put(s, front)
             b == Log!Put(a, last)
  <2>1. n \in Nat \ {0} /\ n - 1 \in Int /\ 1 \in 1..n /\ n \in 1..n
    OBVIOUS
  <2>2. last \in Seq(Chars)
    BY <2>1
  <2>3. front \in Seq(Chars)
    <3>1. \A i \in 1..(n - 1) : msg[i] \in Chars
      BY <2>1
    <3> HIDE DEF n
    <3> QED BY <2>1, <3>1, SubSeqProperties
  <2>4. front \o last = msg
    <3>1. SubSeq(msg, 1, n) = SubSeq(msg, 1, n - 1) \o <<msg[n]>>
      BY <2>1, SubSeqRecursiveSecond
    <3>2. SubSeq(msg, 1, n) = msg
      BY SubSeqFull
    <3> QED BY <3>1, <3>2
  <2>5. Log!Info(s, msg, newline) = Log!Flush(b)
    BY <1>2 DEF Log!Info, Log!Front, Log!Last
  <2> HIDE DEF n, front, last
  <2>6. Fits(a) /\ Unsent(a) = Unsent(s) \o front
    BY <2>3, PutEffect
  <2> HIDE DEF a
  <2>7. Fits(b) /\ Unsent(b) = Unsent(a) \o last
    BY <2>2, <2>6, PutEffect
  <2> HIDE DEF b
  <2>8. Fits(Log!Flush(b)) /\ Unsent(Log!Flush(b)) = Unsent(b)
    BY <2>7, FlushEffect
  <2>9. Unsent(s) \in Seq(Chars)
    BY FitsTypes
  <2>10. (Unsent(s) \o front) \o last = Unsent(s) \o (front \o last)
    BY <2>2, <2>3, <2>9, ConcatAssociative
  <2> QED BY <2>4, <2>5, <2>6, <2>7, <2>8, <2>10
<1> QED BY <1>1, <1>2
\* The text of the first n characters.
Printed(n) == [j \in 1..n |-> j]

\* What the server has got of a client and what it has not make up what the
\* client has printed.
LogText ==
    /\ logSession \in [LogClients -> Log!Client_Session]
    /\ logPrinted \in [LogClients -> 0..MaxChars]
    /\ logReceived \in [LogClients -> Seq(Chars)]
    /\ \A c \in LogClients : /\ Fits(logSession[c])
                             /\ logReceived[c] \o Unsent(logSession[c]) = Printed(logPrinted[c])

LEMMA LogTextInit ==
    ASSUME Log!Init
    PROVE  LogText
<1> DEFINE s == [buffer |-> <<>>, out |-> <<>>]
<1>1. s.buffer = <<>> /\ s.out = <<>> /\ Len(<<>>) = 0 /\ <<>> \in Seq(Chars) /\ <<>> \in Seq(Seq(Chars))
  OBVIOUS
<1>2. s \in Log!Client_Session
  BY <1>1 DEF Log!Client_Session, Chars
<1>3. /\ logSession = [c \in LogClients |-> s] /\ logPrinted = [c \in LogClients |-> 0]
      /\ logReceived = [c \in LogClients |-> <<>>]
  BY DEF Log!Init
<1> HIDE DEF s
<1>4. Fits(s)
  BY <1>1, <1>2, LogSizes DEF Fits
<1>5. <<>> \o Unsent(s) = <<>>
  BY <1>1, FlattenEmpty DEF Unsent
<1>6. Printed(0) = <<>>
  BY DEF Printed
<1> QED BY <1>1, <1>2, <1>3, <1>4, <1>5, <1>6, LogSizes DEF LogText

\* A call adds its text to what the server has not got.
LEMMA LogCall ==
    ASSUME LogText, NEW c \in LogClients, NEW k \in 0..MaxChars, NEW newline \in BOOLEAN,
           Log!Call(c, k, newline)
    PROVE  LogText'
<1> DEFINE s == logSession[c]
           n == logPrinted[c]
           msg == [j \in 1..k |-> n + j]
           t == logSession'[c]
           r == logReceived[c]
<1>0. /\ MaxChars \in Nat /\ n \in 0..MaxChars /\ n + k <= MaxChars /\ k \in Nat /\ n \in Nat
      /\ Fits(s) /\ r \in Seq(Chars) /\ r \o Unsent(s) = Printed(n) /\ logReceived' = logReceived
  <2>1. n \in 0..MaxChars /\ Fits(s) /\ r \in Seq(Chars) /\ r \o Unsent(s) = Printed(n)
    BY DEF LogText
  <2>2. n + k <= MaxChars /\ logReceived' = logReceived
    BY DEF Log!Call
  <2> HIDE DEF s, n, r
  <2> QED BY <2>1, <2>2, LogSizes
<1>1. /\ logSession' = [logSession EXCEPT ![c] = t] /\ logPrinted' = [logPrinted EXCEPT ![c] = n + k]
      /\ t = IF k = 0 THEN Log!Flush(s) ELSE Log!Info(s, msg, newline)
  BY DEF Log!Call, LogText
<1> HIDE DEF s, n, t, r
<1>2. msg \in Seq(Chars) /\ Len(msg) = k /\ \A j \in 1..k : msg[j] = n + j
  BY <1>0 DEF Chars
<1> HIDE DEF msg
<1>3. Fits(t) /\ Unsent(t) = Unsent(s) \o msg
  <2>1. CASE k = 0
    <3>1. msg = <<>> /\ Unsent(s) \in Seq(Chars)
      BY <1>0, <1>2, <2>1, FitsTypes
    <3> QED BY <1>0, <1>1, <2>1, <3>1, FlushEffect, ConcatEmptySeq
  <2>2. CASE k # 0
    <3>1. msg # <<>>
      BY <1>2, <2>2
    <3>2. t = Log!Info(s, msg, newline)
      BY <1>1, <2>2
    <3> QED BY <1>0, <1>2, <3>1, <3>2, InfoEffect
  <2> QED BY <2>1, <2>2
<1>4. (r \o Unsent(s)) \o msg = r \o Unsent(t)
  <2> DEFINE u == Unsent(s)
  <2>1. u \in Seq(Chars)
    BY <1>0, FitsTypes
  <2> HIDE DEF u
  <2>2. (r \o u) \o msg = r \o (u \o msg)
    <3>1. r \in Seq(Chars) /\ msg \in Seq(Chars)
      BY <1>0, <1>2
    <3> QED BY <2>1, <3>1, ConcatAssociative
  <2> QED BY <1>3, <2>2 DEF u
<1>5. Printed(n) \o msg = Printed(n + k)
  <2> DEFINE p == Printed(n)
             q == Printed(n + k)
  <2>1. /\ p \in Seq(Chars) /\ Len(p) = n /\ \A j \in 1..n : p[j] = j
        /\ q \in Seq(Chars) /\ Len(q) = n + k /\ \A j \in 1..(n + k) : q[j] = j
    BY <1>0 DEF Printed, Chars
  <2> HIDE DEF p, q
  <2>2. /\ p \o msg \in Seq(Chars) /\ Len(p \o msg) = n + k
        /\ \A j \in 1..(n + k) : (p \o msg)[j] = IF j <= n THEN p[j] ELSE msg[j - n]
    <3>1. /\ p \o msg \in Seq(Chars) /\ Len(p \o msg) = Len(p) + Len(msg)
          /\ \A j \in 1..(Len(p) + Len(msg)) : (p \o msg)[j] = IF j <= Len(p) THEN p[j] ELSE msg[j - Len(p)]
      <4>1. p \in Seq(Chars) /\ msg \in Seq(Chars)
        BY <1>2, <2>1
      <4> QED BY <4>1, ConcatProperties
    <3> QED BY <1>2, <2>1, <3>1
  <2>3. \A j \in 1..(n + k) : (p \o msg)[j] = q[j]
    <3> SUFFICES ASSUME NEW j \in 1..(n + k)
                 PROVE  (p \o msg)[j] = j
      BY <2>1
    <3>1. CASE j <= n
      BY <1>0, <2>1, <2>2, <3>1
    <3>2. CASE ~(j <= n)
      <4>1. j - n \in 1..k
        BY <1>0, <3>2
      <4>2. msg[j - n] = n + (j - n)
        BY <1>2, <4>1
      <4> QED BY <1>0, <2>2, <3>2, <4>2
    <3> QED BY <3>1, <3>2
  <2>4. p \o msg = q
    <3> DEFINE w == p \o msg
    <3> HIDE DEF w
    <3>1. w \in Seq(Chars) /\ Len(w) = Len(q) /\ \A j \in 1..Len(w) : w[j] = q[j]
      BY <2>1, <2>2, <2>3 DEF w
    <3>2. w = q
      BY <2>1, <3>1, SeqEqual
    <3> QED BY <3>2 DEF w
  <2> QED BY <2>4 DEF p, q
<1>6. t \in Log!Client_Session
  BY <1>3 DEF Fits
<1>7. /\ logSession' \in [LogClients -> Log!Client_Session] /\ logPrinted' \in [LogClients -> 0..MaxChars]
      /\ logReceived' \in [LogClients -> Seq(Chars)]
  BY <1>0, <1>1, <1>6 DEF LogText
<1>8. ASSUME NEW d \in LogClients
      PROVE  /\ Fits(logSession'[d])
             /\ logReceived'[d] \o Unsent(logSession'[d]) = Printed(logPrinted'[d])
  <2>1. CASE d = c
    <3>1. logSession'[d] = t /\ logPrinted'[d] = n + k /\ logReceived'[d] = r
      BY <1>0, <1>1, <1>8, <2>1 DEF LogText, r
    <3> QED BY <1>0, <1>3, <1>4, <1>5, <3>1
  <2>2. CASE d # c
    <3>1. logSession'[d] = logSession[d] /\ logPrinted'[d] = logPrinted[d] /\ logReceived'[d] = logReceived[d]
      BY <1>0, <1>1, <1>8, <2>2 DEF LogText
    <3> QED BY <1>8, <3>1 DEF LogText
  <2> QED BY <2>1, <2>2
<1> QED BY <1>7, <1>8 DEF LogText

\* An RPC moves a slice from what the server has not got to what it has.
LEMMA LogWrite ==
    ASSUME LogText, NEW c \in LogClients, Log!write(c)
    PROVE  LogText'
<1> DEFINE s == logSession[c]
           t == [logSession[c] EXCEPT !.out = Tail(logSession[c].out)]
           r == logReceived[c]
           h == Head(logSession[c].out)
<1>0. /\ Fits(s) /\ r \in Seq(Chars) /\ r \o Unsent(s) = Printed(logPrinted[c])
      /\ UNCHANGED logPrinted /\ s.out # <<>>
  BY DEF Log!write, LogText
<1>1. logSession' = [logSession EXCEPT ![c] = t] /\ logReceived' = [logReceived EXCEPT ![c] = r \o h]
  BY DEF Log!write, Log!Genode_Write, LogText
<1>2. h = Head(s.out) /\ t = [s EXCEPT !.out = Tail(s.out)]
  OBVIOUS
<1> HIDE DEF s, t, r, h
<1> DEFINE o == s.out
           u == Tail(o)
           b == s.buffer
           fu == Log!FlattenSeq(u)
<1>3. o \in Seq(Seq(Chars)) /\ b \in Seq(Chars) /\ s \in Log!Client_Session /\ o # <<>>
  BY <1>0, FitsTypes DEF Fits
<1>4. /\ h \in Seq(Chars) /\ u \in Seq(Seq(Chars)) /\ Len(u) = Len(o) - 1
      /\ \A i \in 1..Len(u) : u[i] = o[i + 1]
  BY <1>2, <1>3, HeadTailProperties
<1>5. Log!FlattenSeq(o) = h \o fu
  BY <1>2, <1>3, FlattenHead
<1>6. fu \in Seq(Chars)
  BY <1>4, FlattenType
<1>7. t \in Log!Client_Session /\ t.out = u /\ t.buffer = b
  BY <1>2, <1>3, <1>4 DEF Log!Client_Session, Chars
<1>8. \A j \in 1..Len(o) : Len(o[j]) \in 1..SliceSize
  BY <1>0 DEF Fits
<1> HIDE DEF o, u, fu
<1>9. \A j \in 1..Len(u) : Len(u[j]) \in 1..SliceSize
  <2>1. \A j \in 1..Len(u) : j + 1 \in 1..Len(o)
    BY <1>3, <1>4
  <2> QED BY <1>4, <1>8, <2>1
<1>10. Fits(t)
  BY <1>0, <1>7, <1>9 DEF Fits
<1>11. Unsent(s) = (h \o fu) \o b /\ Unsent(t) = fu \o b
  BY <1>5, <1>7 DEF Unsent, o, fu
<1> HIDE DEF b
<1>12. (h \o fu) \o b = h \o (fu \o b)
  <2>1. h \in Seq(Chars) /\ fu \in Seq(Chars) /\ b \in Seq(Chars)
    BY <1>3, <1>4, <1>6
  <2> QED BY <2>1, ConcatAssociative
<1>13. fu \o b \in Seq(Chars)
  BY <1>3, <1>6, ConcatProperties
<1>14. r \o h \in Seq(Chars)
  BY <1>0, <1>4, ConcatProperties
<1>15. (r \o h) \o (fu \o b) = r \o (h \o (fu \o b))
  <2> DEFINE v == fu \o b
  <2>1. v \in Seq(Chars)
    BY <1>13
  <2> HIDE DEF v
  <2>2. (r \o h) \o v = r \o (h \o v)
    BY <1>0, <1>4, <2>1, ConcatAssociative
  <2> QED BY <2>2 DEF v
<1>16. (r \o h) \o Unsent(t) = Printed(logPrinted[c])
  BY <1>0, <1>11, <1>12, <1>15
<1>17. /\ logSession' \in [LogClients -> Log!Client_Session] /\ logPrinted' \in [LogClients -> 0..MaxChars]
       /\ logReceived' \in [LogClients -> Seq(Chars)]
  BY <1>0, <1>1, <1>7, <1>14 DEF LogText
<1>18. ASSUME NEW d \in LogClients
       PROVE  /\ Fits(logSession'[d])
              /\ logReceived'[d] \o Unsent(logSession'[d]) = Printed(logPrinted'[d])
  <2>1. CASE d = c
    <3>1. logSession'[d] = t /\ logPrinted'[d] = logPrinted[c] /\ logReceived'[d] = r \o h
      BY <1>0, <1>1, <1>18, <2>1 DEF LogText
    <3> QED BY <1>10, <1>16, <3>1
  <2>2. CASE d # c
    <3>1. logSession'[d] = logSession[d] /\ logPrinted'[d] = logPrinted[d] /\ logReceived'[d] = logReceived[d]
      BY <1>0, <1>1, <1>18, <2>2 DEF LogText
    <3> QED BY <1>18, <3>1 DEF LogText
  <2> QED BY <2>1, <2>2
<1> QED BY <1>17, <1>18 DEF LogText

LEMMA LogTextStep ==
    ASSUME LogText, [Log!Next]_log
    PROVE  LogText'
<1>1. CASE UNCHANGED <<logSession, logPrinted, logReceived>>
  BY <1>1 DEF LogText
<1>2. UNCHANGED log \/ Log!register_service => UNCHANGED <<logSession, logPrinted, logReceived>>
  BY DEF log, Log!register_service
<1>3. ASSUME NEW c \in LogClients, Log!create_session(c) \/ Log!destroy_session(c)
      PROVE  UNCHANGED <<logSession, logPrinted, logReceived>>
  BY <1>3 DEF Log!create_session, Log!destroy_session
<1> QED BY <1>1, <1>2, <1>3, LogCall, LogWrite DEF Log!Next

LEMMA LogTextInvariance == PartsSpec => []LogText
<1>1. PartsInit => LogText
  BY LogTextInit DEF PartsInit
<1>2. LogText /\ [PartsNext]_all => LogText'
  BY LogTextStep, PartsStep
<1> QED BY <1>1, <1>2, PTL DEF PartsSpec

\* Nothing a Log client prints is lost, duplicated or reordered: whatever it
\* prints and however long, what the server's Write has got of it, the slices
\* the call under way has still to write and the buffer make up the text
\* (Print, Flush, Write, the Slicer).
THEOREM PrintedInOrder == PartsSpec => []TextInOrder
<1>1. ASSUME LogText
      PROVE  TextInOrder
  <2> SUFFICES ASSUME NEW c \in LogClients
               PROVE  logReceived[c] \o Log!FlattenSeq(logSession[c].out) \o logSession[c].buffer
                         = [j \in 1..logPrinted[c] |-> j]
    BY DEF TextInOrder, Log!TextInOrder
  <2> DEFINE r == logReceived[c]
             f == Log!FlattenSeq(logSession[c].out)
             b == logSession[c].buffer
  <2>1. r \in Seq(Chars) /\ r \o Unsent(logSession[c]) = Printed(logPrinted[c]) /\ Fits(logSession[c])
    BY <1>1 DEF LogText
  <2>2. f \in Seq(Chars) /\ b \in Seq(Chars)
    BY <2>1, FitsTypes
  <2>3. r \o (f \o b) = Printed(logPrinted[c])
    BY <2>1 DEF Unsent
  <2> HIDE DEF r, f, b
  <2>4. (r \o f) \o b = r \o (f \o b)
    BY <2>1, <2>2, ConcatAssociative
  <2> QED BY <2>3, <2>4 DEF r, f, b, Printed
<1> QED BY <1>1, LogTextInvariance, PTL

\* Every variable of the four parts keeps its type; caches, buffers, cursors
\* and slices stay within their sizes for every size of them, and the heap
\* holds what sessions point to.
THEOREM PartsTypes == PartsSpec => []TypesOK
<1>1. LogHomes /\ LogText => Log!TypeOK
  BY DEF LogHomes, LogText, Log!TypeOK, Fits, Chars
<1>2. MemoryHomes => Memory!TypeOK
  BY DEF MemoryHomes
<1>3. MainInv => Main!TypeOK
  BY DEF MainInv
<1>4. TypeOK /\ Log!TypeOK /\ Memory!TypeOK /\ Main!TypeOK => TypesOK
  BY DEF TypesOK
<1> QED BY <1>1, <1>2, <1>3, <1>4, MessageTypeCorrect, PartsMessage, LogHomesInvariance,
           LogTextInvariance, MemoryInvariance, MainInvariance, PTL
=============================================================================
