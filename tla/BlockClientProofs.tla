-------------------------- MODULE BlockClientProofs --------------------------
(***************************************************************************)
(* Theorems on the client side of block sessions on Genode, for any number *)
(* of sessions, requests, cells, packets and slots of the cache.           *)
(*                                                                         *)
(* First comes the loop of Update_Request, by induction on its turns: it   *)
(* takes the acknowledgement of the request that is updated, at most, and  *)
(* keeps all the others, unless it has an identifier that was used twice.  *)
(* Four invariants rest on it:                                             *)
(*   Base      types, one connection per session, unique numbers, and      *)
(*             unique identifiers but for the tainted ones;                *)
(*   Finished  each packet on the way is that of one pending request, and  *)
(*             in one place, so that a request is finished by its own;     *)
(*   Kept      every request has its cell of its connection's buffer;      *)
(*   Somewhere a pending request has a packet on the way.                  *)
(* They hold whatever the application does.  Finished says nothing about   *)
(* tainted identifiers, Kept nothing about strayed connections, Somewhere  *)
(* about neither: what the contracts leave to the application beyond that  *)
(* would break them.                                                       *)
(***************************************************************************)
EXTENDS BlockClient, FiniteSetTheorems, WellFoundedInduction, TLAPS

-----------------------------------------------------------------------------
(* The loop of Update_Request                                              *)

\* Counting up from 0 reaches every number up to n.
LEMMA CountUp ==
    ASSUME NEW n \in Nat, NEW S, 0 \in S, \A i \in 0..n : i < n /\ i \in S => i + 1 \in S
    PROVE  0..n \subseteq S
<1> SUFFICES ASSUME (0..n) \ S # {}
             PROVE  FALSE
  OBVIOUS
<1> DEFINE R == OpToRel(<, Nat)
           T == (0..n) \ S
<1>1. PICK x \in T : \A y \in T : ~(<<y, x>> \in R)
  <2> HIDE DEF R
  <2>1. T \subseteq Nat /\ T # {}
    OBVIOUS
  <2> HIDE DEF T
  <2> QED BY <2>1, NatLessThanWellFounded, WFMin DEF R
<1>2. x \in 0..n /\ x \notin S
  OBVIOUS
<1>3. \A y \in T : ~(y < x)
  <2>1. \A y \in T : <<y, x>> \in Nat \X Nat
    OBVIOUS
  <2> QED BY <1>1, <2>1 DEF OpToRel
<1>4. x # 0
  BY <1>2
<1>5. x - 1 \in 0..n /\ x - 1 < x /\ x - 1 < n
  BY <1>2, <1>4
<1>6. x - 1 \in S
  BY <1>3, <1>5
<1>7. (x - 1) + 1 \in S
  BY <1>5, <1>6
<1> QED BY <1>2, <1>7

\* What one turn of the loop does.
Turn(u, i, id) == Matched(update_response_queue(u, i), i, id)

\* The recursive function there is.
LEMMA TurnsExist ==
    ASSUME NEW before, NEW id
    PROVE  /\ Turns(before, id)[0] = before
           /\ \A i \in 1..CacheLast : Turns(before, id)[i] = Turn(Turns(before, id)[i - 1], i, id)
<1> DEFINE Body(f, n) == [i \in 0..n |-> IF i = 0 THEN before ELSE Turn(f[i - 1], i, id)]
           S == {n \in 0..CacheLast : \E f : f = Body(f, n)}
<1>0. CacheLast \in Nat \ {0}
  BY SizesAssumption
<1>1. 0 \in S
  <2> DEFINE f == [i \in 0..0 |-> before]
  <2>1. f = Body(f, 0)
    OBVIOUS
  <2> HIDE DEF f
  <2>2. 0 \in 0..CacheLast
    BY <1>0
  <2> QED BY <2>1, <2>2
<1>2. ASSUME NEW n \in 0..CacheLast, n < CacheLast, n \in S
      PROVE  n + 1 \in S
  <2>1. PICK f : f = Body(f, n)
    BY <1>2
  <2> DEFINE g == [i \in 0..(n + 1) |-> IF i = n + 1 THEN Turn(f[n], n + 1, id) ELSE f[i]]
  <2>2. g = Body(g, n + 1)
    <3>1. ASSUME NEW i \in 0..(n + 1)
          PROVE  g[i] = IF i = 0 THEN before ELSE Turn(g[i - 1], i, id)
      <4>1. CASE i = n + 1
        <5>1. i # 0 /\ g[i] = Turn(f[n], n + 1, id) /\ i - 1 = n /\ n \in 0..(n + 1) /\ n # n + 1
          BY <4>1, <1>2
        <5>2. g[n] = f[n]
          BY <5>1
        <5> QED BY <4>1, <5>1, <5>2
      <4>2. CASE i \in 0..n
        <5>1. g[i] = f[i] /\ i # n + 1
          BY <4>2, <1>2
        <5>2. f[i] = IF i = 0 THEN before ELSE Turn(f[i - 1], i, id)
          BY <4>2, <2>1
        <5>3. i # 0 => i - 1 \in 0..(n + 1) /\ i - 1 # n + 1
          BY <4>2, <1>2
        <5>4. i # 0 => g[i - 1] = f[i - 1]
          BY <5>3
        <5> QED BY <5>1, <5>2, <5>4
      <4> QED BY <4>1, <4>2, <1>2
    <3>2. g = [i \in 0..(n + 1) |-> g[i]]
      OBVIOUS
    <3> HIDE DEF g
    <3> QED BY <3>1, <3>2
  <2>3. n + 1 \in 0..CacheLast
    BY <1>0, <1>2
  <2> HIDE DEF g
  <2> QED BY <2>2, <2>3
<1>3. CacheLast \in S
  <2> HIDE DEF S
  <2>1. 0..CacheLast \subseteq S
    BY <1>0, <1>1, <1>2, CountUp
  <2> QED BY <1>0, <2>1
<1>4. PICK f : f = Body(f, CacheLast)
  BY <1>3
<1>5. Turns(before, id) = CHOOSE g : g = Body(g, CacheLast)
  BY DEF Turns, Turn
<1>6. Turns(before, id) = Body(Turns(before, id), CacheLast)
  BY <1>4, <1>5
<1> DEFINE h == Turns(before, id)
<1>7. h = Body(h, CacheLast)
  BY <1>6
<1> HIDE DEF h
<1>8. h[0] = before /\ \A i \in 1..CacheLast : h[i] = Turn(h[i - 1], i, id)
  BY <1>0, <1>7
<1> QED BY <1>8 DEF h

CacheSlots == {Invalid} \cup [valid: {TRUE}, ack: Acks]
Caches == [1..CacheLast -> CacheSlots]
LoopStates ==
    [status: {"Pending", "Ok", "Error"}, by: 0..MaxPackets, cache: Caches, queue: Seq(Acks)]

\* The acknowledgements in the queue qu, in the cache ca, and in both.
Queued(qu) == {qu[j] : j \in 1..Len(qu)}
Cached(ca) == {ca[i].ack : i \in {k \in 1..CacheLast : ca[k].valid}}
Fetched(ca, qu) == Queued(qu) \cup Cached(ca)

\* Those without the identifiers in T.
Clean(T, ca, qu) == {x \in Fetched(ca, qu) : x.tag \notin T}

\* They have different identifiers.
Apart(T, ca, qu) ==
    /\ \A j, k \in 1..Len(qu) : qu[j].tag \notin T /\ qu[j].tag = qu[k].tag => j = k
    /\ \A j \in 1..Len(qu), i \in 1..CacheLast :
          qu[j].tag \notin T /\ ca[i].valid => qu[j].tag # ca[i].ack.tag
    /\ \A i, k \in 1..CacheLast :
          /\ ca[i].valid /\ ca[k].valid /\ ca[i].ack.tag \notin T
          /\ ca[i].ack.tag = ca[k].ack.tag
          => i = k

LEMMA CacheTypes ==
    ASSUME NEW ca \in Caches, NEW i \in 1..CacheLast
    PROVE  /\ ca[i] \in CacheSlots
           /\ ca[i].valid \in BOOLEAN
           /\ ca[i].valid => ca[i].ack \in Acks
           /\ ~ca[i].valid => ca[i] = Invalid
<1>1. ca[i] \in CacheSlots
  BY DEF Caches
<1>2. CASE ca[i] = Invalid
  BY <1>1, <1>2 DEF Invalid
<1>3. CASE ca[i] \in [valid: {TRUE}, ack: Acks]
  BY <1>1, <1>3
<1> QED BY <1>1, <1>2, <1>3 DEF CacheSlots

LEMMA FirstAck ==
    ASSUME NEW q \in Seq(Acks), q # <<>>
    PROVE  /\ Head(q) = q[1] /\ Head(q) \in Acks
           /\ Len(q) \in Nat \ {0}
           /\ Tail(q) \in Seq(Acks) /\ Len(Tail(q)) = Len(q) - 1
           /\ \A j \in 1..(Len(q) - 1) : Tail(q)[j] = q[j + 1] /\ j + 1 \in 1..Len(q)
           /\ \A j \in 1..Len(q) : j = 1 \/ (j - 1 \in 1..(Len(q) - 1) /\ q[j] = Tail(q)[j - 1])
OBVIOUS

LEMMA SeqFacts ==
    ASSUME NEW S, NEW q \in Seq(S)
    PROVE  /\ Len(q) \in Nat /\ \A i \in DOMAIN q : q[i] \in S
           /\ q # <<>> => Tail(q) \in Seq(S) /\ Len(Tail(q)) = Len(q) - 1
OBVIOUS

\* Fetching moves an acknowledgement from the queue to the slot.
LEMMA FetchEffect ==
    ASSUME NEW u \in LoopStates, NEW i \in 1..CacheLast, NEW T
    PROVE  LET v == update_response_queue(u, i)
           IN  /\ v \in LoopStates /\ v.status = u.status /\ v.by = u.by
               /\ Len(v.queue) <= Len(u.queue)
               /\ Apart(T, u.cache, u.queue) => Apart(T, v.cache, v.queue)
               /\ Fetched(v.cache, v.queue) = Fetched(u.cache, u.queue)
<1> DEFINE v == update_response_queue(u, i)
           ca == u.cache
           qu == u.queue
<1>0. Len(qu) \in Nat
  BY DEF LoopStates
<1>1. CASE ca[i].valid \/ qu = <<>>
  BY <1>0, <1>1 DEF update_response_queue
<1>2. CASE ~ca[i].valid /\ qu # <<>>
  <2>1. ca \in Caches /\ qu \in Seq(Acks)
    BY DEF LoopStates
  <2> DEFINE x == Head(qu)
             cb == [ca EXCEPT ![i] = [valid |-> TRUE, ack |-> x]]
  <2>2. /\ x = qu[1] /\ x \in Acks /\ Len(qu) \in Nat \ {0}
        /\ Tail(qu) \in Seq(Acks) /\ Len(Tail(qu)) = Len(qu) - 1
        /\ \A j \in 1..(Len(qu) - 1) : Tail(qu)[j] = qu[j + 1] /\ j + 1 \in 1..Len(qu)
        /\ \A j \in 1..Len(qu) : j = 1 \/ (j - 1 \in 1..(Len(qu) - 1) /\ qu[j] = Tail(qu)[j - 1])
    BY <1>2, <2>1, FirstAck
  <2>3. v = [u EXCEPT !.queue = Tail(qu), !.cache = cb]
    <3>1. v = [u EXCEPT !.queue = Tail(qu), !.cache[i] = [valid |-> TRUE, ack |-> x]]
      BY <1>2 DEF update_response_queue
    <3> QED BY <3>1 DEF LoopStates
  <2> HIDE DEF x
  <2>4. /\ cb \in Caches
        /\ cb[i].valid /\ cb[i].ack = x
        /\ \A k \in 1..CacheLast : k # i => cb[k] = ca[k]
    <3>1. [valid |-> TRUE, ack |-> x] \in CacheSlots
      BY <2>2 DEF CacheSlots
    <3> QED BY <2>1, <3>1 DEF Caches
  <2> HIDE DEF cb
  <2>5. v \in LoopStates /\ v.status = u.status /\ v.by = u.by /\ v.cache = cb /\ v.queue = Tail(qu)
    BY <2>2, <2>3, <2>4 DEF LoopStates
  <2>6. ASSUME Apart(T, ca, qu)
        PROVE  Apart(T, cb, Tail(qu))
    <3>1. \A j, k \in 1..Len(Tail(qu)) :
             Tail(qu)[j].tag \notin T /\ Tail(qu)[j].tag = Tail(qu)[k].tag => j = k
      BY <2>2, <2>6 DEF Apart
    <3>2. ASSUME NEW j \in 1..Len(Tail(qu)), NEW k \in 1..CacheLast, cb[k].valid,
                 Tail(qu)[j].tag \notin T
          PROVE  Tail(qu)[j].tag # cb[k].ack.tag
      <4>1. j + 1 \in 1..Len(qu) /\ Tail(qu)[j] = qu[j + 1] /\ j + 1 # 1 /\ 1 \in 1..Len(qu)
        BY <2>2
      <4>2. CASE k = i
        BY <2>2, <2>4, <2>6, <3>2, <4>1, <4>2 DEF Apart
      <4>3. CASE k # i
        <5>1. cb[k] = ca[k]
          BY <2>4, <4>3
        <5>2. ca[k].valid
          BY <3>2, <5>1
        <5>3. qu[j + 1].tag # ca[k].ack.tag
          BY <2>6, <3>2, <4>1, <5>2 DEF Apart
        <5> QED BY <4>1, <5>1, <5>3
      <4> QED BY <4>2, <4>3
    <3>3. ASSUME NEW j \in 1..CacheLast, NEW k \in 1..CacheLast,
                 cb[j].valid, cb[k].valid, cb[j].ack.tag \notin T,
                 cb[j].ack.tag = cb[k].ack.tag
          PROVE  j = k
      <4>1. 1 \in 1..Len(qu) /\ x = qu[1]
        BY <2>2
      <4>2. x.tag \notin T => \A l \in 1..CacheLast : ca[l].valid => ca[l].ack.tag # x.tag
        BY <2>6, <4>1 DEF Apart
      <4>3. CASE j = i \/ k = i
        BY <2>4, <3>3, <4>2, <4>3
      <4>4. CASE j # i /\ k # i
        BY <2>4, <2>6, <3>3, <4>4 DEF Apart
      <4> QED BY <4>3, <4>4
    <3> QED BY <3>1, <3>2, <3>3 DEF Apart
  <2>7. ASSUME NEW y
        PROVE  y \in Fetched(cb, Tail(qu)) <=> y \in Fetched(ca, qu)
    <3>1. (\E j \in 1..Len(qu) : y = qu[j]) <=> y = x \/ \E j \in 1..Len(Tail(qu)) : y = Tail(qu)[j]
      BY <2>2
    <3>2. (\E k \in 1..CacheLast : cb[k].valid /\ y = cb[k].ack)
             <=> y = x \/ \E k \in 1..CacheLast : ca[k].valid /\ y = ca[k].ack
      BY <1>2, <2>4
    <3> QED BY <3>1, <3>2 DEF Fetched, Queued, Cached
  <2>8. Fetched(cb, Tail(qu)) = Fetched(ca, qu)
    BY <2>7
  <2>9. Len(Tail(qu)) <= Len(qu)
    BY <2>2
  <2> HIDE DEF v
  <2> QED BY <2>5, <2>6, <2>8, <2>9 DEF v
<1> QED BY <1>1, <1>2

\* From u to v, an acknowledgement with the identifier is taken away at most,
\* and it is what the request is finished by.
Takes(T, u, v, id) ==
    /\ v \in LoopStates /\ v.queue = u.queue
    /\ Fetched(v.cache, v.queue) \subseteq Fetched(u.cache, u.queue)
    /\ Apart(T, u.cache, u.queue) => Apart(T, v.cache, v.queue)
    /\ \/ v = u
       \/ ~Apart(T, u.cache, u.queue)
       \/ id \in T /\ Clean(T, v.cache, v.queue) = Clean(T, u.cache, u.queue)
       \/ /\ v.status \in {"Ok", "Error"}
          /\ \E x \in Clean(T, u.cache, u.queue) :
                /\ x.tag = id /\ x.serial = v.by
                /\ Clean(T, v.cache, v.queue) = Clean(T, u.cache, u.queue) \ {x}

LEMMA MatchEffect ==
    ASSUME NEW u \in LoopStates, NEW i \in 1..CacheLast, NEW id, NEW T
    PROVE  Takes(T, u, Matched(u, i, id), id)
<1> DEFINE v == Matched(u, i, id)
           ca == u.cache
           qu == u.queue
<1>1. CASE ~(ca[i].valid /\ ca[i].ack.tag = id)
  BY <1>1 DEF Matched, Takes
<1>2. CASE ca[i].valid /\ ca[i].ack.tag = id
  <2>1. ca \in Caches /\ qu \in Seq(Acks)
    BY DEF LoopStates
  <2> DEFINE x == ca[i].ack
             cb == [ca EXCEPT ![i] = Invalid]
             st == IF x.success THEN "Ok" ELSE "Error"
  <2>2. x \in Acks /\ x.tag = id
    BY <1>2, <2>1, CacheTypes
  <2>3. v = [u EXCEPT !.status = st, !.by = x.serial, !.cache = cb]
    <3>1. v = [u EXCEPT !.status = st, !.by = x.serial, !.cache[i] = Invalid]
      BY <1>2 DEF Matched
    <3> QED BY <3>1 DEF LoopStates
  <2>4. st \in {"Ok", "Error"} /\ x.serial \in 0..MaxPackets
    BY <2>2, SizesAssumption DEF Acks
  <2> HIDE DEF st
  <2>5. /\ cb \in Caches /\ ~cb[i].valid
        /\ \A k \in 1..CacheLast : k # i => cb[k] = ca[k]
    BY <2>1 DEF Caches, CacheSlots, Invalid
  <2>6. x \in Fetched(ca, qu)
    BY <1>2 DEF Fetched, Queued, Cached
  <2>7. ASSUME NEW y
        PROVE  /\ y \in Fetched(cb, qu) => y \in Fetched(ca, qu)
               /\ y \in Fetched(ca, qu) /\ y # x => y \in Fetched(cb, qu)
    <3>1. (\E k \in 1..CacheLast : cb[k].valid /\ y = cb[k].ack)
             => \E k \in 1..CacheLast : ca[k].valid /\ y = ca[k].ack
      <4> HIDE DEF cb
      <4> QED BY <2>5
    <3>2. y # x /\ (\E k \in 1..CacheLast : ca[k].valid /\ y = ca[k].ack)
             => \E k \in 1..CacheLast : cb[k].valid /\ y = cb[k].ack
      <4> HIDE DEF cb
      <4> QED BY <2>5
    <3> HIDE DEF cb, x
    <3> QED BY <3>1, <3>2 DEF Fetched, Queued, Cached
  <2>8. ASSUME id \notin T, Apart(T, ca, qu)
        PROVE  x \notin Fetched(cb, qu)
    <3>1. \A j \in 1..Len(qu) : qu[j] # x
      BY <1>2, <2>8 DEF Apart
    <3>2. \A k \in 1..CacheLast : k # i /\ ca[k].valid => ca[k].ack # x
      BY <1>2, <2>8 DEF Apart
    <3>3. \A k \in 1..CacheLast : cb[k].valid => cb[k].ack # x
      <4> HIDE DEF cb, x
      <4> QED BY <2>5, <3>2
    <3> HIDE DEF cb, x
    <3> QED BY <3>1, <3>3 DEF Fetched, Queued, Cached
  <2>9. Apart(T, ca, qu) => Apart(T, cb, qu)
    <3> HIDE DEF cb
    <3> QED BY <2>5 DEF Apart
  <2> HIDE DEF cb, x
  <2>10. v \in LoopStates /\ v.status = st /\ v.by = x.serial /\ v.cache = cb /\ v.queue = qu
    BY <2>1, <2>3, <2>4, <2>5 DEF LoopStates
  <2>11. Fetched(cb, qu) \subseteq Fetched(ca, qu)
    BY <2>7
  <2>12. id \in T => Clean(T, cb, qu) = Clean(T, ca, qu)
    BY <2>2, <2>7 DEF Clean
  <2>13. ASSUME id \notin T, Apart(T, ca, qu)
         PROVE  x \in Clean(T, ca, qu) /\ Clean(T, cb, qu) = Clean(T, ca, qu) \ {x}
    BY <2>2, <2>6, <2>7, <2>8, <2>13 DEF Clean
  <2> HIDE DEF v
  <2> QED BY <2>2, <2>4, <2>9, <2>10, <2>11, <2>12, <2>13 DEF v, Takes
<1> QED BY <1>1, <1>2

LEMMA ApartClean ==
    ASSUME NEW T, NEW ca, NEW qu, Apart(T, ca, qu),
           NEW x \in Clean(T, ca, qu), NEW y \in Clean(T, ca, qu), x.tag = y.tag
    PROVE  x = y
<1>1. \A z \in Clean(T, ca, qu) :
         /\ z.tag \notin T
         /\ \/ \E j \in 1..Len(qu) : z = qu[j]
            \/ \E i \in 1..CacheLast : ca[i].valid /\ z = ca[i].ack
  BY DEF Clean, Fetched, Queued, Cached
<1>2. CASE \E j \in 1..Len(qu) : x = qu[j]
  <2>1. PICK j \in 1..Len(qu) : x = qu[j]
    BY <1>2
  <2>2. CASE \E k \in 1..Len(qu) : y = qu[k]
    BY <1>1, <2>1, <2>2 DEF Apart
  <2>3. CASE \E i \in 1..CacheLast : ca[i].valid /\ y = ca[i].ack
    BY <1>1, <2>1, <2>3 DEF Apart
  <2> QED BY <1>1, <2>2, <2>3
<1>3. CASE \E i \in 1..CacheLast : ca[i].valid /\ x = ca[i].ack
  <2>1. PICK i \in 1..CacheLast : ca[i].valid /\ x = ca[i].ack
    BY <1>3
  <2>2. CASE \E k \in 1..Len(qu) : y = qu[k]
    BY <1>1, <2>1, <2>2 DEF Apart
  <2>3. CASE \E k \in 1..CacheLast : ca[k].valid /\ y = ca[k].ack
    BY <1>1, <2>1, <2>3 DEF Apart
  <2> QED BY <1>1, <2>2, <2>3
<1> QED BY <1>1, <1>2, <1>3

\* The whole loop takes one acknowledgement at most, the one of the request,
\* and keeps all the others; with an identifier in T it may take several of
\* that.
Finishes(T, before, after, id) ==
    LET B == Clean(T, before.cache, before.queue)
        A == Clean(T, after.cache, after.queue)
    IN  /\ after \in LoopStates
        /\ Apart(T, after.cache, after.queue)
        /\ \/ after.status = before.status /\ after.by = before.by /\ A = B
           \/ id \in T /\ A = B
           \/ /\ after.status \in {"Ok", "Error"}
              /\ \E x \in B : x.tag = id /\ x.serial = after.by /\ A = B \ {x}

LEMMA LoopEffect ==
    ASSUME NEW T, NEW before \in LoopStates, NEW id, Apart(T, before.cache, before.queue)
    PROVE  Finishes(T, before, Turns(before, id)[CacheLast], id)
<1> DEFINE turn == Turns(before, id)
           S == {i \in 0..CacheLast : Finishes(T, before, turn[i], id)}
<1>0. CacheLast \in Nat \ {0}
  BY SizesAssumption
<1>1. turn[0] = before /\ \A i \in 1..CacheLast : turn[i] = Turn(turn[i - 1], i, id)
  BY TurnsExist
<1> HIDE DEF turn
<1>2. 0 \in S
  BY <1>0, <1>1 DEF Finishes
<1>3. ASSUME NEW i \in 0..CacheLast, i < CacheLast, i \in S
      PROVE  i + 1 \in S
  <2>0. i + 1 \in 1..CacheLast /\ i + 1 \in 0..CacheLast /\ (i + 1) - 1 = i
    BY <1>0, <1>3
  <2> DEFINE u == turn[i]
             v == update_response_queue(u, i + 1)
             w == Matched(v, i + 1, id)
  <2>1. turn[i + 1] = w
    BY <1>1, <2>0 DEF Turn
  <2>2. Finishes(T, before, u, id)
    BY <1>3
  <2> HIDE DEF u
  <2>3. /\ v \in LoopStates /\ v.status = u.status /\ v.by = u.by
        /\ Apart(T, v.cache, v.queue)
        /\ Clean(T, v.cache, v.queue) = Clean(T, u.cache, u.queue)
    <3>1. u \in LoopStates /\ Apart(T, u.cache, u.queue)
      BY <2>2 DEF Finishes
    <3> HIDE DEF v
    <3>2. /\ v \in LoopStates /\ v.status = u.status /\ v.by = u.by
          /\ Apart(T, v.cache, v.queue)
          /\ Fetched(v.cache, v.queue) = Fetched(u.cache, u.queue)
      BY <2>0, <3>1, FetchEffect DEF v
    <3> QED BY <3>2 DEF Clean
  <2> HIDE DEF v
  <2> DEFINE B == Clean(T, before.cache, before.queue)
             V == Clean(T, v.cache, v.queue)
             W == Clean(T, w.cache, w.queue)
  <2>4. /\ w \in LoopStates
        /\ Apart(T, w.cache, w.queue)
        /\ \/ w = v
           \/ id \in T /\ W = V
           \/ /\ w.status \in {"Ok", "Error"}
              /\ \E x \in V : x.tag = id /\ x.serial = w.by /\ W = V \ {x}
    <3> DEFINE k == i + 1
    <3>1. k \in 1..CacheLast /\ v \in LoopStates
      BY <2>0, <2>3
    <3> HIDE DEF k
    <3>2. Takes(T, v, Matched(v, k, id), id)
      BY <3>1, MatchEffect
    <3>3. w = Matched(v, k, id)
      BY DEF k
    <3> HIDE DEF w
    <3> QED BY <2>3, <3>2, <3>3 DEF Takes
  <2> HIDE DEF w
  <2>5. \/ v.status = before.status /\ v.by = before.by /\ V = B
        \/ id \in T /\ V = B
        \/ /\ v.status \in {"Ok", "Error"}
           /\ \E y \in B : y.tag = id /\ y.serial = v.by /\ V = B \ {y}
    <3> DEFINE U == Clean(T, u.cache, u.queue)
    <3>1. \/ u.status = before.status /\ u.by = before.by /\ U = B
          \/ id \in T /\ U = B
          \/ /\ u.status \in {"Ok", "Error"}
             /\ \E y \in B : y.tag = id /\ y.serial = u.by /\ U = B \ {y}
      BY <2>2 DEF Finishes
    <3>2. U = V
      BY <2>3
    <3> HIDE DEF B, U, V
    <3> QED BY <2>3, <3>1, <3>2
  <2>6. \A y \in B : y.tag = id => id \notin T
    BY DEF Clean
  <2>7. CASE w = v
    <3>1. Finishes(T, before, v, id)
      BY <2>3, <2>5 DEF Finishes
    <3> QED BY <2>0, <2>1, <2>7, <3>1
  <2>8. CASE id \in T /\ W = V
    <3>1. W = B
      <4> HIDE DEF B, V, W
      <4> QED BY <2>5, <2>6, <2>8
    <3>2. Finishes(T, before, w, id)
      BY <2>4, <2>8, <3>1 DEF Finishes
    <3> QED BY <2>0, <2>1, <3>2
  <2>9. ASSUME w.status \in {"Ok", "Error"},
               NEW x \in V, x.tag = id, x.serial = w.by, W = V \ {x}
        PROVE  i + 1 \in S
    <3>1. V = B
      <4> SUFFICES ASSUME NEW y \in B, y.tag = id, V = B \ {y}
                   PROVE  FALSE
        BY <2>5
      <4>1. x \in B /\ x # y
        BY <2>9
      <4> QED BY <2>9, <4>1, ApartClean
    <3>2. \E y \in B : y.tag = id /\ y.serial = w.by /\ W = B \ {y}
      BY <2>9, <3>1
    <3>3. Finishes(T, before, w, id)
      BY <2>4, <2>9, <3>2 DEF Finishes
    <3> QED BY <2>0, <2>1, <3>3
  <2> QED BY <2>4, <2>7, <2>8, <2>9
<1>4. CacheLast \in S
  <2> HIDE DEF S
  <2>1. 0..CacheLast \subseteq S
    BY <1>0, <1>2, <1>3, CountUp
  <2> QED BY <1>0, <2>1
<1> QED BY <1>4 DEF turn

\* The loop keeps the types, and only takes from the queue and the cache,
\* whatever is there.
LEMMA LoopTypes ==
    ASSUME NEW before \in LoopStates, NEW id
    PROVE  /\ Turns(before, id)[CacheLast] \in LoopStates
           /\ Len(Turns(before, id)[CacheLast].queue) <= Len(before.queue)
           /\ Fetched(Turns(before, id)[CacheLast].cache, Turns(before, id)[CacheLast].queue)
                 \subseteq Fetched(before.cache, before.queue)
<1> DEFINE turn == Turns(before, id)
           B == Fetched(before.cache, before.queue)
           S == {i \in 0..CacheLast : /\ turn[i] \in LoopStates
                                      /\ Len(turn[i].queue) <= Len(before.queue)
                                      /\ Fetched(turn[i].cache, turn[i].queue) \subseteq B}
<1>0. CacheLast \in Nat \ {0} /\ \A u \in LoopStates : Len(u.queue) \in Nat
  BY SizesAssumption DEF LoopStates
<1>1. turn[0] = before /\ \A i \in 1..CacheLast : turn[i] = Turn(turn[i - 1], i, id)
  BY TurnsExist
<1> HIDE DEF turn
<1>2. 0 \in S
  BY <1>0, <1>1
<1>3. ASSUME NEW i \in 0..CacheLast, i < CacheLast, i \in S
      PROVE  i + 1 \in S
  <2>0. i + 1 \in 1..CacheLast /\ i + 1 \in 0..CacheLast /\ (i + 1) - 1 = i
    BY <1>0, <1>3
  <2> DEFINE u == turn[i]
             v == update_response_queue(u, i + 1)
             w == Matched(v, i + 1, id)
  <2>1. /\ turn[i + 1] = w /\ u \in LoopStates /\ Len(u.queue) <= Len(before.queue)
        /\ Fetched(u.cache, u.queue) \subseteq B
    BY <1>1, <1>3, <2>0 DEF Turn
  <2> HIDE DEF u
  <2>2. /\ v \in LoopStates /\ Len(v.queue) <= Len(u.queue)
        /\ Fetched(v.cache, v.queue) = Fetched(u.cache, u.queue)
    BY <2>0, <2>1, FetchEffect
  <2> HIDE DEF v
  <2>3. /\ w \in LoopStates /\ w.queue = v.queue
        /\ Fetched(w.cache, w.queue) \subseteq Fetched(v.cache, v.queue)
    BY <2>0, <2>2, MatchEffect DEF Takes
  <2> HIDE DEF w
  <2>4. Len(w.queue) <= Len(before.queue) /\ Fetched(w.cache, w.queue) \subseteq B
    BY <1>0, <2>1, <2>2, <2>3
  <2> QED BY <2>0, <2>1, <2>3, <2>4
<1>4. CacheLast \in S
  <2> HIDE DEF S
  <2>1. 0..CacheLast \subseteq S
    BY <1>0, <1>2, <1>3, CountUp
  <2> QED BY <1>0, <2>1
<1> QED BY <1>4 DEF turn

-----------------------------------------------------------------------------
(* Types, connections and numbers                                          *)

Packet == [tag: Request_Id, serial: 1..MaxPackets]
Used_Request ==
    [status: {"Allocated", "Pending", "Ok", "Error"}, id: Request_Id, session: Tags,
     cell: 1..Cells, conn: Conns, serial: 1..MaxPackets, by: 0..MaxPackets]

\* TypeOK, with the domains of the cache and of the streams.
Types ==
    /\ device \in [Sessions -> 0..MaxConns]
    /\ tag \in [Sessions -> Tags]
    /\ req \in [Requests -> Client_Request]
    /\ H_Cache \in Caches
    /\ buffer \in [Conns -> [1..Cells -> 0..MaxPackets]]
    /\ submitted \in [Conns -> SUBSET Packet]
    /\ unread \in [Conns -> Seq(1..MaxPackets)]
    /\ acked \in [Conns -> Seq(Acks)]
    /\ \A c \in Conns : Len(unread[c]) <= QueueSize /\ Len(acked[c]) <= QueueSize
    /\ signal \subseteq 1..conns
    /\ todo \subseteq Requests
    /\ call = NoCall \/ call \in Sessions \X Requests
    /\ conns \in 0..MaxConns
    /\ packets \in 0..MaxPackets
    /\ tainted \subseteq Request_Id
    /\ strayed \subseteq 1..conns

\* A connection is that of one session, to which the requests on it are
\* assigned; one that has not been opened yet is nobody's.
Connected ==
    /\ \A s \in Sessions : device[s] <= conns
    /\ \A s \in Sessions : device[s] # 0 => tag[s] # NoTag
    /\ \A s, t \in Sessions : device[s] = device[t] /\ device[s] # 0 => s = t
    /\ \A r \in Requests : Live(r) => req[r].conn <= conns
    /\ \A s \in Sessions, r \in Requests :
          Live(r) /\ device[s] = req[r].conn => tag[s] = req[r].session
    /\ \A c \in Conns : conns < c => submitted[c] = {} /\ unread[c] = <<>>

\* Packets are those of one request, and identifiers too until they are
\* tainted.
Numbered ==
    /\ \A r \in Requests : Live(r) => req[r].serial <= packets
    /\ \A q, r \in Requests :
          Live(q) /\ Live(r) /\ req[q].id = req[r].id /\ req[q].id \notin tainted => q = r
    /\ \A q, r \in Requests : Live(q) /\ Live(r) /\ req[q].serial = req[r].serial => q = r

Base == Types /\ Connected /\ Numbered

LEMMA RequestTypes ==
    ASSUME Types, NEW r \in Requests
    PROVE  /\ req[r] \in Client_Request
           /\ Live(r) => req[r] \in Used_Request
           /\ ~Live(r) => req[r] = Raw
           /\ Raw \in Client_Request /\ Raw.status = "Raw"
           /\ Used_Request \subseteq Client_Request
           /\ \A x \in Used_Request : x.status # "Raw"
<1>1. req[r] \in Client_Request /\ Client_Request = {Raw} \cup Used_Request
  BY DEF Types, Client_Request, Used_Request
<1>2. Raw.status = "Raw" /\ \A x \in Used_Request : x.status # "Raw"
  BY DEF Raw, Used_Request
<1> QED BY <1>1, <1>2 DEF Live

\* A session in use has a connection, with its buffer and queues.
LEMMA Device ==
    ASSUME Types, Connected, NEW s \in Sessions, device[s] # 0
    PROVE  device[s] \in Conns /\ device[s] \in 1..conns
BY SizesAssumption DEF Types, Connected, Conns

\* Assigning the status of a request, and what it is finished by, leaves its
\* other components.
LEMMA Assign ==
    ASSUME Types, NEW r \in Requests, Live(r),
           NEW st \in {"Allocated", "Pending", "Ok", "Error"}, NEW b \in 0..MaxPackets,
           \/ req' = [req EXCEPT ![r].status = st, ![r].by = b]
           \/ req' = [req EXCEPT ![r].status = st] /\ b = req[r].by
    PROVE  /\ req' \in [Requests -> Client_Request]
           /\ req'[r].status = st /\ req'[r].by = b
           /\ req'[r].id = req[r].id /\ req'[r].serial = req[r].serial
           /\ req'[r].session = req[r].session /\ req'[r].cell = req[r].cell
           /\ req'[r].conn = req[r].conn
           /\ \A q \in Requests : q # r => req'[q] = req[q]
<1>1. /\ req[r] \in Used_Request /\ Used_Request \subseteq Client_Request
      /\ req \in [Requests -> Client_Request]
  BY RequestTypes DEF Types
<1>2. req' = [req EXCEPT ![r] = req'[r]]
      /\ \/ req'[r] = [req[r] EXCEPT !.status = st, !.by = b]
         \/ req'[r] = [req[r] EXCEPT !.status = st] /\ b = req[r].by
  <2>1. CASE req' = [req EXCEPT ![r].status = st, ![r].by = b]
    BY <1>1, <2>1
  <2>2. CASE req' = [req EXCEPT ![r].status = st] /\ b = req[r].by
    BY <1>1, <2>2
  <2> QED BY <2>1, <2>2
<1>3. /\ req'[r] \in Used_Request /\ req'[r].status = st /\ req'[r].by = b
      /\ req'[r].id = req[r].id /\ req'[r].serial = req[r].serial
      /\ req'[r].session = req[r].session /\ req'[r].cell = req[r].cell
      /\ req'[r].conn = req[r].conn
  BY <1>1, <1>2 DEF Used_Request
<1> QED BY <1>1, <1>2, <1>3

\* Numbers stay where no request is given a new one.
LEMMA NumberedFrame ==
    ASSUME Types, Numbered, packets' = packets, tainted \subseteq tainted',
           \A q \in Requests : Live(q)' => /\ Live(q)
                                           /\ req'[q].id = req[q].id
                                           /\ req'[q].serial = req[q].serial
    PROVE  Numbered'
BY DEF Numbered

\* Connections stay where sessions, streams and requests do.
LEMMA ConnectedFrame ==
    ASSUME Connected, UNCHANGED <<device, tag, conns>>,
           \A c \in Conns : conns < c => submitted'[c] = {} /\ unread'[c] = <<>>,
           \A q \in Requests : Live(q)' => /\ Live(q)
                                           /\ req'[q].conn = req[q].conn
                                           /\ req'[q].session = req[q].session
    PROVE  Connected'
BY DEF Connected

LEMMA InitializeBase ==
    ASSUME Base, NEW s \in Sessions, NEW index \in Indexes, Initialize(s, index)
    PROVE  Base'
<1>0. Types /\ Connected /\ Numbered
      /\ UNCHANGED <<req, H_Cache, buffer, submitted, unread, acked, signal, todo, call, packets,
                     tainted, strayed>>
  BY DEF Base, Initialize, streams, history
<1>1. device[s] = 0
  BY <1>0 DEF Initialize, Initialized, Connected
<1>2. CASE UNCHANGED <<conns, device>>
  <2>1. tag' = tag
    BY <1>1, <1>2 DEF Initialize
  <2> QED BY <1>0, <1>2, <2>1 DEF Base, Types, Connected, Numbered, Live
<1>3. CASE conns < MaxConns /\ conns' = conns + 1 /\ device' = [device EXCEPT ![s] = conns + 1]
  <2>1. /\ device'[s] = conns + 1 /\ conns \in Nat /\ conns' \in 0..MaxConns
        /\ device' \in [Sessions -> 0..MaxConns]
        /\ \A t \in Sessions : t # s => device'[t] = device[t]
    BY <1>0, <1>3, SizesAssumption DEF Types
  <2>2. tag' = [tag EXCEPT ![s] = index]
    BY <2>1 DEF Initialize
  <2>3. /\ tag' \in [Sessions -> Tags] /\ tag'[s] = index /\ index # NoTag
        /\ \A t \in Sessions : t # s => tag'[t] = tag[t]
    BY <1>0, <2>2, SessionsAssumption DEF Types, Tags, NoTag
  <2>4. Types'
    <3>1. signal' \subseteq 1..conns' /\ strayed' \subseteq 1..conns'
      BY <1>0, <1>3, <2>1 DEF Types
    <3> QED BY <1>0, <2>1, <2>3, <3>1 DEF Types
  <2>5. Connected'
    <3>1. \A t \in Sessions : device[t] \in Nat /\ device[t] <= conns
      BY <1>0, SizesAssumption DEF Types, Connected
    <3>2. \A t \in Sessions : device'[t] <= conns'
      BY <1>3, <2>1, <3>1
    <3>3. \A t \in Sessions : device'[t] # 0 => tag'[t] # NoTag
      BY <1>0, <2>1, <2>3 DEF Connected
    <3>4. \A t, x \in Sessions : device'[t] = device'[x] /\ device'[t] # 0 => t = x
      <4>1. \A t \in Sessions : t # s => device'[t] # device'[s]
        BY <2>1, <3>1
      <4> QED BY <1>0, <2>1, <4>1 DEF Connected
    <3>5. \A c \in Conns : conns' < c => submitted'[c] = {} /\ unread'[c] = <<>>
      BY <1>0, <1>3, <2>1 DEF Connected, Conns
    <3>6. \A r \in Requests : Live(r)' => Live(r) /\ req'[r] = req[r]
      BY <1>0 DEF Live
    <3>7. \A r \in Requests : Live(r) => req[r].conn \in Nat /\ req[r].conn <= conns
      BY <1>0, RequestTypes DEF Connected, Used_Request, Conns
    <3>8. \A r \in Requests : Live(r)' => req'[r].conn <= conns'
      BY <1>3, <2>1, <3>6, <3>7
    <3>9. \A t \in Sessions, r \in Requests :
             Live(r)' /\ device'[t] = req'[r].conn => tag'[t] = req'[r].session
      <4>1. \A r \in Requests : Live(r)' => device'[s] # req'[r].conn
        BY <2>1, <3>6, <3>7
      <4> QED BY <1>0, <2>1, <2>3, <3>6, <4>1 DEF Connected
    <3> QED BY <3>2, <3>3, <3>4, <3>5, <3>8, <3>9 DEF Connected
  <2>6. Numbered'
    BY <1>0 DEF Numbered, Live
  <2> QED BY <2>4, <2>5, <2>6 DEF Base
<1> QED BY <1>2, <1>3 DEF Initialize, initialize

LEMMA FinalizeBase ==
    ASSUME Base, NEW s \in Sessions, Finalize(s)
    PROVE  Base'
<1> DEFINE c == device[s]
<1>0. /\ Types /\ Connected /\ Numbered /\ c # 0
      /\ device' = [device EXCEPT ![s] = 0]
      /\ signal' = signal \ {c}
      /\ buffer' = [buffer EXCEPT ![c] = [o \in 1..Cells |-> 0]]
      /\ submitted' = [submitted EXCEPT ![c] = {}]
      /\ unread' = [unread EXCEPT ![c] = <<>>]
      /\ acked' = [acked EXCEPT ![c] = <<>>]
      /\ UNCHANGED <<tag, req, H_Cache, todo, call, conns, packets, tainted, strayed>>
  BY DEF Base, Finalize, Initialized, finalize, history
<1>1. c \in Conns
  BY <1>0, Device
<1> HIDE DEF c
<1>2. Types'
  <2>1. device' \in [Sessions -> 0..MaxConns]
    BY <1>0, SizesAssumption DEF Types
  <2>2. buffer' \in [Conns -> [1..Cells -> 0..MaxPackets]]
    BY <1>0, <1>1, SizesAssumption DEF Types
  <2>3. /\ submitted' \in [Conns -> SUBSET Packet] /\ acked' \in [Conns -> Seq(Acks)]
        /\ unread' \in [Conns -> Seq(1..MaxPackets)]
    BY <1>0, <1>1 DEF Types
  <2>4. \A d \in Conns : Len(unread'[d]) <= QueueSize /\ Len(acked'[d]) <= QueueSize
    BY <1>0, <1>1, SizesAssumption DEF Types
  <2> QED BY <1>0, <2>1, <2>2, <2>3, <2>4 DEF Types
<1>3. Connected'
  <2>1. \A t \in Sessions : device'[t] = IF t = s THEN 0 ELSE device[t]
    BY <1>0 DEF Types
  <2>2. \A d \in Conns : /\ submitted'[d] = submitted[d] \/ submitted'[d] = {}
                         /\ unread'[d] = unread[d] \/ unread'[d] = <<>>
    BY <1>0, <1>1 DEF Types
  <2>3. \A t \in Sessions : device'[t] <= conns
    BY <1>0, <2>1, SizesAssumption DEF Connected, Types
  <2>4. \A r \in Requests : Live(r)' => Live(r) /\ req'[r] = req[r] /\ req[r].conn # 0
    BY <1>0, RequestTypes DEF Live, Used_Request, Conns
  <2>5. \A t \in Sessions, r \in Requests :
           Live(r)' /\ device'[t] = req'[r].conn => tag'[t] = req'[r].session
    BY <1>0, <2>1, <2>4 DEF Connected
  <2>6. \A d \in Conns : conns' < d => submitted'[d] = {} /\ unread'[d] = <<>>
    BY <1>0, <2>2 DEF Connected
  <2> QED BY <1>0, <2>1, <2>3, <2>4, <2>5, <2>6 DEF Connected
<1>4. Numbered'
  BY <1>0 DEF Numbered, Live
<1> QED BY <1>2, <1>3, <1>4 DEF Base

\* A request that is given a packet has a number nobody else has, and an
\* identifier nobody else has unless it is tainted.
LEMMA AllocateBase ==
    ASSUME Base, NEW s \in Sessions, NEW r \in Requests, NEW k \in Kinds, NEW i \in Request_Id,
           Allocate_Request(s, r, k, i)
    PROVE  Base'
<1> DEFINE c == device[s]
<1>0. /\ Types /\ Connected /\ Numbered /\ c # 0
      /\ tag[s] \in Tags /\ ~Live(r) /\ packets < MaxPackets /\ packets \in Nat
      /\ UNCHANGED <<device, tag, H_Cache, submitted, unread, acked, signal, todo, call, conns, strayed>>
  BY SizesAssumption DEF Base, Types, Allocate_Request, Initialized, Live
<1>1. c \in Conns /\ c \in 1..conns
  BY <1>0, Device
<1>2. /\ tainted \subseteq tainted' /\ tainted' \subseteq Request_Id
      /\ i \notin tainted' => \A q \in Requests : Live(q) => req[q].id # i
  BY <1>0 DEF Allocate_Request, Live, Types
<1>3. CASE UNCHANGED <<req, buffer, packets>>
  <2>1. Types'
    BY <1>0, <1>2, <1>3 DEF Types
  <2>2. Connected'
    BY <1>0, <1>3 DEF Connected, Live
  <2>3. Numbered'
    BY <1>0, <1>2, <1>3, NumberedFrame DEF Live
  <2> QED BY <2>1, <2>2, <2>3 DEF Base
<1>4. ASSUME NEW o \in 1..Cells,
             req' = [req EXCEPT ![r] =
                         [status |-> "Allocated", id |-> i, session |-> tag[s],
                          cell |-> o, conn |-> c, serial |-> packets + 1, by |-> 0]],
             buffer' = [buffer EXCEPT ![c][o] = packets + 1],
             packets' = packets + 1
      PROVE  Base'
  <2> DEFINE new == [status |-> "Allocated", id |-> i, session |-> tag[s],
                     cell |-> o, conn |-> c, serial |-> packets + 1, by |-> 0]
  <2>1. /\ new \in Used_Request /\ new.id = i /\ new.serial = packets + 1
        /\ new.conn = c /\ new.session = tag[s]
    BY <1>0, <1>1, SizesAssumption DEF Used_Request
  <2>2. req' = [req EXCEPT ![r] = new]
    BY <1>4
  <2> HIDE DEF new
  <2>3. /\ req' \in [Requests -> Client_Request] /\ req'[r] = new
        /\ \A q \in Requests : q # r => req'[q] = req[q]
    BY <1>0, <2>1, <2>2, RequestTypes DEF Types
  <2>4. buffer' \in [Conns -> [1..Cells -> 0..MaxPackets]] /\ packets' \in 0..MaxPackets
    <3> HIDE DEF c
    <3>1. buffer' = [buffer EXCEPT ![c][o] = packets + 1] /\ packets' = packets + 1
      BY <1>4
    <3>2. packets + 1 \in 0..MaxPackets /\ buffer \in [Conns -> [1..Cells -> 0..MaxPackets]]
      BY <1>0, SizesAssumption DEF Types
    <3> QED BY <1>1, <3>1, <3>2
  <2>5. Types'
    BY <1>0, <1>2, <2>3, <2>4 DEF Types
  <2>a. \A q \in Requests : q # r => (Live(q)' <=> Live(q))
    BY <2>3 DEF Live
  <2>6. Connected'
    <3>1. \A q \in Requests : Live(q)' => req'[q].conn <= conns'
      BY <1>0, <1>1, <2>1, <2>3, <2>a DEF Connected
    <3>2. \A t \in Sessions, q \in Requests :
             Live(q)' /\ device'[t] = req'[q].conn => tag'[t] = req'[q].session
      <4>1. \A t \in Sessions : device[t] = c => t = s
        BY <1>0 DEF Connected
      <4> HIDE DEF c
      <4> QED BY <1>0, <2>1, <2>3, <2>a, <4>1 DEF Connected
    <3> QED BY <1>0, <3>1, <3>2 DEF Connected
  <2>7. Numbered'
    <3>1. \A q \in Requests : Live(q) => req[q].serial <= packets /\ req[q].serial \in Nat
      BY <1>0, RequestTypes DEF Numbered, Used_Request
    <3>2. \A q \in Requests : q # r /\ Live(q)' =>
             /\ req'[q] = req[q] /\ Live(q)
             /\ req'[q].serial # new.serial /\ req'[q].serial <= packets + 1
             /\ req'[q].id = i => i \in tainted'
      BY <1>0, <1>2, <2>1, <2>3, <2>a, <3>1
    <3>3. \A q \in Requests : Live(q)' => req'[q].serial <= packets'
      BY <1>0, <1>4, <2>1, <2>3, <3>2
    <3>4. \A q, x \in Requests :
             Live(q)' /\ Live(x)' /\ req'[q].serial = req'[x].serial => q = x
      BY <1>0, <2>1, <2>3, <3>2 DEF Numbered
    <3>5. \A q, x \in Requests :
             Live(q)' /\ Live(x)' /\ req'[q].id = req'[x].id /\ req'[q].id \notin tainted' => q = x
      BY <1>0, <1>2, <2>1, <2>3, <3>2 DEF Numbered
    <3> QED BY <3>3, <3>4, <3>5 DEF Numbered
  <2> QED BY <2>5, <2>6, <2>7 DEF Base
<1> QED BY <1>3, <1>4 DEF Allocate_Request, allocate_request

\* Noting that a request has strayed.
LEMMA StrayTypes ==
    ASSUME Base, NEW s \in Sessions, NEW r \in Requests, device[s] # 0, Live(r), Stray(s, r)
    PROVE  /\ strayed \subseteq strayed' /\ strayed' \subseteq 1..conns
           /\ req[r].conn = device[s] \/ (req[r].conn \in strayed' /\ device[s] \in strayed')
<1>0. Types /\ Connected
  BY DEF Base
<1>1. device[s] \in 1..conns /\ req[r].conn \in Nat \ {0} /\ req[r].conn <= conns
  BY <1>0, Device, RequestTypes DEF Used_Request, Conns, Connected
<1>2. req[r].conn \in 1..conns /\ strayed \subseteq 1..conns
  BY <1>0, <1>1, SizesAssumption DEF Types
<1>3. strayed' = IF req[r].conn = device[s] THEN strayed
                 ELSE strayed \cup {req[r].conn, device[s]}
  BY DEF Stray
<1> QED BY <1>1, <1>2, <1>3

LEMMA EnqueueBase ==
    ASSUME Base, NEW s \in Sessions, NEW r \in Requests, Enqueue(s, r)
    PROVE  Base'
<1> DEFINE c == device[s]
           p == [tag |-> req[r].id, serial |-> req[r].serial]
<1>0. /\ Types /\ Connected /\ Numbered /\ Live(r) /\ c # 0
      /\ UNCHANGED <<device, tag, H_Cache, buffer, acked, signal, todo, conns, packets, tainted>>
  BY DEF Base, Live, Enqueue, Initialized
<1>1. c \in Conns /\ c \in 1..conns /\ strayed' \subseteq 1..conns
  BY <1>0, Device, StrayTypes DEF Enqueue
<1>2. CASE call' = <<s, r>> /\ UNCHANGED <<submitted, unread, req>>
  <2>1. Types'
    BY <1>0, <1>1, <1>2 DEF Types
  <2> QED BY <1>0, <1>2, <2>1 DEF Base, Connected, Numbered, Live
<1>3. CASE /\ Len(unread[c]) < QueueSize
           /\ submitted' = [submitted EXCEPT ![c] = @ \cup {p}]
           /\ unread' = [unread EXCEPT ![c] = Append(@, req[r].serial)]
           /\ req' = [req EXCEPT ![r].status = "Pending"]
           /\ UNCHANGED call
  <2>1. p \in Packet /\ req[r].by \in 0..MaxPackets /\ req[r].serial \in 1..MaxPackets
    BY <1>0, RequestTypes DEF Packet, Used_Request
  <2> HIDE DEF c, p
  <2>2. /\ req' \in [Requests -> Client_Request] /\ req'[r].status = "Pending"
        /\ req'[r].id = req[r].id /\ req'[r].serial = req[r].serial
        /\ req'[r].conn = req[r].conn /\ req'[r].session = req[r].session
        /\ \A q \in Requests : q # r => req'[q] = req[q]
    BY <1>0, <1>3, <2>1, Assign
  <2>3. submitted' \in [Conns -> SUBSET Packet]
    BY <1>0, <1>1, <1>3, <2>1 DEF Types
  <2>4. /\ unread' \in [Conns -> Seq(1..MaxPackets)]
        /\ \A d \in Conns : Len(unread'[d]) <= QueueSize
    <3>1. unread[c] \in Seq(1..MaxPackets)
      BY <1>0, <1>1 DEF Types
    <3> DEFINE v == Append(unread[c], req[r].serial)
    <3>2. v \in Seq(1..MaxPackets) /\ Len(v) = Len(unread[c]) + 1 /\ Len(unread[c]) \in Nat
      BY <2>1, <3>1
    <3>3. Len(v) <= QueueSize
      BY <1>3, <3>2, SizesAssumption
    <3>4. unread' = [unread EXCEPT ![c] = v]
      BY <1>0, <1>3 DEF Types
    <3> HIDE DEF v
    <3> QED BY <1>0, <1>1, <3>2, <3>3, <3>4 DEF Types
  <2>5. Types'
    BY <1>0, <1>1, <1>3, <2>2, <2>3, <2>4 DEF Types
  <2>6. Connected'
    <3>1. \A d \in Conns : conns < d => submitted'[d] = {} /\ unread'[d] = <<>>
      BY <1>0, <1>1, <1>3 DEF Connected, Types, Conns
    <3> QED BY <1>0, <2>2, <3>1, ConnectedFrame DEF Live
  <2>7. Numbered'
    BY <1>0, <2>2, NumberedFrame DEF Live
  <2> QED BY <2>5, <2>6, <2>7 DEF Base
<1> QED BY <1>2, <1>3 DEF Enqueue, enqueue

LEMMA ReleaseBase ==
    ASSUME Base, NEW s \in Sessions, NEW r \in Requests, Release(s, r)
    PROVE  Base'
<1> DEFINE c == device[s]
           o == req[r].cell
<1>0. /\ Types /\ Connected /\ Numbered /\ c # 0 /\ Live(r)
      /\ buffer' = [buffer EXCEPT ![c][o] = 0] /\ req' = [req EXCEPT ![r] = Raw]
      /\ UNCHANGED <<device, tag, H_Cache, submitted, unread, acked, signal, todo, call, conns, packets>>
  BY DEF Base, Release, release, Initialized, Live
<1>1. c \in Conns /\ o \in 1..Cells /\ strayed' \subseteq 1..conns /\ req[r].id \in Request_Id
  BY <1>0, Device, StrayTypes, RequestTypes DEF Used_Request, Release
<1> HIDE DEF c, o
<1>2. /\ req' \in [Requests -> Client_Request] /\ req'[r] = Raw /\ Raw.status = "Raw"
      /\ \A q \in Requests : q # r => req'[q] = req[q]
  BY <1>0, RequestTypes DEF Types
<1>3. buffer' \in [Conns -> [1..Cells -> 0..MaxPackets]]
  BY <1>0, <1>1, SizesAssumption DEF Types
<1>4. tainted \subseteq tainted' /\ tainted' \subseteq Request_Id
  BY <1>0, <1>1 DEF Release, Types
<1>5. Types'
  BY <1>0, <1>1, <1>2, <1>3, <1>4 DEF Types
<1>6. Connected'
  <2>1. \A d \in Conns : conns < d => submitted'[d] = {} /\ unread'[d] = <<>>
    BY <1>0 DEF Connected
  <2> QED BY <1>0, <1>2, <2>1, ConnectedFrame DEF Live
<1>7. Numbered'
  BY <1>0, <1>2, <1>4, NumberedFrame DEF Live
<1> QED BY <1>5, <1>6, <1>7 DEF Base

LEMMA EventBase ==
    ASSUME Base, NEW c \in Conns, Event(c)
    PROVE  Base'
BY DEF Base, Event, streams, history, Types, Connected, Numbered, Live

LEMMA TakeBase ==
    ASSUME Base, NEW c \in Conns, Take(c)
    PROVE  Base'
<1>0. /\ Types /\ Connected /\ Numbered /\ unread[c] # <<>>
      /\ unread' = [unread EXCEPT ![c] = Tail(@)]
      /\ signal' = signal \cup {c} \/ signal' = signal
      /\ UNCHANGED <<device, tag, req, H_Cache, buffer, submitted, acked, todo, call, conns,
                     packets, tainted, strayed>>
  BY DEF Base, Take, history
<1>1. unread[c] \in Seq(1..MaxPackets) /\ Len(unread[c]) <= QueueSize
  BY <1>0 DEF Types
<1> DEFINE v == Tail(unread[c])
<1>2. v \in Seq(1..MaxPackets) /\ Len(v) = Len(unread[c]) - 1 /\ Len(unread[c]) \in Nat
  BY <1>0, <1>1, SeqFacts
<1>3. Len(v) <= QueueSize
  BY <1>1, <1>2, SizesAssumption
<1>4. unread' = [unread EXCEPT ![c] = v]
  BY <1>0 DEF Types
<1> HIDE DEF v
<1>5. /\ unread' \in [Conns -> Seq(1..MaxPackets)]
      /\ \A d \in Conns : Len(unread'[d]) <= QueueSize
  BY <1>0, <1>2, <1>3, <1>4 DEF Types
<1>6. c \in 1..conns
  BY <1>0, SizesAssumption DEF Connected, Types, Conns
<1>7. Types'
  BY <1>0, <1>5, <1>6 DEF Types
<1>8. Connected'
  <2>1. \A d \in Conns : conns < d => d # c
    BY <1>0, <1>6 DEF Types, Conns
  <2>2. \A d \in Conns : conns < d => submitted'[d] = {} /\ unread'[d] = <<>>
    BY <1>0, <1>4, <2>1 DEF Connected, Types
  <2> QED BY <1>0, <2>2, ConnectedFrame DEF Live
<1> QED BY <1>0, <1>7, <1>8 DEF Base, Numbered, Live

\* The state in which the loop of Update_Request starts.
Before(s, r) == [status |-> req[r].status, by |-> req[r].by,
                 cache |-> H_Cache, queue |-> acked[device[s]]]

\* What Update_Request finds and leaves, in terms of its loop.
Updated(s, r) ==
    LET after == Turns(Before(s, r), req[r].id)[CacheLast]
    IN  /\ device[s] \in Conns /\ req[r].status = "Pending" /\ Live(r)
        /\ Before(s, r) \in LoopStates
        /\ after \in LoopStates /\ Len(after.queue) <= Len(acked[device[s]])
        /\ Fetched(after.cache, after.queue) \subseteq Fetched(H_Cache, acked[device[s]])
        /\ req' = [req EXCEPT ![r].status = after.status, ![r].by = after.by]
        /\ H_Cache' = after.cache
        /\ acked' = [acked EXCEPT ![device[s]] = after.queue]

LEMMA UpdateEffect ==
    ASSUME Base, NEW r \in Requests, Event_Update(r)
    PROVE  \/ UNCHANGED <<req, H_Cache, acked>>
           \/ \E s \in Sessions : Updated(s, r)
<1> SUFFICES ASSUME ~UNCHANGED <<req, H_Cache, acked>>
             PROVE  \E s \in Sessions : Updated(s, r)
  OBVIOUS
<1>1. /\ Types /\ Connected /\ req[r].status = "Pending" /\ Live(r)
      /\ \E s \in Updaters(r) : Update_Request(s, r)
  BY DEF Base, Event_Update, Live
<1>2. PICK s \in Sessions : device[s] # 0 /\ Update_Request(s, r)
  BY <1>1 DEF Updaters, Initialized
<1> DEFINE after == Turns(Before(s, r), req[r].id)[CacheLast]
<1>3. device[s] \in Conns /\ req[r].by \in 0..MaxPackets
  BY <1>1, <1>2, Device, RequestTypes DEF Used_Request
<1>4. /\ Before(s, r) \in LoopStates
      /\ Before(s, r).queue = acked[device[s]] /\ Before(s, r).cache = H_Cache
  BY <1>1, <1>3 DEF Before, LoopStates, Types
<1>5. /\ after \in LoopStates /\ Len(after.queue) <= Len(acked[device[s]])
      /\ Fetched(after.cache, after.queue) \subseteq Fetched(H_Cache, acked[device[s]])
  BY <1>4, LoopTypes
<1>6. /\ req' = [req EXCEPT ![r].status = after.status, ![r].by = after.by]
      /\ H_Cache' = after.cache /\ acked' = [acked EXCEPT ![device[s]] = after.queue]
  BY <1>2 DEF Update_Request, Before
<1> HIDE DEF after
<1>7. Updated(s, r)
  BY <1>1, <1>3, <1>4, <1>5, <1>6 DEF Updated, after
<1> QED BY <1>7

LEMMA UpdateBase ==
    ASSUME Base, NEW r \in Requests, Event_Update(r)
    PROVE  Base'
<1>0. /\ Types /\ Connected /\ Numbered /\ todo' = todo \ {r}
      /\ UNCHANGED <<device, tag, buffer, submitted, unread, signal, call, conns, packets,
                     tainted, strayed>>
  BY DEF Base, Event_Update, history
<1>1. CASE UNCHANGED <<req, H_Cache, acked>>
  BY <1>0, <1>1 DEF Base, Types, Connected, Numbered, Live
<1>2. ASSUME NEW s \in Sessions, Updated(s, r)
      PROVE  Base'
  <2> DEFINE c == device[s]
             after == Turns(Before(s, r), req[r].id)[CacheLast]
  <2>1. /\ c \in Conns /\ Live(r)
        /\ after \in LoopStates /\ Len(after.queue) <= Len(acked[c])
        /\ req' = [req EXCEPT ![r].status = after.status, ![r].by = after.by]
        /\ H_Cache' = after.cache /\ acked' = [acked EXCEPT ![c] = after.queue]
    BY <1>2 DEF Updated
  <2> HIDE DEF c, after
  <2>2. /\ after.status \in {"Allocated", "Pending", "Ok", "Error"} /\ after.status # "Raw"
        /\ after.by \in 0..MaxPackets /\ after.cache \in Caches /\ after.queue \in Seq(Acks)
    BY <2>1 DEF LoopStates
  <2>3. /\ req' \in [Requests -> Client_Request]
        /\ req'[r].id = req[r].id /\ req'[r].serial = req[r].serial
        /\ req'[r].conn = req[r].conn /\ req'[r].session = req[r].session
        /\ \A q \in Requests : q # r => req'[q] = req[q]
    BY <1>0, <2>1, <2>2, Assign
  <2>4. acked' \in [Conns -> Seq(Acks)] /\ \A d \in Conns : Len(acked'[d]) <= QueueSize
    <3>1. acked' \in [Conns -> Seq(Acks)]
      BY <1>0, <2>1, <2>2 DEF Types
    <3>2. \A d \in Conns : acked'[d] = IF d = c THEN after.queue ELSE acked[d]
      BY <1>0, <2>1 DEF Types
    <3>3. Len(acked[c]) \in Nat /\ Len(after.queue) \in Nat /\ Len(acked[c]) <= QueueSize
      BY <1>0, <2>1, <2>2 DEF Types
    <3> QED BY <1>0, <2>1, <3>1, <3>2, <3>3, SizesAssumption DEF Types
  <2>5. Types'
    BY <1>0, <2>1, <2>2, <2>3, <2>4 DEF Types
  <2>6. Numbered'
    BY <1>0, <2>1, <2>3, NumberedFrame DEF Live
  <2>7. Connected'
    <3>1. \A d \in Conns : conns < d => submitted'[d] = {} /\ unread'[d] = <<>>
      BY <1>0 DEF Connected
    <3> QED BY <1>0, <2>1, <2>3, <3>1, ConnectedFrame DEF Live
  <2> QED BY <2>5, <2>6, <2>7 DEF Base
<1> QED BY <1>1, <1>2, UpdateEffect

LEMMA AcknowledgeBase ==
    ASSUME Base, NEW c \in Conns, NEW p \in submitted[c], NEW success \in BOOLEAN,
           Acknowledge(c, p, success)
    PROVE  Base'
<1> DEFINE x == [tag |-> p.tag, success |-> success, serial |-> p.serial]
<1>0. /\ Types /\ Connected /\ Numbered /\ Len(acked[c]) < QueueSize
      /\ submitted' = [submitted EXCEPT ![c] = @ \ {p}]
      /\ acked' = [acked EXCEPT ![c] = Append(@, x)]
      /\ signal' = IF acked[c] = <<>> THEN signal \cup {c} ELSE signal
      /\ UNCHANGED <<device, tag, req, H_Cache, buffer, unread, todo, call, conns, packets,
                     tainted, strayed>>
  BY DEF Base, Acknowledge, history
<1>1. p \in Packet /\ acked[c] \in Seq(Acks)
  BY <1>0 DEF Types
<1>2. x \in Acks
  BY <1>1 DEF Packet, Acks
<1> HIDE DEF x
<1>3. /\ acked'[c] = Append(acked[c], x) /\ Append(acked[c], x) \in Seq(Acks)
      /\ Len(Append(acked[c], x)) = Len(acked[c]) + 1 /\ Len(acked[c]) \in Nat
      /\ \A d \in Conns : d # c => acked'[d] = acked[d]
  BY <1>0, <1>1, <1>2 DEF Types
<1>4. acked' \in [Conns -> Seq(Acks)] /\ \A d \in Conns : Len(acked'[d]) <= QueueSize
  <2>1. acked' \in [Conns -> Seq(Acks)]
    BY <1>0, <1>3 DEF Types
  <2> QED BY <1>0, <1>3, <2>1, SizesAssumption DEF Types
<1>5. submitted' \in [Conns -> SUBSET Packet]
  BY <1>0 DEF Types
<1>6. c \in 1..conns
  BY <1>0, SizesAssumption DEF Connected, Types, Conns
<1>7. Types'
  BY <1>0, <1>4, <1>5, <1>6 DEF Types
<1>8. \A d \in Conns : submitted'[d] \subseteq submitted[d]
  BY <1>0 DEF Types
<1>9. Connected'
  BY <1>0, <1>8, ConnectedFrame DEF Connected, Live
<1> QED BY <1>0, <1>7, <1>9 DEF Base, Numbered, Live

LEMMA BaseInit ==
    ASSUME Init
    PROVE  Base
<1> USE SizesAssumption, SessionsAssumption
<1>1. H_Cache \in Caches
  BY DEF Init, Caches, CacheSlots
<1>2. req \in [Requests -> Client_Request] /\ \A r \in Requests : ~Live(r)
  BY DEF Init, Client_Request, Live, Raw
<1>3. /\ buffer \in [Conns -> [1..Cells -> 0..MaxPackets]]
      /\ submitted \in [Conns -> SUBSET Packet]
      /\ unread \in [Conns -> Seq(1..MaxPackets)] /\ acked \in [Conns -> Seq(Acks)]
      /\ \A c \in Conns : Len(unread[c]) <= QueueSize /\ Len(acked[c]) <= QueueSize
  BY DEF Init
<1>4. Types
  BY <1>1, <1>2, <1>3 DEF Init, Types, Tags, NoTag
<1> QED BY <1>2, <1>4 DEF Base, Init, Connected, Numbered

\* Whatever is called, in whatever order, the requests keep their types and
\* numbers, the connections their sessions.
LEMMA BaseStep ==
    ASSUME Base, [Next]_vars
    PROVE  Base'
<1>1. CASE UNCHANGED vars
  BY <1>1 DEF vars, streams, history, Base, Types, Connected, Numbered, Live
<1>2. ASSUME NEW s \in Sessions, Finalize(s) \/ \E index \in Indexes : Initialize(s, index)
      PROVE  Base'
  BY <1>2, InitializeBase, FinalizeBase
<1>3. ASSUME NEW s \in Sessions, NEW r \in Requests, NEW k \in Kinds, NEW i \in Request_Id,
             Allocate_Request(s, r, k, i)
      PROVE  Base'
  BY <1>3, AllocateBase
<1>4. ASSUME NEW s \in Sessions, NEW r \in Requests, Enqueue(s, r)
      PROVE  Base'
  BY <1>4, EnqueueBase
<1>5. ASSUME NEW s \in Sessions, NEW r \in Requests, Release(s, r)
      PROVE  Base'
  BY <1>5, ReleaseBase
<1>6. ASSUME NEW c \in Conns, Event(c)
      PROVE  Base'
  BY <1>6, EventBase
<1>7. ASSUME NEW c \in Conns, Take(c)
      PROVE  Base'
  BY <1>7, TakeBase
<1>8. ASSUME NEW r \in Requests, Event_Update(r)
      PROVE  Base'
  BY <1>8, UpdateBase
<1>9. ASSUME NEW c \in Conns, NEW p \in submitted[c], NEW success \in BOOLEAN,
             Acknowledge(c, p, success)
      PROVE  Base'
  BY <1>9, AcknowledgeBase
<1> QED BY <1>1, <1>2, <1>3, <1>4, <1>5, <1>6, <1>7, <1>8, <1>9 DEF Next

LEMMA BaseInvariance == Spec => []Base
<1>1. Init => Base
  BY BaseInit
<1>2. Base /\ [Next]_vars => Base'
  BY BaseStep
<1> QED BY <1>1, <1>2, PTL DEF Spec

\* The variables of the block client keep their types, the loop over the cache
\* included, and no queue of a stream grows beyond its size, for any
\* number of sessions, requests, cells and cache slots (update_request,
\* allocate_request, block_client.cc).
THEOREM ClientTypes == Spec => []TypeOK
<1>1. Base => TypeOK
  <2> SUFFICES ASSUME Base
               PROVE  TypeOK
    OBVIOUS
  <2>0. Types
    BY DEF Base
  <2>1. \A i \in 1..CacheLast : H_Cache[i].valid => H_Cache[i].ack \in Acks
    BY <2>0, CacheTypes DEF Types
  <2>2. \A c \in Conns : /\ submitted[c] \subseteq [tag: Request_Id, serial: 1..MaxPackets]
                         /\ \A i \in DOMAIN unread[c] : unread[c][i] \in 1..MaxPackets
                         /\ \A i \in DOMAIN acked[c] : acked[c][i] \in Acks
    BY <2>0, SeqFacts DEF Types, Packet
  <2> QED BY <2>0, <2>1, <2>2 DEF Types, TypeOK
<1> QED BY <1>1, BaseInvariance, PTL
-----------------------------------------------------------------------------
(* Acknowledgements                                                        *)

\* The packet or acknowledgement x is that of a pending request.
Owed(x) == \E r \in Requests :
              req[r].status = "Pending" /\ req[r].id = x.tag /\ req[r].serial = x.serial

\* The packets of connection c, the acknowledgements in its queue, and those
\* in its queue or in the cache, without the tainted ones.
Sent(c) == {x \in submitted[c] : x.tag \notin tainted}
Waiting(c) == {x \in Queued(acked[c]) : x.tag \notin tainted}
Back(c) == Clean(tainted, H_Cache, acked[c])

\* Each is in one place: with the server, in the queue of one connection or in
\* one slot of the cache.
Tokens ==
    /\ \A c \in Conns : \A x \in Sent(c) : Owed(x)
    /\ \A c \in Conns : \A x \in Back(c) : Owed(x)
    /\ \A c \in Conns : Apart(tainted, H_Cache, acked[c])
    /\ \A c, d \in Conns : \A x \in Sent(c), y \in Sent(d) : x.tag = y.tag => c = d
    /\ \A c, d \in Conns : \A x \in Sent(c), y \in Back(d) : x.tag # y.tag
    /\ \A c, d \in Conns : c # d => \A x \in Waiting(c), y \in Waiting(d) : x.tag # y.tag

\* The inductive invariant under which a request is finished by its own packet.
Finished == Base /\ Tokens /\ CompletedByOwn

LEMMA OwedOne ==
    ASSUME Numbered, NEW x, Owed(x), x.tag \notin tainted,
           NEW r \in Requests, Live(r), req[r].id = x.tag
    PROVE  req[r].status = "Pending" /\ req[r].serial = x.serial
BY DEF Owed, Numbered, Live

LEMMA NoneQueued == Queued(<<>>) = {}
BY DEF Queued

LEMMA ApartMore ==
    ASSUME NEW T, NEW U, T \subseteq U, NEW ca, NEW qu, Apart(T, ca, qu)
    PROVE  Apart(U, ca, qu) /\ Apart(U, ca, <<>>)
BY DEF Apart

LEMMA CleanParts ==
    ASSUME NEW c \in Conns
    PROVE  /\ Waiting(c) \subseteq Back(c)
           /\ \A x \in Back(c) : x.tag \notin tainted
           /\ \A x \in Back(c) : x \in Waiting(c) \/ x \in Cached(H_Cache)
BY DEF Waiting, Back, Clean, Fetched

\* Where nothing is submitted or fetched, and packets are forgotten at most
\* with their connection, every token stays where it was.
LEMMA TokensFrame ==
    ASSUME Tokens, H_Cache' = H_Cache, tainted \subseteq tainted',
           \A c \in Conns : submitted'[c] \subseteq submitted[c],
           \A c \in Conns : acked'[c] = acked[c] \/ acked'[c] = <<>>,
           \A q \in Requests : req[q].status = "Pending" /\ req[q].id \notin tainted' =>
              req'[q] = req[q]
    PROVE  Tokens'
<1>1. \A x : Owed(x) /\ x.tag \notin tainted' => Owed(x)'
  BY DEF Owed
<1>2. \A c \in Conns : Queued(acked'[c]) \subseteq Queued(acked[c])
  BY NoneQueued
<1>3. /\ \A c \in Conns : Waiting(c)' \subseteq Waiting(c) /\ Sent(c)' \subseteq Sent(c)
      /\ \A c \in Conns : Back(c)' \subseteq Back(c)
      /\ \A c \in Conns : \A x \in Sent(c)' : x.tag \notin tainted'
      /\ \A c \in Conns : \A x \in Back(c)' : x.tag \notin tainted'
  BY <1>2 DEF Waiting, Sent, Back, Clean, Fetched
<1>4. \A c \in Conns : Apart(tainted', H_Cache', acked'[c])
  <2>1. \A c \in Conns : Apart(tainted, H_Cache, acked[c])
    BY DEF Tokens
  <2>2. \A c \in Conns : Apart(tainted', H_Cache, acked[c]) /\ Apart(tainted', H_Cache, <<>>)
    BY <2>1, ApartMore
  <2>3. ASSUME NEW c \in Conns
        PROVE  Apart(tainted', H_Cache', acked'[c])
    BY <2>2
  <2> QED BY <2>3
<1>5. /\ \A c \in Conns : \A x \in Sent(c)' : Owed(x)'
      /\ \A c \in Conns : \A x \in Back(c)' : Owed(x)'
  BY <1>1, <1>3 DEF Tokens
<1>6. /\ \A c, d \in Conns : \A x \in Sent(c)', y \in Sent(d)' : x.tag = y.tag => c = d
      /\ \A c, d \in Conns : c # d => \A x \in Waiting(c)', y \in Waiting(d)' : x.tag # y.tag
  BY <1>3 DEF Tokens
<1>7. \A c, d \in Conns : \A x \in Sent(c)', y \in Back(d)' : x.tag # y.tag
  BY <1>3 DEF Tokens
<1> QED BY <1>4, <1>5, <1>6, <1>7 DEF Tokens

\* A packet that is enqueued has an identifier no other token has.
LEMMA EnqueueTokens ==
    ASSUME Base, Tokens, NEW s \in Sessions, NEW r \in Requests, Enqueue(s, r)
    PROVE  Tokens' /\ (CompletedByOwn => CompletedByOwn')
<1> DEFINE c == device[s]
           p == [tag |-> req[r].id, serial |-> req[r].serial]
<1>0. /\ Types /\ Connected /\ Numbered /\ Live(r) /\ c # 0 /\ req[r].status = "Allocated"
      /\ UNCHANGED <<H_Cache, acked, tainted>>
  BY DEF Base, Live, Enqueue, Initialized
<1>1. c \in Conns
  BY <1>0, Device
<1>2. CASE UNCHANGED <<submitted, req>>
  BY <1>0, <1>2 DEF Tokens, Owed, CompletedByOwn, Sent, Waiting, Back
<1>3. CASE /\ submitted' = [submitted EXCEPT ![c] = @ \cup {p}]
           /\ req' = [req EXCEPT ![r].status = "Pending"]
  <2>1. p.tag = req[r].id /\ p.serial = req[r].serial /\ req[r].by \in 0..MaxPackets
    BY <1>0, RequestTypes DEF Used_Request
  <2> HIDE DEF c, p
  <2>2. /\ req'[r].status = "Pending"
        /\ req'[r].id = req[r].id /\ req'[r].serial = req[r].serial
        /\ \A q \in Requests : q # r => req'[q] = req[q]
    BY <1>0, <1>3, <2>1, Assign
  <2>3. ASSUME NEW x, Owed(x), x.tag \notin tainted
        PROVE  Owed(x)' /\ x.tag # p.tag
    <3>1. x.tag # p.tag
      BY <1>0, <2>1, <2>3, OwedOne
    <3>2. PICK q \in Requests :
             req[q].status = "Pending" /\ req[q].id = x.tag /\ req[q].serial = x.serial
      BY <2>3 DEF Owed
    <3>3. q # r
      BY <1>0, <3>2
    <3> QED BY <2>2, <3>1, <3>2, <3>3 DEF Owed
  <2>4. \A x : x = p => Owed(x)'
    BY <2>1, <2>2 DEF Owed
  <2>5. /\ submitted'[c] = submitted[c] \cup {p}
        /\ \A d \in Conns : d # c => submitted'[d] = submitted[d]
    BY <1>0, <1>1, <1>3 DEF Types
  <2>6. /\ \A d \in Conns : \A x \in Sent(d)' : x \in Sent(d) \/ (x = p /\ d = c)
        /\ \A d \in Conns : \A x \in Sent(d) : x.tag \notin tainted
        /\ \A d \in Conns : \A x \in Back(d) : x.tag \notin tainted
        /\ \A d \in Conns : Back(d)' = Back(d) /\ Waiting(d)' = Waiting(d)
    BY <1>0, <2>5 DEF Sent, Back, Clean, Waiting
  <2>7. \A d \in Conns : \A x \in Sent(d) : Owed(x)' /\ x.tag # p.tag
    BY <2>3, <2>6 DEF Tokens
  <2>8. \A d \in Conns : \A x \in Back(d) : Owed(x)' /\ x.tag # p.tag
    BY <2>3, <2>6 DEF Tokens
  <2>9. Tokens'
    <3>1. \A d \in Conns : \A x \in Sent(d)' : Owed(x)'
      BY <2>4, <2>6, <2>7
    <3>2. \A d, e \in Conns : \A x \in Sent(d)', y \in Sent(e)' : x.tag = y.tag => d = e
      BY <2>6, <2>7 DEF Tokens
    <3>3. \A d, e \in Conns : \A x \in Sent(d)', y \in Back(e)' : x.tag # y.tag
      BY <2>6, <2>8 DEF Tokens
    <3>4. /\ \A d \in Conns : \A x \in Back(d)' : Owed(x)'
          /\ \A d, e \in Conns : d # e => \A x \in Waiting(d)', y \in Waiting(e)' : x.tag # y.tag
      BY <2>6, <2>8 DEF Tokens
    <3>5. \A d \in Conns : Apart(tainted', H_Cache', acked'[d])
      BY <1>0 DEF Tokens
    <3> QED BY <3>1, <3>2, <3>3, <3>4, <3>5 DEF Tokens
  <2> QED BY <1>0, <2>2, <2>9 DEF CompletedByOwn
<1> QED BY <1>2, <1>3 DEF Enqueue, enqueue

LEMMA FetchedAppend ==
    ASSUME NEW ca \in Caches, NEW qu \in Seq(Acks), NEW x \in Acks
    PROVE  /\ Queued(Append(qu, x)) = Queued(qu) \cup {x}
           /\ Fetched(ca, Append(qu, x)) = Fetched(ca, qu) \cup {x}
           /\ \A T : /\ Apart(T, ca, qu)
                     /\ x.tag \notin T => \A y \in Clean(T, ca, qu) : y.tag # x.tag
                     => Apart(T, ca, Append(qu, x))
<1> DEFINE qv == Append(qu, x)
<1>1. /\ Len(qu) \in Nat /\ Len(qv) = Len(qu) + 1 /\ qv[Len(qu) + 1] = x
      /\ \A j \in 1..Len(qu) : qv[j] = qu[j]
  OBVIOUS
<1> HIDE DEF qv
<1>2. Queued(qv) = Queued(qu) \cup {x}
  <2>1. ASSUME NEW y
        PROVE  (\E j \in 1..Len(qv) : y = qv[j]) <=> (\E j \in 1..Len(qu) : y = qu[j]) \/ y = x
    BY <1>1
  <2> QED BY <2>1 DEF Queued
<1>3. ASSUME NEW T,
             Apart(T, ca, qu), x.tag \notin T => \A y \in Clean(T, ca, qu) : y.tag # x.tag
      PROVE  Apart(T, ca, qv)
  <2>1. \A j \in 1..Len(qu) : qu[j].tag \notin T => qu[j].tag # x.tag
    BY <1>3 DEF Clean, Fetched, Queued
  <2>2. \A i \in 1..CacheLast : ca[i].valid /\ ca[i].ack.tag \notin T => ca[i].ack.tag # x.tag
    BY <1>3 DEF Clean, Fetched, Cached
  <2>3. \A j \in 1..Len(qv) : (j \in 1..Len(qu) /\ qv[j] = qu[j]) \/ (j = Len(qu) + 1 /\ qv[j] = x)
    BY <1>1
  <2>4. \A j, k \in 1..Len(qv) : qv[j].tag \notin T /\ qv[j].tag = qv[k].tag => j = k
    BY <1>3, <2>1, <2>3 DEF Apart
  <2>5. \A j \in 1..Len(qv), i \in 1..CacheLast :
           qv[j].tag \notin T /\ ca[i].valid => qv[j].tag # ca[i].ack.tag
    BY <1>3, <2>2, <2>3 DEF Apart
  <2> QED BY <1>3, <2>4, <2>5 DEF Apart
<1> QED BY <1>2, <1>3 DEF qv, Fetched

\* An answer takes the packet's place.
LEMMA AcknowledgeTokens ==
    ASSUME Base, Tokens, NEW c \in Conns, NEW p \in submitted[c], NEW success \in BOOLEAN,
           Acknowledge(c, p, success)
    PROVE  Tokens' /\ (CompletedByOwn => CompletedByOwn')
<1> DEFINE x == [tag |-> p.tag, success |-> success, serial |-> p.serial]
<1>0. /\ Types /\ Numbered
      /\ submitted' = [submitted EXCEPT ![c] = @ \ {p}]
      /\ acked' = [acked EXCEPT ![c] = Append(@, x)]
      /\ UNCHANGED <<req, H_Cache, tainted>>
  BY DEF Base, Acknowledge, history
<1>1. p \in Packet /\ acked[c] \in Seq(Acks) /\ H_Cache \in Caches
  BY <1>0 DEF Types
<1>2. x \in Acks /\ x.tag = p.tag /\ x.serial = p.serial
  BY <1>1 DEF Packet, Acks
<1> HIDE DEF x
<1>3. /\ acked'[c] = Append(acked[c], x)
      /\ \A d \in Conns : d # c => acked'[d] = acked[d]
      /\ submitted'[c] = submitted[c] \ {p}
      /\ \A d \in Conns : d # c => submitted'[d] = submitted[d]
  BY <1>0 DEF Types
<1>a. p.tag \notin tainted => p \in Sent(c)
  BY DEF Sent
<1>4. x.tag \notin tainted => \A d \in Conns : \A y \in Back(d) : y.tag # x.tag
  BY <1>2, <1>a DEF Tokens
<1>5. /\ Queued(acked'[c]) = Queued(acked[c]) \cup {x}
      /\ Fetched(H_Cache, acked'[c]) = Fetched(H_Cache, acked[c]) \cup {x}
      /\ Apart(tainted, H_Cache, acked'[c])
  <2>1. Apart(tainted, H_Cache, acked[c])
    BY DEF Tokens
  <2>2. x.tag \notin tainted => \A y \in Clean(tainted, H_Cache, acked[c]) : y.tag # x.tag
    BY <1>4 DEF Back
  <2> QED BY <1>1, <1>2, <1>3, <2>1, <2>2, FetchedAppend
<1>6. ASSUME NEW d \in Conns, NEW y \in Sent(d)'
      PROVE  y \in Sent(d) /\ y.tag # x.tag
  <2>1. y \in Sent(d) /\ y \in submitted'[d] /\ y \in submitted[d] /\ y.tag \notin tainted
    BY <1>0, <1>3, <1>6 DEF Sent
  <2>2. SUFFICES ASSUME y.tag = p.tag
                 PROVE  FALSE
    BY <1>2, <2>1
  <2>3. d = c /\ y # p /\ p \in Sent(c)
    <3>1. p \in Sent(c)
      BY <1>a, <2>1, <2>2
    <3>2. d = c
      BY <2>1, <2>2, <3>1 DEF Tokens
    <3> QED BY <1>3, <2>1, <3>1, <3>2
  <2>4. y \in Packet
    BY <1>0, <2>1 DEF Types
  <2>5. Owed(y) /\ Owed(p)
    BY <2>1, <2>3 DEF Tokens
  <2>6. y.serial = p.serial
    BY <1>0, <2>1, <2>2, <2>5 DEF Owed, Numbered, Live
  <2> QED BY <1>1, <2>2, <2>3, <2>4, <2>6 DEF Packet
<1>7. \A y : Owed(y)' <=> Owed(y)
  BY <1>0 DEF Owed
<1>8. x.tag \notin tainted => Owed(x)
  BY <1>2, <1>a DEF Tokens, Owed
<1>9. \A d \in Conns : \A y \in Back(d)' : y.tag \notin tainted /\ (y \in Back(d) \/ y = x)
  BY <1>0, <1>3, <1>5 DEF Back, Clean
<1>10. \A d \in Conns : \A y \in Waiting(d)' :
          y.tag \notin tainted /\ (y \in Waiting(d) \/ (y = x /\ d = c))
  BY <1>0, <1>3, <1>5 DEF Waiting
<1>11. \A d \in Conns : Waiting(d) \subseteq Back(d)
  BY CleanParts
<1>12. Tokens'
  <2>1. \A d \in Conns : \A y \in Sent(d)' : Owed(y)'
    BY <1>6, <1>7 DEF Tokens
  <2>2. \A d \in Conns : \A y \in Back(d)' : Owed(y)'
    BY <1>7, <1>8, <1>9 DEF Tokens
  <2>3. \A d \in Conns : Apart(tainted', H_Cache', acked'[d])
    BY <1>0, <1>3, <1>5 DEF Tokens
  <2>4. \A d, e \in Conns : \A y \in Sent(d)', z \in Sent(e)' : y.tag = z.tag => d = e
    BY <1>6 DEF Tokens
  <2>5. \A d, e \in Conns : \A y \in Sent(d)', z \in Back(e)' : y.tag # z.tag
    BY <1>6, <1>9 DEF Tokens
  <2>6. ASSUME NEW d \in Conns, NEW e \in Conns, d # e,
               NEW y \in Waiting(d)', NEW z \in Waiting(e)'
        PROVE  y.tag # z.tag
    <3>1. CASE y \in Waiting(d) /\ z \in Waiting(e)
      BY <2>6, <3>1 DEF Tokens
    <3>2. CASE y = x /\ d = c /\ z \in Waiting(e)
      BY <1>4, <1>10, <1>11, <3>2
    <3>3. CASE z = x /\ e = c /\ y \in Waiting(d)
      BY <1>4, <1>10, <1>11, <3>3
    <3> QED BY <1>10, <2>6, <3>1, <3>2, <3>3
  <2> QED BY <2>1, <2>2, <2>3, <2>4, <2>5, <2>6 DEF Tokens
<1> QED BY <1>0, <1>12 DEF CompletedByOwn

\* The loop takes the request's own acknowledgement at most; one that it moves
\* from a queue to the cache is as far from the others there.
LEMMA UpdateTokens ==
    ASSUME Base, Tokens, NEW r \in Requests, Event_Update(r)
    PROVE  Tokens' /\ (CompletedByOwn => CompletedByOwn')
<1>0. Types /\ Connected /\ Numbered /\ UNCHANGED <<submitted, tainted>>
  BY DEF Base, Event_Update, history
<1>1. CASE UNCHANGED <<req, H_Cache, acked>>
  BY <1>0, <1>1 DEF Tokens, Owed, CompletedByOwn, Sent, Waiting, Back
<1>2. ASSUME NEW s \in Sessions, Updated(s, r)
      PROVE  Tokens' /\ (CompletedByOwn => CompletedByOwn')
  <2> DEFINE c == device[s]
             id == req[r].id
             before == Before(s, r)
             after == Turns(Before(s, r), req[r].id)[CacheLast]
             F == Clean(tainted, H_Cache, acked[c])
             G == Clean(tainted, after.cache, after.queue)
             Now(d) == Clean(tainted, after.cache, acked'[d])
  <2>1. /\ c \in Conns /\ req[r].status = "Pending" /\ Live(r)
        /\ before \in LoopStates /\ after \in LoopStates
        /\ req' = [req EXCEPT ![r].status = after.status, ![r].by = after.by]
        /\ H_Cache' = after.cache /\ acked' = [acked EXCEPT ![c] = after.queue]
    BY <1>2 DEF Updated
  <2>2. before.cache = H_Cache /\ before.queue = acked[c] /\ before.status = "Pending"
    BY <2>1 DEF Before
  <2>3. Finishes(tainted, before, after, id)
    <3>1. Apart(tainted, before.cache, before.queue)
      BY <2>1, <2>2 DEF Tokens
    <3> QED BY <2>1, <3>1, LoopEffect
  <2> HIDE DEF before, after, c
  <2>4. /\ Apart(tainted, after.cache, after.queue)
        /\ \/ after.status = "Pending" /\ G = F
           \/ id \in tainted /\ G = F
           \/ /\ after.status \in {"Ok", "Error"}
              /\ \E x \in F : x.tag = id /\ x.serial = after.by /\ G = F \ {x}
    BY <2>2, <2>3 DEF Finishes
  <2>5. /\ after.status \in {"Allocated", "Pending", "Ok", "Error"}
        /\ after.by \in 0..MaxPackets
    BY <2>1 DEF LoopStates
  <2>6. /\ req'[r].status = after.status /\ req'[r].by = after.by
        /\ req'[r].id = id /\ req'[r].serial = req[r].serial
        /\ \A q \in Requests : q # r => req'[q] = req[q]
    BY <1>0, <2>1, <2>5, Assign
  <2>7. acked'[c] = after.queue /\ \A d \in Conns : d # c => acked'[d] = acked[d]
    BY <1>0, <2>1 DEF Types
  <2>8. G \subseteq F
    <3> HIDE DEF F, G
    <3> QED BY <2>4
  <2>9. /\ F = Back(c) /\ \A x \in F : x.tag \notin tainted
        /\ \A d \in Conns : Back(d)' = Now(d) /\ Sent(d)' = Sent(d)
        /\ \A d \in Conns : \A x \in Now(d) : x.tag \notin tainted
        /\ \A d \in Conns : \A x \in Sent(d) : x.tag \notin tainted
    BY <1>0, <2>1 DEF Back, Clean, Sent
  \* what is in the queue of another connection has nothing in common with it
  <2>10. ASSUME NEW d \in Conns, d # c, NEW x \in F, NEW y \in Waiting(d)
         PROVE  x.tag # y.tag
    <3>0. x \in Back(c)
      BY <2>9
    <3>1. CASE x \in Waiting(c)
      BY <2>1, <2>10, <3>1 DEF Tokens
    <3>2. CASE x \in Cached(H_Cache)
      <4>1. Apart(tainted, H_Cache, acked[d])
        BY DEF Tokens
      <4>2. y.tag \notin tainted /\ \E j \in 1..Len(acked[d]) : y = acked[d][j]
        BY DEF Waiting, Queued
      <4>3. \E i \in 1..CacheLast : H_Cache[i].valid /\ x = H_Cache[i].ack
        BY <3>2 DEF Cached
      <4> QED BY <4>1, <4>2, <4>3 DEF Apart
    <3> QED BY <2>1, <3>0, <3>1, <3>2, CleanParts
  <2>11. ASSUME NEW d \in Conns
         PROVE  Apart(tainted, after.cache, acked'[d])
    <3>1. CASE d = c
      BY <2>4, <2>7, <3>1
    <3>2. CASE d # c
      <4>1. acked'[d] = acked[d] /\ Apart(tainted, H_Cache, acked[d])
        BY <2>7, <3>2 DEF Tokens
      <4>2. ASSUME NEW j \in 1..Len(acked[d]), NEW i \in 1..CacheLast, after.cache[i].valid,
                   acked[d][j].tag \notin tainted, acked[d][j].tag = after.cache[i].ack.tag
            PROVE  FALSE
        <5>1. after.cache[i].ack \in G
          BY <4>2 DEF Clean, Fetched, Cached
        <5>2. acked[d][j] \in Waiting(d)
          BY <4>2 DEF Waiting, Queued
        <5>3. after.cache[i].ack \in F
          BY <2>8, <5>1
        <5> QED BY <2>10, <3>2, <4>2, <5>2, <5>3
      <4> QED BY <2>4, <4>1, <4>2 DEF Apart
    <3> QED BY <3>1, <3>2
  <2>12. ASSUME NEW d \in Conns, NEW x \in Now(d)
         PROVE  x \in G \/ (d # c /\ x \in Waiting(d))
    <3>1. CASE d = c
      BY <2>7, <3>1
    <3>2. CASE d # c
      <4>1. x.tag \notin tainted /\ (x \in Queued(acked[d]) \/ x \in Cached(after.cache))
        BY <2>7, <2>12, <3>2 DEF Clean, Fetched
      <4> QED BY <3>2, <4>1 DEF Clean, Fetched, Waiting
    <3> QED BY <3>1, <3>2
  \* every token that is left is still owed
  <2>13. ASSUME NEW y, Owed(y), after.status = "Pending" \/ y.tag # id
         PROVE  Owed(y)'
    <3>1. PICK q \in Requests :
             req[q].status = "Pending" /\ req[q].id = y.tag /\ req[q].serial = y.serial
      BY <2>13 DEF Owed
    <3>2. CASE q = r
      BY <2>6, <2>13, <3>1, <3>2 DEF Owed
    <3>3. CASE q # r
      BY <2>6, <3>1, <3>3 DEF Owed
    <3> QED BY <3>2, <3>3
  <2> HIDE DEF F, G, Now
  <2>14. ASSUME NEW x \in F, x.tag = id, G = F \ {x}
         PROVE  /\ \A d \in Conns : \A y \in Sent(d) : y.tag # id
                /\ \A d \in Conns : \A y \in Now(d) : y.tag # id
    <3>1. \A d \in Conns : \A y \in Sent(d) : y.tag # id
      BY <2>1, <2>9, <2>14 DEF Tokens
    <3>2. \A y \in F : y # x => y.tag # x.tag
      <4>1. Apart(tainted, H_Cache, acked[c])
        BY <2>1 DEF Tokens
      <4> QED BY <4>1, ApartClean DEF F
    <3>3. ASSUME NEW d \in Conns, NEW y \in Now(d)
          PROVE  y.tag # id
      <4>1. CASE d # c /\ y \in Waiting(d)
        BY <2>10, <2>14, <4>1
      <4>2. CASE y \in G
        BY <2>14, <3>2, <4>2
      <4> QED BY <2>12, <4>1, <4>2
    <3> QED BY <3>1, <3>3
  <2>15. \A d \in Conns : \A y \in Sent(d) : Owed(y)
    BY DEF Tokens
  <2>16. \A d \in Conns : \A y \in Now(d) : Owed(y)
    <3>1. \A d \in Conns : Waiting(d) \subseteq Back(d)
      BY CleanParts
    <3>2. \A d \in Conns : \A y \in Back(d) : Owed(y)
      BY DEF Tokens
    <3> QED BY <2>1, <2>8, <2>9, <2>12, <3>1, <3>2
  <2>17. /\ \A d \in Conns : \A y \in Sent(d) : Owed(y)'
         /\ \A d \in Conns : \A y \in Now(d) : Owed(y)'
    <3>1. CASE after.status = "Pending"
      BY <2>13, <2>15, <2>16, <3>1
    <3>2. CASE id \in tainted
      BY <2>9, <2>13, <2>15, <2>16, <3>2
    <3>3. ASSUME NEW x \in F, x.tag = id, G = F \ {x}
          PROVE  /\ \A d \in Conns : \A y \in Sent(d) : Owed(y)'
                 /\ \A d \in Conns : \A y \in Now(d) : Owed(y)'
      BY <2>13, <2>14, <2>15, <2>16, <3>3
    <3> QED BY <2>4, <3>1, <3>2, <3>3
  <2>18. \A d, e \in Conns : \A x \in Sent(d), y \in Now(e) : x.tag # y.tag
    <3>1. \A e \in Conns : Waiting(e) \subseteq Back(e)
      BY CleanParts
    <3>2. \A e \in Conns : \A y \in Now(e) : \E d \in Conns : y \in Back(d)
      BY <2>1, <2>8, <2>9, <2>12, <3>1
    <3> QED BY <3>2 DEF Tokens
  <2>19. ASSUME NEW d \in Conns, NEW e \in Conns, d # e,
                NEW x \in Waiting(d)', NEW y \in Waiting(e)'
         PROVE  x.tag # y.tag
    <3>1. \A f \in Conns : f = c => \A z \in Waiting(f)' : z \in F
      BY <1>0, <2>7, <2>8 DEF Waiting, G, Clean, Fetched
    <3>2. \A f \in Conns : f # c => Waiting(f)' = Waiting(f)
      BY <1>0, <2>7 DEF Waiting
    <3>3. CASE d = c
      BY <2>10, <2>19, <3>1, <3>2, <3>3
    <3>4. CASE e = c
      BY <2>10, <2>19, <3>1, <3>2, <3>4
    <3>5. CASE d # c /\ e # c
      BY <2>19, <3>2, <3>5 DEF Tokens
    <3> QED BY <3>3, <3>4, <3>5
  <2>20. Tokens'
    <3>1. \A d, e \in Conns : \A x \in Sent(d)', y \in Sent(e)' : x.tag = y.tag => d = e
      BY <2>9 DEF Tokens
    <3>2. /\ \A d \in Conns : \A x \in Sent(d)' : Owed(x)'
          /\ \A d \in Conns : \A x \in Back(d)' : Owed(x)'
          /\ \A d, e \in Conns : \A x \in Sent(d)', y \in Back(e)' : x.tag # y.tag
      BY <2>9, <2>17, <2>18
    <3>3. \A d \in Conns : Apart(tainted', H_Cache', acked'[d])
      BY <1>0, <2>1, <2>11
    <3> QED BY <2>19, <3>1, <3>2, <3>3 DEF Tokens
  <2>21. ASSUME CompletedByOwn
         PROVE  CompletedByOwn'
    <3>1. ASSUME req'[r].status \in {"Ok", "Error"}, id \notin tainted
          PROVE  req'[r].by = req'[r].serial
      <4>1. PICK x \in F : x.tag = id /\ x.serial = after.by
        BY <2>4, <2>6, <3>1
      <4>2. Owed(x)
        BY <2>1, <2>9, <4>1 DEF Tokens
      <4>3. req[r].serial = x.serial
        BY <1>0, <2>1, <3>1, <4>1, <4>2, OwedOne
      <4> QED BY <2>6, <4>1, <4>3
    <3> QED BY <1>0, <2>6, <2>21, <3>1 DEF CompletedByOwn
  <2> QED BY <2>20, <2>21
<1> QED BY <1>1, <1>2, UpdateEffect

LEMMA FinishedStep ==
    ASSUME Finished, [Next]_vars
    PROVE  Finished'
<1>0. Base /\ Tokens /\ CompletedByOwn /\ Types /\ Connected /\ Numbered
  BY DEF Finished, Base
<1>1. Base'
  BY <1>0, BaseStep
<1>2. ASSUME UNCHANGED <<req, H_Cache, submitted, acked, tainted>>
      PROVE  Finished'
  BY <1>0, <1>1, <1>2, TokensFrame DEF Finished, CompletedByOwn
<1>3. ASSUME NEW s \in Sessions, Finalize(s) \/ \E index \in Indexes : Initialize(s, index)
      PROVE  Finished'
  <2>1. UNCHANGED <<req, H_Cache, tainted>>
    BY <1>3 DEF Initialize, Finalize, history
  <2>2. \A c \in Conns : /\ submitted'[c] \subseteq submitted[c]
                         /\ acked'[c] = acked[c] \/ acked'[c] = <<>>
    BY <1>0, <1>3 DEF Types, Initialize, streams, Finalize, finalize
  <2> QED BY <1>0, <1>1, <2>1, <2>2, TokensFrame DEF Finished, CompletedByOwn
<1>4. ASSUME NEW s \in Sessions, NEW r \in Requests, NEW k \in Kinds, NEW i \in Request_Id,
             Allocate_Request(s, r, k, i)
      PROVE  Finished'
  <2>1. /\ UNCHANGED <<H_Cache, submitted, acked>> /\ tainted \subseteq tainted'
        /\ \/ UNCHANGED req
           \/ \E x : /\ x.status = "Allocated"
                     /\ req' = [req EXCEPT ![r] = x]
    BY <1>4 DEF Allocate_Request, allocate_request
  <2>2. \A q \in Requests : req[q].status # "Raw" => req'[q] = req[q]
    BY <1>0, <1>4, <2>1 DEF Allocate_Request, Types
  <2>3. CompletedByOwn'
    BY <1>0, <2>1 DEF CompletedByOwn, Types
  <2> QED BY <1>0, <1>1, <2>1, <2>2, <2>3, TokensFrame DEF Finished
<1>5. ASSUME NEW s \in Sessions, NEW r \in Requests, Enqueue(s, r)
      PROVE  Finished'
  BY <1>0, <1>1, <1>5, EnqueueTokens DEF Finished
<1>6. ASSUME NEW s \in Sessions, NEW r \in Requests, Release(s, r)
      PROVE  Finished'
  <2>1. /\ UNCHANGED <<H_Cache, submitted, acked>> /\ req' = [req EXCEPT ![r] = Raw]
        /\ tainted \subseteq tainted'
        /\ req[r].status = "Pending" => req[r].id \in tainted'
    BY <1>6 DEF Release
  <2>2. req'[r] = Raw /\ \A q \in Requests : q # r => req'[q] = req[q]
    BY <1>0, <2>1 DEF Types
  <2>3. CompletedByOwn'
    BY <1>0, <2>1, <2>2 DEF CompletedByOwn, Raw
  <2> QED BY <1>0, <1>1, <2>1, <2>2, <2>3, TokensFrame DEF Finished
<1>7. \A c \in Conns : Event(c) \/ Take(c) => UNCHANGED <<req, H_Cache, submitted, acked, tainted>>
  BY DEF Event, Take, streams, history
<1>8. ASSUME NEW r \in Requests, Event_Update(r)
      PROVE  Finished'
  BY <1>0, <1>1, <1>8, UpdateTokens DEF Finished
<1>9. ASSUME NEW c \in Conns, NEW p \in submitted[c], NEW success \in BOOLEAN,
             Acknowledge(c, p, success)
      PROVE  Finished'
  BY <1>0, <1>1, <1>9, AcknowledgeTokens DEF Finished
<1>10. UNCHANGED vars => UNCHANGED <<req, H_Cache, submitted, acked, tainted>>
  BY DEF vars, streams, history
<1> QED BY <1>2, <1>3, <1>4, <1>5, <1>6, <1>7, <1>8, <1>9, <1>10 DEF Next

LEMMA FinishedInit ==
    ASSUME Init
    PROVE  Finished
<1>1. Base
  BY BaseInit
<1>2. \A i \in 1..CacheLast : ~H_Cache[i].valid
  BY DEF Init, Invalid
<1>3. Cached(H_Cache) = {}
  BY <1>2 DEF Cached
<1>4. \A c \in Conns : submitted[c] = {} /\ acked[c] = <<>>
  BY DEF Init
<1>5. Fetched(H_Cache, <<>>) = {} /\ Apart(tainted, H_Cache, <<>>)
  BY <1>2, <1>3, NoneQueued DEF Fetched, Apart
<1>6. Tokens
  BY <1>4, <1>5, NoneQueued DEF Tokens, Sent, Back, Clean, Waiting
<1>7. CompletedByOwn
  BY DEF Init, Raw, CompletedByOwn
<1> QED BY <1>1, <1>6, <1>7 DEF Finished

LEMMA FinishedInvariance == Spec => []Finished
<1>1. Init => Finished
  BY FinishedInit
<1>2. Finished /\ [Next]_vars => Finished'
  BY FinishedStep
<1> QED BY <1>1, <1>2, PTL DEF Spec

\* A request is only ever finished by the acknowledgement of its own packet,
\* however many sessions share the cache and in whatever order they are
\* updated, finalized and initialized again, unless its identifier was that of
\* two requests at a time or of one that was released while it was pending
\* (the loop of Update_Request tells acknowledgements apart by identifiers).
THEOREM OwnAcknowledgement == Spec => []CompletedByOwn
<1>1. Finished => CompletedByOwn
  BY DEF Finished
<1> QED BY <1>1, FinishedInvariance, PTL
-----------------------------------------------------------------------------
(* Buffers                                                                 *)

\* While a connection is open and not strayed, its requests have their cells of
\* its buffer, and nothing else has; the buffer of a closed one is empty.
Owned ==
    /\ \A r \in Requests : Live(r) /\ Home(r) =>
          buffer[req[r].conn][req[r].cell] = req[r].serial
    /\ \A c \in Conns : \A o \in 1..Cells : c \notin strayed /\ buffer[c][o] # 0 =>
          \E r \in Requests : Live(r) /\ req[r].conn = c /\ req[r].cell = o
    /\ \A c \in Conns : \A o \in 1..Cells : buffer[c][o] # 0 => \E s \in Sessions : device[s] = c

Kept == Base /\ Owned

LEMMA OwnedFrame ==
    ASSUME Owned, UNCHANGED <<device, buffer>>, strayed \subseteq strayed',
           \A q \in Requests : /\ Live(q)' <=> Live(q)
                               /\ Live(q) => /\ req'[q].cell = req[q].cell
                                             /\ req'[q].conn = req[q].conn
                                             /\ req'[q].serial = req[q].serial
    PROVE  Owned'
<1>1. \A r \in Requests : Live(r)' /\ Home(r)' =>
         buffer'[req'[r].conn][req'[r].cell] = req'[r].serial
  BY DEF Owned, Home
<1>2. ASSUME NEW c \in Conns, NEW o \in 1..Cells, c \notin strayed', buffer'[c][o] # 0
      PROVE  \E r \in Requests : Live(r)' /\ req'[r].conn = c /\ req'[r].cell = o
  <2>1. PICK r \in Requests : Live(r) /\ req[r].conn = c /\ req[r].cell = o
    BY <1>2 DEF Owned
  <2> QED BY <2>1
<1> QED BY <1>1, <1>2 DEF Owned

LEMMA InitializeOwned ==
    ASSUME Kept, NEW s \in Sessions, NEW index \in Indexes, Initialize(s, index)
    PROVE  Owned'
<1>0. Types /\ Connected /\ Owned /\ UNCHANGED <<req, buffer, strayed>>
  BY DEF Kept, Base, Initialize, streams, history
<1>1. device[s] = 0
  BY <1>0 DEF Initialize, Initialized, Connected
<1>2. /\ \A t \in Sessions : t # s => device'[t] = device[t]
      /\ device'[s] = 0 \/ device'[s] = conns + 1
  BY <1>0, <1>1 DEF Initialize, initialize, Types
<1>3. \A r \in Requests : Live(r) => /\ req[r].conn # 0 /\ req[r].conn # conns + 1
                                     /\ req[r].conn \in Nat
  <2>1. \A r \in Requests : Live(r) => req[r].conn \in Nat \ {0} /\ req[r].conn <= conns
    BY <1>0, RequestTypes DEF Used_Request, Conns, Connected
  <2> QED BY <1>0, <2>1, SizesAssumption DEF Types
<1>4. \A r \in Requests : Live(r)' /\ Home(r)' => Live(r) /\ Home(r)
  BY <1>0, <1>2, <1>3 DEF Live, Home
<1>5. \A c \in Conns : \A t \in Sessions : device[t] = c => device'[t] = c
  BY <1>1, <1>2, SizesAssumption DEF Conns
<1>6. \A r \in Requests : Live(r)' <=> Live(r)
  BY <1>0 DEF Live
<1>7. \A c \in Conns : \A o \in 1..Cells : buffer'[c][o] # 0 => \E t \in Sessions : device'[t] = c
  BY <1>0, <1>5 DEF Owned
<1> QED BY <1>0, <1>4, <1>6, <1>7 DEF Owned

LEMMA FinalizeOwned ==
    ASSUME Kept, NEW s \in Sessions, Finalize(s)
    PROVE  Owned'
<1> DEFINE c == device[s]
<1>0. /\ Types /\ Connected /\ Owned /\ c # 0 /\ UNCHANGED <<req, strayed>>
      /\ device' = [device EXCEPT ![s] = 0]
      /\ buffer' = [buffer EXCEPT ![c] = [o \in 1..Cells |-> 0]]
  BY DEF Kept, Base, Finalize, finalize, Initialized, history
<1>1. c \in Conns
  BY <1>0, Device
<1>2. \A t \in Sessions : /\ device'[t] = IF t = s THEN 0 ELSE device[t]
                          /\ t # s => device[t] # c
  BY <1>0 DEF Types, Connected
<1> HIDE DEF c
<1>3. /\ \A o \in 1..Cells : buffer'[c][o] = 0
      /\ \A d \in Conns : d # c => buffer'[d] = buffer[d]
  BY <1>0, <1>1 DEF Types
<1>4. \A r \in Requests : /\ Live(r)' <=> Live(r)
                          /\ Live(r) => req[r].conn \in Conns /\ req[r].conn # 0
  BY <1>0, RequestTypes DEF Live, Used_Request, Conns
<1>5. \A r \in Requests : Live(r) /\ Home(r)' => Home(r) /\ req[r].conn # c
  BY <1>0, <1>2, <1>4 DEF Home
<1>6. \A r \in Requests : Live(r)' /\ Home(r)' =>
         buffer'[req'[r].conn][req'[r].cell] = req'[r].serial
  BY <1>0, <1>3, <1>4, <1>5 DEF Owned
<1>7. ASSUME NEW d \in Conns, NEW o \in 1..Cells, buffer'[d][o] # 0
      PROVE  /\ d \notin strayed =>
                   \E r \in Requests : Live(r)' /\ req'[r].conn = d /\ req'[r].cell = o
             /\ \E t \in Sessions : device'[t] = d
  <2>1. d # c /\ buffer[d][o] # 0
    BY <1>3, <1>7
  <2>2. d \notin strayed => \E r \in Requests : Live(r) /\ req[r].conn = d /\ req[r].cell = o
    BY <1>0, <2>1 DEF Owned
  <2>3. PICK t \in Sessions : device[t] = d
    BY <1>0, <2>1 DEF Owned
  <2>4. device'[t] = d
    BY <1>2, <2>1, <2>3 DEF c
  <2> QED BY <1>0, <1>4, <2>2, <2>4
<1> QED BY <1>0, <1>6, <1>7 DEF Owned

LEMMA AllocateOwned ==
    ASSUME Kept, NEW s \in Sessions, NEW r \in Requests, NEW k \in Kinds, NEW i \in Request_Id,
           Allocate_Request(s, r, k, i)
    PROVE  Owned'
<1> DEFINE c == device[s]
<1>0. /\ Types /\ Connected /\ Owned /\ c # 0 /\ ~Live(r) /\ packets \in Nat
      /\ UNCHANGED <<device, strayed>>
  BY SizesAssumption DEF Kept, Base, Types, Allocate_Request, Initialized, Live
<1>1. c \in Conns
  BY <1>0, Device
<1>2. CASE UNCHANGED <<req, buffer, packets>>
  BY <1>0, <1>2, OwnedFrame DEF Live
<1>3. ASSUME NEW o \in 1..Cells, buffer[c][o] = 0,
             req' = [req EXCEPT ![r] =
                         [status |-> "Allocated", id |-> i, session |-> tag[s],
                          cell |-> o, conn |-> c, serial |-> packets + 1, by |-> 0]],
             buffer' = [buffer EXCEPT ![c][o] = packets + 1]
      PROVE  Owned'
  <2>1. /\ req'[r] = [status |-> "Allocated", id |-> i, session |-> tag[s],
                      cell |-> o, conn |-> c, serial |-> packets + 1, by |-> 0]
        /\ \A q \in Requests : q # r => req'[q] = req[q]
    BY <1>0, <1>3 DEF Types
  <2>2. req'[r].conn = c /\ req'[r].cell = o /\ req'[r].serial = packets + 1 /\ Live(r)'
    BY <2>1 DEF Live
  <2>3. \A q \in Requests : q # r => /\ Live(q)' <=> Live(q)
                                     /\ Home(q)' <=> Home(q)
    BY <1>0, <2>1 DEF Live, Home
  <2> HIDE DEF c
  <2>4. /\ buffer'[c][o] = packets + 1
        /\ \A d \in Conns : \A x \in 1..Cells : <<d, x>> # <<c, o>> => buffer'[d][x] = buffer[d][x]
    <3>1. buffer \in [Conns -> [1..Cells -> 0..MaxPackets]]
      BY <1>0 DEF Types
    <3> QED BY <1>1, <1>3, <3>1
  <2>5. \A q \in Requests : Live(q) =>
           req[q].conn \in Conns /\ req[q].cell \in 1..Cells /\ req[q].serial # 0
    BY <1>0, RequestTypes DEF Used_Request
  <2>6. \A q \in Requests : Live(q) /\ Home(q) => <<req[q].conn, req[q].cell>> # <<c, o>>
    BY <1>0, <1>3, <2>5 DEF Owned
  <2>7. ASSUME NEW q \in Requests, Live(q)', Home(q)'
        PROVE  buffer'[req'[q].conn][req'[q].cell] = req'[q].serial
    <3>1. CASE q = r
      BY <2>2, <2>4, <3>1
    <3>2. CASE q # r
      <4>1. Live(q) /\ Home(q) /\ req'[q] = req[q]
        BY <2>1, <2>3, <2>7, <3>2
      <4> QED BY <1>0, <2>4, <2>5, <2>6, <4>1 DEF Owned
    <3> QED BY <3>1, <3>2
  <2>8. ASSUME NEW d \in Conns, NEW x \in 1..Cells, buffer'[d][x] # 0
        PROVE  /\ d \notin strayed =>
                     \E q \in Requests : Live(q)' /\ req'[q].conn = d /\ req'[q].cell = x
               /\ \E t \in Sessions : device[t] = d
    <3>1. CASE d = c /\ x = o
      BY <2>2, <3>1 DEF c
    <3>2. CASE ~(d = c /\ x = o)
      <4>1. buffer[d][x] # 0
        BY <2>4, <2>8, <3>2
      <4>2. /\ d \notin strayed =>
                  \E q \in Requests : Live(q) /\ req[q].conn = d /\ req[q].cell = x
            /\ \E t \in Sessions : device[t] = d
        BY <1>0, <4>1 DEF Owned
      <4> QED BY <1>0, <2>1, <2>3, <4>2
    <3> QED BY <3>1, <3>2
  <2> QED BY <1>0, <2>7, <2>8 DEF Owned
<1> QED BY <1>2, <1>3 DEF Allocate_Request, allocate_request

\* A request is released by the session of its connection, or both connections
\* have strayed.
LEMMA ReleaseOwned ==
    ASSUME Kept, NEW s \in Sessions, NEW r \in Requests, Release(s, r)
    PROVE  Owned'
<1> DEFINE c == device[s]
           o == req[r].cell
<1>0. /\ Base /\ Types /\ Connected /\ Numbered /\ Owned /\ c # 0 /\ Live(r)
      /\ buffer' = [buffer EXCEPT ![c][o] = 0] /\ req' = [req EXCEPT ![r] = Raw]
      /\ UNCHANGED device
  BY DEF Kept, Base, Release, release, Initialized, Live
<1>1. /\ strayed \subseteq strayed'
      /\ req[r].conn = c \/ (req[r].conn \in strayed' /\ c \in strayed')
  BY <1>0, StrayTypes DEF Release
<1>2. c \in Conns /\ o \in 1..Cells
  BY <1>0, Device, RequestTypes DEF Used_Request
<1>3. ~Live(r)' /\ \A q \in Requests : q # r => req'[q] = req[q] /\ (Live(q)' <=> Live(q))
  BY <1>0 DEF Types, Live, Raw
<1>4. \A q \in Requests : q # r => (Home(q)' => Home(q) /\ req[q].conn \notin strayed')
  BY <1>0, <1>1, <1>3 DEF Home
<1>5. \A q \in Requests : Live(q) => req[q].conn \in Conns /\ req[q].cell \in 1..Cells
  BY <1>0, RequestTypes DEF Used_Request
<1>6. ASSUME NEW q \in Requests, Live(q)', Home(q)'
      PROVE  Live(q) /\ Home(q) /\ req'[q] = req[q] /\ <<req[q].conn, req[q].cell>> # <<c, o>>
  <2>1. q # r /\ Live(q) /\ Home(q) /\ req'[q] = req[q] /\ req[q].conn \notin strayed'
    BY <1>3, <1>4, <1>6
  <2>2. SUFFICES ASSUME req[q].conn = c, req[q].cell = o
                 PROVE  FALSE
    BY <2>1
  <2>3. req[r].conn = c /\ Home(r)
    BY <1>1, <2>1, <2>2 DEF Home
  <2>4. buffer[c][o] = req[q].serial /\ buffer[c][o] = req[r].serial
    BY <1>0, <2>1, <2>2, <2>3 DEF Owned
  <2> QED BY <1>0, <2>1, <2>4 DEF Numbered
<1> HIDE DEF c, o
<1>7. /\ buffer'[c][o] = 0
      /\ \A d \in Conns : \A x \in 1..Cells : <<d, x>> # <<c, o>> => buffer'[d][x] = buffer[d][x]
  BY <1>0, <1>2 DEF Types
<1>8. ASSUME NEW q \in Requests, Live(q)', Home(q)'
      PROVE  buffer'[req'[q].conn][req'[q].cell] = req'[q].serial
  BY <1>0, <1>5, <1>6, <1>7, <1>8 DEF Owned
<1>9. ASSUME NEW d \in Conns, NEW x \in 1..Cells, buffer'[d][x] # 0
      PROVE  /\ d \notin strayed' =>
                   \E q \in Requests : Live(q)' /\ req'[q].conn = d /\ req'[q].cell = x
             /\ \E t \in Sessions : device[t] = d
  <2>1. ~(d = c /\ x = o) /\ buffer[d][x] # 0
    BY <1>7, <1>9
  <2>2. \E t \in Sessions : device[t] = d
    BY <1>0, <2>1 DEF Owned
  <2>3. ASSUME d \notin strayed'
        PROVE  \E q \in Requests : Live(q)' /\ req'[q].conn = d /\ req'[q].cell = x
    <3>1. d \notin strayed
      BY <1>1, <2>3
    <3>2. PICK q \in Requests : Live(q) /\ req[q].conn = d /\ req[q].cell = x
      BY <1>0, <2>1, <3>1 DEF Owned
    <3>3. q # r
      BY <1>1, <2>1, <2>3, <3>2 DEF o
    <3> QED BY <1>3, <3>2, <3>3
  <2> QED BY <2>2, <2>3
<1> QED BY <1>0, <1>8, <1>9 DEF Owned

\* Enqueue and Update_Request leave the cells alone.
LEMMA EnqueueOwned ==
    ASSUME Kept, NEW s \in Sessions, NEW r \in Requests, Enqueue(s, r)
    PROVE  Owned'
<1>0. /\ Base /\ Types /\ Owned /\ Live(r) /\ device[s] # 0 /\ UNCHANGED <<device, buffer>>
  BY DEF Kept, Base, Live, Enqueue, Initialized
<1>1. strayed \subseteq strayed'
  BY <1>0, StrayTypes DEF Enqueue
<1>2. CASE UNCHANGED req
  BY <1>0, <1>1, <1>2, OwnedFrame DEF Live
<1>3. CASE req' = [req EXCEPT ![r].status = "Pending"]
  <2>1. req[r].by \in 0..MaxPackets
    BY <1>0, RequestTypes DEF Used_Request
  <2> QED BY <1>0, <1>1, <1>3, <2>1, Assign, OwnedFrame DEF Live
<1> QED BY <1>2, <1>3 DEF Enqueue, enqueue

LEMMA UpdateOwned ==
    ASSUME Kept, NEW r \in Requests, Event_Update(r)
    PROVE  Owned'
<1>0. Base /\ Types /\ Owned /\ UNCHANGED <<device, buffer, strayed>>
  BY DEF Kept, Base, Event_Update, history
<1>1. CASE UNCHANGED req
  BY <1>0, <1>1, OwnedFrame DEF Live
<1>2. ASSUME NEW s \in Sessions, Updated(s, r)
      PROVE  Owned'
  <2> DEFINE after == Turns(Before(s, r), req[r].id)[CacheLast]
  <2>1. /\ Live(r) /\ after \in LoopStates
        /\ req' = [req EXCEPT ![r].status = after.status, ![r].by = after.by]
    BY <1>2 DEF Updated
  <2> HIDE DEF after
  <2>2. /\ after.status \in {"Allocated", "Pending", "Ok", "Error"} /\ after.status # "Raw"
        /\ after.by \in 0..MaxPackets
    BY <2>1 DEF LoopStates
  <2> QED BY <1>0, <2>1, <2>2, Assign, OwnedFrame DEF Live
<1> QED BY <1>0, <1>1, <1>2, UpdateEffect

LEMMA KeptStep ==
    ASSUME Kept, [Next]_vars
    PROVE  Kept'
<1>0. Base /\ Owned
  BY DEF Kept
<1>1. Base'
  BY <1>0, BaseStep
<1>2. ASSUME UNCHANGED <<device, req, buffer, strayed>>
      PROVE  Kept'
  BY <1>0, <1>1, <1>2, OwnedFrame DEF Kept, Live
<1>3. ASSUME NEW s \in Sessions, Finalize(s) \/ \E index \in Indexes : Initialize(s, index)
      PROVE  Kept'
  BY <1>1, <1>3, InitializeOwned, FinalizeOwned DEF Kept
<1>4. ASSUME NEW s \in Sessions, NEW r \in Requests, NEW k \in Kinds, NEW i \in Request_Id,
             Allocate_Request(s, r, k, i)
      PROVE  Kept'
  BY <1>1, <1>4, AllocateOwned DEF Kept
<1>5. ASSUME NEW s \in Sessions, NEW r \in Requests, Enqueue(s, r)
      PROVE  Kept'
  BY <1>1, <1>5, EnqueueOwned DEF Kept
<1>6. ASSUME NEW s \in Sessions, NEW r \in Requests, Release(s, r)
      PROVE  Kept'
  BY <1>1, <1>6, ReleaseOwned DEF Kept
<1>7. ASSUME NEW r \in Requests, Event_Update(r)
      PROVE  Kept'
  BY <1>1, <1>7, UpdateOwned DEF Kept
<1>8. ASSUME NEW c \in Conns, \/ Event(c) \/ Take(c)
                              \/ \E p \in submitted[c], success \in BOOLEAN : Acknowledge(c, p, success)
      PROVE  UNCHANGED <<device, req, buffer, strayed>>
  BY <1>8 DEF Event, Take, Acknowledge, streams, history
<1>9. UNCHANGED vars => UNCHANGED <<device, req, buffer, strayed>>
  BY DEF vars, streams, history
<1> QED BY <1>2, <1>3, <1>4, <1>5, <1>6, <1>7, <1>8, <1>9 DEF Next

LEMMA KeptInit ==
    ASSUME Init
    PROVE  Kept
<1>1. Base
  BY BaseInit
<1>2. \A r \in Requests : ~Live(r)
  BY DEF Init, Live, Raw
<1>3. \A c \in Conns : \A o \in 1..Cells : buffer[c][o] = 0
  BY DEF Init
<1> QED BY <1>1, <1>2, <1>3 DEF Kept, Owned

LEMMA KeptInvariance == Spec => []Kept
<1>1. Init => Kept
  BY KeptInit
<1>2. Kept /\ [Next]_vars => Kept'
  BY KeptStep
<1> QED BY <1>1, <1>2, PTL DEF Spec

\* A request stays assigned to the session that allocated it, and what that
\* reads or writes for it is its own packet, whatever indexes the sessions have
\* and whichever are finalized with requests left, until a request is used by
\* the session of another connection (Assigned, read, write).
THEOREM OwnData == Spec => []DataIsOwn
<1>1. Kept => DataIsOwn
  <2> SUFFICES ASSUME Kept, NEW s \in Sessions, NEW r \in Requests,
                      Live(r), device[s] = req[r].conn
               PROVE  /\ Assigned(s, r)
                      /\ Home(r) => read_write(s, r) = req[r].serial
    BY DEF DataIsOwn
  <2>1. Assigned(s, r)
    BY DEF Kept, Base, Connected, Assigned
  <2>2. Home(r) => read_write(s, r) = req[r].serial
    BY DEF Kept, Owned, read_write
  <2> QED BY <2>1, <2>2
<1> QED BY <1>1, KeptInvariance, PTL

\* The packets in a connection's buffer are exactly those of its requests:
\* neither a failed allocation, an error nor the release of an unfinished
\* request leaks one, and none is freed twice, unless the connection has
\* strayed (allocate_request, release).
THEOREM BufferIsKept == Spec => []BufferComesBack
<1>1. Kept => BufferComesBack
  <2> SUFFICES ASSUME Kept, NEW s \in Sessions, device[s] # 0, device[s] \notin strayed
               PROVE  {buffer[device[s]][o] : o \in 1..Cells} \ {0} =
                         {req[r].serial : r \in {q \in Requests : Live(q) /\ req[q].conn = device[s]}}
    BY DEF BufferComesBack
  <2> DEFINE c == device[s]
             B == {buffer[c][o] : o \in 1..Cells} \ {0}
             R == {req[r].serial : r \in {q \in Requests : Live(q) /\ req[q].conn = c}}
  <2>0. Types /\ Connected /\ Owned
    BY DEF Kept, Base
  <2>1. c \in Conns
    BY <2>0, Device
  <2>2. \A r \in Requests : Live(r) => req[r].cell \in 1..Cells /\ req[r].serial # 0
    BY <2>0, RequestTypes DEF Used_Request
  <2>a. \A r \in Requests : Live(r) /\ req[r].conn = c =>
           Home(r) /\ buffer[c][req[r].cell] = req[r].serial
    BY <2>0 DEF Owned, Home
  <2>3. ASSUME NEW x \in B
        PROVE  x \in R
    <3>1. PICK o \in 1..Cells : x = buffer[c][o] /\ x # 0
      OBVIOUS
    <3>2. PICK r \in Requests : Live(r) /\ req[r].conn = c /\ req[r].cell = o
      BY <2>0, <2>1, <3>1 DEF Owned
    <3>3. req[r].serial = x
      BY <2>a, <3>1, <3>2
    <3> QED BY <3>2, <3>3
  <2>4. ASSUME NEW r \in Requests, Live(r), req[r].conn = c
        PROVE  req[r].serial \in B
    BY <2>2, <2>4, <2>a
  <2> QED BY <2>3, <2>4
<1> QED BY <1>1, KeptInvariance, PTL
-----------------------------------------------------------------------------
(* Where a pending request is                                              *)

\* The loop drops nothing from the cache but what has the identifier, and then
\* it finishes the request.
LEMMA LoopKeeps ==
    ASSUME NEW before \in LoopStates, NEW id, NEW y \in Cached(before.cache)
    PROVE  \/ y \in Cached(Turns(before, id)[CacheLast].cache)
           \/ y.tag = id /\ Turns(before, id)[CacheLast].status \in {"Ok", "Error"}
<1> DEFINE turn == Turns(before, id)
           Gone(u) == y.tag = id /\ u.status \in {"Ok", "Error"}
           S == {i \in 0..CacheLast : /\ turn[i] \in LoopStates
                                      /\ y \in Cached(turn[i].cache) \/ Gone(turn[i])}
<1>0. CacheLast \in Nat \ {0}
  BY SizesAssumption
<1>1. turn[0] = before /\ \A i \in 1..CacheLast : turn[i] = Turn(turn[i - 1], i, id)
  BY TurnsExist
<1> HIDE DEF turn
<1>2. 0 \in S
  BY <1>0, <1>1
<1>3. ASSUME NEW i \in 0..CacheLast, i < CacheLast, i \in S
      PROVE  i + 1 \in S
  <2>0. i + 1 \in 1..CacheLast /\ i + 1 \in 0..CacheLast /\ (i + 1) - 1 = i
    BY <1>0, <1>3
  <2> DEFINE u == turn[i]
             v == update_response_queue(u, i + 1)
             w == Matched(v, i + 1, id)
  <2>1. turn[i + 1] = w /\ u \in LoopStates /\ (y \in Cached(u.cache) \/ Gone(u))
    BY <1>1, <1>3, <2>0 DEF Turn
  <2> HIDE DEF u
  <2>2. v \in LoopStates /\ v.status = u.status
    BY <2>0, <2>1, FetchEffect
  <2>3. ASSUME NEW k \in 1..CacheLast, u.cache[k].valid
        PROVE  v.cache[k] = u.cache[k]
    <3>1. CASE u.cache[i + 1].valid \/ u.queue = <<>>
      BY <3>1 DEF update_response_queue
    <3>2. CASE ~u.cache[i + 1].valid /\ u.queue # <<>>
      <4>1. k # i + 1
        BY <2>3, <3>2
      <4>2. v = [u EXCEPT !.queue = Tail(@), !.cache[i + 1] = [valid |-> TRUE, ack |-> Head(u.queue)]]
        BY <3>2 DEF update_response_queue
      <4> QED BY <2>1, <4>1, <4>2 DEF LoopStates, Caches
    <3> QED BY <3>1, <3>2
  <2> HIDE DEF v
  <2>4. w \in LoopStates
    BY <2>0, <2>2, MatchEffect DEF Takes
  <2>5. \/ w = v
        \/ /\ v.cache[i + 1].ack.tag = id /\ w.status \in {"Ok", "Error"}
           /\ \A k \in 1..CacheLast : k # i + 1 => w.cache[k] = v.cache[k]
    <3>1. CASE v.cache[i + 1].valid /\ v.cache[i + 1].ack.tag = id
      <4> DEFINE st == IF v.cache[i + 1].ack.success THEN "Ok" ELSE "Error"
      <4>1. w = [v EXCEPT !.status = st, !.by = v.cache[i + 1].ack.serial,
                          !.cache[i + 1] = Invalid]
        BY <3>1 DEF Matched
      <4>2. st \in {"Ok", "Error"}
        OBVIOUS
      <4> HIDE DEF st
      <4> QED BY <2>2, <3>1, <4>1, <4>2 DEF LoopStates, Caches
    <3>2. CASE ~(v.cache[i + 1].valid /\ v.cache[i + 1].ack.tag = id)
      BY <3>2 DEF Matched
    <3> QED BY <3>1, <3>2
  <2> HIDE DEF w
  <2>6. CASE Gone(u)
    BY <2>0, <2>1, <2>2, <2>4, <2>5, <2>6
  <2>7. CASE y \in Cached(u.cache)
    <3>1. PICK k \in 1..CacheLast : u.cache[k].valid /\ y = u.cache[k].ack
      BY <2>7 DEF Cached
    <3>2. v.cache[k].valid /\ y = v.cache[k].ack
      BY <2>3, <3>1
    <3>3. w.cache[k] = v.cache[k] \/ Gone(w)
      BY <2>5, <3>2
    <3>4. y \in Cached(w.cache) \/ Gone(w)
      BY <3>2, <3>3 DEF Cached
    <3> QED BY <2>0, <2>1, <2>4, <3>4
  <2> QED BY <2>1, <2>6, <2>7
<1>4. CacheLast \in S
  <2> HIDE DEF S
  <2>1. 0..CacheLast \subseteq S
    BY <1>0, <1>2, <1>3, CountUp
  <2> QED BY <1>0, <2>1
<1> QED BY <1>4 DEF turn

\* x is with the server of connection c, or has come back from it.
Held(c, x) == x \in submitted[c] \/ x \in Fetched(H_Cache, acked[c])

\* The packet x on connection c is that of request r.
Carries(c, x, r) == Held(c, x) /\ x.tag = req[r].id /\ x.serial = req[r].serial

\* Pending requests of which the properties speak.
Expected(r) == req[r].status = "Pending" /\ Home(r) /\ req[r].id \notin tainted

\* They have a packet on the way, on their own connection; and every packet has
\* the identifier of the request it was allocated for.
Placed ==
    /\ \A r \in Requests : Expected(r) => \E x : Carries(req[r].conn, x, r)
    /\ \A c \in Conns : \A x : Held(c, x) =>
          /\ x.serial <= packets
          /\ \A r \in Requests : Live(r) /\ req[r].serial = x.serial => req[r].id = x.tag

Somewhere == Finished /\ Kept /\ Placed

\* Packets that stay on the way, for requests that stay what they are.
LEMMA PlacedFrame ==
    ASSUME Placed, packets' = packets,
           \A r \in Requests : Expected(r)' =>
              /\ Expected(r) /\ req'[r].id = req[r].id /\ req'[r].serial = req[r].serial
              /\ req'[r].conn = req[r].conn
              /\ \A x : Carries(req[r].conn, x, r) =>
                    \E y : Held(req[r].conn, y)' /\ y.tag = x.tag /\ y.serial = x.serial,
           \A r \in Requests : Live(r)' =>
              Live(r) /\ req'[r].id = req[r].id /\ req'[r].serial = req[r].serial,
           \A c \in Conns : \A x : Held(c, x)' =>
              \E d \in Conns : \E y : Held(d, y) /\ y.tag = x.tag /\ y.serial = x.serial
    PROVE  Placed'
<1>1. ASSUME NEW r \in Requests, Expected(r)'
      PROVE  \E x : Carries(req[r].conn, x, r)'
  <2>1. PICK x : Carries(req[r].conn, x, r)
    BY <1>1 DEF Placed
  <2>2. PICK y : Held(req[r].conn, y)' /\ y.tag = x.tag /\ y.serial = x.serial
    BY <1>1, <2>1
  <2> QED BY <1>1, <2>1, <2>2 DEF Carries
<1>2. ASSUME NEW c \in Conns, NEW x, Held(c, x)'
      PROVE  /\ x.serial <= packets'
             /\ \A r \in Requests : Live(r)' /\ req'[r].serial = x.serial => req'[r].id = x.tag
  <2>1. PICK d \in Conns : \E y : Held(d, y) /\ y.tag = x.tag /\ y.serial = x.serial
    BY <1>2
  <2>2. PICK y : Held(d, y) /\ y.tag = x.tag /\ y.serial = x.serial
    BY <2>1
  <2> QED BY <2>2 DEF Placed
<1> QED BY <1>1, <1>2 DEF Placed

\* Nothing that the properties speak of has changed but for exceptions.
LEMMA PlacedStutter ==
    ASSUME Placed, UNCHANGED <<device, req, H_Cache, submitted, acked, packets>>,
           tainted \subseteq tainted', strayed \subseteq strayed'
    PROVE  Placed'
<1>1. \A c \in Conns : \A x : Held(c, x)' <=> Held(c, x)
  BY DEF Held
<1>2. \A r \in Requests : (Expected(r)' => Expected(r)) /\ (Live(r)' <=> Live(r))
  BY DEF Expected, Home, Live
<1>3. \A r \in Requests : \A x : Carries(req[r].conn, x, r) => Held(req[r].conn, x)'
  BY DEF Carries, Held
<1> QED BY <1>1, <1>2, <1>3, PlacedFrame

LEMMA SessionPlaced ==
    ASSUME Somewhere, NEW s \in Sessions,
           Finalize(s) \/ \E index \in Indexes : Initialize(s, index)
    PROVE  Placed'
<1>0. /\ Types /\ Connected /\ Placed /\ UNCHANGED <<req, H_Cache, packets, tainted, strayed>>
  BY DEF Somewhere, Kept, Base, Initialize, Finalize, history
<1>1. /\ \A t \in Sessions : t # s => device'[t] = device[t]
      /\ \A d \in Conns : d # device[s] => submitted'[d] = submitted[d] /\ acked'[d] = acked[d]
      /\ \A d \in Conns : /\ submitted'[d] \subseteq submitted[d]
                          /\ acked'[d] = acked[d] \/ acked'[d] = <<>>
      /\ device'[s] = 0 \/ device'[s] = device[s] \/ device'[s] = conns + 1
      /\ device'[s] = conns + 1 => device[s] = 0
  <2>1. CASE Finalize(s)
    <3>1. conns \in Nat
      BY <1>0, SizesAssumption DEF Types
    <3> QED BY <1>0, <2>1, <3>1 DEF Types, Finalize, finalize
  <2>2. CASE \E index \in Indexes : Initialize(s, index)
    <3>1. device[s] = 0
      BY <1>0, <2>2 DEF Initialize, Initialized, Connected
    <3> QED BY <1>0, <2>2, <3>1 DEF Types, Initialize, initialize, streams
  <2> QED BY <2>1, <2>2
<1>2. \A r \in Requests : Live(r) => req[r].conn \in Conns /\ req[r].conn # 0 /\ req[r].conn # conns + 1
  <2>1. \A r \in Requests : Live(r) => /\ req[r].conn \in Conns /\ req[r].conn \in Nat \ {0}
                                       /\ req[r].conn <= conns
    BY <1>0, RequestTypes DEF Used_Request, Conns, Connected
  <2> QED BY <1>0, <2>1, SizesAssumption DEF Types
<1>3. ASSUME NEW r \in Requests, Expected(r)'
      PROVE  /\ Expected(r) /\ req'[r] = req[r]
             /\ \A x : Carries(req[r].conn, x, r) => Held(req[r].conn, x)'
  <2>1. Live(r) /\ req'[r] = req[r] /\ req[r].conn \in Conns
    BY <1>0, <1>2, <1>3 DEF Expected, Live
  <2>2. PICK t \in Sessions : device'[t] = req[r].conn
    BY <1>0, <1>3 DEF Expected, Home
  <2>3. device[t] = req[r].conn
    BY <1>1, <1>2, <2>1, <2>2
  <2>4. Expected(r)
    BY <1>0, <1>3, <2>3 DEF Expected, Home
  <2>5. t # s => req[r].conn # device[s]
    BY <1>0, <1>2, <2>1, <2>3 DEF Connected
  <2>6. submitted'[req[r].conn] = submitted[req[r].conn] /\ acked'[req[r].conn] = acked[req[r].conn]
    <3>1. CASE t # s
      BY <1>1, <2>1, <2>5, <3>1
    <3>2. CASE t = s
      <4>1. device'[s] = device[s] /\ device[s] # 0
        BY <1>2, <2>1, <2>2, <2>3, <3>2
      <4>2. ~Finalize(s)
        BY <1>0, <4>1 DEF Finalize, finalize, Types
      <4> QED BY <4>2 DEF Initialize, streams
    <3> QED BY <3>1, <3>2
  <2>7. \A x : Carries(req[r].conn, x, r) => Held(req[r].conn, x)'
    BY <1>0, <2>6 DEF Carries, Held
  <2> QED BY <2>1, <2>4, <2>7
<1>4. ASSUME NEW d \in Conns, NEW x, Held(d, x)'
      PROVE  Held(d, x)
  <2>0. H_Cache' = H_Cache
    BY <1>0
  <2>1. submitted'[d] \subseteq submitted[d]
    BY <1>1
  <2>2. Queued(acked'[d]) \subseteq Queued(acked[d])
    <3>1. CASE acked'[d] = acked[d]
      BY <3>1
    <3>2. CASE acked'[d] = <<>>
      BY <3>2, NoneQueued
    <3> QED BY <1>1, <3>1, <3>2
  <2>3. x \in submitted'[d] \/ x \in Fetched(H_Cache', acked'[d])
    BY <1>4 DEF Held
  <2> QED BY <2>0, <2>1, <2>2, <2>3 DEF Held, Fetched
<1>5. \A r \in Requests : Live(r)' => Live(r) /\ req'[r] = req[r]
  BY <1>0 DEF Live
<1> QED BY <1>0, <1>3, <1>4, <1>5, PlacedFrame

LEMMA AllocatePlaced ==
    ASSUME Somewhere, NEW s \in Sessions, NEW r \in Requests, NEW k \in Kinds, NEW i \in Request_Id,
           Allocate_Request(s, r, k, i)
    PROVE  Placed'
<1>0. /\ Types /\ Connected /\ Numbered /\ Placed /\ ~Live(r) /\ packets \in Nat
      /\ UNCHANGED <<device, H_Cache, submitted, acked, strayed>> /\ tainted \subseteq tainted'
  BY SizesAssumption DEF Somewhere, Kept, Base, Types, Allocate_Request, Live
<1>1. CASE UNCHANGED <<req, buffer, packets>>
  BY <1>0, <1>1, PlacedStutter
<1>2. ASSUME NEW x, x.status = "Allocated", x.serial = packets + 1,
             req' = [req EXCEPT ![r] = x], packets' = packets + 1
      PROVE  Placed'
  <2>1. req'[r] = x /\ \A q \in Requests : q # r => req'[q] = req[q]
    BY <1>0, <1>2 DEF Types
  <2>2. \A d \in Conns : \A y : Held(d, y)' <=> Held(d, y)
    BY <1>0 DEF Held
  <2>3. ASSUME NEW q \in Requests, Expected(q)'
        PROVE  \E y : Carries(req[q].conn, y, q)'
    <3>1. q # r /\ Expected(q)
      BY <1>0, <1>2, <2>1, <2>3 DEF Expected, Home
    <3>2. PICK y : Carries(req[q].conn, y, q)
      BY <1>0, <3>1 DEF Placed
    <3> QED BY <1>0, <2>1, <3>1, <3>2 DEF Carries, Held
  <2>4. ASSUME NEW d \in Conns, NEW y, Held(d, y)
        PROVE  /\ y.serial <= packets'
               /\ \A q \in Requests : Live(q)' /\ req'[q].serial = y.serial => req'[q].id = y.tag
    <3>1. y.serial \in Nat /\ y.serial <= packets
      <4>1. y.serial \in Nat
        <5>1. CASE y \in submitted[d]
          BY <1>0, <5>1 DEF Types, Packet
        <5>2. CASE \E j \in 1..Len(acked[d]) : y = acked[d][j]
          <6>1. PICK j \in 1..Len(acked[d]) : y = acked[d][j]
            BY <5>2
          <6>2. acked[d] \in Seq(Acks)
            BY <1>0 DEF Types
          <6>3. acked[d][j] \in Acks
            BY <6>2
          <6> QED BY <6>1, <6>3 DEF Acks
        <5>3. CASE \E j \in 1..CacheLast : H_Cache[j].valid /\ y = H_Cache[j].ack
          BY <1>0, <5>3, CacheTypes DEF Types, Acks
        <5> QED BY <2>4, <5>1, <5>2, <5>3 DEF Held, Fetched, Queued, Cached
      <4> QED BY <1>0, <2>4, <4>1 DEF Placed
    <3>2. y.serial <= packets' /\ y.serial # x.serial
      BY <1>0, <1>2, <3>1
    <3>3. \A q \in Requests : q # r => (Live(q)' <=> Live(q))
      BY <2>1 DEF Live
    <3> QED BY <1>0, <2>1, <2>4, <3>2, <3>3 DEF Placed
  <2> QED BY <2>2, <2>3, <2>4 DEF Placed
<1>3. \/ UNCHANGED <<req, buffer, packets>>
      \/ \E x : /\ x.status = "Allocated" /\ x.serial = packets + 1
                /\ req' = [req EXCEPT ![r] = x] /\ packets' = packets + 1
  BY DEF Allocate_Request, allocate_request
<1> QED BY <1>1, <1>2, <1>3

LEMMA EnqueuePlaced ==
    ASSUME Somewhere, NEW s \in Sessions, NEW r \in Requests, Enqueue(s, r)
    PROVE  Placed'
<1> DEFINE c == device[s]
           p == [tag |-> req[r].id, serial |-> req[r].serial]
<1>0. /\ Base /\ Types /\ Connected /\ Numbered /\ Live(r) /\ Placed /\ c # 0
      /\ UNCHANGED <<device, H_Cache, acked, packets, tainted>>
  BY DEF Somewhere, Kept, Base, Live, Enqueue, Initialized
<1>1. /\ c \in Conns /\ strayed \subseteq strayed'
      /\ req[r].conn = c \/ req[r].conn \in strayed'
  BY <1>0, Device, StrayTypes DEF Enqueue
<1>2. CASE UNCHANGED <<submitted, req>>
  BY <1>0, <1>1, <1>2, PlacedStutter
<1>3. CASE /\ submitted' = [submitted EXCEPT ![c] = @ \cup {p}]
           /\ req' = [req EXCEPT ![r].status = "Pending"]
  <2>1. /\ req[r].by \in 0..MaxPackets /\ p.serial = req[r].serial /\ p.tag = req[r].id
        /\ req[r].serial <= packets
    BY <1>0, RequestTypes DEF Used_Request, Numbered
  <2>2. /\ req'[r].serial = req[r].serial /\ req'[r].id = req[r].id /\ req'[r].conn = req[r].conn
        /\ req'[r].status = "Pending"
        /\ \A q \in Requests : q # r => req'[q] = req[q]
    BY <1>0, <1>1, <1>3, <2>1, Assign
  <2> HIDE DEF p, c
  <2>3. /\ submitted'[c] = submitted[c] \cup {p}
        /\ \A d \in Conns : d # c => submitted'[d] = submitted[d]
    BY <1>0, <1>1, <1>3 DEF Types
  <2>4. \A d \in Conns : \A x : Held(d, x)' <=> Held(d, x) \/ (x = p /\ d = c)
    BY <1>0, <1>1, <2>3 DEF Held
  <2>5. ASSUME NEW q \in Requests, Expected(q)'
        PROVE  \E x : Carries(req[q].conn, x, q)'
    <3>1. CASE q = r
      <4>1. req'[r].conn = c
        BY <1>1, <2>2, <2>5, <3>1 DEF Expected, Home
      <4>2. \A x : x = p => Carries(req[q].conn, x, q)'
        BY <2>1, <2>2, <2>3, <3>1, <4>1 DEF Carries, Held
      <4> QED BY <4>2
    <3>2. CASE q # r
      <4>1. Expected(q) /\ req'[q] = req[q] /\ Live(q)
        BY <1>0, <1>1, <2>2, <2>5, <3>2 DEF Expected, Home, Live
      <4>2. req[q].conn \in Conns
        BY <1>0, <4>1, RequestTypes DEF Used_Request
      <4>3. PICK x : Carries(req[q].conn, x, q)
        BY <1>0, <4>1 DEF Placed
      <4>4. submitted[req[q].conn] \subseteq submitted'[req[q].conn]
        BY <2>3, <4>2
      <4> QED BY <1>0, <4>1, <4>3, <4>4 DEF Carries, Held
    <3> QED BY <3>1, <3>2
  <2>6. \A q \in Requests : /\ Live(q)' <=> Live(q)
                            /\ req'[q].serial = req[q].serial /\ req'[q].id = req[q].id
    BY <1>0, <2>2 DEF Live
  <2>7. ASSUME NEW d \in Conns, NEW x, Held(d, x)'
        PROVE  /\ x.serial <= packets'
               /\ \A q \in Requests : Live(q)' /\ req'[q].serial = x.serial => req'[q].id = x.tag
    <3>1. CASE Held(d, x)
      BY <1>0, <2>6, <3>1 DEF Placed
    <3>2. CASE x = p
      BY <1>0, <2>1, <2>6, <3>2 DEF Numbered
    <3> QED BY <2>4, <2>7, <3>1, <3>2
  <2> QED BY <2>5, <2>7 DEF Placed
<1> QED BY <1>2, <1>3 DEF Enqueue, enqueue

LEMMA ReleasePlaced ==
    ASSUME Somewhere, NEW s \in Sessions, NEW r \in Requests, Release(s, r)
    PROVE  Placed'
<1>0. /\ Base /\ Types /\ Placed /\ Live(r) /\ device[s] # 0
      /\ UNCHANGED <<device, H_Cache, submitted, acked, packets>> /\ tainted \subseteq tainted'
      /\ req' = [req EXCEPT ![r] = Raw]
  BY DEF Somewhere, Kept, Base, Release, Initialized, Live
<1>1. strayed \subseteq strayed'
  BY <1>0, StrayTypes DEF Release
<1>2. \A d \in Conns : \A x : Held(d, x)' <=> Held(d, x)
  BY <1>0 DEF Held
<1>3. /\ \A q \in Requests : q # r => req'[q] = req[q]
      /\ ~Live(r)' /\ req'[r].status # "Pending"
  BY <1>0 DEF Types, Live, Raw
<1>4. \A q \in Requests : Live(q)' => Live(q) /\ req'[q] = req[q]
  BY <1>3 DEF Live
<1>5. \A q \in Requests : Expected(q)' => Expected(q) /\ req'[q] = req[q]
  BY <1>0, <1>1, <1>3 DEF Expected, Home
<1>6. \A q \in Requests : Expected(q)' =>
         \A x : Carries(req[q].conn, x, q) => Held(req[q].conn, x)'
  BY <1>0, <1>5 DEF Carries, Held
<1> QED BY <1>0, <1>2, <1>4, <1>5, <1>6, PlacedFrame

LEMMA AcknowledgePlaced ==
    ASSUME Somewhere, NEW c \in Conns, NEW p \in submitted[c], NEW success \in BOOLEAN,
           Acknowledge(c, p, success)
    PROVE  Placed'
<1> DEFINE x == [tag |-> p.tag, success |-> success, serial |-> p.serial]
<1>0. /\ Types /\ Placed
      /\ submitted' = [submitted EXCEPT ![c] = @ \ {p}]
      /\ acked' = [acked EXCEPT ![c] = Append(@, x)]
      /\ UNCHANGED <<device, req, H_Cache, packets, tainted, strayed>>
  BY DEF Somewhere, Kept, Base, Acknowledge, history
<1>1. p \in Packet /\ acked[c] \in Seq(Acks) /\ H_Cache \in Caches
  BY <1>0 DEF Types
<1>2. x \in Acks /\ x.serial = p.serial /\ x.tag = p.tag
  BY <1>1 DEF Packet, Acks
<1> HIDE DEF x
<1>3. /\ acked'[c] = Append(acked[c], x)
      /\ \A d \in Conns : d # c => acked'[d] = acked[d]
      /\ submitted'[c] = submitted[c] \ {p}
      /\ \A d \in Conns : d # c => submitted'[d] = submitted[d]
  BY <1>0 DEF Types
<1>4. Fetched(H_Cache, acked'[c]) = Fetched(H_Cache, acked[c]) \cup {x}
  <2>1. Fetched(H_Cache, Append(acked[c], x)) = Fetched(H_Cache, acked[c]) \cup {x}
    BY <1>1, <1>2, FetchedAppend
  <2> QED BY <1>3, <2>1
<1>5. ASSUME NEW d \in Conns, NEW y, Held(d, y)
      PROVE  \E z : Held(d, z)' /\ z.tag = y.tag /\ z.serial = y.serial
  <2>1. CASE d = c /\ y = p
    <3>1. \A z : z = x => Held(d, z)'
      BY <1>0, <1>4, <2>1 DEF Held
    <3> QED BY <1>2, <2>1, <3>1
  <2>2. CASE ~(d = c /\ y = p)
    <3>1. Held(d, y)'
      BY <1>0, <1>3, <1>4, <1>5, <2>2 DEF Held
    <3> QED BY <3>1
  <2> QED BY <2>1, <2>2
<1>6. ASSUME NEW d \in Conns, NEW y, Held(d, y)'
      PROVE  \E z : Held(d, z) /\ z.tag = y.tag /\ z.serial = y.serial
  <2>1. Held(d, y) \/ (y = x /\ d = c)
    BY <1>0, <1>3, <1>4, <1>6 DEF Held
  <2>2. Held(c, p)
    BY DEF Held
  <2> QED BY <1>2, <2>1, <2>2
<1>7. \A r \in Requests : /\ Live(r)' <=> Live(r)
                          /\ Expected(r)' <=> Expected(r)
                          /\ Expected(r) => req[r].conn \in Conns
  <2>1. \A r \in Requests : Expected(r) => Live(r)
    BY DEF Expected, Live
  <2> QED BY <1>0, <2>1, RequestTypes DEF Live, Expected, Home, Used_Request
<1>8. \A r \in Requests : Expected(r) =>
         \A y : Carries(req[r].conn, y, r) =>
            \E z : Held(req[r].conn, z)' /\ z.tag = y.tag /\ z.serial = y.serial
  <2>1. ASSUME NEW r \in Requests, Expected(r), NEW y, Carries(req[r].conn, y, r)
        PROVE  \E z : Held(req[r].conn, z)' /\ z.tag = y.tag /\ z.serial = y.serial
    <3>1. PICK d \in Conns : d = req[r].conn
      BY <1>7, <2>1
    <3>2. d = req'[r].conn /\ Held(d, y)
      BY <1>0, <2>1, <3>1 DEF Carries
    <3>3. PICK z : Held(d, z)' /\ z.tag = y.tag /\ z.serial = y.serial
      BY <1>5, <3>2
    <3> QED BY <3>2, <3>3 DEF Held
  <2> QED BY <2>1
<1> QED BY <1>0, <1>6, <1>7, <1>8, PlacedFrame

\* An update takes nothing away but the acknowledgement by which it finishes
\* the request.
LEMMA UpdatePlaced ==
    ASSUME Somewhere, NEW r \in Requests, Event_Update(r)
    PROVE  Placed'
<1>0. /\ Base /\ Types /\ Connected /\ Numbered /\ Tokens /\ Placed
      /\ UNCHANGED <<device, submitted, packets, tainted, strayed>>
  BY DEF Somewhere, Finished, Base, Event_Update, history
<1>1. CASE UNCHANGED <<req, H_Cache, acked>>
  BY <1>0, <1>1, PlacedStutter
<1>2. ASSUME NEW s \in Sessions, Updated(s, r)
      PROVE  Placed'
  <2> DEFINE c == device[s]
             id == req[r].id
             before == Before(s, r)
             after == Turns(Before(s, r), req[r].id)[CacheLast]
             F == Clean(tainted, H_Cache, acked[c])
             G == Clean(tainted, after.cache, after.queue)
  <2>1. /\ c \in Conns /\ req[r].status = "Pending" /\ Live(r)
        /\ before \in LoopStates /\ after \in LoopStates
        /\ Fetched(after.cache, after.queue) \subseteq Fetched(H_Cache, acked[c])
        /\ req' = [req EXCEPT ![r].status = after.status, ![r].by = after.by]
        /\ H_Cache' = after.cache /\ acked' = [acked EXCEPT ![c] = after.queue]
    BY <1>2 DEF Updated
  <2>2. before.cache = H_Cache /\ before.queue = acked[c] /\ before.status = "Pending"
    BY <2>1 DEF Before
  <2>3. Finishes(tainted, before, after, id)
    <3>1. Apart(tainted, before.cache, before.queue)
      BY <1>0, <2>1, <2>2 DEF Tokens
    <3> QED BY <2>1, <3>1, LoopEffect
  <2>4. ASSUME NEW y \in Cached(H_Cache)
        PROVE  y \in Cached(after.cache) \/ (y.tag = id /\ after.status \in {"Ok", "Error"})
    BY <2>1, <2>2, <2>4, LoopKeeps
  <2> HIDE DEF before, after, c
  <2>5. \/ after.status = "Pending" /\ G = F
        \/ id \in tainted /\ G = F
        \/ /\ after.status \in {"Ok", "Error"}
           /\ \E x \in F : x.tag = id /\ G = F \ {x}
    BY <2>2, <2>3 DEF Finishes
  <2>6. /\ after.status \in {"Allocated", "Pending", "Ok", "Error"}
        /\ after.by \in 0..MaxPackets
    BY <2>1 DEF LoopStates
  <2>7. /\ req'[r].status = after.status /\ req'[r].conn = req[r].conn
        /\ req'[r].id = id /\ req'[r].serial = req[r].serial
        /\ \A q \in Requests : q # r => req'[q] = req[q]
    BY <1>0, <2>1, <2>6, Assign
  <2>8. acked'[c] = after.queue /\ \A d \in Conns : d # c => acked'[d] = acked[d]
    BY <1>0, <2>1 DEF Types
  <2>9. ASSUME NEW q \in Requests
        PROVE  (Live(q)' <=> Live(q)) /\ (Expected(q)' => Expected(q) /\ Live(q))
    <3>1. CASE q = r
      <4>1. Live(r) /\ Live(r)'
        BY <2>1, <2>6, <2>7 DEF Live
      <4>2. Home(r)' => Home(r)
        BY <1>0, <2>7 DEF Home
      <4>3. Expected(r)' => Expected(r)
        BY <1>0, <2>1, <2>7, <4>2 DEF Expected
      <4> QED BY <3>1, <4>1, <4>3
    <3>2. CASE q # r
      <4>1. req'[q] = req[q]
        BY <2>7, <3>2
      <4> QED BY <1>0, <4>1 DEF Live, Expected, Home
    <3> QED BY <3>1, <3>2
  <2>10. ASSUME NEW q \in Requests, Expected(q)', NEW y, Carries(req[q].conn, y, q)
         PROVE  Held(req[q].conn, y)'
    <3>1. Expected(q) /\ Live(q) /\ req[q].id \notin tainted /\ y.tag = req[q].id
      BY <2>9, <2>10 DEF Expected, Carries
    <3>2. PICK d \in Conns : d = req[q].conn /\ d = req'[q].conn
      BY <1>0, <2>7, <3>1, RequestTypes DEF Used_Request
    <3>3. after.status \in {"Ok", "Error"} => y.tag # id
      <4>1. CASE q = r
        BY <2>7, <2>10, <4>1 DEF Expected
      <4>2. CASE q # r
        BY <1>0, <2>1, <3>1, <4>2 DEF Numbered
      <4> QED BY <4>1, <4>2
    <3>4. CASE y \in submitted[d]
      BY <1>0, <3>2, <3>4 DEF Held
    <3>5. CASE y \in Cached(H_Cache)
      <4>1. y \in Cached(after.cache)
        BY <2>4, <3>3, <3>5
      <4> QED BY <2>1, <3>2, <4>1 DEF Held, Fetched
    <3>6. CASE y \in Queued(acked[d]) /\ d # c
      <4>1. y \in Queued(acked'[d])
        BY <2>8, <3>6
      <4> QED BY <3>2, <4>1 DEF Held, Fetched
    <3>7. CASE y \in Queued(acked[d]) /\ d = c
      <4>1. y \in F
        BY <3>1, <3>7 DEF Clean, Fetched
      <4>2. y \in G
        <5> HIDE DEF F, G
        <5> QED BY <2>5, <3>3, <4>1
      <4>3. y \in Fetched(H_Cache', acked'[d])
        BY <2>1, <2>8, <3>7, <4>2 DEF Clean
      <4> QED BY <3>2, <4>3 DEF Held
    <3> QED BY <2>10, <3>2, <3>4, <3>5, <3>6, <3>7 DEF Carries, Held, Fetched
  <2>11. ASSUME NEW d \in Conns, NEW x, Held(d, x)'
         PROVE  \E e \in Conns : Held(e, x)
    <3>1. CASE x \in submitted'[d]
      BY <1>0, <3>1 DEF Held
    <3>2. CASE x \in Fetched(after.cache, after.queue)
      BY <2>1, <3>2 DEF Held
    <3>3. CASE x \in Queued(acked'[d]) /\ d # c
      BY <2>8, <3>3 DEF Held, Fetched
    <3> QED BY <2>1, <2>8, <2>11, <3>1, <3>2, <3>3 DEF Held, Fetched
  <2>12. \A d \in Conns : \A x : Held(d, x)' =>
            \E e \in Conns : \E y : Held(e, y) /\ y.tag = x.tag /\ y.serial = x.serial
    BY <2>11
  <2>13. \A q \in Requests : /\ req'[q].id = req[q].id /\ req'[q].serial = req[q].serial
                             /\ req'[q].conn = req[q].conn
    BY <2>7
  <2> QED BY <1>0, <2>9, <2>10, <2>12, <2>13, PlacedFrame
<1> QED BY <1>0, <1>1, <1>2, UpdateEffect

LEMMA SomewhereStep ==
    ASSUME Somewhere, [Next]_vars
    PROVE  Somewhere'
<1>0. Finished' /\ Kept' /\ Placed
  BY FinishedStep, KeptStep DEF Somewhere
<1>1. ASSUME UNCHANGED <<device, req, H_Cache, submitted, acked, packets, tainted, strayed>>
      PROVE  Placed'
  BY <1>0, <1>1, PlacedStutter
<1>2. ASSUME NEW s \in Sessions, Finalize(s) \/ \E index \in Indexes : Initialize(s, index)
      PROVE  Placed'
  BY <1>2, SessionPlaced
<1>3. ASSUME NEW s \in Sessions, NEW r \in Requests, NEW k \in Kinds, NEW i \in Request_Id,
             Allocate_Request(s, r, k, i)
      PROVE  Placed'
  BY <1>3, AllocatePlaced
<1>4. ASSUME NEW s \in Sessions, NEW r \in Requests, Enqueue(s, r)
      PROVE  Placed'
  BY <1>4, EnqueuePlaced
<1>5. ASSUME NEW s \in Sessions, NEW r \in Requests, Release(s, r)
      PROVE  Placed'
  BY <1>5, ReleasePlaced
<1>6. ASSUME NEW r \in Requests, Event_Update(r)
      PROVE  Placed'
  BY <1>6, UpdatePlaced
<1>7. ASSUME NEW c \in Conns, NEW p \in submitted[c], NEW success \in BOOLEAN,
             Acknowledge(c, p, success)
      PROVE  Placed'
  BY <1>7, AcknowledgePlaced
<1>8. \A c \in Conns : Event(c) \/ Take(c) =>
         UNCHANGED <<device, req, H_Cache, submitted, acked, packets, tainted, strayed>>
  BY DEF Event, Take, streams, history
<1>9. UNCHANGED vars =>
         UNCHANGED <<device, req, H_Cache, submitted, acked, packets, tainted, strayed>>
  BY DEF vars, streams, history
<1>10. Placed'
  BY <1>1, <1>2, <1>3, <1>4, <1>5, <1>6, <1>7, <1>8, <1>9 DEF Next
<1> QED BY <1>0, <1>10 DEF Somewhere

LEMMA SomewhereInit ==
    ASSUME Init
    PROVE  Somewhere
<1>1. \A i \in 1..CacheLast : ~H_Cache[i].valid
  BY DEF Init, Invalid
<1>2. Cached(H_Cache) = {}
  BY <1>1 DEF Cached
<1>3. \A c \in Conns : submitted[c] = {} /\ acked[c] = <<>>
  BY DEF Init
<1>4. \A c \in Conns : \A x : ~Held(c, x)
  BY <1>2, <1>3, NoneQueued DEF Held, Fetched
<1>5. \A r \in Requests : ~Expected(r)
  BY DEF Init, Raw, Expected
<1>6. Placed
  BY <1>4, <1>5 DEF Placed
<1> QED BY <1>6, FinishedInit, KeptInit DEF Somewhere

LEMMA PendingPlace ==
    ASSUME Somewhere, NEW r \in Requests, Expected(r)
    PROVE  Cardinality(PlacesOf(r)) = 1
<1> DEFINE c == req[r].conn
           n == req[r].serial
           P == PlacesOf(r)
           Server(z) == \E p \in submitted[c] : p.serial = n /\ z = <<"server", p>>
           Queue(z) == \E j \in 1..Len(acked[c]) : acked[c][j].serial = n /\ z = <<"queue", j>>
           Cache(z) == \E j \in 1..CacheLast :
                          H_Cache[j].valid /\ H_Cache[j].ack.serial = n /\ z = <<"cache", j>>
<1>0. Types /\ Numbered /\ Tokens /\ Placed /\ Live(r) /\ req[r].id \notin tainted
  BY DEF Somewhere, Finished, Base, Expected, Live
<1>1. c \in Conns /\ n \in 1..MaxPackets
  BY <1>0, RequestTypes DEF Used_Request
<1>2. DOMAIN acked[c] = 1..Len(acked[c])
  BY <1>0, <1>1 DEF Types
<1>3. PICK x : Held(c, x) /\ x.serial = n
  BY <1>0 DEF Placed, Carries
<1>4. \A z : z \in P <=> Server(z) \/ Queue(z) \/ Cache(z)
  BY <1>2 DEF PlacesOf
<1> HIDE DEF P
<1>5. \A y : Held(c, y) /\ y.serial = n => y.tag = req[r].id
  BY <1>0, <1>1 DEF Placed
<1> HIDE DEF c, n
<1>6. \A p \in submitted[c] : p.serial = n => p.tag = req[r].id /\ p \in Sent(c)
  BY <1>0, <1>5 DEF Held, Sent
<1>7. \A y \in Fetched(H_Cache, acked[c]) : y.serial = n => y.tag = req[r].id /\ y \in Back(c)
  BY <1>0, <1>5 DEF Held, Back, Clean
<1>8. \A j \in 1..Len(acked[c]) : acked[c][j] \in Fetched(H_Cache, acked[c])
  BY DEF Fetched, Queued
<1>9. \A j \in 1..CacheLast : H_Cache[j].valid => H_Cache[j].ack \in Fetched(H_Cache, acked[c])
  BY DEF Fetched, Cached
<1>10. \E z : z \in P
  <2>1. CASE x \in submitted[c]
    BY <1>3, <1>4, <2>1
  <2>2. CASE \E j \in 1..Len(acked[c]) : x = acked[c][j]
    BY <1>3, <1>4, <2>2
  <2>3. CASE \E j \in 1..CacheLast : H_Cache[j].valid /\ x = H_Cache[j].ack
    BY <1>3, <1>4, <2>3
  <2> QED BY <1>3, <2>1, <2>2, <2>3 DEF Held, Fetched, Queued, Cached
<1>11. ASSUME NEW y, NEW z, Server(y) \/ Queue(y) \/ Cache(y), Server(z) \/ Queue(z) \/ Cache(z)
       PROVE  y = z
  <2>0. Apart(tainted, H_Cache, acked[c])
    BY <1>0, <1>1 DEF Tokens
  <2>1. ASSUME NEW p \in submitted[c], p.serial = n,
               NEW v \in Fetched(H_Cache, acked[c]), v.serial = n
        PROVE  FALSE
    BY <1>0, <1>1, <1>6, <1>7, <2>1 DEF Tokens
  <2>2. \A u, v : Server(u) => ~Queue(v) /\ ~Cache(v)
    BY <1>8, <1>9, <2>1
  <2>3. \A u, v : Queue(u) => ~Cache(v)
    BY <1>0, <1>7, <1>8, <1>9, <2>0 DEF Apart
  <2>4. \A u, v : Server(u) /\ Server(v) => u = v
    <3>1. \A p, q \in submitted[c] : p.serial = n /\ q.serial = n => p = q
      <4>1. submitted[c] \subseteq Packet
        BY <1>0, <1>1 DEF Types
      <4> QED BY <1>6, <4>1 DEF Packet
    <3> QED BY <3>1
  <2>5. \A u, v : Queue(u) /\ Queue(v) => u = v
    BY <1>0, <1>7, <1>8, <2>0 DEF Apart
  <2>6. \A u, v : Cache(u) /\ Cache(v) => u = v
    BY <1>0, <1>7, <1>9, <2>0 DEF Apart
  <2> HIDE DEF Server, Queue, Cache
  <2> QED BY <1>11, <2>2, <2>3, <2>4, <2>5, <2>6
<1>12. PICK z : P = {z}
  <2> HIDE DEF Server, Queue, Cache
  <2>1. PICK z : z \in P
    BY <1>10
  <2>2. \A y \in P : y = z
    BY <1>4, <1>11, <2>1
  <2> QED BY <2>1, <2>2
<1>13. Cardinality(P) = 1
  BY <1>12, FS_Singleton
<1> QED BY <1>13 DEF P

\* The packet of a pending request is in exactly one of the places from which
\* it can finish the request, while the session that enqueued it is open: with
\* the server, in the stream or in the cache, whatever other sessions do there.
\* Excepted are identifiers that two requests had at a time or whose request
\* was released while pending, and connections whose requests another session
\* used (Enqueue, Update_Request and its loop, Release, Finalize).
THEOREM InOnePlace == Spec => []PendingSomewhere
<1>1. Init => Somewhere
  BY SomewhereInit
<1>2. Somewhere /\ [Next]_vars => Somewhere'
  BY SomewhereStep
<1>3. Somewhere => PendingSomewhere
  BY PendingPlace DEF PendingSomewhere, Expected
<1> QED BY <1>1, <1>2, <1>3, PTL DEF Spec
=============================================================================
