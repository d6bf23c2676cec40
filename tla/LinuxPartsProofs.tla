-------------------------- MODULE LinuxPartsProofs --------------------------
(***************************************************************************)
(* Proofs about the parts of MCLinux together: Memory and Log sessions and,*)
(* from EventLoopProofs, the event loop with its Message sessions.         *)
(*                                                                         *)
(* MemoryInv and MemoryFiles follow the memory file of a client: its size  *)
(* is what the client asked for unless it was resized, and from the        *)
(* broker's seals on it cannot change; a descriptor of the server is that  *)
(* of one client whose session is open or closed.                          *)
(*                                                                         *)
(* LogInv orders the characters by where they are: written, in the packets *)
(* under way, still in the client's buffer.                                *)
(***************************************************************************)
EXTENDS MCLinux, EventLoopProofs, Integers, Sequences, FiniteSetTheorems, SequenceTheorems

\* Every step of the parts is one of each of them, or leaves it.
LEMMA PartsStep ==
    ASSUME [PartsNext]_all
    PROVE  [Next]_vars /\ [Memory!Next]_memory /\ [Log!Next]_log
BY DEF PartsNext, all

\* A behaviour of the parts is one of the event loop.
LEMMA PartsLoop == PartsSpec => Spec
<1>1. PartsInit => Init
  BY DEF PartsInit
<1>2. [PartsNext]_all => [Next]_vars
  BY PartsStep
<1> QED BY <1>1, <1>2, PTL DEF PartsSpec, Spec

\* The instance counts alike.
LEMMA CountAlike ==
    ASSUME NEW S
    PROVE  Memory!Cardinality(S) = Cardinality(S)
BY Zenon DEF Cardinality, Memory!Cardinality

-----------------------------------------------------------------------------
(* Memory sessions                                                         *)

MemoryTypes ==
    /\ memClient \in [MemoryClients -> Memory!Client_Session]
    /\ memFile \in [MemoryClients -> [size: MemorySizes \cup {0}, seals: SUBSET Memory!Seals, resized: BOOLEAN]]
    /\ memServer \in [1..MemorySlots -> Memory!Server_Session]
    /\ memBroker \in BOOLEAN

\* A session variable of the server that has a descriptor is in use, looks at
\* that file, and is the only one that does.
MemoryServed ==
    /\ \A i \in 1..MemorySlots : memServer[i].fd # Memory!None <=>
          Memory!Initialized(memServer[i]) /\ Memory!Ready(memServer[i])
    /\ \A i \in 1..MemorySlots : memServer[i].fd # Memory!None =>
          /\ memServer[i].map = memServer[i].fd
          /\ memClient[memServer[i].fd].state \in {"open", "closed"}
    /\ \A i, j \in 1..MemorySlots :
          memServer[i].fd # Memory!None /\ memServer[i].fd = memServer[j].fd => i = j
    /\ \A c \in MemoryClients : memClient[c].state = "open" =>
          \E i \in 1..MemorySlots : memServer[i].fd = c

MemoryInv == MemoryTypes /\ MemoryServed

\* The length of a map that is there, of a file of size n.
Fits(len, n) == len = Memory!fstat_size(n) /\ len \in 1..n

\* A file that was not resized has the size that was asked for, and the client's
\* map that size as an int; it is sealed when the request is sent on, so that
\* what the server maps keeps its length.
MemoryFiles ==
    /\ \A c \in MemoryClients :
          memClient[c].state \in {"requested", "forwarded", "open"} /\ ~memFile[c].resized =>
             /\ memFile[c].size = memClient[c].asked
             /\ memClient[c].map = Memory!fstat_size(memClient[c].asked)
    /\ \A c \in MemoryClients : memClient[c].state \in {"forwarded", "open"} =>
          memFile[c].seals = Memory!Seals
    /\ \A c \in MemoryClients : \A i \in 1..MemorySlots :
          memClient[c].state = "open" /\ memServer[i].fd = c => Fits(memServer[i].len, memFile[c].size)

LEMMA MemorySizesFacts ==
    /\ MemoryClients \subseteq Nat \ {0} /\ Memory!None \notin MemoryClients
    /\ MemorySlots \in Nat \ {0} /\ MemorySizes \subseteq Nat /\ IntHalf \in Nat \ {0}
BY PartsAssumption DEF Memory!MemoryAssumption, Memory!None

\* A map is never longer than its file; it may be missing.
LEMMA MapLength ==
    ASSUME NEW n \in MemorySizes \cup {0}, NEW len \in Memory!mmap(n)
    PROVE  len = 0 \/ Fits(len, n)
<1>1. IntHalf \in Nat \ {0} /\ n \in Nat
  BY MemorySizesFacts
<1> DEFINE low == n % (2 * IntHalf)
           f == Memory!fstat_size(n)
<1>2. low \in 0..(2 * IntHalf - 1) /\ low <= n
  BY <1>1
<1>3. f = IF low < IntHalf THEN low ELSE low - 2 * IntHalf
  BY DEF Memory!fstat_size
<1> HIDE DEF low
<1>4. f \in Nat => f <= n
  BY <1>1, <1>2, <1>3
<1> HIDE DEF f
<1>5. len = 0 \/ (len = f /\ f \in Nat)
  BY DEF Memory!mmap, f
<1> QED BY <1>1, <1>4, <1>5 DEF Fits, f

LEMMA MemoryInit ==
    ASSUME Memory!Init
    PROVE  MemoryInv /\ MemoryFiles
<1> USE MemorySizesFacts
<1>1. memClient \in [MemoryClients -> Memory!Client_Session]
  BY DEF Memory!Init, Memory!Client_Session, Memory!States
<1>2. memFile \in [MemoryClients -> [size: MemorySizes \cup {0}, seals: SUBSET Memory!Seals, resized: BOOLEAN]]
  BY DEF Memory!Init
<1>3. memServer \in [1..MemorySlots -> Memory!Server_Session]
  BY DEF Memory!Init, Memory!Server_Session
<1>4. memBroker \in BOOLEAN
  BY DEF Memory!Init
<1>5. MemoryTypes
  BY <1>1, <1>2, <1>3, <1>4 DEF MemoryTypes
<1>6. /\ \A i \in 1..MemorySlots : memServer[i].fd = Memory!None
      /\ \A c \in MemoryClients : memClient[c].state = "new"
  BY DEF Memory!Init
<1>7. MemoryServed
  BY <1>6 DEF MemoryServed, Memory!Initialized
<1>8. MemoryFiles
  BY <1>6 DEF MemoryFiles
<1> QED BY <1>5, <1>7, <1>8 DEF MemoryInv

\* Steps of a client that has no session, before and after, and steps that
\* change no state.
LEMMA MemoryApart ==
    ASSUME MemoryInv, NEW c \in MemoryClients, UNCHANGED memServer, memBroker' \in BOOLEAN,
           memFile' \in [MemoryClients -> [size: MemorySizes \cup {0}, seals: SUBSET Memory!Seals, resized: BOOLEAN]],
           memClient' \in [MemoryClients -> Memory!Client_Session],
           \A d \in MemoryClients : d # c => memClient'[d] = memClient[d],
           \/ memClient'[c].state = memClient[c].state
           \/ memClient[c].state \notin {"open", "closed"} /\ memClient'[c].state # "open"
           \/ memClient[c].state = "open" /\ memClient'[c].state = "closed"
    PROVE  MemoryInv'
<1>0. MemoryTypes /\ MemoryServed
  BY DEF MemoryInv
<1>1. MemoryTypes'
  BY <1>0 DEF MemoryTypes
<1>2. /\ \A d \in MemoryClients : memClient'[d].state = "open" => memClient[d].state = "open"
      /\ \A d \in MemoryClients : memClient[d].state \in {"open", "closed"} =>
            memClient'[d].state \in {"open", "closed"}
  OBVIOUS
<1>3. \A i \in 1..MemorySlots : memServer[i].fd # Memory!None => memServer[i].fd \in MemoryClients
  BY <1>0 DEF MemoryTypes, Memory!Server_Session
<1>4. MemoryServed'
  BY <1>0, <1>2, <1>3 DEF MemoryServed
<1> QED BY <1>1, <1>4 DEF MemoryInv

\* A client's record after a change of its state and map.
LEMMA MemoryClosed ==
    ASSUME MemoryTypes, NEW c \in MemoryClients, NEW st \in Memory!States,
           memClient' = Memory!Closed(c, st)
    PROVE  /\ memClient' \in [MemoryClients -> Memory!Client_Session]
           /\ memClient'[c].state = st
           /\ \A d \in MemoryClients : d # c => memClient'[d] = memClient[d]
<1>1. memClient \in [MemoryClients -> Memory!Client_Session]
  BY DEF MemoryTypes
<1>2. /\ memClient'[c] = [memClient[c] EXCEPT !.state = st, !.map = 0]
      /\ \A d \in MemoryClients : d # c => memClient'[d] = memClient[d]
  BY <1>1 DEF Memory!Closed
<1>3. memClient[c] \in Memory!Client_Session
  BY <1>1
<1>4. memClient'[c].state = st /\ memClient'[c] \in Memory!Client_Session
  <2> DEFINE y == [memClient[c] EXCEPT !.state = st]
  <2>1. y \in Memory!Client_Session /\ y.state = st
    BY <1>3 DEF Memory!Client_Session
  <2>2. memClient'[c] = [y EXCEPT !.map = 0]
    BY <1>2
  <2> HIDE DEF y
  <2> QED BY <2>1, <2>2 DEF Memory!Client_Session
<1>5. DOMAIN memClient' = MemoryClients /\ memClient' = [d \in MemoryClients |-> memClient'[d]]
  BY <1>1 DEF Memory!Closed
<1> QED BY <1>1, <1>2, <1>4, <1>5

LEMMA MemoryState ==
    ASSUME MemoryTypes, NEW c \in MemoryClients, NEW st \in Memory!States,
           memClient' = [memClient EXCEPT ![c].state = st]
    PROVE  /\ memClient' \in [MemoryClients -> Memory!Client_Session]
           /\ memClient'[c].state = st
           /\ memClient'[c].asked = memClient[c].asked /\ memClient'[c].map = memClient[c].map
           /\ \A d \in MemoryClients : d # c => memClient'[d] = memClient[d]
<1>1. memClient \in [MemoryClients -> Memory!Client_Session]
  BY DEF MemoryTypes
<1>2. /\ memClient'[c] = [memClient[c] EXCEPT !.state = st]
      /\ \A d \in MemoryClients : d # c => memClient'[d] = memClient[d]
  BY <1>1
<1>3. memClient[c] \in Memory!Client_Session
  BY <1>1
<1>4. /\ memClient'[c].state = st /\ memClient'[c] \in Memory!Client_Session
      /\ memClient'[c].asked = memClient[c].asked /\ memClient'[c].map = memClient[c].map
  BY <1>2, <1>3 DEF Memory!Client_Session
<1>5. DOMAIN memClient' = MemoryClients /\ memClient' = [d \in MemoryClients |-> memClient'[d]]
  BY <1>1
<1> QED BY <1>1, <1>2, <1>4, <1>5

LEMMA MemoryInitialize ==
    ASSUME MemoryInv, NEW c \in MemoryClients, NEW n \in MemorySizes, Memory!Initialize(c, n)
    PROVE  MemoryInv' /\ (MemoryFiles => MemoryFiles')
<1>0. MemoryTypes /\ MemoryServed /\ memClient[c].state = "new" /\ UNCHANGED <<memServer, memBroker>>
  BY DEF MemoryInv, Memory!Initialize
<1>1. PICK file \in Memory!memfd_create(n) : \E len \in Memory!mmap(file) :
          /\ memFile' = [memFile EXCEPT ![c].size = file]
          /\ memClient' = [memClient EXCEPT ![c] =
                [state |-> IF len > 0 THEN "requested" ELSE "failed", asked |-> n, map |-> len]]
  BY DEF Memory!Initialize
<1>2. PICK len \in Memory!mmap(file) :
          /\ memFile' = [memFile EXCEPT ![c].size = file]
          /\ memClient' = [memClient EXCEPT ![c] =
                [state |-> IF len > 0 THEN "requested" ELSE "failed", asked |-> n, map |-> len]]
  BY <1>1
<1>3. file \in {0, n} /\ len \in Nat
  BY DEF Memory!memfd_create, Memory!mmap
<1>4. /\ memFile \in [MemoryClients -> [size: MemorySizes \cup {0}, seals: SUBSET Memory!Seals, resized: BOOLEAN]]
      /\ memClient \in [MemoryClients -> Memory!Client_Session]
      /\ memServer \in [1..MemorySlots -> Memory!Server_Session] /\ memBroker \in BOOLEAN
  BY <1>0 DEF MemoryTypes
<1> DEFINE st == IF len > 0 THEN "requested" ELSE "failed"
           rc == [state |-> st, asked |-> n, map |-> len]
<1>5. st \in {"requested", "failed"} /\ (st = "requested" => len > 0)
  OBVIOUS
<1> HIDE DEF st
<1>6. /\ memClient' = [memClient EXCEPT ![c] = rc]
  BY <1>2 DEF st
<1>7. rc \in Memory!Client_Session /\ rc.state = st /\ rc.asked = n /\ rc.map = len
  BY <1>3, <1>5 DEF Memory!Client_Session, Memory!States
<1> HIDE DEF rc
<1>8. /\ memClient' \in [MemoryClients -> Memory!Client_Session] /\ memClient'[c] = rc
      /\ \A d \in MemoryClients : d # c => memClient'[d] = memClient[d]
  BY <1>4, <1>6, <1>7
<1>9. memFile' \in [MemoryClients -> [size: MemorySizes \cup {0}, seals: SUBSET Memory!Seals, resized: BOOLEAN]]
  BY <1>2, <1>3, <1>4
<1>10. MemoryInv'
  BY <1>0, <1>4, <1>5, <1>7, <1>8, <1>9, MemoryApart
<1>11. ASSUME MemoryFiles
       PROVE  MemoryFiles'
  <2>1. file \in MemorySizes \cup {0}
    BY <1>3
  <2>2. len = 0 \/ Fits(len, file)
    BY <2>1, MapLength
  <2>3. /\ memFile'[c].size = file
        /\ \A d \in MemoryClients : d # c => memFile'[d] = memFile[d]
    BY <1>2, <1>4
  <2>4. st = "requested" => file = n /\ len = Memory!fstat_size(n)
    <3>1. st = "requested" => len \in 1..file /\ len = Memory!fstat_size(file)
      BY <1>3, <1>5, <2>2 DEF Fits
    <3> QED BY <1>3, <3>1
  <2>5. \A d \in MemoryClients :
          memClient'[d].state \in {"requested", "forwarded", "open"} /\ ~memFile'[d].resized =>
             /\ memFile'[d].size = memClient'[d].asked
             /\ memClient'[d].map = Memory!fstat_size(memClient'[d].asked)
    BY <1>5, <1>7, <1>8, <1>11, <2>3, <2>4 DEF MemoryFiles
  <2>6. \A d \in MemoryClients : memClient'[d].state \in {"forwarded", "open"} =>
             d # c /\ memFile'[d].seals = Memory!Seals
    BY <1>5, <1>7, <1>8, <1>11, <2>3 DEF MemoryFiles
  <2>7. \A d \in MemoryClients : \A i \in 1..MemorySlots :
          memClient'[d].state = "open" /\ memServer[i].fd = d => Fits(memServer[i].len, memFile'[d].size)
    BY <1>8, <1>11, <2>3, <2>6 DEF MemoryFiles
  <2> QED BY <1>0, <2>5, <2>6, <2>7 DEF MemoryFiles
<1> QED BY <1>10, <1>11
\* MemoryFiles is about clients with a request or a session: a client that
\* leaves these states does it no harm.
LEMMA FilesLeft ==
    ASSUME MemoryFiles, NEW c \in MemoryClients, UNCHANGED memServer,
           memClient'[c].state \notin {"requested", "forwarded", "open"},
           \A d \in MemoryClients : d # c => memClient'[d] = memClient[d] /\ memFile'[d] = memFile[d]
    PROVE  MemoryFiles'
BY DEF MemoryFiles

LEMMA MemoryFinalize ==
    ASSUME MemoryInv, NEW c \in MemoryClients, Memory!Finalize(c)
    PROVE  MemoryInv' /\ (MemoryFiles => MemoryFiles')
<1>0. /\ MemoryTypes /\ memClient[c].state = "open" /\ memClient' = Memory!Closed(c, "closed")
      /\ UNCHANGED <<memFile, memServer, memBroker>>
  BY DEF MemoryInv, Memory!Finalize
<1>1. "closed" \in Memory!States
  BY DEF Memory!States
<1>2. /\ memClient' \in [MemoryClients -> Memory!Client_Session] /\ memClient'[c].state = "closed"
      /\ \A d \in MemoryClients : d # c => memClient'[d] = memClient[d]
  BY <1>0, <1>1, MemoryClosed
<1>3. MemoryInv'
  BY <1>0, <1>2, MemoryApart DEF MemoryTypes
<1>4. MemoryFiles => MemoryFiles'
  BY <1>0, <1>2, FilesLeft
<1> QED BY <1>3, <1>4

\* A sealed file keeps its size.
LEMMA MemoryResize ==
    ASSUME MemoryInv, NEW c \in MemoryClients, NEW n \in MemorySizes, Memory!Resize(c, n)
    PROVE  MemoryInv' /\ (MemoryFiles => MemoryFiles')
<1>0. /\ MemoryTypes
      /\ n < memFile[c].size => "shrink" \notin memFile[c].seals
      /\ n > memFile[c].size => "grow" \notin memFile[c].seals
      /\ memFile' = [memFile EXCEPT ![c].size = n, ![c].resized = TRUE]
      /\ UNCHANGED <<memClient, memServer, memBroker>>
  BY DEF MemoryInv, Memory!Resize
<1>1. /\ memFile \in [MemoryClients -> [size: MemorySizes \cup {0}, seals: SUBSET Memory!Seals, resized: BOOLEAN]]
      /\ memClient \in [MemoryClients -> Memory!Client_Session] /\ memBroker \in BOOLEAN
  BY <1>0 DEF MemoryTypes
<1>2. /\ memFile' \in [MemoryClients -> [size: MemorySizes \cup {0}, seals: SUBSET Memory!Seals, resized: BOOLEAN]]
      /\ memFile'[c].size = n /\ memFile'[c].seals = memFile[c].seals /\ memFile'[c].resized = TRUE
      /\ \A d \in MemoryClients : d # c => memFile'[d] = memFile[d]
  BY <1>0, <1>1
<1>3. MemoryInv'
  BY <1>0, <1>1, <1>2, MemoryApart
<1>4. ASSUME MemoryFiles
      PROVE  MemoryFiles'
  <2>1. memFile[c].size \in Nat /\ n \in Nat
    <3>1. memFile[c].size \in MemorySizes \cup {0}
      BY <1>1
    <3>2. \A m \in MemorySizes \cup {0} : m \in Nat
      BY MemorySizesFacts
    <3> QED BY Zenon, <3>1, <3>2
  <2>2. memClient[c].state \in {"forwarded", "open"} => n = memFile[c].size
    <3>1. ASSUME memClient[c].state \in {"forwarded", "open"}
          PROVE  n = memFile[c].size
      <4>1. memFile[c].seals = Memory!Seals
        BY <1>4, <3>1 DEF MemoryFiles
      <4> QED BY <1>0, <2>1, <4>1 DEF Memory!Seals
    <3> QED BY <3>1
  <2>3. \A d \in MemoryClients : memClient[d].state \in {"forwarded", "open"} =>
           memFile'[d].size = memFile[d].size
    BY <1>2, <2>2
  <2>4. \A d \in MemoryClients :
          memClient[d].state \in {"requested", "forwarded", "open"} /\ ~memFile'[d].resized =>
             /\ memFile'[d].size = memClient[d].asked
             /\ memClient[d].map = Memory!fstat_size(memClient[d].asked)
    BY <1>2, <1>4 DEF MemoryFiles
  <2>5. \A d \in MemoryClients : memFile'[d].seals = memFile[d].seals
    BY <1>2
  <2>6. \A d \in MemoryClients : \A i \in 1..MemorySlots :
          memClient[d].state = "open" /\ memServer[i].fd = d => Fits(memServer[i].len, memFile'[d].size)
    BY <1>4, <2>3 DEF MemoryFiles
  <2> QED BY <1>0, <1>4, <2>4, <2>5, <2>6 DEF MemoryFiles
<1> QED BY <1>3, <1>4

LEMMA MemoryRequest ==
    ASSUME MemoryInv, NEW c \in MemoryClients, Memory!Process_Memory_Request(c)
    PROVE  MemoryInv' /\ (MemoryFiles => MemoryFiles')
<1>0. /\ MemoryTypes /\ memClient[c].state = "requested" /\ UNCHANGED <<memServer, memBroker>>
  BY DEF MemoryInv, Memory!Process_Memory_Request
<1>1. PICK r \in Memory!memfd_seal :
          /\ memFile' = [memFile EXCEPT ![c].seals = r.seals]
          /\ \/ r.success /\ memClient' = [memClient EXCEPT ![c].state = "forwarded"]
             \/ memClient' = Memory!Closed(c, "failed")
  BY DEF Memory!Process_Memory_Request
<1>2. r.seals \in SUBSET Memory!Seals /\ (r.success => r.seals = Memory!Seals)
  BY <1>1 DEF Memory!memfd_seal, Memory!Seals
<1>3. /\ memFile \in [MemoryClients -> [size: MemorySizes \cup {0}, seals: SUBSET Memory!Seals, resized: BOOLEAN]]
      /\ memClient \in [MemoryClients -> Memory!Client_Session] /\ memBroker \in BOOLEAN
  BY <1>0 DEF MemoryTypes
<1>4. /\ memFile' \in [MemoryClients -> [size: MemorySizes \cup {0}, seals: SUBSET Memory!Seals, resized: BOOLEAN]]
      /\ memFile'[c].size = memFile[c].size /\ memFile'[c].seals = r.seals
      /\ memFile'[c].resized = memFile[c].resized
      /\ \A d \in MemoryClients : d # c => memFile'[d] = memFile[d]
  BY <1>1, <1>2, <1>3
<1>5. {"forwarded", "failed"} \subseteq Memory!States
  BY DEF Memory!States
<1>6. CASE memClient' = Memory!Closed(c, "failed")
  <2>1. /\ memClient' \in [MemoryClients -> Memory!Client_Session] /\ memClient'[c].state = "failed"
        /\ \A d \in MemoryClients : d # c => memClient'[d] = memClient[d]
    BY <1>0, <1>5, <1>6, MemoryClosed
  <2>2. MemoryInv'
    BY <1>0, <1>3, <1>4, <2>1, MemoryApart
  <2>3. MemoryFiles => MemoryFiles'
    BY <1>0, <1>4, <2>1, FilesLeft
  <2> QED BY <2>2, <2>3
<1>7. CASE r.success /\ memClient' = [memClient EXCEPT ![c].state = "forwarded"]
  <2>1. /\ memClient' \in [MemoryClients -> Memory!Client_Session] /\ memClient'[c].state = "forwarded"
        /\ memClient'[c].asked = memClient[c].asked /\ memClient'[c].map = memClient[c].map
        /\ \A d \in MemoryClients : d # c => memClient'[d] = memClient[d]
    BY <1>0, <1>5, <1>7, MemoryState
  <2>2. MemoryInv'
    BY <1>0, <1>3, <1>4, <2>1, MemoryApart
  <2>3. ASSUME MemoryFiles
        PROVE  MemoryFiles'
    <3>2. r.seals = Memory!Seals
      BY <1>2, <1>7
    <3>3. \A d \in MemoryClients :
            memClient'[d].state \in {"requested", "forwarded", "open"} /\ ~memFile'[d].resized =>
               /\ memFile'[d].size = memClient'[d].asked
               /\ memClient'[d].map = Memory!fstat_size(memClient'[d].asked)
      BY <1>0, <1>4, <2>1, <2>3 DEF MemoryFiles
    <3>4. \A d \in MemoryClients : memClient'[d].state \in {"forwarded", "open"} =>
             memFile'[d].seals = Memory!Seals
      BY <1>4, <2>1, <2>3, <3>2 DEF MemoryFiles
    <3>5. \A d \in MemoryClients : \A i \in 1..MemorySlots :
            memClient'[d].state = "open" /\ memServer[i].fd = d => Fits(memServer[i].len, memFile'[d].size)
      BY <1>4, <2>1, <2>3 DEF MemoryFiles
    <3> QED BY <1>0, <3>3, <3>4, <3>5 DEF MemoryFiles
  <2> QED BY <2>2, <2>3
<1> QED BY <1>1, <1>6, <1>7

LEMMA MemoryBrokerExit ==
    ASSUME MemoryInv, Memory!Broker_Exit
    PROVE  MemoryInv' /\ (MemoryFiles => MemoryFiles')
<1>1. memBroker' \in BOOLEAN /\ UNCHANGED <<memClient, memFile, memServer>>
  BY DEF Memory!Broker_Exit
<1>2. MemoryInv'
  BY <1>1 DEF MemoryInv, MemoryTypes, MemoryServed
<1>3. MemoryFiles => MemoryFiles'
  BY <1>1 DEF MemoryFiles
<1> QED BY <1>2, <1>3
\* A session variable without a descriptor is the one that is free.
LEMMA MemoryFree ==
    ASSUME MemoryInv, NEW i \in Memory!Free
    PROVE  i \in 1..MemorySlots /\ memServer[i].fd = Memory!None
BY DEF Memory!Free, MemoryInv, MemoryServed

\* The server's session variable i is given to client c, whose request was
\* sent on.
LEMMA MemoryAccept ==
    ASSUME MemoryInv, NEW c \in MemoryClients, NEW i \in 1..MemorySlots, NEW len \in Nat,
           memServer[i].fd = Memory!None, memClient[c].state = "forwarded",
           memServer' = [memServer EXCEPT ![i] =
              [fd |-> c, map |-> c, len |-> len, index |-> TRUE, ready |-> TRUE]],
           memClient' = [memClient EXCEPT ![c].state = "open"],
           UNCHANGED <<memFile, memBroker>>
    PROVE  MemoryInv' /\ (MemoryFiles /\ Fits(len, memFile[c].size) => MemoryFiles')
<1>0. MemoryTypes /\ MemoryServed /\ c # Memory!None
  BY MemorySizesFacts DEF MemoryInv
<1>1. "open" \in Memory!States
  BY DEF Memory!States
<1>2. /\ memClient' \in [MemoryClients -> Memory!Client_Session] /\ memClient'[c].state = "open"
      /\ memClient'[c].asked = memClient[c].asked /\ memClient'[c].map = memClient[c].map
      /\ \A d \in MemoryClients : d # c => memClient'[d] = memClient[d]
  BY <1>0, <1>1, MemoryState
<1> DEFINE sv == [fd |-> c, map |-> c, len |-> len, index |-> TRUE, ready |-> TRUE]
<1>3. sv \in Memory!Server_Session /\ sv.fd = c /\ sv.map = c /\ sv.len = len
  BY DEF Memory!Server_Session
<1>4. Memory!Initialized(sv) /\ Memory!Ready(sv)
  BY <1>0 DEF Memory!Initialized, Memory!Ready
<1> HIDE DEF sv
<1>5. memServer \in [1..MemorySlots -> Memory!Server_Session] /\ memServer' = [memServer EXCEPT ![i] = sv]
  BY <1>0 DEF MemoryTypes, sv
<1>6. /\ memServer' \in [1..MemorySlots -> Memory!Server_Session] /\ memServer'[i] = sv
      /\ \A j \in 1..MemorySlots : j # i => memServer'[j] = memServer[j]
  BY <1>3, <1>5
<1>7. \A j \in 1..MemorySlots : memServer[j].fd # c
  BY <1>0 DEF MemoryServed
<1>8. MemoryTypes'
  BY <1>0, <1>2, <1>6 DEF MemoryTypes
<1>9. MemoryServed'
  <2>1. \A j \in 1..MemorySlots : memServer'[j].fd # Memory!None <=>
           Memory!Initialized(memServer'[j]) /\ Memory!Ready(memServer'[j])
    BY <1>0, <1>3, <1>4, <1>6 DEF MemoryServed
  <2>2. \A j \in 1..MemorySlots : memServer'[j].fd # Memory!None =>
           /\ memServer'[j].map = memServer'[j].fd
           /\ memClient'[memServer'[j].fd].state \in {"open", "closed"}
    <3>1. SUFFICES ASSUME NEW j \in 1..MemorySlots, memServer'[j].fd # Memory!None, j # i
                   PROVE  /\ memServer'[j].map = memServer'[j].fd
                          /\ memClient'[memServer'[j].fd].state \in {"open", "closed"}
      BY <1>2, <1>3, <1>6
    <3>2. memServer[j].fd \in MemoryClients
      BY <1>5, <1>6, <3>1 DEF Memory!Server_Session
    <3> QED BY <1>0, <1>2, <1>6, <1>7, <3>1, <3>2 DEF MemoryServed
  <2>3. \A j, k \in 1..MemorySlots :
           memServer'[j].fd # Memory!None /\ memServer'[j].fd = memServer'[k].fd => j = k
    BY <1>0, <1>3, <1>6, <1>7 DEF MemoryServed
  <2>4. \A d \in MemoryClients : memClient'[d].state = "open" =>
           \E j \in 1..MemorySlots : memServer'[j].fd = d
    <3>1. ASSUME NEW d \in MemoryClients, d # c, memClient'[d].state = "open"
          PROVE  \E j \in 1..MemorySlots : memServer'[j].fd = d
      <4>1. PICK j \in 1..MemorySlots : memServer[j].fd = d
        BY <1>0, <1>2, <3>1 DEF MemoryServed
      <4>2. j # i
        BY <3>1, <4>1, MemorySizesFacts
      <4> QED BY <1>6, <4>1, <4>2
    <3> QED BY <1>3, <1>6, <3>1
  <2> QED BY <2>1, <2>2, <2>3, <2>4 DEF MemoryServed
<1>10. ASSUME MemoryFiles, Fits(len, memFile[c].size)
       PROVE  MemoryFiles'
  <2>1. \A d \in MemoryClients :
          memClient'[d].state \in {"requested", "forwarded", "open"} /\ ~memFile[d].resized =>
             /\ memFile[d].size = memClient'[d].asked
             /\ memClient'[d].map = Memory!fstat_size(memClient'[d].asked)
    BY <1>2, <1>10 DEF MemoryFiles
  <2>2. \A d \in MemoryClients : memClient'[d].state \in {"forwarded", "open"} =>
           memFile[d].seals = Memory!Seals
    BY <1>2, <1>10 DEF MemoryFiles
  <2>3. \A d \in MemoryClients : \A j \in 1..MemorySlots :
          memClient'[d].state = "open" /\ memServer'[j].fd = d => Fits(memServer'[j].len, memFile[d].size)
    BY <1>2, <1>3, <1>6, <1>7, <1>10 DEF MemoryFiles
  <2> QED BY <2>1, <2>2, <2>3 DEF MemoryFiles
<1> QED BY <1>8, <1>9, <1>10 DEF MemoryInv

\* A session variable that could not be initialized is free again.
LEMMA MemoryReject ==
    ASSUME MemoryInv, NEW c \in MemoryClients, NEW i \in 1..MemorySlots, memServer[i].fd = Memory!None,
           memClient[c].state = "forwarded",
           memServer' = [memServer EXCEPT ![i] =
              [fd |-> Memory!None, map |-> Memory!None, len |-> 0, index |-> FALSE,
               ready |-> memServer[i].ready]],
           memClient' = Memory!Closed(c, "failed"), UNCHANGED <<memFile, memBroker>>
    PROVE  MemoryInv' /\ (MemoryFiles => MemoryFiles')
<1>0. MemoryTypes /\ MemoryServed
  BY DEF MemoryInv
<1>1. "failed" \in Memory!States
  BY DEF Memory!States
<1>2. /\ memClient' \in [MemoryClients -> Memory!Client_Session] /\ memClient'[c].state = "failed"
      /\ \A d \in MemoryClients : d # c => memClient'[d] = memClient[d]
  BY <1>0, <1>1, MemoryClosed
<1>3. memServer \in [1..MemorySlots -> Memory!Server_Session]
  BY <1>0 DEF MemoryTypes
<1>4. memServer[i].ready \in BOOLEAN
  BY <1>3 DEF Memory!Server_Session
<1> DEFINE sv == [fd |-> Memory!None, map |-> Memory!None, len |-> 0, index |-> FALSE,
                  ready |-> memServer[i].ready]
<1>5. sv \in Memory!Server_Session
  BY <1>4 DEF Memory!Server_Session
<1>6. sv.fd = Memory!None /\ ~Memory!Initialized(sv)
  BY DEF Memory!Initialized
<1>7. memServer' = [memServer EXCEPT ![i] = sv]
  OBVIOUS
<1> HIDE DEF sv
<1>8. /\ memServer' \in [1..MemorySlots -> Memory!Server_Session] /\ memServer'[i] = sv
      /\ \A j \in 1..MemorySlots : j # i => memServer'[j] = memServer[j]
  BY <1>3, <1>5, <1>7
<1>9. MemoryTypes'
  BY <1>0, <1>2, <1>8 DEF MemoryTypes
<1>10. \A j \in 1..MemorySlots : memServer'[j].fd = memServer[j].fd
  BY <1>6, <1>8
<1>11. MemoryServed'
  <2>1. \A j \in 1..MemorySlots : memServer'[j].fd # Memory!None <=>
           Memory!Initialized(memServer'[j]) /\ Memory!Ready(memServer'[j])
    BY <1>0, <1>6, <1>8 DEF MemoryServed
  <2>2. \A j \in 1..MemorySlots : memServer'[j].fd # Memory!None =>
           /\ memServer'[j].map = memServer'[j].fd
           /\ memClient'[memServer'[j].fd].state \in {"open", "closed"}
    <3>1. SUFFICES ASSUME NEW j \in 1..MemorySlots, memServer'[j].fd # Memory!None, j # i
                   PROVE  /\ memServer'[j].map = memServer'[j].fd
                          /\ memClient'[memServer'[j].fd].state \in {"open", "closed"}
      BY <1>6, <1>8
    <3>2. memServer[j].fd \in MemoryClients
      BY <1>3, <1>8, <3>1 DEF Memory!Server_Session
    <3> QED BY <1>0, <1>2, <1>8, <3>1, <3>2 DEF MemoryServed
  <2>3. \A j, k \in 1..MemorySlots :
           memServer'[j].fd # Memory!None /\ memServer'[j].fd = memServer'[k].fd => j = k
    BY <1>0, <1>10 DEF MemoryServed
  <2>4. \A d \in MemoryClients : memClient'[d].state = "open" =>
           \E j \in 1..MemorySlots : memServer'[j].fd = d
    BY <1>0, <1>2, <1>10 DEF MemoryServed
  <2> QED BY <2>1, <2>2, <2>3, <2>4 DEF MemoryServed
<1>12. ASSUME MemoryFiles
       PROVE  MemoryFiles'
  <2>1. \A d \in MemoryClients : memClient'[d].state \in {"requested", "forwarded", "open"} => d # c
    BY <1>2
  <2>2. \A d \in MemoryClients : \A j \in 1..MemorySlots :
          memClient'[d].state = "open" /\ memServer'[j].fd = d => Fits(memServer'[j].len, memFile[d].size)
    <3>1. \A d \in MemoryClients : d # Memory!None
      BY MemorySizesFacts
    <3> QED BY <1>2, <1>6, <1>8, <1>12, <2>1, <3>1 DEF MemoryFiles
  <2> QED BY <1>2, <1>12, <2>1, <2>2 DEF MemoryFiles
<1> QED BY <1>9, <1>11, <1>12 DEF MemoryInv

LEMMA MemoryDispatch ==
    ASSUME MemoryInv, NEW c \in MemoryClients, Memory!Dispatch_Event(c)
    PROVE  MemoryInv' /\ (MemoryFiles => MemoryFiles')
<1>0. /\ MemoryTypes /\ memClient[c].state = "forwarded" /\ UNCHANGED <<memFile, memBroker>>
  BY DEF MemoryInv, Memory!Dispatch_Event
<1>1. CASE memClient' = Memory!Closed(c, "failed") /\ UNCHANGED memServer
  <2>1. "failed" \in Memory!States
    BY DEF Memory!States
  <2>2. /\ memClient' \in [MemoryClients -> Memory!Client_Session] /\ memClient'[c].state = "failed"
        /\ \A d \in MemoryClients : d # c => memClient'[d] = memClient[d]
    BY <1>0, <1>1, <2>1, MemoryClosed
  <2>3. MemoryInv'
    BY <1>0, <1>1, <2>2, MemoryApart DEF MemoryTypes
  <2>4. MemoryFiles => MemoryFiles'
    BY <1>0, <1>1, <2>2, FilesLeft
  <2> QED BY <2>3, <2>4
<1>2. ASSUME NEW i \in Memory!Free, NEW len \in Memory!mmap(memFile[c].size), NEW ready \in BOOLEAN,
             memServer' = [memServer EXCEPT ![i] = Memory!Session_Initialize(i, c, len, ready)],
             memClient' = IF Memory!Initialized(memServer'[i]) /\ Memory!Ready(memServer'[i])
                          THEN [memClient EXCEPT ![c].state = "open"] ELSE Memory!Closed(c, "failed")
      PROVE  MemoryInv' /\ (MemoryFiles => MemoryFiles')
  <2>1. i \in 1..MemorySlots /\ memServer[i].fd = Memory!None /\ len \in Nat
    BY <1>2, MemoryFree DEF Memory!mmap
  <2>2. memServer'[i] = Memory!Session_Initialize(i, c, len, ready)
    BY <1>0, <1>2, <2>1 DEF MemoryTypes
  <2>3. CASE ready /\ len > 0
    <3>1. Memory!Session_Initialize(i, c, len, ready) =
             [fd |-> c, map |-> c, len |-> len, index |-> TRUE, ready |-> TRUE]
      BY <2>3 DEF Memory!Session_Initialize
    <3>2. Memory!Initialized(memServer'[i]) /\ Memory!Ready(memServer'[i])
      BY <2>2, <3>1, MemorySizesFacts DEF Memory!Initialized, Memory!Ready
    <3>3. memClient' = [memClient EXCEPT ![c].state = "open"]
      BY <1>2, <3>2
    <3>4. MemoryInv' /\ (MemoryFiles /\ Fits(len, memFile[c].size) => MemoryFiles')
      BY <1>0, <1>2, <2>1, <3>1, <3>3, MemoryAccept
    <3>5. Fits(len, memFile[c].size)
      <4>1. memFile[c].size \in MemorySizes \cup {0}
        BY <1>0 DEF MemoryTypes
      <4> QED BY <1>2, <2>1, <2>3, <4>1, MapLength
    <3> QED BY <3>4, <3>5
  <2>4. CASE ~(ready /\ len > 0)
    <3>1. Memory!Session_Initialize(i, c, len, ready) =
             [fd |-> Memory!None, map |-> Memory!None, len |-> 0, index |-> FALSE,
              ready |-> memServer[i].ready]
      BY <2>4 DEF Memory!Session_Initialize
    <3>2. ~Memory!Initialized(memServer'[i])
      BY <2>2, <3>1 DEF Memory!Initialized
    <3>3. memClient' = Memory!Closed(c, "failed")
      BY <1>2, <3>2
    <3> QED BY <1>0, <1>2, <2>1, <3>1, <3>3, MemoryReject
  <2> QED BY <2>3, <2>4
<1>3. \/ memClient' = Memory!Closed(c, "failed") /\ UNCHANGED memServer
      \/ \E i \in Memory!Free, len \in Memory!mmap(memFile[c].size), ready \in BOOLEAN :
            /\ memServer' = [memServer EXCEPT ![i] = Memory!Session_Initialize(i, c, len, ready)]
            /\ memClient' = IF Memory!Initialized(memServer'[i]) /\ Memory!Ready(memServer'[i])
                            THEN [memClient EXCEPT ![c].state = "open"] ELSE Memory!Closed(c, "failed")
  BY DEF Memory!Dispatch_Event
<1> QED BY <1>1, <1>2, <1>3
\* Only session variables of the client that hung up are given free.
LEMMA MemoryHangUp ==
    ASSUME MemoryInv, NEW c \in MemoryClients, Memory!Hang_Up(c)
    PROVE  MemoryInv' /\ (MemoryFiles => MemoryFiles')
<1>0. /\ MemoryTypes /\ MemoryServed /\ memClient[c].state = "closed"
      /\ memServer' = [i \in 1..MemorySlots |-> Memory!Session_Cleanup(memServer[i], c)]
      /\ UNCHANGED <<memClient, memFile, memBroker>>
  BY DEF MemoryInv, Memory!Hang_Up
<1>1. memServer \in [1..MemorySlots -> Memory!Server_Session]
  BY <1>0 DEF MemoryTypes
<1>2. \A i \in 1..MemorySlots : memServer'[i] = Memory!Session_Cleanup(memServer[i], c)
  BY <1>0
<1>3. ASSUME NEW i \in 1..MemorySlots
      PROVE  /\ memServer'[i] \in Memory!Server_Session
             /\ \/ memServer'[i] = memServer[i] /\ memServer[i].fd # c
                \/ memServer'[i].fd = Memory!None /\ memServer[i].fd = c /\ ~memServer'[i].index
  <2>1. CASE memServer[i].fd = c
    <3>1. Memory!Initialized(memServer[i])
      BY <1>0, <2>1, MemorySizesFacts DEF MemoryServed
    <3> DEFINE y == [memServer[i] EXCEPT !.fd = Memory!None]
               z == [y EXCEPT !.index = FALSE]
    <3>2. memServer'[i] = [z EXCEPT !.ready = FALSE]
      BY <1>2, <2>1, <3>1 DEF Memory!Session_Cleanup
    <3>3. y \in Memory!Server_Session /\ y.fd = Memory!None
      BY <1>1 DEF Memory!Server_Session
    <3> HIDE DEF y
    <3>4. z \in Memory!Server_Session /\ z.fd = Memory!None /\ z.index = FALSE
      BY <3>3 DEF Memory!Server_Session
    <3> HIDE DEF z
    <3>5. /\ memServer'[i] \in Memory!Server_Session
          /\ memServer'[i].fd = Memory!None /\ memServer'[i].index = FALSE
      BY <3>2, <3>4 DEF Memory!Server_Session
    <3> QED BY <2>1, <3>5
  <2>2. CASE memServer[i].fd # c
    BY <1>1, <1>2, <2>2 DEF Memory!Session_Cleanup
  <2> QED BY <2>1, <2>2
<1>4. memServer' \in [1..MemorySlots -> Memory!Server_Session]
  BY <1>0, <1>2, <1>3
<1>5. MemoryTypes'
  BY <1>0, <1>4 DEF MemoryTypes
<1>6. \A i \in 1..MemorySlots : memServer'[i].fd # Memory!None => memServer'[i] = memServer[i]
  BY <1>3
<1>7. MemoryServed'
  <2>1. \A i \in 1..MemorySlots : memServer'[i].fd # Memory!None <=>
           Memory!Initialized(memServer'[i]) /\ Memory!Ready(memServer'[i])
    <3>1. \A i \in 1..MemorySlots : memServer'[i] = memServer[i] \/
             (memServer'[i].fd = Memory!None /\ ~Memory!Initialized(memServer'[i]))
      BY <1>3 DEF Memory!Initialized
    <3> QED BY <1>0, <3>1 DEF MemoryServed
  <2>2. \A i \in 1..MemorySlots : memServer'[i].fd # Memory!None =>
           /\ memServer'[i].map = memServer'[i].fd
           /\ memClient[memServer'[i].fd].state \in {"open", "closed"}
    BY <1>0, <1>6 DEF MemoryServed
  <2>3. \A i, j \in 1..MemorySlots :
           memServer'[i].fd # Memory!None /\ memServer'[i].fd = memServer'[j].fd => i = j
    BY <1>0, <1>6 DEF MemoryServed
  <2>4. \A d \in MemoryClients : memClient[d].state = "open" =>
           \E i \in 1..MemorySlots : memServer'[i].fd = d
    <3>1. ASSUME NEW d \in MemoryClients, memClient[d].state = "open"
          PROVE  \E i \in 1..MemorySlots : memServer'[i].fd = d
      <4>1. PICK i \in 1..MemorySlots : memServer[i].fd = d
        BY <1>0, <3>1 DEF MemoryServed
      <4>2. d # c
        BY <1>0, <3>1
      <4> QED BY <1>3, <4>1, <4>2
    <3> QED BY <3>1
  <2> QED BY <1>0, <2>1, <2>2, <2>3, <2>4 DEF MemoryServed
<1>8. MemoryFiles => MemoryFiles'
  <2>1. \A d \in MemoryClients : d # Memory!None
    BY MemorySizesFacts
  <2> QED BY <1>0, <1>6, <2>1 DEF MemoryFiles
<1> QED BY <1>5, <1>7, <1>8 DEF MemoryInv

LEMMA MemoryStep ==
    ASSUME MemoryInv, [Memory!Next]_memory
    PROVE  MemoryInv' /\ (MemoryFiles => MemoryFiles')
<1>1. CASE UNCHANGED memory
  <2>1. UNCHANGED <<memClient, memFile, memServer, memBroker>>
    BY <1>1 DEF memory
  <2>2. MemoryInv'
    BY <2>1 DEF MemoryInv, MemoryTypes, MemoryServed
  <2>3. MemoryFiles => MemoryFiles'
    BY <2>1 DEF MemoryFiles
  <2> QED BY <2>2, <2>3
<1>2. ASSUME NEW c \in MemoryClients, NEW n \in MemorySizes,
             Memory!Initialize(c, n) \/ Memory!Resize(c, n)
      PROVE  MemoryInv' /\ (MemoryFiles => MemoryFiles')
  BY <1>2, MemoryInitialize, MemoryResize
<1>3. ASSUME NEW c \in MemoryClients,
             \/ Memory!Process_Memory_Request(c) \/ Memory!Dispatch_Event(c)
             \/ Memory!Finalize(c) \/ Memory!Hang_Up(c)
      PROVE  MemoryInv' /\ (MemoryFiles => MemoryFiles')
  BY <1>3, MemoryRequest, MemoryDispatch, MemoryFinalize, MemoryHangUp
<1> QED BY <1>1, <1>2, <1>3, MemoryBrokerExit DEF Memory!Next

LEMMA MemoryInvariance == PartsSpec => []MemoryInv
<1>1. PartsInit => MemoryInv
  BY MemoryInit DEF PartsInit
<1>2. MemoryInv /\ [PartsNext]_all => MemoryInv'
  BY MemoryStep, PartsStep
<1> QED BY <1>1, <1>2, PTL DEF PartsSpec

\* An open client shares its memory with exactly one session variable of the
\* server, and that looks at the client's file, not at the one that was mapped
\* there before, for any number of clients and session variables and although
\* cleaning up forgets the descriptor and not the map (Session_Initialize,
\* Session_Cleanup of gneiss-memory-dispatcher.adb).
THEOREM OneSharer == PartsSpec => []MemoryIsShared
<1>1. MemoryInv => MemoryIsShared
  <2> SUFFICES ASSUME MemoryInv
               PROVE  Memory!MemoryIsShared
    BY DEF MemoryIsShared
  <2>0. MemoryServed
    BY DEF MemoryInv
  <2>1. ASSUME NEW c \in MemoryClients, memClient[c].state = "open"
        PROVE  Memory!Cardinality({i \in 1..MemorySlots : memServer[i].fd = c}) = 1
    <3>1. PICK i \in 1..MemorySlots : memServer[i].fd = c
      BY <2>0, <2>1 DEF MemoryServed
    <3>2. {j \in 1..MemorySlots : memServer[j].fd = c} = {i}
      BY <2>0, <3>1, MemorySizesFacts DEF MemoryServed
    <3> QED BY <3>2, FS_Singleton, CountAlike
  <2>2. \A i \in 1..MemorySlots : memServer[i].fd # Memory!None =>
          /\ memServer[i].map = memServer[i].fd
          /\ memClient[memServer[i].fd].state \in {"open", "closed"}
    BY <2>0 DEF MemoryServed
  <2> QED BY <2>1, <2>2 DEF Memory!MemoryIsShared
<1> QED BY <1>1, MemoryInvariance, PTL

\* The server's map of an open client's file has the length of the file, as an
\* int, and never reaches behind its end, for any sizes that are asked for or set
\* and whenever the file is resized: it is sealed before the server maps it.  A
\* file that was not resized has the size the client asked for, and both maps
\* that size as an int (gneiss_memfd_seal, gneiss_mmap, gneiss_fstat_size).
THEOREM WholeMemory == PartsSpec => []MemoryAsAsked
<1>1. PartsInit => MemoryInv /\ MemoryFiles
  BY MemoryInit DEF PartsInit
<1>2. (MemoryInv /\ MemoryFiles) /\ [PartsNext]_all => (MemoryInv /\ MemoryFiles)'
  BY MemoryStep, PartsStep
<1>3. MemoryInv /\ MemoryFiles => MemoryAsAsked
  BY DEF MemoryFiles, Fits, MemoryAsAsked, Memory!MemoryAsAsked
<1> QED BY <1>1, <1>2, <1>3, PTL DEF PartsSpec
-----------------------------------------------------------------------------
(* Log sessions                                                            *)

\* The text of a packet is its first k characters, in order, and a NUL is
\* behind them if there is room for one.
Filled(b, k) ==
    /\ \A i \in 1..k : b[i] # Log!NUL
    /\ k < BufferLast => b[k + 1] = Log!NUL
    /\ \A i, j \in 1..k : i < j => b[i].pos < b[j].pos

\* What the server writes of packet b.
Shown(b) == {b[i].pos : i \in {j \in 1..Log!ServerCursor(b) : Log!ServerCursor(b) > 1}}

\* What it has written in a session, and what it has or will have.
Done(wr) == {wr[i].pos : i \in 1..Len(wr)}
Text(qu, wr) == Done(wr) \cup UNION {Shown(qu[j]) : j \in 1..Len(qu)}

Ahead(A, B) == \A x \in A : \A y \in B : x < y

\* In one session, with packets qu under way and wr written: everything is in
\* order and no position is above hi.
InOrder(qu, wr, hi) ==
    /\ \A i, j \in 1..Len(wr) : i < j => wr[i].pos < wr[j].pos
    /\ \A j \in 1..Len(qu) : Ahead(Done(wr), Shown(qu[j]))
    /\ \A j, l \in 1..Len(qu) : j < l => Ahead(Shown(qu[j]), Shown(qu[l]))
    /\ \A j \in 1..Len(qu) : \E k \in 0..BufferLast : Filled(qu[j], k)
    /\ \A x \in Text(qu, wr) : x \in Nat /\ x <= hi

\* The last cursor characters that were printed are in the client's buffer.
Buffered(b, c, t) ==
    /\ c <= t
    /\ \A i \in 1..c : b[i] # Log!NUL /\ b[i].pos = t - c + i

LogInv ==
    /\ Log!TypeOK
    /\ logOpen => logSession # 0
    /\ Buffered(logBuffer, logCursor, logText)
    /\ \A n \in Log!Sessions : n > logSession => logSock[n] = <<>> /\ logWritten[n] = <<>>
    /\ \A n \in Log!Sessions : InOrder(logSock[n], logWritten[n], logText - logCursor)
    /\ \A m, n \in Log!Sessions : m < n =>
          Ahead(Text(logSock[m], logWritten[m]), Text(logSock[n], logWritten[n]))

LEMMA LogBounds ==
    /\ BufferLast \in Nat /\ BufferLast >= 2 /\ QueueLimit \in Nat \ {0} /\ MaxText \in Nat
    /\ MaxSessions \in Nat \ {0} /\ Log!Sessions = 1..MaxSessions
BY PartsAssumption DEF Log!BoundsAssumption, Log!Sessions

LEMMA BufferTypes ==
    ASSUME NEW b \in Log!Buffers, NEW i \in 1..BufferLast
    PROVE  /\ b[i] = Log!NUL \/ b[i] \in Log!Chars
           /\ b[i] # Log!NUL => b[i].pos \in Nat \ {0}
BY DEF Log!Buffers, Log!Chars

\* The server's loop finds the end of the text; of an empty text and of a
\* single character it writes nothing.
LEMMA CursorFound ==
    ASSUME NEW b \in Log!Buffers, NEW k \in 0..BufferLast, Filled(b, k)
    PROVE  /\ Log!ServerCursor(b) \in 1..BufferLast
           /\ Log!ServerCursor(b) > 1 => Log!ServerCursor(b) = k
<1> USE LogBounds
<1> DEFINE P(i) == /\ i = 1 \/ \A j \in 1..i : b[j] # Log!NUL
                   /\ i = BufferLast \/ b[i + 1] = Log!NUL \/ b[1] = Log!NUL
           c == Log!ServerCursor(b)
<1>1. c = CHOOSE i \in 1..BufferLast : P(i)
  BY DEF Log!ServerCursor
<1>2. \E i \in 1..BufferLast : P(i)
  <2>1. CASE k = 0
    <3>1. b[1] = Log!NUL
      BY <2>1 DEF Filled
    <3>2. 1 \in 1..BufferLast /\ P(1)
      BY <3>1
    <3> QED BY <3>2
  <2>2. CASE k # 0
    <3>1. k \in 1..BufferLast /\ (k = BufferLast \/ k < BufferLast)
      BY <2>2
    <3>2. P(k)
      BY <3>1 DEF Filled
    <3> QED BY <3>1, <3>2
  <2> QED BY <2>1, <2>2
<1>3. c \in 1..BufferLast /\ P(c)
  BY <1>1, <1>2
<1> HIDE DEF c
<1>4. ASSUME c > 1
      PROVE  c = k
  <2>1. /\ \A j \in 1..c : b[j] # Log!NUL
        /\ c = BufferLast \/ b[c + 1] = Log!NUL
    BY <1>3, <1>4
  <2>2. CASE c > k
    <3>1. k < BufferLast /\ k + 1 \in 1..c
      BY <1>3, <2>2
    <3> QED BY <2>1, <3>1 DEF Filled
  <2>3. CASE c < k
    <3>1. c # BufferLast /\ c + 1 \in 1..k
      BY <1>3, <2>3
    <3> QED BY <2>1, <3>1 DEF Filled
  <2> QED BY <1>3, <2>2, <2>3
<1> QED BY <1>3, <1>4 DEF c

\* What is shown of a packet is what is in it.
LEMMA ShownText ==
    ASSUME NEW b \in Log!Buffers, NEW k \in 0..BufferLast, Filled(b, k)
    PROVE  \A x \in Shown(b) : \E i \in 1..k : x = b[i].pos /\ x \in Nat
<1> USE LogBounds
<1>1. SUFFICES ASSUME NEW i \in 1..Log!ServerCursor(b), Log!ServerCursor(b) > 1
               PROVE  i \in 1..k /\ b[i].pos \in Nat
  BY DEF Shown
<1>2. i \in 1..k /\ i \in 1..BufferLast
  BY <1>1, CursorFound
<1>3. b[i] # Log!NUL
  BY <1>2 DEF Filled
<1> QED BY <1>2, <1>3, BufferTypes
LEMMA TextOf ==
    ASSUME NEW qu, NEW wr, NEW x
    PROVE  x \in Text(qu, wr) <=>
              \/ \E i \in 1..Len(wr) : x = wr[i].pos
              \/ \E j \in 1..Len(qu) : x \in Shown(qu[j])
BY DEF Text, Done

LEMMA DoneOf ==
    ASSUME NEW wr, NEW x
    PROVE  x \in Done(wr) <=> \E i \in 1..Len(wr) : x = wr[i].pos
BY DEF Done

LEMMA OrderNone ==
    ASSUME NEW hi
    PROVE  InOrder(<<>>, <<>>, hi) /\ Text(<<>>, <<>>) = {}
<1>1. Text(<<>>, <<>>) = {}
  BY DEF Text, Done
<1> QED BY <1>1 DEF InOrder

LEMMA OrderHigher ==
    ASSUME NEW qu, NEW wr, NEW lo \in Int, NEW hi \in Int, lo <= hi, InOrder(qu, wr, lo)
    PROVE  InOrder(qu, wr, hi)
<1>1. \A x \in Text(qu, wr) : x \in Nat /\ x <= hi
  BY DEF InOrder
<1> QED BY <1>1 DEF InOrder

\* A packet is sent with what is above all that was sent before.
LEMMA OrderSend ==
    ASSUME NEW qu \in Seq(Log!Buffers), NEW wr, NEW lo \in Int, NEW hi \in Int, lo <= hi,
           InOrder(qu, wr, lo), NEW b \in Log!Buffers, NEW k \in 0..BufferLast, Filled(b, k),
           \A x \in Shown(b) : x \in Nat /\ lo < x /\ x <= hi
    PROVE  /\ InOrder(Append(qu, b), wr, hi)
           /\ Text(Append(qu, b), wr) = Text(qu, wr) \cup Shown(b)
<1> DEFINE qv == Append(qu, b)
<1>1. /\ Len(qu) \in Nat /\ Len(qv) = Len(qu) + 1 /\ qv[Len(qu) + 1] = b
      /\ \A j \in 1..Len(qu) : qv[j] = qu[j]
  OBVIOUS
<1> HIDE DEF qv
<1>2. \A j \in 1..Len(qv) : (j \in 1..Len(qu) /\ qv[j] = qu[j]) \/ (j = Len(qu) + 1 /\ qv[j] = b)
  BY <1>1
<1>3. Text(qv, wr) = Text(qu, wr) \cup Shown(b)
  <2>1. ASSUME NEW x
        PROVE  x \in Text(qv, wr) <=> x \in Text(qu, wr) \cup Shown(b)
    <3>1. (\E j \in 1..Len(qv) : x \in Shown(qv[j])) <=>
             (\E j \in 1..Len(qu) : x \in Shown(qu[j])) \/ x \in Shown(b)
      BY <1>1, <1>2
    <3> QED BY <3>1, TextOf
  <2> QED BY <2>1
<1>4. Ahead(Done(wr), Shown(b)) /\ \A j \in 1..Len(qu) : Ahead(Shown(qu[j]), Shown(b))
  <2>1. \A x \in Text(qu, wr) : x \in Nat /\ x <= lo
    BY DEF InOrder
  <2>2. Done(wr) \subseteq Text(qu, wr) /\ \A j \in 1..Len(qu) : Shown(qu[j]) \subseteq Text(qu, wr)
    BY TextOf, DoneOf
  <2>3. ASSUME NEW x \in Text(qu, wr), NEW y \in Shown(b)
        PROVE  x < y
    BY <2>1, <2>3
  <2> QED BY <2>2, <2>3 DEF Ahead
<1>5. \A j \in 1..Len(qv) : Ahead(Done(wr), Shown(qv[j]))
  BY <1>2, <1>4 DEF InOrder
<1>6. \A j, l \in 1..Len(qv) : j < l => Ahead(Shown(qv[j]), Shown(qv[l]))
  <2>1. SUFFICES ASSUME NEW j \in 1..Len(qv), NEW l \in 1..Len(qv), j < l
                 PROVE  Ahead(Shown(qv[j]), Shown(qv[l]))
    OBVIOUS
  <2>2. j \in 1..Len(qu) /\ qv[j] = qu[j]
    BY <1>1, <1>2, <2>1
  <2>3. CASE l \in 1..Len(qu) /\ qv[l] = qu[l]
    BY <2>1, <2>2, <2>3 DEF InOrder
  <2>4. CASE qv[l] = b
    BY <1>4, <2>2, <2>4
  <2> QED BY <1>2, <2>3, <2>4
<1>7. \A j \in 1..Len(qv) : \E m \in 0..BufferLast : Filled(qv[j], m)
  BY <1>2 DEF InOrder
<1>8. \A x \in Text(qv, wr) : x \in Nat /\ x <= hi
  BY <1>3 DEF InOrder
<1>9. InOrder(qv, wr, hi)
  BY <1>5, <1>6, <1>7, <1>8 DEF InOrder
<1> QED BY <1>3, <1>9 DEF qv

\* The server takes the first packet; nothing is written of it.
LEMMA OrderSkip ==
    ASSUME NEW qu \in Seq(Log!Buffers), qu # <<>>, NEW wr, NEW hi, InOrder(qu, wr, hi)
    PROVE  InOrder(Tail(qu), wr, hi) /\ Text(Tail(qu), wr) \subseteq Text(qu, wr)
<1> DEFINE qv == Tail(qu)
<1>1. /\ Len(qu) \in Nat /\ Len(qv) = Len(qu) - 1
      /\ \A j \in 1..Len(qv) : qv[j] = qu[j + 1] /\ j + 1 \in 1..Len(qu)
  OBVIOUS
<1> HIDE DEF qv
<1>2. Text(qv, wr) \subseteq Text(qu, wr)
  <2>1. ASSUME NEW x, NEW j \in 1..Len(qv), x \in Shown(qv[j])
        PROVE  \E l \in 1..Len(qu) : x \in Shown(qu[l])
    BY <1>1, <2>1
  <2> QED BY <2>1, TextOf
<1>3. \A j, l \in 1..Len(qv) : j < l => j + 1 < l + 1
  BY <1>1
<1>4. InOrder(qv, wr, hi)
  <2>1. \A j \in 1..Len(qv) : Ahead(Done(wr), Shown(qv[j]))
    BY <1>1 DEF InOrder
  <2>2. \A j, l \in 1..Len(qv) : j < l => Ahead(Shown(qv[j]), Shown(qv[l]))
    BY <1>1, <1>3 DEF InOrder
  <2>3. \A j \in 1..Len(qv) : \E k \in 0..BufferLast : Filled(qv[j], k)
    BY <1>1 DEF InOrder
  <2> QED BY <1>2, <2>1, <2>2, <2>3 DEF InOrder
<1> QED BY <1>2, <1>4 DEF qv

\* The server takes the first packet and writes its text.
LEMMA OrderRead ==
    ASSUME NEW qu \in Seq(Log!Buffers), qu # <<>>, NEW wr \in Seq(Log!Chars), NEW hi,
           InOrder(qu, wr, hi), NEW c \in 1..BufferLast, c = Log!ServerCursor(Head(qu)), c > 1
    PROVE  LET wt == wr \o [i \in 1..c |-> Head(qu)[i]]
           IN  /\ wt \in Seq(Log!Chars)
               /\ InOrder(Tail(qu), wt, hi) /\ Text(Tail(qu), wt) \subseteq Text(qu, wr)
<1> DEFINE b == Head(qu)
           tx == [i \in 1..c |-> b[i]]
           wt == wr \o tx
           qv == Tail(qu)
<1> USE LogBounds
<1>1. /\ b = qu[1] /\ b \in Log!Buffers /\ Len(qu) \in Nat \ {0} /\ Len(qv) = Len(qu) - 1
      /\ \A j \in 1..Len(qv) : qv[j] = qu[j + 1] /\ j + 1 \in 1..Len(qu) /\ 1 < j + 1
  OBVIOUS
<1>2. PICK k \in 0..BufferLast : Filled(b, k)
  BY <1>1 DEF InOrder
<1>3. c = k
  BY <1>1, <1>2, CursorFound
<1>4. \A i \in 1..c : b[i] \in Log!Chars
  <2>1. \A i \in 1..c : b[i] # Log!NUL /\ i \in 1..BufferLast
    BY <1>2, <1>3 DEF Filled
  <2> HIDE DEF b
  <2> QED BY <1>1, <2>1, BufferTypes
<1>5. tx \in Seq(Log!Chars) /\ Len(tx) = c /\ \A i \in 1..c : tx[i] = b[i]
  BY <1>4
<1>6. Shown(b) = {b[i].pos : i \in 1..c}
  <2>1. {j \in 1..Log!ServerCursor(b) : Log!ServerCursor(b) > 1} = 1..c
    OBVIOUS
  <2> QED BY <2>1 DEF Shown
<1> HIDE DEF tx, b, qv
<1>7. /\ wt \in Seq(Log!Chars) /\ Len(wt) = Len(wr) + c /\ Len(wr) \in Nat
      /\ \A i \in 1..Len(wr) : wt[i] = wr[i]
      /\ \A i \in 1..c : wt[Len(wr) + i] = b[i]
  <2>0. tx \in Seq(Log!Chars) /\ Len(tx) \in Nat /\ Len(wr) \in Nat
    BY <1>5
  <2>1. /\ wt \in Seq(Log!Chars) /\ Len(wt) = Len(wr) + Len(tx)
    BY <2>0, ConcatProperties
  <2>2. \A i \in 1..(Len(wr) + Len(tx)) : wt[i] = IF i <= Len(wr) THEN wr[i] ELSE tx[i - Len(wr)]
    BY <1>5, ConcatProperties
  <2> HIDE DEF wt
  <2>3. ASSUME NEW i \in 1..c
        PROVE  wt[Len(wr) + i] = b[i]
    <3>1. Len(wr) + i \in 1..(Len(wr) + Len(tx)) /\ ~(Len(wr) + i <= Len(wr)) /\ Len(wr) + i - Len(wr) = i
      BY <1>5, <2>0
    <3>2. wt[Len(wr) + i] = tx[Len(wr) + i - Len(wr)]
      BY <2>2, <3>1
    <3> QED BY <1>5, <3>1, <3>2
  <2>4. ASSUME NEW i \in 1..Len(wr)
        PROVE  wt[i] = wr[i]
    BY <2>0, <2>2
  <2> QED BY <1>5, <2>0, <2>1, <2>3, <2>4
<1> HIDE DEF wt
<1>8. \A i \in 1..Len(wt) : \/ i \in 1..Len(wr) /\ wt[i] = wr[i]
                            \/ i - Len(wr) \in 1..c /\ wt[i] = b[i - Len(wr)] /\ i > Len(wr)
  <2>1. SUFFICES ASSUME NEW i \in 1..Len(wt), i > Len(wr)
                 PROVE  i - Len(wr) \in 1..c /\ wt[i] = b[i - Len(wr)]
    BY <1>7
  <2>2. i - Len(wr) \in 1..c /\ i = Len(wr) + (i - Len(wr))
    BY <1>7, <2>1
  <2> QED BY <1>7, <2>2
<1>9. Done(wt) = Done(wr) \cup Shown(b)
  <2>1. ASSUME NEW i \in 1..Len(wt)
        PROVE  wt[i].pos \in Done(wr) \/ wt[i].pos \in Shown(b)
    BY <1>6, <1>8, <2>1, DoneOf
  <2>2. ASSUME NEW i \in 1..Len(wr)
        PROVE  \E j \in 1..Len(wt) : wr[i].pos = wt[j].pos
    <3>1. i \in 1..Len(wt)
      BY <1>7
    <3> QED BY <1>7, <3>1
  <2>3. ASSUME NEW i \in 1..c
        PROVE  \E j \in 1..Len(wt) : b[i].pos = wt[j].pos
    <3>1. Len(wr) + i \in 1..Len(wt)
      BY <1>7
    <3> QED BY <1>7, <3>1
  <2>4. ASSUME NEW x \in Done(wt)
        PROVE  x \in Done(wr) \cup Shown(b)
    <3>1. PICK i \in 1..Len(wt) : x = wt[i].pos
      BY DoneOf
    <3> QED BY <2>1, <3>1
  <2>5. ASSUME NEW x \in Done(wr)
        PROVE  x \in Done(wt)
    <3>1. PICK i \in 1..Len(wr) : x = wr[i].pos
      BY DoneOf
    <3> QED BY <2>2, <3>1, DoneOf
  <2>6. ASSUME NEW x \in Shown(b)
        PROVE  x \in Done(wt)
    <3>1. PICK i \in 1..c : x = b[i].pos
      BY <1>6
    <3> QED BY <2>3, <3>1, DoneOf
  <2> QED BY <2>4, <2>5, <2>6
<1>10. \A i, j \in 1..Len(wt) : i < j => wt[i].pos < wt[j].pos
  <2>1. SUFFICES ASSUME NEW i \in 1..Len(wt), NEW j \in 1..Len(wt), i < j
                 PROVE  wt[i].pos < wt[j].pos
    OBVIOUS
  <2>2. CASE i \in 1..Len(wr) /\ j \in 1..Len(wr)
    BY <1>7, <2>1, <2>2 DEF InOrder
  <2>3. CASE i \in 1..Len(wr) /\ j > Len(wr)
    <3>1. wt[i].pos \in Done(wr)
      BY <1>7, <2>3, DoneOf
    <3>2. wt[j].pos \in Shown(b)
      <4>1. j - Len(wr) \in 1..c /\ wt[j] = b[j - Len(wr)]
        BY <1>7, <1>8, <2>3
      <4> QED BY <1>6, <4>1
    <3>3. Ahead(Done(wr), Shown(b))
      BY <1>1 DEF InOrder
    <3> QED BY <3>1, <3>2, <3>3 DEF Ahead
  <2>4. CASE i > Len(wr) /\ j > Len(wr)
    <3>1. /\ i - Len(wr) \in 1..c /\ wt[i] = b[i - Len(wr)]
          /\ j - Len(wr) \in 1..c /\ wt[j] = b[j - Len(wr)] /\ i - Len(wr) < j - Len(wr)
      BY <1>7, <1>8, <2>1, <2>4
    <3> QED BY <1>2, <1>3, <3>1 DEF Filled
  <2> QED BY <1>7, <2>1, <2>2, <2>3, <2>4
<1>11. \A j \in 1..Len(qv) : Ahead(Done(wt), Shown(qv[j]))
  <2>1. \A j \in 1..Len(qv) : Ahead(Done(wr), Shown(qv[j])) /\ Ahead(Shown(b), Shown(qv[j]))
    BY <1>1 DEF InOrder
  <2> QED BY <1>9, <2>1 DEF Ahead
<1>12. InOrder(qv, wr, hi) /\ Text(qv, wr) \subseteq Text(qu, wr)
  BY OrderSkip DEF qv
<1>13. Text(qv, wt) \subseteq Text(qu, wr)
  <2>1. Shown(b) \subseteq Text(qu, wr)
    BY <1>1, TextOf
  <2>2. Text(qv, wt) \subseteq Text(qv, wr) \cup Shown(b)
    BY <1>9 DEF Text
  <2> QED BY <1>12, <2>1, <2>2
<1>14. InOrder(qv, wt, hi)
  <2>1. \A x \in Text(qv, wt) : x \in Nat /\ x <= hi
    BY <1>13 DEF InOrder
  <2> QED BY <1>10, <1>11, <1>12, <2>1 DEF InOrder
<1> QED BY <1>7, <1>13, <1>14 DEF wt, qv, tx, b
LEMMA LogInit ==
    ASSUME Log!Init
    PROVE  LogInv
<1> USE LogBounds
<1>1. logBuffer \in Log!Buffers
  BY DEF Log!Init, Log!Buffers
<1>2. logSession = 0 /\ logCursor = 0 /\ logText = 0
  BY DEF Log!Init
<1>3. /\ logSock \in [Log!Sessions -> Seq(Log!Buffers)] /\ logWritten \in [Log!Sessions -> Seq(Log!Chars)]
      /\ \A n \in Log!Sessions : logSock[n] = <<>> /\ logWritten[n] = <<>>
  BY DEF Log!Init
<1>4. logOpen = FALSE
  BY DEF Log!Init
<1>5. Log!TypeOK
  <2>1. logSession \in 0..MaxSessions /\ logCursor \in 0..(BufferLast - 1) /\ logText \in Nat
    BY <1>2
  <2>2. logOpen \in BOOLEAN
    BY <1>4
  <2> QED BY <1>1, <1>3, <2>1, <2>2 DEF Log!TypeOK
<1>6. Buffered(logBuffer, logCursor, logText)
  BY <1>2 DEF Buffered
<1>7. \A n \in Log!Sessions : /\ InOrder(logSock[n], logWritten[n], logText - logCursor)
                              /\ Text(logSock[n], logWritten[n]) = {}
  BY <1>3, OrderNone
<1> QED BY <1>3, <1>4, <1>5, <1>6, <1>7 DEF LogInv, Ahead

\* The packet that Flush_Buffer sends has just the buffered text.
LEMMA TerminatedText ==
    ASSUME NEW b \in Log!Buffers, NEW c \in 0..BufferLast, NEW t \in Nat, Buffered(b, c, t)
    PROVE  /\ Log!Terminated(b, c) \in Log!Buffers /\ Filled(Log!Terminated(b, c), c)
           /\ \A x \in Shown(Log!Terminated(b, c)) : x \in Nat /\ t - c < x /\ x <= t
<1> USE LogBounds
<1> DEFINE d == Log!Terminated(b, c)
<1>1. b \in [1..BufferLast -> Log!Chars \cup {Log!NUL}]
  BY DEF Log!Buffers
<1>2. /\ d \in [1..BufferLast -> Log!Chars \cup {Log!NUL}]
      /\ c < BufferLast => d[c + 1] = Log!NUL
      /\ \A i \in 1..c : d[i] = b[i]
  BY <1>1 DEF Log!Terminated
<1> HIDE DEF d
<1>3. \A i \in 1..c : d[i] # Log!NUL /\ d[i].pos = t - c + i
  BY <1>2 DEF Buffered
<1>4. Filled(d, c)
  <2>1. \A i, j \in 1..c : i < j => d[i].pos < d[j].pos
    BY <1>3
  <2> QED BY <1>2, <1>3, <2>1 DEF Filled
<1>5. d \in Log!Buffers
  BY <1>2 DEF Log!Buffers
<1>6. ASSUME NEW x \in Shown(d)
      PROVE  x \in Nat /\ t - c < x /\ x <= t
  <2>1. PICK i \in 1..c : x = d[i].pos /\ x \in Nat
    BY <1>4, <1>5, ShownText
  <2>2. x = t - c + i
    BY <1>3, <2>1
  <2> QED BY <2>1, <2>2
<1> QED BY <1>4, <1>5, <1>6 DEF d

\* Flush_Buffer after c characters of the first t: the packet comes behind all
\* the others, or is lost, and the buffer is empty.
LEMMA LogFlush ==
    ASSUME LogInv, logOpen, NEW b \in Log!Buffers, NEW c \in 0..BufferLast, NEW t \in Nat,
           logText - logCursor = t - c, Buffered(b, c, t), logText' = t, Log!Flush_Buffer(b, c),
           UNCHANGED <<logOpen, logSession, logWritten>>
    PROVE  LogInv'
<1> USE LogBounds
<1> DEFINE s == logSession
           d == Log!Terminated(b, c)
           lo == t - c
<1>0. Log!TypeOK
  BY DEF LogInv
<1>1. s \in Log!Sessions
  BY <1>0 DEF LogInv, Log!TypeOK
<1>2. /\ d \in Log!Buffers /\ Filled(d, c)
      /\ \A x \in Shown(d) : x \in Nat /\ lo < x /\ x <= t
  BY TerminatedText
<1>3. logBuffer' = d /\ logCursor' = 0
  BY DEF Log!Flush_Buffer
<1>4. logSock' = [logSock EXCEPT ![s] = Append(logSock[s], d)] \/ logSock' = logSock
  BY DEF Log!Flush_Buffer
<1> HIDE DEF d
<1>5. /\ logSock \in [Log!Sessions -> Seq(Log!Buffers)] /\ logWritten \in [Log!Sessions -> Seq(Log!Chars)]
      /\ lo \in Int /\ t \in Int /\ lo <= t
  BY <1>0 DEF Log!TypeOK
<1>6. \A n \in Log!Sessions : InOrder(logSock[n], logWritten[n], lo)
  BY DEF LogInv
<1>7. \A n \in Log!Sessions : InOrder(logSock[n], logWritten[n], t)
  <2> HIDE DEF lo
  <2> QED BY <1>5, <1>6, OrderHigher
<1>8. ASSUME NEW so, so = logSock',
             so \in [Log!Sessions -> Seq(Log!Buffers)],
             \A n \in Log!Sessions : n # s => so[n] = logSock[n],
             InOrder(so[s], logWritten[s], t),
             Text(so[s], logWritten[s]) \subseteq Text(logSock[s], logWritten[s]) \cup Shown(d)
      PROVE  LogInv'
  <2>1. Log!TypeOK'
    BY <1>0, <1>2, <1>3, <1>8 DEF Log!TypeOK
  <2>2. Buffered(logBuffer', logCursor', logText')
    BY <1>3 DEF Buffered
  <2>3. \A n \in Log!Sessions : n > s => n # s /\ so[n] = <<>> /\ logWritten[n] = <<>>
    BY <1>1, <1>8 DEF LogInv
  <2>4. \A n \in Log!Sessions : InOrder(so[n], logWritten[n], t)
    BY <1>7, <1>8
  <2>5. ASSUME NEW m \in Log!Sessions, NEW n \in Log!Sessions, m < n
        PROVE  Ahead(Text(so[m], logWritten[m]), Text(so[n], logWritten[n]))
    <3>1. Ahead(Text(logSock[m], logWritten[m]), Text(logSock[n], logWritten[n]))
      BY <2>5 DEF LogInv
    <3>2. CASE m # s /\ n # s
      BY <1>8, <3>1, <3>2
    <3>3. CASE m = s
      <4>1. n > s
        BY <2>5, <3>3
      <4>2. Text(so[n], logWritten[n]) = {}
        BY <2>3, <4>1, OrderNone
      <4> QED BY <4>2 DEF Ahead
    <3>4. CASE n = s /\ m # s
      <4>1. ASSUME NEW x \in Text(logSock[m], logWritten[m]), NEW y \in Shown(d)
            PROVE  x < y
        <5>1. x \in Nat /\ x <= lo
          BY <1>6 DEF InOrder
        <5>2. y \in Nat /\ lo < y
          BY <1>2
        <5> QED BY <1>5, <5>1, <5>2
      <4> QED BY <1>8, <3>1, <3>4, <4>1 DEF Ahead
    <3> QED BY <3>2, <3>3, <3>4
  <2>6. logText' - logCursor' = t
    BY <1>3
  <2> QED BY <1>8, <2>1, <2>2, <2>3, <2>4, <2>5, <2>6 DEF LogInv
<1>9. CASE logSock' = logSock
  <2>1. Text(logSock[s], logWritten[s]) \subseteq Text(logSock[s], logWritten[s]) \cup Shown(d)
    OBVIOUS
  <2> QED BY <1>1, <1>5, <1>7, <1>8, <1>9, <2>1
<1>10. CASE logSock' = [logSock EXCEPT ![s] = Append(logSock[s], d)]
  <2>1. /\ InOrder(Append(logSock[s], d), logWritten[s], t)
        /\ Text(Append(logSock[s], d), logWritten[s]) = Text(logSock[s], logWritten[s]) \cup Shown(d)
    <3> HIDE DEF lo
    <3>1. logSock[s] \in Seq(Log!Buffers) /\ InOrder(logSock[s], logWritten[s], lo)
      BY <1>1, <1>5, <1>6
    <3> QED BY <1>2, <1>5, <3>1, OrderSend
  <2>2. Append(logSock[s], d) \in Seq(Log!Buffers)
    BY <1>1, <1>2, <1>5
  <2>3. ASSUME NEW so, so = logSock'
        PROVE  /\ so \in [Log!Sessions -> Seq(Log!Buffers)] /\ so[s] = Append(logSock[s], d)
               /\ \A n \in Log!Sessions : n # s => so[n] = logSock[n]
    BY <1>1, <1>5, <1>10, <2>2, <2>3
  <2> QED BY <1>8, <2>1, <2>3
<1> QED BY <1>4, <1>9, <1>10
\* Steps that leave the packets and what is written.
LEMMA LogFrame ==
    ASSUME LogInv, UNCHANGED <<logSock, logWritten>>, logOpen' \in BOOLEAN,
           logSession' \in 0..MaxSessions, logSession <= logSession',
           logOpen' => logSession' # 0,
           logBuffer' \in Log!Buffers, logCursor' \in 0..(BufferLast - 1), logText' \in Nat,
           logText' - logCursor' = logText - logCursor,
           Buffered(logBuffer', logCursor', logText')
    PROVE  LogInv'
<1>0. Log!TypeOK
  BY DEF LogInv
<1>1. Log!TypeOK'
  BY <1>0 DEF Log!TypeOK
<1>2. \A n \in Log!Sessions : n > logSession' => logSock[n] = <<>> /\ logWritten[n] = <<>>
  <2>1. logSession \in Int
    BY <1>0, LogBounds DEF Log!TypeOK
  <2>2. \A n \in Log!Sessions : n \in Int
    BY LogBounds
  <2>3. \A n \in Log!Sessions : n > logSession' => n > logSession
    BY <2>1, <2>2
  <2> QED BY <2>3 DEF LogInv
<1>3. \A n \in Log!Sessions : InOrder(logSock[n], logWritten[n], logText' - logCursor')
  BY DEF LogInv
<1> QED BY <1>1, <1>2, <1>3 DEF LogInv

LEMMA LogPrint ==
    ASSUME LogInv, NEW lf \in BOOLEAN, Log!Print_Char(lf)
    PROVE  LogInv'
<1> USE LogBounds
<1> DEFINE ch == [pos |-> logText + 1, lf |-> lf]
           c == logCursor + 1
           t == logText + 1
           b == [logBuffer EXCEPT ![c] = ch]
<1>0. /\ Log!TypeOK /\ logText' = t /\ UNCHANGED <<logOpen, logSession, logWritten>>
      /\ Buffered(logBuffer, logCursor, logText)
  BY DEF LogInv, Log!Print_Char
<1>1. logOpen /\ logOpen' \in BOOLEAN /\ (logOpen' => logSession' # 0)
  BY <1>0 DEF LogInv, Log!Print_Char
<1>2. /\ logText \in Nat /\ logCursor \in 0..(BufferLast - 1) /\ logBuffer \in Log!Buffers
      /\ logSession \in 0..MaxSessions
  BY <1>0 DEF Log!TypeOK
<1>3. ch \in Log!Chars /\ ch.pos = t /\ ch # Log!NUL
  <2>1. ch.pos = t /\ Log!NUL.pos = 0 /\ t # 0
    BY <1>2 DEF Log!NUL
  <2>2. ch \in Log!Chars
    BY <1>2 DEF Log!Chars
  <2> QED BY <2>1, <2>2
<1> HIDE DEF ch
<1>4. c \in 1..BufferLast /\ t \in Nat /\ logText - logCursor = t - c
  BY <1>2
<1>5. /\ b \in Log!Buffers /\ b[c] = ch /\ \A i \in 1..logCursor : b[i] = logBuffer[i]
  BY <1>2, <1>3, <1>4 DEF Log!Buffers
<1> HIDE DEF b
<1>6. Buffered(b, c, t)
  <2>1. \A i \in 1..c : i = c \/ i \in 1..logCursor
    BY <1>2
  <2>2. \A i \in 1..logCursor : b[i] # Log!NUL /\ b[i].pos = logText - logCursor + i
    BY <1>0, <1>5 DEF Buffered
  <2>3. t = t - c + c /\ c <= t
    BY <1>0, <1>2 DEF Buffered
  <2>4. \A i \in 1..c : b[i] # Log!NUL /\ b[i].pos = t - c + i
    BY <1>3, <1>4, <1>5, <2>1, <2>2, <2>3
  <2> QED BY <2>3, <2>4 DEF Buffered
<1>7. CASE Log!Flush_Buffer(b, c)
  BY <1>0, <1>1, <1>4, <1>5, <1>6, <1>7, LogFlush
<1>8. CASE ~(lf \/ c >= BufferLast) /\ logBuffer' = b /\ logCursor' = c /\ UNCHANGED logSock
  <2>1. c \in 0..(BufferLast - 1)
    BY <1>2, <1>8
  <2>2. logSession' \in 0..MaxSessions /\ logSession <= logSession'
    BY <1>0, <1>2
  <2> HIDE DEF c, t
  <2> QED BY <1>0, <1>1, <1>4, <1>5, <1>6, <1>8, <2>1, <2>2, LogFrame
<1>9. \/ Log!Flush_Buffer(b, c)
      \/ ~(lf \/ c >= BufferLast) /\ logBuffer' = b /\ logCursor' = c /\ UNCHANGED logSock
  BY DEF Log!Print_Char, b, ch
<1> QED BY <1>7, <1>8, <1>9

LEMMA LogEvent ==
    ASSUME LogInv, NEW n \in Log!Sessions, Log!Session_Event(n)
    PROVE  LogInv'
<1> USE LogBounds
<1> DEFINE b == Head(logSock[n])
           c == Log!ServerCursor(b)
           hi == logText - logCursor
           qv == Tail(logSock[n])
           wt == IF c > 1 THEN logWritten[n] \o [i \in 1..c |-> b[i]] ELSE logWritten[n]
<1>0. /\ Log!TypeOK /\ logSock[n] # <<>> /\ UNCHANGED <<logOpen, logSession, logBuffer, logCursor, logText>>
      /\ logSock' = [logSock EXCEPT ![n] = qv]
  BY DEF LogInv, Log!Session_Event, Log!clientVars
<1>1. /\ logSock \in [Log!Sessions -> Seq(Log!Buffers)] /\ logWritten \in [Log!Sessions -> Seq(Log!Chars)]
  BY <1>0 DEF Log!TypeOK
<1>2. logWritten' = [logWritten EXCEPT ![n] = wt]
  BY <1>1 DEF Log!Session_Event
<1>3. /\ InOrder(logSock[n], logWritten[n], hi) /\ logSock[n] \in Seq(Log!Buffers)
      /\ logWritten[n] \in Seq(Log!Chars)
  BY <1>1 DEF LogInv
<1>4. c \in 1..BufferLast
  <2>1. /\ b = logSock[n][1] /\ b \in Log!Buffers /\ 1 \in 1..Len(logSock[n])
    BY <1>0, <1>3
  <2>2. \E k \in 0..BufferLast : Filled(b, k)
    BY <1>3, <2>1 DEF InOrder
  <2> QED BY <2>1, <2>2, CursorFound
<1>5. /\ wt \in Seq(Log!Chars) /\ InOrder(qv, wt, hi) /\ Text(qv, wt) \subseteq Text(logSock[n], logWritten[n])
  <2> HIDE DEF hi
  <2>1. CASE c > 1
    <3>1. wt = logWritten[n] \o [i \in 1..c |-> Head(logSock[n])[i]]
      BY <2>1
    <3>2. /\ logWritten[n] \o [i \in 1..c |-> Head(logSock[n])[i]] \in Seq(Log!Chars)
          /\ InOrder(Tail(logSock[n]), logWritten[n] \o [i \in 1..c |-> Head(logSock[n])[i]], hi)
          /\ Text(Tail(logSock[n]), logWritten[n] \o [i \in 1..c |-> Head(logSock[n])[i]])
                \subseteq Text(logSock[n], logWritten[n])
      <4>1. c = Log!ServerCursor(Head(logSock[n]))
        OBVIOUS
      <4> HIDE DEF c
      <4> QED BY <1>0, <1>3, <1>4, <2>1, <4>1, OrderRead
    <3> QED BY <3>1, <3>2
  <2>2. CASE ~(c > 1)
    BY <1>0, <1>3, <2>2, OrderSkip
  <2> QED BY <2>1, <2>2
<1>6. qv \in Seq(Log!Buffers)
  BY <1>0, <1>3
<1> HIDE DEF b, c, qv, wt
<1>7. ASSUME NEW so, so = logSock', NEW wo, wo = logWritten'
      PROVE  /\ so \in [Log!Sessions -> Seq(Log!Buffers)] /\ so[n] = qv
             /\ wo \in [Log!Sessions -> Seq(Log!Chars)] /\ wo[n] = wt
             /\ \A m \in Log!Sessions : m # n => so[m] = logSock[m] /\ wo[m] = logWritten[m]
  BY <1>0, <1>1, <1>2, <1>5, <1>6, <1>7
<1>8. ASSUME NEW so, so = logSock', NEW wo, wo = logWritten'
      PROVE  LogInv'
  <2>1. /\ so \in [Log!Sessions -> Seq(Log!Buffers)] /\ so[n] = qv
        /\ wo \in [Log!Sessions -> Seq(Log!Chars)] /\ wo[n] = wt
        /\ \A m \in Log!Sessions : m # n => so[m] = logSock[m] /\ wo[m] = logWritten[m]
    BY <1>7, <1>8
  <2>2. Log!TypeOK'
    BY <1>0, <1>8, <2>1 DEF Log!TypeOK
  <2>3. \A m \in Log!Sessions : InOrder(so[m], wo[m], hi)
    BY <1>5, <2>1 DEF LogInv
  <2>4. \A m \in Log!Sessions : Text(so[m], wo[m]) \subseteq Text(logSock[m], logWritten[m])
    BY <1>5, <2>1
  <2>5. \A l, m \in Log!Sessions : l < m => Ahead(Text(so[l], wo[l]), Text(so[m], wo[m]))
    <3>1. \A l, m \in Log!Sessions : l < m =>
             Ahead(Text(logSock[l], logWritten[l]), Text(logSock[m], logWritten[m]))
      BY DEF LogInv
    <3> QED BY <2>4, <3>1 DEF Ahead
  <2>6. \A m \in Log!Sessions : m > logSession => so[m] = <<>> /\ wo[m] = <<>>
    BY <1>0, <2>1 DEF LogInv
  <2>7. (logOpen => logSession # 0) /\ Buffered(logBuffer, logCursor, logText)
    BY DEF LogInv
  <2> QED BY <1>0, <1>8, <2>2, <2>3, <2>5, <2>6, <2>7 DEF LogInv
<1> QED BY <1>8

LEMMA LogStep ==
    ASSUME LogInv, [Log!Next]_log
    PROVE  LogInv'
<1> USE LogBounds
<1>0. /\ Log!TypeOK /\ Buffered(logBuffer, logCursor, logText) /\ (logOpen => logSession # 0)
      /\ logSession \in 0..MaxSessions /\ logBuffer \in Log!Buffers
      /\ logCursor \in 0..(BufferLast - 1) /\ logText \in Nat
  BY DEF LogInv, Log!TypeOK
<1>1. CASE UNCHANGED log
  <2>1. /\ UNCHANGED <<logOpen, logSession, logBuffer, logCursor, logText, logSock, logWritten>>
        /\ logOpen \in BOOLEAN
    BY <1>0, <1>1 DEF log, Log!TypeOK
  <2> QED BY <1>0, <2>1, LogFrame
<1>2. CASE Log!Initialize
  <2>1. logOpen' \in BOOLEAN
    BY <1>2 DEF Log!Initialize
  <2>2. /\ logSession' = logSession + 1 /\ logSession < MaxSessions
        /\ UNCHANGED <<logBuffer, logCursor, logText, logSock, logWritten>>
    BY <1>2 DEF Log!Initialize
  <2>3. logSession' \in 0..MaxSessions /\ logSession <= logSession' /\ logSession' # 0
    BY <1>0, <2>2
  <2> QED BY <1>0, <2>1, <2>2, <2>3, LogFrame
<1>3. CASE Log!Finalize
  <2>1. logOpen' = FALSE
    BY <1>3 DEF Log!Finalize
  <2>2. UNCHANGED <<logSession, logBuffer, logCursor, logText, logSock, logWritten>>
    BY <1>3 DEF Log!Finalize
  <2>3. logOpen' \in BOOLEAN /\ ~logOpen'
    BY <2>1
  <2>4. logSession' \in 0..MaxSessions /\ logSession <= logSession'
    BY <1>0, <2>2
  <2> QED BY <1>0, <2>2, <2>3, <2>4, LogFrame
<1>4. CASE Log!Flush
  <2>1. /\ logOpen /\ Log!Flush_Buffer(logBuffer, logCursor)
        /\ UNCHANGED <<logOpen, logSession, logText, logWritten>>
    BY <1>4 DEF Log!Flush
  <2>2. logCursor \in 0..BufferLast
    BY <1>0
  <2> QED BY <1>0, <2>1, <2>2, LogFlush
<1> QED BY <1>1, <1>2, <1>3, <1>4, LogPrint, LogEvent DEF Log!Next

LEMMA LogInvariance == PartsSpec => []LogInv
<1>1. PartsInit => LogInv
  BY LogInit DEF PartsInit
<1>2. LogInv /\ [PartsNext]_all => LogInv'
  BY LogStep, PartsStep
<1> QED BY <1>1, <1>2, PTL DEF PartsSpec

\* The server of a Log session writes what was printed in order and nothing
\* twice, for buffers and sockets of any size, although each packet is the
\* whole buffer with what earlier texts left in it, and packets are lost when
\* the socket is full (Flush_Buffer, Session_Event).
THEOREM LogWritten == PartsSpec => []WrittenInOrder
<1>1. LogInv => WrittenInOrder
  <2> SUFFICES ASSUME LogInv, NEW n \in Log!Sessions,
                      NEW i \in DOMAIN logWritten[n], NEW j \in DOMAIN logWritten[n], i < j
               PROVE  logWritten[n][i].pos < logWritten[n][j].pos
    BY DEF WrittenInOrder, Log!WrittenInOrder
  <2>1. DOMAIN logWritten[n] = 1..Len(logWritten[n])
    BY DEF LogInv, Log!TypeOK
  <2> QED BY <2>1 DEF LogInv, InOrder
<1> QED BY <1>1, LogInvariance, PTL

\* No character is written in two sessions and each session's text comes before
\* the next one's, although a session variable that is used again starts with
\* what its last session had not flushed (Initialize, Finalize).
THEOREM LogSessionsApart == PartsSpec => []WrittenOnce
<1>1. LogInv => WrittenOnce
  <2> SUFFICES ASSUME LogInv, NEW m \in Log!Sessions, NEW n \in Log!Sessions, m < n,
                      NEW i \in DOMAIN logWritten[m], NEW j \in DOMAIN logWritten[n]
               PROVE  logWritten[m][i].pos < logWritten[n][j].pos
    BY DEF WrittenOnce, Log!WrittenOnce
  <2>1. i \in 1..Len(logWritten[m]) /\ j \in 1..Len(logWritten[n])
    BY DEF LogInv, Log!TypeOK
  <2>2. /\ logWritten[m][i].pos \in Text(logSock[m], logWritten[m])
        /\ logWritten[n][j].pos \in Text(logSock[n], logWritten[n])
    BY <2>1, TextOf
  <2> QED BY <2>2 DEF LogInv, Ahead
<1> QED BY <1>1, LogInvariance, PTL

\* Each variable of the three parts keeps its type, for any number of
\* capabilities, clients and session variables: the cursor is inside the buffer
\* whenever Print and Flush begin, and a server's session variable that has a
\* descriptor is Initialized and Ready (Print, Session_Initialize).
THEOREM PartsTypes == PartsSpec => []TypesOK
<1>1. MemoryInv => Memory!TypeOK
  BY DEF MemoryInv, MemoryTypes, MemoryServed, Memory!TypeOK
<1>2. LogInv => Log!TypeOK
  BY DEF LogInv
<1>3. PartsSpec => []TypeOK
  BY PartsLoop, LoopTypes, PTL
<1>4. TypeOK /\ Memory!TypeOK /\ Log!TypeOK => TypesOK
  BY DEF TypesOK
<1> QED BY <1>1, <1>2, <1>3, <1>4, MemoryInvariance, LogInvariance, PTL
=============================================================================
