-------------------------- MODULE BlockPartsProofs --------------------------
(***************************************************************************)
(* Proofs about the three parts of MCBlock together: the client on Linux,  *)
(* the server on Genode and, from BlockClientProofs, the client on Genode. *)
(*                                                                         *)
(* AioInv ties requests, heap cells, descriptors and files on Linux: each  *)
(* request that is not raw owns a cell that has its session's number, and  *)
(* what may yet be started has a descriptor that is still that of its file *)
(* or was closed behind its back.                                          *)
(*                                                                         *)
(* ServerInv: the session is that of the one client that is open, and the  *)
(* packets it has submitted are divided among its queue, the request       *)
(* variables, the acknowledgements and what it has fetched.                *)
(***************************************************************************)
EXTENDS MCBlock, BlockClientProofs, FiniteSetTheorems

-----------------------------------------------------------------------------
(* The client on Linux                                                     *)

AioOps == {"idle", "queued", "taken", "running", "done", "failed", "cancelled"}

AioCell == [live: BOOLEAN, fd: AioFds \cup {Aio!None}, of: AioFiles \cup {Aio!None},
            op: AioOps, at: AioFiles \cup {Aio!None}, loose: BOOLEAN]

AioTypes ==
    /\ aioSession \in [AioSessions -> Aio!Block_Client]
    /\ aioPath \in [AioSessions -> AioFiles \cup {Aio!None}]
    /\ aioFile \in [AioFds -> AioFiles \cup {Aio!None}]
    /\ aioRequest \in [AioRequests -> Aio!Request]
    /\ aioCell \in [AioCells -> AioCell]
    /\ aioAlive \in BOOLEAN

\* Every request that is not raw has a cell of its own with the number of its
\* session, which was opened once, and no other cell is allocated.
AioOwned ==
    /\ \A r \in AioRequests : aioRequest[r].aio_cb = Aio!None <=> aioRequest[r].status = "raw"
    /\ \A q, r \in AioRequests :
          aioRequest[q].aio_cb = aioRequest[r].aio_cb /\ aioRequest[q].status # "raw" => q = r
    /\ \A h \in AioCells : aioCell[h].live <=> \E r \in AioRequests : aioRequest[r].aio_cb = h
    /\ \A r \in AioRequests : aioRequest[r].status # "raw" =>
          /\ aioRequest[r].session \in AioSessions
          /\ Aio!Initialized(aioSession[aioRequest[r].session])
          /\ aioCell[aioRequest[r].aio_cb].fd = aioSession[aioRequest[r].session].fd
          /\ aioRequest[r].status = "allocated" => aioCell[aioRequest[r].aio_cb].op = "idle"

\* The number is still needed: the operation may yet be started.
AioWaits(c) == c.op \in {"queued", "taken"} \/ (c.op = "idle" /\ c.live)

\* A session in use is open; what waits has a descriptor that is still its
\* file's, unless the number was closed where it could not be cancelled.
AioFilesKept ==
    /\ \A s \in AioSessions : aioPath[s] # Aio!None => Aio!Initialized(aioSession[s])
    /\ \A h \in AioCells : AioWaits(aioCell[h]) => aioCell[h].fd \in AioFds
    /\ \A h \in AioCells : AioWaits(aioCell[h]) /\ ~aioCell[h].loose =>
          aioCell[h].of # Aio!None /\ aioFile[aioCell[h].fd] = aioCell[h].of

AioInv ==
    /\ AioTypes /\ AioOwned /\ AioFilesKept
    /\ Aio!NoUseAfterFree /\ Aio!OwnFileOnly /\ Aio!NoneLeftOpen

LEMMA AioNone ==
    /\ Aio!None \notin AioSessions /\ Aio!None \notin AioFiles
    /\ Aio!None \notin AioCells /\ Aio!None \notin AioFds
BY PartsAssumption DEF Aio!AioAssumption, Aio!None

LEMMA AioInit ==
    ASSUME Aio!Init
    PROVE  AioInv
<1>1. AioTypes
  BY DEF Aio!Init, AioTypes, Aio!Block_Client, Aio!Request, Aio!Raw, Aio!Statuses, AioCell, AioOps
<1>2. \A r \in AioRequests : aioRequest[r].status = "raw" /\ aioRequest[r].aio_cb = Aio!None
  BY DEF Aio!Init, Aio!Raw
<1>3. \A h \in AioCells : aioCell[h].op = "idle" /\ aioCell[h].at = Aio!None
  BY DEF Aio!Init
<1>4. \A h \in AioCells : ~aioCell[h].live
  BY DEF Aio!Init
<1>5. \A s \in AioSessions : aioPath[s] = Aio!None
  BY DEF Aio!Init
<1>6. \A n \in AioFds : aioFile[n] = Aio!None
  BY DEF Aio!Init
<1>7. AioOwned
  BY <1>2, <1>4, AioNone DEF AioOwned
<1>8. AioFilesKept
  BY <1>3, <1>4, <1>5 DEF AioFilesKept, AioWaits
<1>9. Aio!NoUseAfterFree /\ Aio!OwnFileOnly
  BY <1>3 DEF Aio!NoUseAfterFree, Aio!InFlight, Aio!OwnFileOnly
<1>10. Aio!NoneLeftOpen
  BY <1>6 DEF Aio!NoneLeftOpen
<1> QED BY <1>1, <1>7, <1>8, <1>9, <1>10 DEF AioInv

\* A number that is given out is not that of anything that waits.
LEMMA AioInitialize ==
    ASSUME AioInv, NEW s \in AioSessions, NEW f \in AioFiles, Aio!Initialize(s, f)
    PROVE  AioInv'
<1>0. /\ AioTypes /\ AioOwned /\ AioFilesKept
      /\ Aio!NoUseAfterFree /\ Aio!OwnFileOnly /\ Aio!NoneLeftOpen
      /\ aioPath[s] = Aio!None
      /\ IF Aio!Initialized(aioSession[s]) THEN UNCHANGED <<aioSession, aioFile>>
         ELSE Aio!initialize(s, f)
      /\ aioPath' = [aioPath EXCEPT ![s] = IF Aio!Initialized(aioSession'[s]) THEN f ELSE Aio!None]
      /\ UNCHANGED <<aioRequest, aioCell, aioAlive>>
  BY DEF AioInv, Aio!Initialize
<1>1. \A t \in AioSessions :
         /\ t # s \/ Aio!Initialized(aioSession[s]) => aioSession'[t] = aioSession[t]
         /\ t # s => aioPath'[t] = aioPath[t]
  BY <1>0 DEF AioTypes, Aio!initialize
<1>2. aioPath' \in [AioSessions -> AioFiles \cup {Aio!None}]
  BY <1>0 DEF AioTypes
<1>3. AioOwned'
  <2>1. \A r \in AioRequests : aioRequest[r].status # "raw" =>
           aioSession'[aioRequest[r].session] = aioSession[aioRequest[r].session]
    BY <1>0, <1>1 DEF AioOwned
  <2> QED BY <1>0, <2>1 DEF AioOwned, Aio!Initialized
<1>4. \A t \in AioSessions : aioPath'[t] # Aio!None => Aio!Initialized(aioSession'[t])
  <2>1. ASSUME NEW t \in AioSessions, aioPath'[t] # Aio!None
        PROVE  Aio!Initialized(aioSession'[t])
    <3>1. CASE t = s
      BY <1>0, <2>1, <3>1 DEF AioTypes
    <3>2. CASE t # s
      BY <1>0, <1>1, <2>1, <3>2 DEF AioFilesKept, Aio!Initialized
    <3> QED BY <3>1, <3>2
  <2> QED BY <2>1
<1>5. CASE UNCHANGED aioFile /\ (\A t \in AioSessions : t # s => aioSession'[t] = aioSession[t])
           /\ aioSession' \in [AioSessions -> Aio!Block_Client]
  <2>1. AioTypes'
    BY <1>0, <1>2, <1>5 DEF AioTypes
  <2>2. AioFilesKept'
    BY <1>0, <1>4, <1>5 DEF AioFilesKept, Aio!Initialized
  <2>3. Aio!NoneLeftOpen'
    <3>1. ASSUME NEW m \in AioFds, aioFile[m] # Aio!None
          PROVE  \E t \in AioSessions : aioPath'[t] = aioFile[m] /\ aioSession'[t].fd = m
      <4>1. PICK t \in AioSessions : aioPath[t] = aioFile[m] /\ aioSession[t].fd = m
        BY <1>0, <3>1 DEF Aio!NoneLeftOpen
      <4>2. t # s
        BY <1>0, <3>1, <4>1
      <4> QED BY <1>1, <4>1, <4>2
    <3> QED BY <1>5, <3>1 DEF Aio!NoneLeftOpen
  <2> QED BY <1>0, <1>3, <2>1, <2>2, <2>3
          DEF AioInv, Aio!NoUseAfterFree, Aio!OwnFileOnly, Aio!InFlight
<1>6. ASSUME NEW n \in AioFds, aioFile[n] = Aio!None,
             aioSession' = [aioSession EXCEPT ![s] = [fd |-> n, set |-> TRUE]],
             aioFile' = [aioFile EXCEPT ![n] = f]
      PROVE  AioInv'
  <2>1. /\ aioSession' \in [AioSessions -> Aio!Block_Client]
        /\ aioSession'[s] = [fd |-> n, set |-> TRUE]
        /\ \A t \in AioSessions : t # s => aioSession'[t] = aioSession[t]
        /\ aioFile' \in [AioFds -> AioFiles \cup {Aio!None}]
        /\ aioFile'[n] = f /\ \A m \in AioFds : m # n => aioFile'[m] = aioFile[m]
    BY <1>0, <1>6 DEF AioTypes, Aio!Block_Client
  <2>2. Aio!Initialized(aioSession'[s]) /\ aioSession'[s].fd = n
    BY <2>1, AioNone DEF Aio!Initialized
  <2>3. aioPath'[s] = f
    BY <1>0, <2>2 DEF AioTypes
  <2>4. AioTypes'
    BY <1>0, <1>2, <2>1 DEF AioTypes
  <2>5. \A h \in AioCells : AioWaits(aioCell[h]) /\ ~aioCell[h].loose =>
           aioCell[h].fd # n /\ aioFile'[aioCell[h].fd] = aioFile[aioCell[h].fd]
    BY <1>0, <1>6, <2>1 DEF AioFilesKept
  <2>6. AioFilesKept'
    BY <1>0, <1>4, <2>5 DEF AioFilesKept, Aio!Initialized, AioWaits
  <2>7. Aio!NoneLeftOpen'
    <3>1. ASSUME NEW m \in AioFds, aioFile'[m] # Aio!None
          PROVE  \E t \in AioSessions : aioPath'[t] = aioFile'[m] /\ aioSession'[t].fd = m
      <4>1. CASE m = n
        BY <2>1, <2>2, <2>3, <4>1
      <4>2. CASE m # n
        <5>1. PICK t \in AioSessions : aioPath[t] = aioFile[m] /\ aioSession[t].fd = m
          BY <1>0, <2>1, <3>1, <4>2 DEF Aio!NoneLeftOpen
        <5>2. t # s
          BY <1>0, <2>1, <3>1, <4>2, <5>1
        <5> QED BY <1>1, <2>1, <4>2, <5>1, <5>2
      <4> QED BY <4>1, <4>2
    <3> QED BY <3>1 DEF Aio!NoneLeftOpen
  <2> QED BY <1>0, <1>3, <2>4, <2>6, <2>7
          DEF AioInv, Aio!NoUseAfterFree, Aio!OwnFileOnly, Aio!InFlight
<1>7. CASE Aio!Initialized(aioSession[s])
  BY <1>0, <1>5, <1>7 DEF AioTypes
<1>8. CASE Aio!initialize(s, f)
  <2>1. CASE aioSession' = [aioSession EXCEPT ![s].fd = Aio!None] /\ UNCHANGED aioFile
    BY <1>0, <1>5, <2>1 DEF AioTypes, Aio!Block_Client
  <2>2. ASSUME NEW n \in AioFds, aioFile[n] = Aio!None,
               aioSession' = [aioSession EXCEPT ![s] = [fd |-> n, set |-> TRUE]],
               aioFile' \in {[aioFile EXCEPT ![n] = f], aioFile}
        PROVE  AioInv'
    <3>1. CASE aioFile' = [aioFile EXCEPT ![n] = f]
      BY <1>6, <2>2, <3>1
    <3>2. CASE aioFile' = aioFile
      BY <1>0, <1>5, <2>2, <3>2 DEF AioTypes, Aio!Block_Client
    <3> QED BY <2>2, <3>1, <3>2
  <2> QED BY <1>8, <2>1, <2>2 DEF Aio!initialize
<1> QED BY <1>0, <1>7, <1>8

\* aio_cancel before close: nothing that is queued keeps the number.
LEMMA AioFinalize ==
    ASSUME AioInv, NEW s \in AioSessions, Aio!Finalize(s)
    PROVE  AioInv'
<1> DEFINE n == aioSession[s].fd
<1>0. /\ AioTypes /\ AioOwned /\ AioFilesKept
      /\ Aio!NoUseAfterFree /\ Aio!OwnFileOnly /\ Aio!NoneLeftOpen
      /\ Aio!Initialized(aioSession[s]) /\ aioPath' = [aioPath EXCEPT ![s] = Aio!None]
      /\ aioCell' = [h \in AioCells |->
            IF aioCell[h].fd # n \/ aioFile[n] = Aio!None THEN aioCell[h]
            ELSE [aioCell[h] EXCEPT !.op = IF @ = "queued" THEN "cancelled" ELSE @,
                                    !.loose = @ \/ aioCell[h].op \in {"idle", "taken"}]]
      /\ aioFile' = [m \in AioFds |-> IF m = n THEN Aio!None ELSE aioFile[m]]
      /\ UNCHANGED <<aioSession, aioRequest, aioAlive>>
  BY DEF AioInv, Aio!Finalize, Aio!finalize
<1>1. n \in AioFds
  BY <1>0 DEF Aio!Initialized, AioTypes, Aio!Block_Client
<1> HIDE DEF n
<1>2. /\ aioPath'[s] = Aio!None /\ \A t \in AioSessions : t # s => aioPath'[t] = aioPath[t]
      /\ aioPath' \in [AioSessions -> AioFiles \cup {Aio!None}]
  BY <1>0 DEF AioTypes
<1>3. /\ aioFile'[n] = Aio!None /\ \A m \in AioFds : m # n => aioFile'[m] = aioFile[m]
      /\ aioFile' \in [AioFds -> AioFiles \cup {Aio!None}]
  BY <1>0, <1>1 DEF AioTypes
<1>4. ASSUME NEW h \in AioCells
      PROVE  /\ aioCell'[h] \in AioCell
             /\ aioCell'[h].live = aioCell[h].live /\ aioCell'[h].fd = aioCell[h].fd
             /\ aioCell'[h].of = aioCell[h].of /\ aioCell'[h].at = aioCell[h].at
             /\ \/ aioCell'[h].op = aioCell[h].op
                \/ aioCell[h].op = "queued" /\ aioCell'[h].op = "cancelled"
             /\ aioCell[h].loose => aioCell'[h].loose
             /\ AioWaits(aioCell'[h]) => AioWaits(aioCell[h])
             /\ AioWaits(aioCell'[h]) /\ ~aioCell'[h].loose =>
                   aioCell'[h] = aioCell[h] /\ (aioCell[h].fd # n \/ aioFile[n] = Aio!None)
  <2>1. aioCell[h] \in AioCell
    BY <1>0 DEF AioTypes
  <2>2. CASE aioCell[h].fd # n \/ aioFile[n] = Aio!None
    BY <1>0, <2>1, <2>2
  <2>3. CASE ~(aioCell[h].fd # n \/ aioFile[n] = Aio!None)
    <3> DEFINE o == IF aioCell[h].op = "queued" THEN "cancelled" ELSE aioCell[h].op
               l == aioCell[h].loose \/ aioCell[h].op \in {"idle", "taken"}
    <3>1. aioCell'[h] = [aioCell[h] EXCEPT !.op = o, !.loose = l]
      BY <1>0, <2>1, <2>3 DEF AioCell
    <3>2. /\ o \in AioOps
          /\ o = aioCell[h].op \/ (aioCell[h].op = "queued" /\ o = "cancelled")
          /\ o \notin {"queued"} /\ (o = "idle" \/ o = "taken" => aioCell[h].op \in {"idle", "taken"})
      BY <2>1 DEF AioCell, AioOps
    <3>3. l \in BOOLEAN /\ (aioCell[h].loose => l) /\ (aioCell[h].op \in {"idle", "taken"} => l)
      OBVIOUS
    <3> HIDE DEF o, l
    <3>4. /\ aioCell'[h] \in AioCell
          /\ aioCell'[h].live = aioCell[h].live /\ aioCell'[h].fd = aioCell[h].fd
          /\ aioCell'[h].of = aioCell[h].of /\ aioCell'[h].at = aioCell[h].at
          /\ aioCell'[h].op = o
      BY <2>1, <3>1, <3>2, <3>3 DEF AioCell
    <3>5. aioCell'[h].loose = l
      BY <2>1, <3>1 DEF AioCell
    <3>6. AioWaits(aioCell'[h]) => o \in {"idle", "taken"}
      BY <3>2, <3>4 DEF AioWaits
    <3>7. AioWaits(aioCell'[h]) => aioCell'[h].loose
      BY <3>2, <3>3, <3>5, <3>6
    <3>8. AioWaits(aioCell'[h]) => AioWaits(aioCell[h])
      BY <3>2, <3>4 DEF AioWaits
    <3> QED BY <2>3, <3>2, <3>3, <3>4, <3>5, <3>7, <3>8
  <2> QED BY <2>2, <2>3
<1>4a. /\ AioTypes /\ AioOwned /\ AioFilesKept
       /\ Aio!NoUseAfterFree /\ Aio!OwnFileOnly /\ Aio!NoneLeftOpen
       /\ UNCHANGED <<aioSession, aioRequest, aioAlive>>
  BY <1>0
<1>5. AioTypes'
  <2>1. aioCell' \in [AioCells -> AioCell]
    <3>1. aioCell' = [h \in AioCells |-> aioCell'[h]]
      BY <1>0
    <3> QED BY <1>4, <3>1
  <2> QED BY <1>0, <1>2, <1>3, <2>1 DEF AioTypes
<1>6. AioOwned'
  <2>1. \A r \in AioRequests : aioRequest[r].status # "raw" => aioRequest[r].aio_cb \in AioCells
    BY <1>4a DEF AioOwned, AioTypes, Aio!Request
  <2>2. \A r \in AioRequests : aioRequest'[r].status # "raw" =>
          /\ aioRequest'[r].session \in AioSessions
          /\ Aio!Initialized(aioSession[aioRequest'[r].session])
          /\ aioCell'[aioRequest'[r].aio_cb].fd = aioSession'[aioRequest'[r].session].fd
          /\ aioRequest'[r].status = "allocated" => aioCell'[aioRequest'[r].aio_cb].op = "idle"
    BY <1>4a, <1>4, <2>1 DEF AioOwned
  <2> QED BY <1>4a, <1>4, <2>2 DEF AioOwned, Aio!Initialized
<1>7. AioFilesKept'
  <2>1. \A t \in AioSessions : aioPath'[t] # Aio!None => t # s /\ aioPath'[t] = aioPath[t]
    BY <1>2
  <2>2. \A t \in AioSessions : aioPath'[t] # Aio!None => Aio!Initialized(aioSession'[t])
    BY <1>4a, <2>1 DEF AioFilesKept, Aio!Initialized
  <2>3. \A h \in AioCells : AioWaits(aioCell'[h]) => aioCell'[h].fd \in AioFds
    BY <1>4a, <1>4 DEF AioFilesKept
  <2>4. \A h \in AioCells : AioWaits(aioCell'[h]) /\ ~aioCell'[h].loose =>
           aioCell'[h].of # Aio!None /\ aioFile'[aioCell'[h].fd] = aioCell'[h].of
    BY <1>4a, <1>3, <1>4, <2>3 DEF AioFilesKept
  <2> QED BY <1>4a, <2>2, <2>3, <2>4 DEF AioFilesKept, Aio!Initialized, AioWaits
<1>8. Aio!NoUseAfterFree' /\ Aio!OwnFileOnly'
  BY <1>4a, <1>4 DEF Aio!NoUseAfterFree, Aio!OwnFileOnly, Aio!InFlight
<1>9. Aio!NoneLeftOpen'
  <2>1. ASSUME NEW m \in AioFds, aioFile'[m] # Aio!None
        PROVE  \E t \in AioSessions : aioPath'[t] = aioFile'[m] /\ aioSession'[t].fd = m
    <3>1. m # n /\ aioFile'[m] = aioFile[m]
      BY <1>3, <2>1
    <3>2. PICK t \in AioSessions : aioPath[t] = aioFile[m] /\ aioSession[t].fd = m
      BY <1>4a, <2>1, <3>1 DEF Aio!NoneLeftOpen
    <3>3. t # s
      BY <3>1, <3>2 DEF n
    <3> QED BY <1>4a, <1>2, <3>1, <3>2, <3>3
  <2> QED BY <2>1 DEF Aio!NoneLeftOpen
<1> QED BY <1>5, <1>6, <1>7, <1>8, <1>9 DEF AioInv

\* Steps that open and close nothing leave the sessions' files.
LEMMA AioSameFiles ==
    ASSUME Aio!NoneLeftOpen, UNCHANGED <<aioSession, aioPath, aioFile>>
    PROVE  Aio!NoneLeftOpen'
BY DEF Aio!NoneLeftOpen

LEMMA AioRequestTypes ==
    ASSUME AioTypes, AioOwned, NEW r \in AioRequests
    PROVE  /\ aioRequest[r] \in Aio!Request
           /\ aioRequest[r].status # "raw" =>
                 aioRequest[r].aio_cb \in AioCells /\ aioRequest[r].session \in AioSessions
           /\ aioRequest[r].status = "raw" => aioRequest[r].aio_cb = Aio!None
BY DEF AioTypes, AioOwned, Aio!Request

LEMMA AioAllocate ==
    ASSUME AioInv, NEW s \in AioSessions, NEW r \in AioRequests, NEW k \in Aio!Aio_Kinds,
           Aio!Allocate_Request(s, r, k)
    PROVE  AioInv'
<1>0. /\ AioTypes /\ AioOwned /\ AioFilesKept
      /\ Aio!NoUseAfterFree /\ Aio!OwnFileOnly /\ Aio!NoneLeftOpen
      /\ aioPath[s] # Aio!None /\ aioRequest[r].status = "raw"
      /\ UNCHANGED <<aioSession, aioPath, aioFile>>
  BY DEF AioInv, Aio!Allocate_Request
<1>1. Aio!NoneLeftOpen'
  BY <1>0, AioSameFiles
<1>2. Aio!Initialized(aioSession[s]) /\ aioRequest[r].aio_cb = Aio!None
  BY <1>0 DEF AioFilesKept, AioOwned
<1>3. CASE UNCHANGED <<aioRequest, aioCell, aioAlive>>
  BY <1>0, <1>1, <1>3 DEF AioInv, AioTypes, AioOwned, AioFilesKept, AioWaits,
        Aio!NoUseAfterFree, Aio!InFlight, Aio!OwnFileOnly, Aio!Initialized
<1>4. ASSUME NEW h \in AioCells, ~aioCell[h].live, aioAlive' = ~Aio!InFlight(h),
             aioRequest' = [aioRequest EXCEPT ![r] =
                [status |-> "allocated", aio_cb |-> h, session |-> s]],
             aioCell' = [aioCell EXCEPT ![h] =
                [live |-> TRUE, fd |-> aioSession[s].fd, of |-> aioPath[s], op |-> "idle",
                 at |-> Aio!None, loose |-> aioFile[aioSession[s].fd] # aioPath[s]]]
      PROVE  AioInv'
  <2> DEFINE x == [status |-> "allocated", aio_cb |-> h, session |-> s]
             l == aioFile[aioSession[s].fd] # aioPath[s]
             y == [live |-> TRUE, fd |-> aioSession[s].fd, of |-> aioPath[s], op |-> "idle",
                   at |-> Aio!None, loose |-> l]
  <2>0. l \in BOOLEAN /\ (~l => aioFile[aioSession[s].fd] = aioPath[s])
    OBVIOUS
  <2>1. /\ x \in Aio!Request /\ x.status = "allocated" /\ x.aio_cb = h /\ x.session = s
        /\ y.fd = aioSession[s].fd /\ y.of = aioPath[s] /\ y.op = "idle" /\ y.at = Aio!None
    BY <1>0 DEF Aio!Request, Aio!Statuses
  <2>2. y.live /\ y.loose = l
    OBVIOUS
  <2>3. aioRequest' = [aioRequest EXCEPT ![r] = x] /\ aioCell' = [aioCell EXCEPT ![h] = y]
    BY <1>4
  <2>4. y \in AioCell
    <3> HIDE DEF l
    <3> QED BY <1>0, <2>0 DEF AioCell, AioOps, AioTypes, Aio!Block_Client
  <2> HIDE DEF x, y, l
  <2>5. /\ aioRequest' \in [AioRequests -> Aio!Request] /\ aioRequest'[r] = x
        /\ \A q \in AioRequests : q # r => aioRequest'[q] = aioRequest[q]
        /\ aioCell' \in [AioCells -> AioCell] /\ aioCell'[h] = y
        /\ \A g \in AioCells : g # h => aioCell'[g] = aioCell[g]
    BY <1>0, <2>1, <2>3, <2>4 DEF AioTypes
  <2>6. AioTypes'
    <3>1. aioAlive' \in BOOLEAN
      BY <1>4
    <3> QED BY <1>0, <2>5, <3>1 DEF AioTypes
  <2>7. \A q \in AioRequests : aioRequest[q].aio_cb # h
    BY <1>0, <1>4 DEF AioOwned
  <2>8. AioOwned'
    <3>1. \A q \in AioRequests : aioRequest'[q].aio_cb = Aio!None <=> aioRequest'[q].status = "raw"
      BY <1>0, <2>1, <2>5, AioNone DEF AioOwned
    <3>2. \A p, q \in AioRequests :
             aioRequest'[p].aio_cb = aioRequest'[q].aio_cb /\ aioRequest'[p].status # "raw" => p = q
      BY <1>0, <2>1, <2>5, <2>7 DEF AioOwned
    <3>3. ASSUME NEW g \in AioCells
          PROVE  aioCell'[g].live <=> \E q \in AioRequests : aioRequest'[q].aio_cb = g
      <4>1. CASE g = h
        BY <2>1, <2>2, <2>5, <4>1
      <4>2. CASE g # h
        <5>1. (\E q \in AioRequests : aioRequest'[q].aio_cb = g)
                 <=> \E q \in AioRequests : aioRequest[q].aio_cb = g
          BY <1>2, <2>1, <2>5, <4>2, AioNone
        <5> QED BY <1>0, <2>5, <4>2, <5>1 DEF AioOwned
      <4> QED BY <4>1, <4>2
    <3>4. ASSUME NEW q \in AioRequests, aioRequest'[q].status # "raw"
          PROVE  /\ aioRequest'[q].session \in AioSessions
                 /\ Aio!Initialized(aioSession[aioRequest'[q].session])
                 /\ aioCell'[aioRequest'[q].aio_cb].fd = aioSession[aioRequest'[q].session].fd
                 /\ aioRequest'[q].status = "allocated" =>
                       aioCell'[aioRequest'[q].aio_cb].op = "idle"
      <4>1. CASE q = r
        BY <1>2, <2>1, <2>5, <4>1
      <4>2. CASE q # r
        <5>1. aioRequest'[q] = aioRequest[q] /\ aioRequest[q].aio_cb # h
          BY <2>5, <2>7, <4>2
        <5>2. aioRequest[q].aio_cb \in AioCells
          BY <1>0, <3>4, <5>1, AioRequestTypes
        <5> QED BY <1>0, <2>5, <3>4, <5>1, <5>2 DEF AioOwned
      <4> QED BY <4>1, <4>2
    <3> QED BY <1>0, <3>1, <3>2, <3>3, <3>4 DEF AioOwned, Aio!Initialized
  <2>9. AioFilesKept'
    <3>1. aioSession[s].fd \in AioFds
      BY <1>0, <1>2 DEF Aio!Initialized, AioTypes, Aio!Block_Client
    <3>2. ASSUME NEW g \in AioCells, AioWaits(aioCell'[g]), ~aioCell'[g].loose
          PROVE  aioCell'[g].of # Aio!None /\ aioFile[aioCell'[g].fd] = aioCell'[g].of
      <4>1. CASE g = h
        <5>1. ~l
          BY <2>2, <2>5, <3>2, <4>1
        <5> QED BY <1>0, <2>0, <2>1, <2>5, <3>1, <4>1, <5>1
      <4>2. CASE g # h
        BY <1>0, <2>5, <3>2, <4>2 DEF AioFilesKept
      <4> QED BY <4>1, <4>2
    <3>3. \A g \in AioCells : AioWaits(aioCell'[g]) => aioCell'[g].fd \in AioFds
      BY <1>0, <2>1, <2>5, <3>1 DEF AioFilesKept
    <3> QED BY <1>0, <3>2, <3>3 DEF AioFilesKept, Aio!Initialized, AioWaits
  <2>10. Aio!NoUseAfterFree'
    <3>1. ASSUME NEW g \in AioCells, aioCell'[g].op \in {"queued", "taken", "running"}
          PROVE  \/ \E q \in AioRequests : aioRequest'[q].aio_cb = g /\ aioRequest'[q].status = "pending"
                 \/ ~aioCell'[g].live /\ (aioCell'[g].op \in {"taken", "running"} \/ aioCell'[g].loose)
      <4>1. g # h /\ aioCell'[g] = aioCell[g]
        BY <2>1, <2>5, <3>1
      <4>2. ASSUME NEW q \in AioRequests, aioRequest[q].aio_cb = g, aioRequest[q].status = "pending"
            PROVE  aioRequest'[q].aio_cb = g /\ aioRequest'[q].status = "pending"
        BY <1>0, <2>5, <4>2
      <4> QED BY <1>0, <3>1, <4>1, <4>2 DEF Aio!NoUseAfterFree, Aio!InFlight
    <3> QED BY <3>1 DEF Aio!NoUseAfterFree, Aio!InFlight
  <2>11. Aio!OwnFileOnly'
    BY <1>0, <2>1, <2>5 DEF Aio!OwnFileOnly
  <2> QED BY <1>1, <2>6, <2>8, <2>9, <2>10, <2>11 DEF AioInv
<1> QED BY <1>3, <1>4 DEF Aio!Allocate_Request, Aio!allocate_request

\* Assigning the status of a request.
LEMMA AioAssign ==
    ASSUME AioTypes, NEW r \in AioRequests, NEW st \in Aio!Statuses,
           aioRequest' = [aioRequest EXCEPT ![r].status = st]
    PROVE  /\ aioRequest' \in [AioRequests -> Aio!Request]
           /\ aioRequest'[r].status = st /\ aioRequest'[r].aio_cb = aioRequest[r].aio_cb
           /\ aioRequest'[r].session = aioRequest[r].session
           /\ \A q \in AioRequests : q # r => aioRequest'[q] = aioRequest[q]
<1>1. /\ aioRequest'[r] = [aioRequest[r] EXCEPT !.status = st] /\ aioRequest[r] \in Aio!Request
      /\ \A q \in AioRequests : q # r => aioRequest'[q] = aioRequest[q]
      /\ aioRequest' = [q \in AioRequests |-> aioRequest'[q]]
  BY DEF AioTypes
<1>2. /\ aioRequest'[r].status = st /\ aioRequest'[r].aio_cb = aioRequest[r].aio_cb
      /\ aioRequest'[r].session = aioRequest[r].session /\ aioRequest'[r] \in Aio!Request
  BY <1>1 DEF Aio!Request
<1>3. \A q \in AioRequests : aioRequest'[q] \in Aio!Request
  BY <1>1, <1>2 DEF AioTypes
<1> QED BY <1>1, <1>2, <1>3

LEMMA AioEnqueue ==
    ASSUME AioInv, NEW s \in AioSessions, NEW r \in AioRequests, Aio!Enqueue(s, r)
    PROVE  AioInv'
<1> DEFINE h == aioRequest[r].aio_cb
<1>0. /\ AioTypes /\ AioOwned /\ AioFilesKept
      /\ Aio!NoUseAfterFree /\ Aio!OwnFileOnly /\ Aio!NoneLeftOpen
      /\ aioRequest[r].status = "allocated" /\ aioRequest[r].session = s
      /\ UNCHANGED <<aioSession, aioPath, aioFile, aioAlive>>
  BY DEF AioInv, Aio!Enqueue, Aio!Assigned
<1>1. Aio!NoneLeftOpen'
  BY <1>0, AioSameFiles
<1>2. CASE UNCHANGED <<aioRequest, aioCell>>
  BY <1>0, <1>1, <1>2 DEF AioInv, AioTypes, AioOwned, AioFilesKept, AioWaits,
        Aio!NoUseAfterFree, Aio!InFlight, Aio!OwnFileOnly, Aio!Initialized
<1>3. CASE /\ aioRequest' = [aioRequest EXCEPT ![r].status = "pending"]
           /\ aioCell' = [aioCell EXCEPT ![h].op = "queued"]
  <2>1. h \in AioCells /\ aioCell[h].op = "idle" /\ aioCell[h].live
    BY <1>0, AioRequestTypes DEF AioOwned
  <2>2. AioWaits(aioCell[h])
    BY <2>1 DEF AioWaits
  <2>3. /\ aioRequest' \in [AioRequests -> Aio!Request]
        /\ aioRequest'[r].status = "pending" /\ aioRequest'[r].aio_cb = h
        /\ aioRequest'[r].session = s
        /\ \A q \in AioRequests : q # r => aioRequest'[q] = aioRequest[q]
    BY <1>0, <1>3, AioAssign DEF Aio!Statuses
  <2> HIDE DEF h
  <2>4. /\ aioCell'[h] = [aioCell[h] EXCEPT !.op = "queued"] /\ aioCell[h] \in AioCell
        /\ \A g \in AioCells : g # h => aioCell'[g] = aioCell[g] /\ aioCell[g] \in AioCell
        /\ aioCell' = [g \in AioCells |-> aioCell'[g]]
    BY <1>0, <1>3, <2>1 DEF AioTypes
  <2>5. /\ aioCell'[h] \in AioCell /\ aioCell'[h].live = aioCell[h].live
        /\ aioCell'[h].fd = aioCell[h].fd /\ aioCell'[h].of = aioCell[h].of
        /\ aioCell'[h].at = aioCell[h].at /\ aioCell'[h].op = "queued"
        /\ aioCell'[h].loose = aioCell[h].loose
    BY <2>4 DEF AioCell, AioOps
  <2>6. aioCell' \in [AioCells -> AioCell]
    BY <2>4, <2>5
  <2>7. AioTypes'
    BY <1>0, <2>3, <2>6 DEF AioTypes
  <2>8. AioOwned'
    <3>1. \A g \in AioCells : aioCell'[g].live = aioCell[g].live /\ aioCell'[g].fd = aioCell[g].fd
      BY <2>4, <2>5
    <3>2. \A q \in AioRequests : /\ aioRequest'[q].aio_cb = aioRequest[q].aio_cb
                                 /\ aioRequest'[q].session = aioRequest[q].session
                                 /\ aioRequest'[q].status = "raw" <=> aioRequest[q].status = "raw"
      BY <1>0, <2>3 DEF h
    <3>3. \A q \in AioRequests : aioRequest'[q].status # "raw" =>
             /\ aioRequest'[q].session \in AioSessions
             /\ Aio!Initialized(aioSession[aioRequest'[q].session])
             /\ aioCell'[aioRequest'[q].aio_cb].fd = aioSession[aioRequest'[q].session].fd
      BY <1>0, <3>1, <3>2, AioRequestTypes DEF AioOwned
    <3>4. ASSUME NEW q \in AioRequests, aioRequest'[q].status = "allocated"
          PROVE  aioCell'[aioRequest'[q].aio_cb].op = "idle"
      <4>1. q # r /\ aioRequest'[q] = aioRequest[q]
        BY <2>3, <3>4
      <4>2. aioRequest[q].aio_cb \in AioCells /\ aioRequest[q].aio_cb # h
        BY <1>0, <3>4, <4>1, AioRequestTypes DEF AioOwned, h
      <4> QED BY <1>0, <2>4, <3>4, <4>1, <4>2 DEF AioOwned
    <3>5. \A p, q \in AioRequests :
             aioRequest'[p].aio_cb = aioRequest'[q].aio_cb /\ aioRequest'[p].status # "raw" => p = q
      BY <1>0, <3>2 DEF AioOwned
    <3>6. \A g \in AioCells : aioCell'[g].live <=> \E q \in AioRequests : aioRequest'[q].aio_cb = g
      BY <1>0, <3>1, <3>2 DEF AioOwned
    <3>7. \A q \in AioRequests : aioRequest'[q].aio_cb = Aio!None <=> aioRequest'[q].status = "raw"
      BY <1>0, <3>2 DEF AioOwned
    <3> QED BY <1>0, <3>3, <3>4, <3>5, <3>6, <3>7 DEF AioOwned, Aio!Initialized
  <2>9. AioFilesKept'
    <3>1. \A g \in AioCells : AioWaits(aioCell'[g]) =>
             /\ AioWaits(aioCell[g]) /\ (aioCell[g].loose => aioCell'[g].loose)
             /\ aioCell'[g].fd = aioCell[g].fd /\ aioCell'[g].of = aioCell[g].of
      BY <2>2, <2>4, <2>5
    <3> QED BY <1>0, <3>1 DEF AioFilesKept, Aio!Initialized, AioWaits
  <2>10. Aio!NoUseAfterFree'
    <3>1. ASSUME NEW g \in AioCells, aioCell'[g].op \in {"queued", "taken", "running"}
          PROVE  \/ \E q \in AioRequests : aioRequest'[q].aio_cb = g /\ aioRequest'[q].status = "pending"
                 \/ ~aioCell'[g].live /\ (aioCell'[g].op \in {"taken", "running"} \/ aioCell'[g].loose)
      <4>1. CASE g = h
        BY <2>3, <4>1
      <4>2. CASE g # h
        <5>1. ASSUME NEW q \in AioRequests, aioRequest[q].aio_cb = g, aioRequest[q].status = "pending"
              PROVE  aioRequest'[q].aio_cb = g /\ aioRequest'[q].status = "pending"
          BY <1>0, <2>3, <5>1
        <5> QED BY <1>0, <2>4, <3>1, <4>2, <5>1 DEF Aio!NoUseAfterFree, Aio!InFlight
      <4> QED BY <4>1, <4>2
    <3> QED BY <3>1 DEF Aio!NoUseAfterFree, Aio!InFlight
  <2>11. Aio!OwnFileOnly'
    BY <1>0, <2>1, <2>4, <2>5 DEF Aio!OwnFileOnly
  <2> QED BY <1>1, <2>7, <2>8, <2>9, <2>10, <2>11 DEF AioInv
<1> QED BY <1>2, <1>3 DEF Aio!Enqueue, Aio!enqueue

\* A request stays pending as long as its operation is in flight.
LEMMA AioUpdate ==
    ASSUME AioInv, NEW s \in AioSessions, NEW r \in AioRequests, Aio!Update_Request(s, r)
    PROVE  AioInv'
<1> DEFINE st == Aio!update_request(r)
<1>0. /\ AioTypes /\ AioOwned /\ AioFilesKept
      /\ Aio!NoUseAfterFree /\ Aio!OwnFileOnly /\ Aio!NoneLeftOpen
      /\ aioRequest[r].status = "pending"
      /\ aioRequest' = [aioRequest EXCEPT ![r].status = st]
      /\ UNCHANGED <<aioSession, aioPath, aioFile, aioCell, aioAlive>>
  BY DEF AioInv, Aio!Update_Request
<1>1. Aio!NoneLeftOpen'
  BY <1>0, AioSameFiles
<1>2. /\ st \in {"pending", "ok", "error"} /\ st \in Aio!Statuses
      /\ Aio!InFlight(aioRequest[r].aio_cb) => st = "pending"
  BY DEF Aio!update_request, Aio!Statuses
<1> HIDE DEF st
<1>3. /\ aioRequest' \in [AioRequests -> Aio!Request]
      /\ aioRequest'[r].status = st /\ aioRequest'[r].aio_cb = aioRequest[r].aio_cb
      /\ aioRequest'[r].session = aioRequest[r].session
      /\ \A q \in AioRequests : q # r => aioRequest'[q] = aioRequest[q]
  BY <1>0, <1>2, AioAssign
<1>4. AioTypes'
  BY <1>0, <1>3 DEF AioTypes
<1>5. AioOwned'
  <2>1. \A q \in AioRequests :
           /\ aioRequest'[q].aio_cb = aioRequest[q].aio_cb
           /\ aioRequest'[q].session = aioRequest[q].session
           /\ aioRequest'[q].status = "raw" <=> aioRequest[q].status = "raw"
           /\ aioRequest'[q].status = "allocated" => aioRequest[q].status = "allocated"
    BY <1>0, <1>2, <1>3
  <2> QED BY <1>0, <2>1 DEF AioOwned, Aio!Initialized
<1>6. AioFilesKept'
  BY <1>0 DEF AioFilesKept, Aio!Initialized, AioWaits
<1>7. Aio!NoUseAfterFree'
  <2>1. ASSUME NEW g \in AioCells, Aio!InFlight(g), NEW q \in AioRequests,
               aioRequest[q].aio_cb = g, aioRequest[q].status = "pending"
        PROVE  aioRequest'[q].aio_cb = g /\ aioRequest'[q].status = "pending"
    <3>1. CASE q = r
      BY <1>2, <1>3, <2>1, <3>1
    <3>2. CASE q # r
      BY <1>3, <2>1, <3>2
    <3> QED BY <3>1, <3>2
  <2> QED BY <1>0, <2>1 DEF Aio!NoUseAfterFree, Aio!InFlight
<1> QED BY <1>0, <1>1, <1>4, <1>5, <1>6, <1>7 DEF AioInv, Aio!OwnFileOnly

\* What is freed is cancelled if it is still queued and its number open; a
\* number that is not open any more has made the operation loose.
LEMMA AioRelease ==
    ASSUME AioInv, NEW s \in AioSessions, NEW r \in AioRequests, Aio!Release(s, r)
    PROVE  AioInv'
<1> DEFINE h == aioRequest[r].aio_cb
           op == IF aioCell[h].op = "queued" /\ aioFile[aioSession[s].fd] # Aio!None
                 THEN "cancelled" ELSE aioCell[h].op
<1>0. /\ AioTypes /\ AioOwned /\ AioFilesKept
      /\ Aio!NoUseAfterFree /\ Aio!OwnFileOnly /\ Aio!NoneLeftOpen
      /\ aioRequest[r].status # "raw" /\ aioRequest[r].session = s
      /\ aioCell' = [aioCell EXCEPT ![h].live = FALSE, ![h].op = op]
      /\ aioRequest' = [aioRequest EXCEPT ![r] = Aio!Raw]
      /\ UNCHANGED <<aioSession, aioPath, aioFile, aioAlive>>
  <2>1. aioCell' = [aioCell EXCEPT ![h].live = FALSE, ![h].op = op]
    <3>1. aioRequest[r].aio_cb \in AioCells
      BY AioRequestTypes DEF AioInv, Aio!Release
    <3> QED BY <3>1 DEF AioInv, AioTypes, AioCell, Aio!Release, Aio!release
  <2> QED BY <2>1 DEF AioInv, Aio!Release, Aio!release, Aio!Assigned
<1>1. Aio!NoneLeftOpen'
  BY <1>0, AioSameFiles
<1>2. h \in AioCells /\ aioCell[h] \in AioCell /\ aioCell[h].fd = aioSession[s].fd
  BY <1>0, AioRequestTypes DEF AioTypes, AioOwned
<1>3. /\ op \in AioOps /\ (op = aioCell[h].op \/ op = "cancelled")
      /\ op = "queued" => aioCell[h].loose
  <2>1. op \in AioOps /\ (op = aioCell[h].op \/ op = "cancelled")
    BY <1>2 DEF AioCell, AioOps
  <2>2. ASSUME aioCell[h].op = "queued", ~aioCell[h].loose
        PROVE  op = "cancelled"
    <3>1. aioFile[aioCell[h].fd] = aioCell[h].of /\ aioCell[h].of # Aio!None
      BY <1>0, <1>2, <2>2 DEF AioFilesKept, AioWaits
    <3> QED BY <1>2, <2>2, <3>1
  <2>3. op = "queued" => aioCell[h].op = "queued"
    OBVIOUS
  <2> QED BY <2>1, <2>2, <2>3
<1> HIDE DEF op
<1>4. /\ Aio!Raw \in Aio!Request /\ Aio!Raw.status = "raw" /\ Aio!Raw.aio_cb = Aio!None
  BY DEF Aio!Raw, Aio!Request, Aio!Statuses
<1>5. /\ aioRequest' \in [AioRequests -> Aio!Request] /\ aioRequest'[r] = Aio!Raw
      /\ \A q \in AioRequests : q # r => aioRequest'[q] = aioRequest[q]
  BY <1>0, <1>4 DEF AioTypes
<1>6. \A q \in AioRequests : q # r => aioRequest[q].aio_cb # h
  BY <1>0 DEF AioOwned
<1> HIDE DEF h
<1>7. /\ aioCell'[h] = [aioCell[h] EXCEPT !.live = FALSE, !.op = op]
      /\ \A g \in AioCells : g # h => aioCell'[g] = aioCell[g] /\ aioCell[g] \in AioCell
      /\ aioCell' = [g \in AioCells |-> aioCell'[g]]
  BY <1>0, <1>2 DEF AioTypes
<1>8. /\ aioCell'[h] \in AioCell
      /\ aioCell'[h].fd = aioCell[h].fd /\ aioCell'[h].of = aioCell[h].of
      /\ aioCell'[h].at = aioCell[h].at /\ aioCell'[h].op = op
      /\ aioCell'[h].loose = aioCell[h].loose
  BY <1>2, <1>3, <1>7 DEF AioCell
<1>9. ~aioCell'[h].live
  BY <1>2, <1>7 DEF AioCell
<1>10. AioTypes'
  <2>1. aioCell' \in [AioCells -> AioCell]
    BY <1>7, <1>8
  <2> QED BY <1>0, <1>5, <2>1 DEF AioTypes
<1>11. AioOwned'
  <2>1. \A q \in AioRequests : aioRequest'[q].aio_cb = Aio!None <=> aioRequest'[q].status = "raw"
    BY <1>0, <1>4, <1>5 DEF AioOwned
  <2>2. \A p, q \in AioRequests :
           aioRequest'[p].aio_cb = aioRequest'[q].aio_cb /\ aioRequest'[p].status # "raw" => p = q
    BY <1>0, <1>4, <1>5 DEF AioOwned
  <2>3. ASSUME NEW g \in AioCells
        PROVE  aioCell'[g].live <=> \E q \in AioRequests : aioRequest'[q].aio_cb = g
    <3>1. CASE g = h
      <4>1. \A q \in AioRequests : aioRequest'[q].aio_cb # h
        BY <1>2, <1>4, <1>5, <1>6, AioNone
      <4> QED BY <1>9, <3>1, <4>1
    <3>2. CASE g # h
      <4>1. (\E q \in AioRequests : aioRequest'[q].aio_cb = g)
               <=> \E q \in AioRequests : aioRequest[q].aio_cb = g
        BY <1>4, <1>5, <3>2, AioNone DEF h
      <4> QED BY <1>0, <1>7, <3>2, <4>1 DEF AioOwned
    <3> QED BY <3>1, <3>2
  <2>4. ASSUME NEW q \in AioRequests, aioRequest'[q].status # "raw"
        PROVE  /\ aioRequest'[q].session \in AioSessions
               /\ Aio!Initialized(aioSession[aioRequest'[q].session])
               /\ aioCell'[aioRequest'[q].aio_cb].fd = aioSession[aioRequest'[q].session].fd
               /\ aioRequest'[q].status = "allocated" =>
                     aioCell'[aioRequest'[q].aio_cb].op = "idle"
    <3>1. q # r /\ aioRequest'[q] = aioRequest[q] /\ aioRequest[q].aio_cb # h
      BY <1>4, <1>5, <1>6, <2>4
    <3>2. aioRequest[q].aio_cb \in AioCells
      BY <1>0, <2>4, <3>1, AioRequestTypes
    <3>3. /\ aioRequest[q].session \in AioSessions
          /\ Aio!Initialized(aioSession[aioRequest[q].session])
          /\ aioCell[aioRequest[q].aio_cb].fd = aioSession[aioRequest[q].session].fd
          /\ aioRequest[q].status = "allocated" => aioCell[aioRequest[q].aio_cb].op = "idle"
      BY <1>0, <2>4, <3>1 DEF AioOwned
    <3>4. aioCell'[aioRequest[q].aio_cb] = aioCell[aioRequest[q].aio_cb]
      BY <1>7, <3>1, <3>2
    <3> QED BY <3>1, <3>3, <3>4
  <2>5. UNCHANGED aioSession
    BY <1>0
  <2> QED BY <2>1, <2>2, <2>3, <2>4, <2>5 DEF AioOwned, Aio!Initialized
<1>12. AioFilesKept'
  <2>1. \A g \in AioCells : AioWaits(aioCell'[g]) =>
           /\ AioWaits(aioCell[g]) /\ (aioCell[g].loose => aioCell'[g].loose)
           /\ aioCell'[g].fd = aioCell[g].fd /\ aioCell'[g].of = aioCell[g].of
    <3>1. AioWaits(aioCell'[h]) => aioCell[h].op \in {"queued", "taken"}
      BY <1>3, <1>8, <1>9 DEF AioWaits
    <3> QED BY <1>7, <1>8, <3>1 DEF AioWaits
  <2> QED BY <1>0, <2>1 DEF AioFilesKept, Aio!Initialized, AioWaits
<1>13. Aio!NoUseAfterFree'
  <2>1. ASSUME NEW g \in AioCells, aioCell'[g].op \in {"queued", "taken", "running"}
        PROVE  \/ \E q \in AioRequests : aioRequest'[q].aio_cb = g /\ aioRequest'[q].status = "pending"
               \/ ~aioCell'[g].live /\ (aioCell'[g].op \in {"taken", "running"} \/ aioCell'[g].loose)
    <3>1. CASE g = h
      BY <1>3, <1>8, <1>9, <2>1, <3>1
    <3>2. CASE g # h
      <4>1. ASSUME NEW q \in AioRequests, aioRequest[q].aio_cb = g, aioRequest[q].status = "pending"
            PROVE  aioRequest'[q].aio_cb = g /\ aioRequest'[q].status = "pending"
        BY <1>5, <3>2, <4>1 DEF h
      <4> QED BY <1>0, <1>7, <2>1, <3>2, <4>1 DEF Aio!NoUseAfterFree, Aio!InFlight
    <3> QED BY <3>1, <3>2
  <2> QED BY <2>1 DEF Aio!NoUseAfterFree, Aio!InFlight
<1>14. Aio!OwnFileOnly'
  BY <1>0, <1>2, <1>7, <1>8 DEF Aio!OwnFileOnly
<1> QED BY <1>1, <1>10, <1>11, <1>12, <1>13, <1>14 DEF AioInv

\* A worker finds the file of the session behind the number if it is not loose.
LEMMA AioWork ==
    ASSUME AioInv, NEW h \in AioCells, Aio!Take(h) \/ Aio!Start(h) \/ Aio!Complete(h)
    PROVE  AioInv'
<1>0. /\ AioTypes /\ AioOwned /\ AioFilesKept
      /\ Aio!NoUseAfterFree /\ Aio!OwnFileOnly /\ Aio!NoneLeftOpen
      /\ UNCHANGED <<aioSession, aioPath, aioFile, aioRequest>>
  BY DEF AioInv, Aio!Take, Aio!Start, Aio!Complete
<1>1. Aio!NoneLeftOpen'
  BY <1>0, AioSameFiles
<1>2. aioAlive' \in BOOLEAN
  BY <1>0 DEF Aio!Take, Aio!Start, Aio!Complete, AioTypes
<1>3. aioCell[h] \in AioCell
  BY <1>0 DEF AioTypes
<1>4. /\ \A g \in AioCells : g # h => aioCell'[g] = aioCell[g] /\ aioCell[g] \in AioCell
      /\ aioCell' = [g \in AioCells |-> aioCell'[g]]
  BY <1>0 DEF AioTypes, Aio!Take, Aio!Start, Aio!Complete
<1>5. /\ aioCell'[h] \in AioCell /\ aioCell'[h].live = aioCell[h].live
      /\ aioCell'[h].fd = aioCell[h].fd /\ aioCell'[h].of = aioCell[h].of
      /\ aioCell'[h].loose = aioCell[h].loose
      /\ aioCell'[h].op \notin {"queued", "idle"}
      /\ aioCell'[h].op = "taken" => aioCell[h].op = "queued"
      /\ aioCell'[h].op = "running" => aioCell[h].op = "taken"
      /\ aioCell[h].op # "idle"
      /\ aioCell'[h].at \in {aioCell[h].at, aioCell[h].of} \/ aioCell[h].loose
  <2>1. CASE Aio!Take(h)
    <3>1. aioCell'[h] = [aioCell[h] EXCEPT !.op = "taken"] /\ aioCell[h].op = "queued"
      BY <1>0, <2>1 DEF AioTypes, Aio!Take
    <3> QED BY <1>3, <3>1 DEF AioCell, AioOps
  <2>2. CASE Aio!Start(h)
    <3> DEFINE f == aioFile[aioCell[h].fd]
               op == IF f = Aio!None THEN "failed" ELSE "running"
    <3>1. aioCell[h].op = "taken" /\ (~aioCell[h].loose => f = aioCell[h].of)
      BY <1>0, <2>2 DEF AioFilesKept, Aio!Start, AioWaits
    <3>2. aioCell'[h] = [aioCell[h] EXCEPT !.op = op, !.at = f]
      BY <1>0, <2>2 DEF AioTypes, Aio!Start
    <3>3. op \in {"failed", "running"}
      OBVIOUS
    <3>4. f \in AioFiles \cup {Aio!None}
      <4>1. aioCell[h].fd \in AioFds
        BY <1>0, <3>1 DEF AioFilesKept, AioWaits
      <4> QED BY <1>0, <4>1 DEF AioTypes
    <3> HIDE DEF f, op
    <3> QED BY <1>3, <3>1, <3>2, <3>3, <3>4 DEF AioCell, AioOps
  <2>3. CASE Aio!Complete(h)
    <3>1. PICK op \in {"done", "failed"} : aioCell' = [aioCell EXCEPT ![h].op = op]
      BY <2>3 DEF Aio!Complete
    <3>2. aioCell'[h] = [aioCell[h] EXCEPT !.op = op] /\ aioCell[h].op = "running"
      BY <1>0, <2>3, <3>1 DEF AioTypes, Aio!Complete
    <3> QED BY <1>3, <3>1, <3>2 DEF AioCell, AioOps
  <2> QED BY <2>1, <2>2, <2>3
<1>6. AioTypes'
  <2>1. aioCell' \in [AioCells -> AioCell]
    BY <1>4, <1>5
  <2> QED BY <1>0, <1>2, <2>1 DEF AioTypes
<1>7. AioOwned'
  <2>1. \A g \in AioCells : /\ aioCell'[g].live = aioCell[g].live /\ aioCell'[g].fd = aioCell[g].fd
                            /\ aioCell[g].op = "idle" => aioCell'[g].op = "idle"
    BY <1>4, <1>5
  <2>2. \A q \in AioRequests : aioRequest[q].status # "raw" => aioRequest[q].aio_cb \in AioCells
    BY <1>0, AioRequestTypes
  <2>3. \A q \in AioRequests : aioRequest[q].status # "raw" =>
             /\ aioRequest[q].session \in AioSessions
             /\ Aio!Initialized(aioSession[aioRequest[q].session])
             /\ aioCell'[aioRequest[q].aio_cb].fd = aioSession[aioRequest[q].session].fd
             /\ aioRequest[q].status = "allocated" => aioCell'[aioRequest[q].aio_cb].op = "idle"
    BY <1>0, <2>1, <2>2 DEF AioOwned
  <2> QED BY <1>0, <2>1, <2>3 DEF AioOwned, Aio!Initialized
<1>8. AioFilesKept'
  <2>1. \A g \in AioCells : AioWaits(aioCell'[g]) =>
           /\ AioWaits(aioCell[g]) /\ (aioCell[g].loose => aioCell'[g].loose)
           /\ aioCell'[g].fd = aioCell[g].fd /\ aioCell'[g].of = aioCell[g].of
    BY <1>4, <1>5 DEF AioWaits
  <2> QED BY <1>0, <2>1 DEF AioFilesKept, Aio!Initialized, AioWaits
<1>9. Aio!NoUseAfterFree'
  <2>1. ASSUME NEW g \in AioCells, aioCell'[g].op \in {"queued", "taken", "running"}
        PROVE  \/ \E q \in AioRequests : aioRequest[q].aio_cb = g /\ aioRequest[q].status = "pending"
               \/ ~aioCell'[g].live /\ (aioCell'[g].op \in {"taken", "running"} \/ aioCell'[g].loose)
    BY <1>0, <1>4, <1>5, <2>1 DEF Aio!NoUseAfterFree, Aio!InFlight
  <2> QED BY <1>0, <2>1 DEF Aio!NoUseAfterFree, Aio!InFlight
<1>10. Aio!OwnFileOnly'
  <2>1. ASSUME NEW g \in AioCells
        PROVE  aioCell'[g].at \in {Aio!None, aioCell'[g].of} \/ aioCell'[g].loose
    BY <1>0, <1>4, <1>5 DEF Aio!OwnFileOnly
  <2> QED BY <2>1 DEF Aio!OwnFileOnly
<1> QED BY <1>1, <1>6, <1>7, <1>8, <1>9, <1>10 DEF AioInv

LEMMA AioStep ==
    ASSUME AioInv, [Aio!Next]_aio
    PROVE  AioInv'
<1>1. CASE UNCHANGED aio
  <2>1. UNCHANGED <<aioSession, aioPath, aioFile, aioRequest, aioCell, aioAlive>>
    BY <1>1 DEF aio
  <2> QED BY <2>1 DEF AioInv, AioTypes, AioOwned, AioFilesKept, AioWaits, Aio!NoUseAfterFree,
        Aio!InFlight, Aio!OwnFileOnly, Aio!NoneLeftOpen, Aio!Initialized
<1>2. ASSUME NEW s \in AioSessions, NEW f \in AioFiles, Aio!Initialize(s, f)
      PROVE  AioInv'
  BY <1>2, AioInitialize
<1>3. ASSUME NEW s \in AioSessions, Aio!Finalize(s)
      PROVE  AioInv'
  BY <1>3, AioFinalize
<1>4. ASSUME NEW s \in AioSessions, NEW r \in AioRequests, NEW k \in Aio!Aio_Kinds,
             Aio!Allocate_Request(s, r, k)
      PROVE  AioInv'
  BY <1>4, AioAllocate
<1>5. ASSUME NEW s \in AioSessions, NEW r \in AioRequests,
             Aio!Enqueue(s, r) \/ Aio!Update_Request(s, r) \/ Aio!Release(s, r)
      PROVE  AioInv'
  BY <1>5, AioEnqueue, AioUpdate, AioRelease
<1>6. ASSUME NEW h \in AioCells, Aio!Take(h) \/ Aio!Start(h) \/ Aio!Complete(h)
      PROVE  AioInv'
  BY <1>6, AioWork
<1> QED BY <1>1, <1>2, <1>3, <1>4, <1>5, <1>6 DEF Aio!Next

\* Every step of the parts is one of each of them, or leaves it.
LEMMA PartsStep ==
    ASSUME [PartsNext]_all
    PROVE  [Next]_vars /\ [Server!Next]_server /\ [Aio!Next]_aio
BY DEF PartsNext, all

LEMMA AioInvariance == PartsSpec => []AioInv
<1>1. PartsInit => AioInv
  BY AioInit DEF PartsInit
<1>2. AioInv /\ [PartsNext]_all => AioInv'
  BY AioStep, PartsStep
<1> QED BY <1>1, <1>2, PTL DEF PartsSpec

\* For any number of sessions, requests, descriptors and heap cells, with
\* requests released and sessions finalized at any time: what the C library
\* works on belongs to a Pending request, or was freed by a Release that came
\* after a worker had taken it or the number had been closed
\* (block_client_release, block_client_update_request).
THEOREM AioMemory == PartsSpec => []NoUseAfterFree
<1>1. AioInv => NoUseAfterFree
  BY DEF AioInv, NoUseAfterFree
<1> QED BY <1>1, AioInvariance, PTL

\* Although numbers are closed and reused at any time, an operation meets a
\* file other than its session's only if its number was closed while aio_cancel
\* could not reach it, and no descriptor is left open (block_client_initialize,
\* block_client_finalize).
THEOREM AioOwnFile == PartsSpec => []OwnFileOnly
<1>1. AioInv => OwnFileOnly
  BY DEF AioInv, OwnFileOnly
<1> QED BY <1>1, AioInvariance, PTL

-----------------------------------------------------------------------------
(* The server on Genode                                                    *)

ServerTypes ==
    /\ srvRoot \in BOOLEAN /\ srvReady \in BOOLEAN /\ srvFinished \in BOOLEAN
    /\ srvSignal \in BOOLEAN /\ srvWakeup \in BOOLEAN /\ srvWoken \in BOOLEAN
    /\ srvTag \in {Server!NoTag, 42}
    /\ srvSession \in ServerClients \cup {Server!None}
    /\ srvClient \in [ServerClients -> {"new", "open", "denied", "closed"}]
    /\ srvPackets \in [ServerClients -> 0..ServerPackets]
    /\ srvQueue \in [ServerClients -> Seq(Server!Packets)]
    /\ srvAcks \in [ServerClients -> Seq(Server!Packets)]
    /\ srvAnswered \in [ServerClients -> Seq(Server!Packets)]
    /\ \A c \in ServerClients : Len(srvQueue[c]) <= ServerQueue /\ Len(srvAcks[c]) <= ServerQueue
    /\ srvSlot \in [1..ServerSlots -> Server!Server_Request]
    /\ srvPos \in 0..(ServerSlots + 1)

\* The session is that of the one client that is open, and only it has a
\* stream.  Without one there is no event; clients that were not let in have
\* submitted nothing.
ServerSession ==
    /\ srvSession # Server!None => srvReady
    /\ srvSession # Server!None => srvTag = 42 /\ srvClient[srvSession] = "open"
    /\ \A c \in ServerClients : srvClient[c] = "open" => srvSession = c
    /\ srvSession = Server!None => srvPos = 0
    /\ srvSignal => srvSession # Server!None
    /\ \A r \in 1..ServerSlots : srvSlot[r] # Server!Raw => srvSlot[r].session = 42
    /\ \A c \in ServerClients : srvClient[c] \in {"new", "denied"} => srvPackets[c] = 0
    /\ \A c \in ServerClients : srvClient[c] # "open" => srvQueue[c] = <<>> /\ srvAcks[c] = <<>>

Once(qu) == \A j, k \in 1..Len(qu) : qu[j] = qu[k] => j = k

\* The packets in the server's request variables.
Taken(sl) == {sl[r].packet : r \in {q \in 1..ServerSlots : sl[q] # Server!Raw}}
TakenOnce(sl) ==
    \A q, r \in 1..ServerSlots :
       sl[q] # Server!Raw /\ sl[r] # Server!Raw /\ sl[q].packet = sl[r].packet => q = r

Disjoint(A, B) == \A x \in A : x \notin B

\* What the clients have fetched.
Answers(an) == UNION {Queued(an[c]) : c \in ServerClients}
AnswersOnce(an) ==
    \A c, d \in ServerClients : \A j \in 1..Len(an[c]), k \in 1..Len(an[d]) :
       an[c][j] = an[d][k] => c = d /\ j = k

Submitted(pk, x) == \E d \in ServerClients : \E m \in 1..pk[d] : x = <<d, m>>

\* The packets that were submitted and still exist are divided among the places.
Divided(pk, qu, ac, an, sl) ==
    /\ Once(qu) /\ Once(ac) /\ AnswersOnce(an) /\ TakenOnce(sl)
    /\ Disjoint(Queued(qu), Queued(ac)) /\ Disjoint(Queued(qu), Answers(an))
    /\ Disjoint(Queued(qu), Taken(sl)) /\ Disjoint(Queued(ac), Answers(an))
    /\ Disjoint(Queued(ac), Taken(sl)) /\ Disjoint(Answers(an), Taken(sl))
    /\ \A x : x \in Queued(qu) \/ x \in Queued(ac) \/ x \in Answers(an) \/ x \in Taken(sl)
                 => Submitted(pk, x)

\* None of the packets of a client is missing.
Complete(c, n, qu, ac, an, sl) ==
    \A m \in 1..n : \/ <<c, m>> \in Queued(qu) \/ <<c, m>> \in Queued(ac)
                    \/ <<c, m>> \in Answers(an) \/ <<c, m>> \in Taken(sl)

InPlaces(c, pk, qu, ac, an, sl) == Divided(pk, qu, ac, an, sl) /\ Complete(c, pk[c], qu, ac, an, sl)

ServerPacketsKept ==
    /\ \A c \in ServerClients : Divided(srvPackets, srvQueue[c], srvAcks[c], srvAnswered, srvSlot)
    /\ \A c \in ServerClients : srvSession = c =>
          Complete(c, srvPackets[c], srvQueue[c], srvAcks[c], srvAnswered, srvSlot)

ServerInv == ServerTypes /\ ServerSession /\ ServerPacketsKept

LEMMA OnceAppend ==
    ASSUME NEW P, NEW qu \in Seq(P), NEW x \in P
    PROVE  /\ Queued(Append(qu, x)) = Queued(qu) \cup {x}
           /\ Once(qu) /\ x \notin Queued(qu) => Once(Append(qu, x))
           /\ Append(qu, x) \in Seq(P) /\ Len(Append(qu, x)) = Len(qu) + 1 /\ Len(qu) \in Nat
<1> DEFINE qv == Append(qu, x)
<1>1. /\ Len(qu) \in Nat /\ Len(qv) = Len(qu) + 1 /\ qv[Len(qu) + 1] = x /\ qv \in Seq(P)
      /\ \A j \in 1..Len(qu) : qv[j] = qu[j]
  OBVIOUS
<1> HIDE DEF qv
<1>2. \A j \in 1..Len(qv) : (j \in 1..Len(qu) /\ qv[j] = qu[j]) \/ (j = Len(qu) + 1 /\ qv[j] = x)
  BY <1>1
<1>3. Queued(qv) = Queued(qu) \cup {x}
  <2>1. ASSUME NEW y
        PROVE  (\E j \in 1..Len(qv) : y = qv[j]) <=> (\E j \in 1..Len(qu) : y = qu[j]) \/ y = x
    BY <1>1
  <2> QED BY <2>1 DEF Queued
<1>4. Once(qu) /\ x \notin Queued(qu) => Once(qv)
  BY <1>2 DEF Once, Queued
<1> QED BY <1>1, <1>3, <1>4 DEF qv

LEMMA OnceTail ==
    ASSUME NEW P, NEW qu \in Seq(P), qu # <<>>
    PROVE  /\ Head(qu) \in P /\ Tail(qu) \in Seq(P)
           /\ Len(Tail(qu)) = Len(qu) - 1 /\ Len(qu) \in Nat
           /\ Queued(qu) = Queued(Tail(qu)) \cup {Head(qu)}
           /\ Once(qu) => Once(Tail(qu)) /\ Head(qu) \notin Queued(Tail(qu))
<1> DEFINE qv == Tail(qu)
           x == Head(qu)
<1>1. /\ x = qu[1] /\ x \in P /\ Len(qu) \in Nat \ {0}
      /\ qv \in Seq(P) /\ Len(qv) = Len(qu) - 1
      /\ \A j \in 1..(Len(qu) - 1) : qv[j] = qu[j + 1] /\ j + 1 \in 1..Len(qu)
      /\ \A j \in 1..Len(qu) : j = 1 \/ (j - 1 \in 1..(Len(qu) - 1) /\ qu[j] = qv[j - 1])
  OBVIOUS
<1> HIDE DEF qv, x
<1>2. Queued(qu) = Queued(qv) \cup {x}
  <2>1. ASSUME NEW y
        PROVE  (\E j \in 1..Len(qu) : y = qu[j]) <=> (\E j \in 1..Len(qv) : y = qv[j]) \/ y = x
    <3>1. ASSUME NEW j \in 1..Len(qu)
          PROVE  qu[j] = x \/ \E k \in 1..Len(qv) : qu[j] = qv[k]
      BY <1>1
    <3>2. ASSUME NEW j \in 1..Len(qv)
          PROVE  \E k \in 1..Len(qu) : qv[j] = qu[k]
      BY <1>1
    <3>3. \E k \in 1..Len(qu) : x = qu[k]
      BY <1>1
    <3> QED BY <3>1, <3>2, <3>3
  <2> QED BY <2>1 DEF Queued
<1>3. ASSUME Once(qu)
      PROVE  Once(qv) /\ x \notin Queued(qv)
  <2>1. Once(qv)
    BY <1>1, <1>3 DEF Once
  <2>2. ASSUME NEW j \in 1..Len(qv)
        PROVE  qv[j] # x
    <3>1. /\ qv[j] = qu[j + 1] /\ j + 1 \in 1..Len(qu) /\ 1 \in 1..Len(qu) /\ j + 1 # 1
      BY <1>1
    <3> QED BY <1>1, <1>3, <3>1 DEF Once
  <2> QED BY <2>1, <2>2 DEF Queued
<1> QED BY <1>1, <1>2, <1>3 DEF qv, x

\* A request variable is filled, or emptied.
LEMMA TakenPut ==
    ASSUME NEW sl, NEW sm, NEW r \in 1..ServerSlots, sl[r] = Server!Raw, sm[r] # Server!Raw,
           \A q \in 1..ServerSlots : q # r => sm[q] = sl[q]
    PROVE  /\ Taken(sm) = Taken(sl) \cup {sm[r].packet}
           /\ TakenOnce(sl) /\ sm[r].packet \notin Taken(sl) => TakenOnce(sm)
<1>1. ASSUME NEW x
      PROVE  (\E q \in 1..ServerSlots : sm[q] # Server!Raw /\ x = sm[q].packet)
                <=> (\E q \in 1..ServerSlots : sl[q] # Server!Raw /\ x = sl[q].packet) \/ x = sm[r].packet
  OBVIOUS
<1>2. Taken(sm) = Taken(sl) \cup {sm[r].packet}
  BY <1>1 DEF Taken
<1>3. TakenOnce(sl) /\ sm[r].packet \notin Taken(sl) => TakenOnce(sm)
  BY DEF TakenOnce, Taken
<1> QED BY <1>2, <1>3

LEMMA TakenGet ==
    ASSUME NEW sl, NEW sm, NEW r \in 1..ServerSlots, sm[r] = Server!Raw, sl[r] # Server!Raw,
           \A q \in 1..ServerSlots : q # r => sm[q] = sl[q]
    PROVE  /\ Taken(sl) = Taken(sm) \cup {sl[r].packet}
           /\ TakenOnce(sl) => TakenOnce(sm) /\ sl[r].packet \notin Taken(sm)
<1>1. \A q \in 1..ServerSlots : q # r => sl[q] = sm[q]
  OBVIOUS
<1>2. Taken(sl) = Taken(sm) \cup {sl[r].packet}
  BY <1>1, TakenPut
<1>3. TakenOnce(sl) => TakenOnce(sm) /\ sl[r].packet \notin Taken(sm)
  BY DEF TakenOnce, Taken
<1> QED BY <1>2, <1>3

LEMMA SlotTypes ==
    ASSUME NEW x \in Server!Server_Request
    PROVE  /\ x.status = "Raw" <=> x = Server!Raw
           /\ x # Server!Raw => x.packet \in Server!Packets /\ x.session \in {Server!NoTag, 42}
BY DEF Server!Server_Request, Server!Raw

LEMMA ServerSizes ==
    /\ ServerClients \subseteq Nat \ {0} /\ Server!None \notin ServerClients
    /\ ServerSlots \in Nat \ {0} /\ ServerQueue \in Nat \ {0} /\ ServerPackets \in Nat
BY PartsAssumption DEF Server!SizesAssumption, Server!None

LEMMA DividedNone ==
    ASSUME NEW pk, NEW an, NEW sl, \A r \in 1..ServerSlots : sl[r] = Server!Raw,
           \A c \in ServerClients : an[c] = <<>>
    PROVE  Divided(pk, <<>>, <<>>, an, sl)
<1>1. Queued(<<>>) = {} /\ Once(<<>>)
  BY NoneQueued DEF Once
<1>2. Taken(sl) = {} /\ TakenOnce(sl)
  BY DEF Taken, TakenOnce
<1>3. Answers(an) = {} /\ AnswersOnce(an)
  BY <1>1 DEF Answers, AnswersOnce
<1> QED BY <1>1, <1>2, <1>3 DEF Divided, Disjoint

\* The stream of a client that leaves is taken away.
LEMMA DividedEmpty ==
    ASSUME NEW pk, NEW qu, NEW ac, NEW an, NEW sl, Divided(pk, qu, ac, an, sl)
    PROVE  Divided(pk, <<>>, <<>>, an, sl)
<1>1. Queued(<<>>) = {} /\ Once(<<>>)
  BY NoneQueued DEF Once
<1> QED BY <1>1 DEF Divided, Disjoint

LEMMA ServerInit ==
    ASSUME Server!Init
    PROVE  ServerInv
<1> USE ServerSizes
<1>1. /\ srvQueue \in [ServerClients -> Seq(Server!Packets)]
      /\ srvAcks \in [ServerClients -> Seq(Server!Packets)]
      /\ srvAnswered \in [ServerClients -> Seq(Server!Packets)]
      /\ \A c \in ServerClients : Len(srvQueue[c]) <= ServerQueue /\ Len(srvAcks[c]) <= ServerQueue
  BY DEF Server!Init
<1>2. srvSlot \in [1..ServerSlots -> Server!Server_Request]
  BY DEF Server!Init, Server!Server_Request
<1>3. ServerTypes
  <2>1. /\ srvRoot \in BOOLEAN /\ srvReady \in BOOLEAN /\ srvFinished \in BOOLEAN
        /\ srvSignal \in BOOLEAN /\ srvWakeup \in BOOLEAN /\ srvWoken \in BOOLEAN
    BY DEF Server!Init
  <2>2. /\ srvTag = Server!NoTag /\ srvSession = Server!None /\ srvPos = 0
        /\ srvClient \in [ServerClients -> {"new", "open", "denied", "closed"}]
        /\ srvPackets \in [ServerClients -> 0..ServerPackets]
    BY DEF Server!Init
  <2> QED BY <1>1, <1>2, <2>1, <2>2 DEF ServerTypes
<1>4. ~srvSignal
  BY DEF Server!Init
<1>5. ServerSession
  BY <1>4 DEF Server!Init, ServerSession
<1>6. ServerPacketsKept
  <2>1. /\ \A r \in 1..ServerSlots : srvSlot[r] = Server!Raw
        /\ \A c \in ServerClients : /\ srvQueue[c] = <<>> /\ srvAcks[c] = <<>>
                                    /\ srvAnswered[c] = <<>> /\ srvPackets[c] = 0
    BY DEF Server!Init
  <2>2. \A c \in ServerClients : srvSession # c
    BY DEF Server!Init
  <2> QED BY <2>1, <2>2, DividedNone DEF ServerPacketsKept
<1> QED BY <1>3, <1>5, <1>6 DEF ServerInv

\* Steps that leave the session, the streams and the request variables.
LEMMA ServerFrame ==
    ASSUME ServerInv,
           UNCHANGED <<srvTag, srvReady, srvSession, srvClient, srvQueue, srvAcks, srvSlot,
                       srvPackets, srvAnswered>>,
           srvRoot' \in BOOLEAN, srvFinished' \in BOOLEAN, srvSignal' \in BOOLEAN,
           srvWakeup' \in BOOLEAN, srvWoken' \in BOOLEAN, srvPos' \in 0..(ServerSlots + 1),
           srvSession # Server!None \/ (~srvSignal' /\ srvPos' = 0)
    PROVE  ServerInv'
<1>1. ServerTypes'
  BY DEF ServerInv, ServerTypes
<1>2. ServerSession'
  BY DEF ServerInv, ServerSession
<1>3. ServerPacketsKept'
  BY DEF ServerInv, ServerPacketsKept
<1> QED BY <1>1, <1>2, <1>3 DEF ServerInv

\* A client is given the session only if nobody has it.
LEMMA ServerCreate ==
    ASSUME ServerInv, NEW c \in ServerClients, Server!create_session(c)
    PROVE  ServerInv'
<1>0. /\ ServerTypes /\ ServerSession /\ ServerPacketsKept
      /\ srvPos = 0 /\ srvClient[c] = "new"
      /\ UNCHANGED <<srvRoot, srvQueue, srvAcks, srvSlot, srvPos, srvFinished, srvSignal, srvWakeup,
                     srvWoken, srvPackets, srvAnswered>>
  BY DEF ServerInv, Server!create_session, Server!streams, Server!handler
<1>1. ASSUME NEW st \in {"open", "denied"}, srvClient' = [srvClient EXCEPT ![c] = st]
      PROVE  /\ srvClient' \in [ServerClients -> {"new", "open", "denied", "closed"}]
             /\ srvClient'[c] = st /\ \A d \in ServerClients : d # c => srvClient'[d] = srvClient[d]
  BY <1>0, <1>1 DEF ServerTypes
<1>2. CASE srvClient' = [srvClient EXCEPT ![c] = "denied"] /\ UNCHANGED <<srvTag, srvReady, srvSession>>
  <2>1. /\ srvClient' \in [ServerClients -> {"new", "open", "denied", "closed"}]
        /\ srvClient'[c] = "denied" /\ \A d \in ServerClients : d # c => srvClient'[d] = srvClient[d]
    BY <1>1, <1>2
  <2>2. srvSession # c
    BY <1>0, ServerSizes DEF ServerSession
  <2>3. ServerTypes'
    BY <1>0, <1>2, <2>1 DEF ServerTypes
  <2>4. ServerSession'
    <3>1. srvSession # Server!None => srvSession \in ServerClients
      BY <1>0 DEF ServerTypes
    <3>2. \A d \in ServerClients : /\ srvClient'[d] \in {"new", "denied"} => srvPackets[d] = 0
                                  /\ srvClient'[d] # "open" => srvQueue[d] = <<>> /\ srvAcks[d] = <<>>
      BY <1>0, <2>1 DEF ServerSession
    <3> QED BY <1>0, <1>2, <2>1, <2>2, <3>1, <3>2 DEF ServerSession
  <2>5. ServerPacketsKept'
    BY <1>0, <1>2 DEF ServerPacketsKept
  <2> QED BY <2>3, <2>4, <2>5 DEF ServerInv
<1>3. ASSUME srvSession = Server!None, srvTag' = 42,
             srvSession' = Server!None, srvReady' = FALSE,
             srvClient' = [srvClient EXCEPT ![c] = "denied"]
      PROVE  ServerInv'
  <2>1. /\ srvClient' \in [ServerClients -> {"new", "open", "denied", "closed"}]
        /\ srvClient'[c] = "denied" /\ \A d \in ServerClients : d # c => srvClient'[d] = srvClient[d]
    BY <1>1, <1>3
  <2>2. ServerTypes'
    BY <1>0, <1>3, <2>1 DEF ServerTypes
  <2>3. ServerSession'
    <3>1. \A d \in ServerClients : /\ srvClient'[d] \in {"new", "denied"} => srvPackets[d] = 0
                                  /\ srvClient'[d] # "open" => srvQueue[d] = <<>> /\ srvAcks[d] = <<>>
      BY <1>0, <2>1 DEF ServerSession
    <3> QED BY <1>0, <1>3, <2>1, <3>1 DEF ServerSession
  <2>4. ServerPacketsKept'
    BY <1>0, <1>3, ServerSizes DEF ServerPacketsKept
  <2> QED BY <2>2, <2>3, <2>4 DEF ServerInv
<1>4. ASSUME srvSession = Server!None, srvTag' = 42,
             srvSession' = c, srvReady' = TRUE,
             srvClient' = [srvClient EXCEPT ![c] = "open"]
      PROVE  ServerInv'
  <2>1. /\ srvClient' \in [ServerClients -> {"new", "open", "denied", "closed"}]
        /\ srvClient'[c] = "open" /\ \A d \in ServerClients : d # c => srvClient'[d] = srvClient[d]
    BY <1>1, <1>4
  <2>2. ServerTypes'
    BY <1>0, <1>4, <2>1 DEF ServerTypes
  <2>3. \A d \in ServerClients : srvClient[d] # "open"
    BY <1>0, <1>4, ServerSizes DEF ServerSession
  <2>4. ServerSession'
    <3>1. srvReady' /\ c # Server!None
      BY <1>4, ServerSizes
    <3>2. \A d \in ServerClients : /\ srvClient'[d] \in {"new", "denied"} => srvPackets[d] = 0
                                  /\ srvClient'[d] # "open" => srvQueue[d] = <<>> /\ srvAcks[d] = <<>>
      BY <1>0, <2>1 DEF ServerSession
    <3>3. ~srvSignal /\ \A d \in ServerClients : srvClient'[d] = "open" => d = c
      BY <1>0, <1>4, <2>1, <2>3 DEF ServerSession
    <3> QED BY <1>0, <1>4, <2>1, <3>1, <3>2, <3>3 DEF ServerSession
  <2>5. srvPackets[c] = 0
    BY <1>0 DEF ServerSession
  <2>6. ServerPacketsKept'
    <3>1. Complete(c, srvPackets[c], srvQueue[c], srvAcks[c], srvAnswered, srvSlot)
      BY <2>5 DEF Complete
    <3> QED BY <1>0, <1>4, <3>1 DEF ServerPacketsKept
  <2> QED BY <2>2, <2>4, <2>6 DEF ServerInv
<1>5. CASE Server!Dispatch(c) /\ ~srvReady /\ srvSession = Server!None
  <2>1. srvTag' = 42
    BY <1>5 DEF Server!Dispatch, Server!Session_Initialize, Server!Initialized
  <2>2. CASE srvSession' = Server!None
    <3>1. srvReady' = FALSE
      BY <1>5, <2>2 DEF Server!Dispatch, Server!Session_Initialize, Server!Initialized
    <3>2. srvClient' = [srvClient EXCEPT ![c] = "denied"]
      BY <1>5, <2>2, <3>1 DEF Server!Dispatch, Server!session_accept, Server!Initialized
    <3> QED BY <1>3, <1>5, <2>1, <2>2, <3>1, <3>2
  <2>3. CASE srvSession' = c
    <3>0. c # Server!None
      BY ServerSizes
    <3>1. srvReady' = TRUE
      BY <1>5, <2>3, <3>0 DEF Server!Dispatch, Server!Session_Initialize, Server!Initialized, Server!initialize
    <3>2. srvClient' = [srvClient EXCEPT ![c] = "open"]
      BY <1>5, <2>3, <3>0, <3>1 DEF Server!Dispatch, Server!session_accept, Server!Initialized
    <3> QED BY <1>4, <1>5, <2>1, <2>3, <3>1, <3>2
  <2>4. srvSession' = Server!None \/ srvSession' = c
    BY <1>5 DEF Server!Dispatch, Server!Session_Initialize, Server!Initialized, Server!initialize
  <2> QED BY <2>2, <2>3, <2>4
<1>6. \/ srvClient' = [srvClient EXCEPT ![c] = "denied"] /\ UNCHANGED <<srvTag, srvReady, srvSession>>
      \/ Server!Dispatch(c) /\ ~srvReady /\ srvSession = Server!None
  BY DEF Server!create_session, Server!Dispatch, Server!session_accept, Server!Initialized
<1> QED BY <1>2, <1>5, <1>6

\* A client that closes leaves its requests behind.
LEMMA ServerClose ==
    ASSUME ServerInv, NEW c \in ServerClients, Server!close(c)
    PROVE  ServerInv'
<1>0. /\ ServerTypes /\ ServerSession /\ ServerPacketsKept /\ srvPos = 0 /\ srvClient[c] = "open"
      /\ srvClient' = [srvClient EXCEPT ![c] = "closed"] /\ srvSession = c
      /\ Server!finalize(c)
      /\ UNCHANGED <<srvRoot, srvTag, srvSlot, srvPos, srvFinished, srvPackets, srvAnswered>>
  BY DEF ServerInv, ServerSession, Server!close, Server!Session_Cleanup, Server!session_cleanup,
         Server!handler
<1>1. /\ srvSession' = Server!None
      /\ srvQueue' = [srvQueue EXCEPT ![c] = <<>>] /\ srvAcks' = [srvAcks EXCEPT ![c] = <<>>]
  BY <1>0 DEF Server!finalize
<1>2. srvReady' = FALSE /\ srvSignal' = FALSE /\ srvWakeup' = FALSE /\ srvWoken' = FALSE
  BY <1>0 DEF Server!finalize
<1>3. /\ srvClient' \in [ServerClients -> {"new", "open", "denied", "closed"}]
      /\ srvClient'[c] = "closed" /\ \A d \in ServerClients : d # c => srvClient'[d] = srvClient[d]
  BY <1>0 DEF ServerTypes
<1>4. /\ srvQueue' \in [ServerClients -> Seq(Server!Packets)] /\ srvAcks' \in [ServerClients -> Seq(Server!Packets)]
      /\ srvQueue'[c] = <<>> /\ srvAcks'[c] = <<>>
      /\ \A d \in ServerClients : d # c => srvQueue'[d] = srvQueue[d] /\ srvAcks'[d] = srvAcks[d]
  BY <1>0, <1>1 DEF ServerTypes
<1>5. ServerTypes'
  <2>1. \A d \in ServerClients : Len(srvQueue'[d]) <= ServerQueue /\ Len(srvAcks'[d]) <= ServerQueue
    <3>1. Len(<<>>) <= ServerQueue
      BY ServerSizes
    <3> QED BY <1>0, <1>4, <3>1 DEF ServerTypes
  <2> QED BY <1>0, <1>1, <1>2, <1>3, <1>4, <2>1 DEF ServerTypes
<1>6. ServerSession'
  <2>1. \A d \in ServerClients : srvClient'[d] # "open"
    BY <1>0, <1>3 DEF ServerSession
  <2>2. \A d \in ServerClients : /\ srvClient'[d] \in {"new", "denied"} => srvPackets[d] = 0
                                /\ srvQueue'[d] = <<>> /\ srvAcks'[d] = <<>>
    BY <1>0, <1>3, <1>4 DEF ServerSession
  <2>3. ~srvSignal'
    BY <1>2
  <2> QED BY <1>0, <1>1, <2>1, <2>2, <2>3 DEF ServerSession
<1>7. ServerPacketsKept'
  <2>1. \A d \in ServerClients : Divided(srvPackets, srvQueue'[d], srvAcks'[d], srvAnswered, srvSlot)
    <3>1. \A d \in ServerClients : Divided(srvPackets, <<>>, <<>>, srvAnswered, srvSlot)
      BY <1>0, DividedEmpty DEF ServerPacketsKept
    <3>2. \A d \in ServerClients : srvQueue'[d] = <<>> /\ srvAcks'[d] = <<>>
      BY <1>0, <1>4 DEF ServerSession
    <3> QED BY <3>1, <3>2
  <2> QED BY <1>0, <1>1, <2>1, ServerSizes DEF ServerPacketsKept
<1> QED BY <1>5, <1>6, <1>7 DEF ServerInv
\* Steps that move packets of the client that has the session.
LEMMA ServerStream ==
    ASSUME ServerInv, NEW c \in ServerClients, srvSession = c,
           UNCHANGED <<srvRoot, srvTag, srvReady, srvSession, srvClient>>,
           srvFinished' \in BOOLEAN, srvSignal' \in BOOLEAN, srvWakeup' \in BOOLEAN,
           srvWoken' \in BOOLEAN, srvPos' \in 0..(ServerSlots + 1),
           srvPackets' \in [ServerClients -> 0..ServerPackets],
           srvQueue' \in [ServerClients -> Seq(Server!Packets)],
           srvAcks' \in [ServerClients -> Seq(Server!Packets)],
           srvAnswered' \in [ServerClients -> Seq(Server!Packets)],
           Len(srvQueue'[c]) <= ServerQueue, Len(srvAcks'[c]) <= ServerQueue,
           \A d \in ServerClients : d # c =>
              /\ srvPackets'[d] = srvPackets[d] /\ srvQueue'[d] = srvQueue[d]
              /\ srvAcks'[d] = srvAcks[d] /\ srvAnswered'[d] = srvAnswered[d],
           srvSlot' \in [1..ServerSlots -> Server!Server_Request],
           \A r \in 1..ServerSlots : srvSlot'[r] # Server!Raw => srvSlot'[r].session = 42,
           InPlaces(c, srvPackets', srvQueue'[c], srvAcks'[c], srvAnswered', srvSlot')
    PROVE  ServerInv'
<1>0. ServerTypes /\ ServerSession /\ c # Server!None
  BY ServerSizes DEF ServerInv
<1>1. \A d \in ServerClients : Len(srvQueue'[d]) <= ServerQueue /\ Len(srvAcks'[d]) <= ServerQueue
  BY <1>0 DEF ServerTypes
<1>2. ServerTypes'
  BY <1>0, <1>1 DEF ServerTypes
<1>3. \A d \in ServerClients : d # c =>
         srvClient[d] # "open" /\ srvQueue'[d] = <<>> /\ srvAcks'[d] = <<>>
  BY <1>0 DEF ServerSession
<1>4. ServerSession'
  <2>1. srvClient[c] = "open"
    BY <1>0 DEF ServerSession
  <2>2. \A d \in ServerClients :
           /\ srvClient'[d] \in {"new", "denied"} => srvPackets'[d] = 0
           /\ srvClient'[d] # "open" => srvQueue'[d] = <<>> /\ srvAcks'[d] = <<>>
    BY <1>0, <1>3, <2>1 DEF ServerSession
  <2> QED BY <1>0, <2>2 DEF ServerSession
<1>5. ServerPacketsKept'
  <2>1. ASSUME NEW pk, NEW an, NEW sl, pk = srvPackets', an = srvAnswered', sl = srvSlot',
               NEW d \in ServerClients
        PROVE  Divided(pk, srvQueue'[d], srvAcks'[d], an, sl)
    <3>1. CASE d = c
      BY <2>1, <3>1 DEF InPlaces
    <3>2. CASE d # c
      <4>1. Divided(pk, srvQueue'[c], srvAcks'[c], an, sl)
        BY <2>1 DEF InPlaces
      <4>2. Divided(pk, <<>>, <<>>, an, sl)
        BY <4>1, DividedEmpty
      <4> QED BY <1>3, <3>2, <4>2
    <3> QED BY <3>1, <3>2
  <2>2. \A d \in ServerClients : Divided(srvPackets', srvQueue'[d], srvAcks'[d], srvAnswered', srvSlot')
    BY <2>1
  <2> QED BY <2>2 DEF ServerPacketsKept, InPlaces
<1> QED BY <1>2, <1>4, <1>5 DEF ServerInv

\* What is known of the client that has the session.
LEMMA ServerOpen ==
    ASSUME ServerInv, NEW c \in ServerClients, srvSession = c
    PROVE  /\ InPlaces(c, srvPackets, srvQueue[c], srvAcks[c], srvAnswered, srvSlot)
           /\ srvQueue[c] \in Seq(Server!Packets) /\ srvAcks[c] \in Seq(Server!Packets)
           /\ srvAnswered[c] \in Seq(Server!Packets) /\ srvPackets[c] \in 0..ServerPackets
           /\ Len(srvQueue[c]) <= ServerQueue /\ Len(srvAcks[c]) <= ServerQueue
           /\ srvTag = 42
BY ServerSizes DEF ServerInv, ServerTypes, ServerSession, ServerPacketsKept, InPlaces

\* A packet goes from one place to another.
LEMMA DividedSubmit ==
    ASSUME NEW c \in ServerClients, NEW pk, NEW pl, NEW qu, NEW qv, NEW ac, NEW an, NEW sl,
           pk[c] \in Nat, pl[c] = pk[c] + 1, \A d \in ServerClients : d # c => pl[d] = pk[d],
           InPlaces(c, pk, qu, ac, an, sl),
           Queued(qv) = Queued(qu) \cup {<<c, pk[c] + 1>>},
           <<c, pk[c] + 1>> \notin Queued(qu) => Once(qv)
    PROVE  InPlaces(c, pl, qv, ac, an, sl)
<1> DEFINE x == <<c, pk[c] + 1>>
<1>1. ~Submitted(pk, x)
  BY DEF Submitted
<1>2. \A y : Submitted(pk, y) => Submitted(pl, y)
  BY DEF Submitted
<1>3. Submitted(pl, x)
  <2>1. pl[c] \in 1..pl[c] /\ x = <<c, pl[c]>>
    OBVIOUS
  <2> QED BY <2>1 DEF Submitted
<1>4. \A m \in 1..pl[c] : m \in 1..pk[c] \/ <<c, m>> = x
  OBVIOUS
<1> HIDE DEF x
<1>5. x \notin Queued(qu) /\ x \notin Queued(ac) /\ x \notin Answers(an) /\ x \notin Taken(sl)
  BY <1>1 DEF InPlaces, Divided
<1>6. Queued(qv) = Queued(qu) \cup {x} /\ Once(qv)
  BY <1>5 DEF x
<1>7. Divided(pl, qv, ac, an, sl)
  BY <1>2, <1>3, <1>5, <1>6 DEF InPlaces, Divided, Disjoint
<1>8. Complete(c, pl[c], qv, ac, an, sl)
  BY <1>4, <1>6 DEF InPlaces, Complete
<1> QED BY <1>7, <1>8 DEF InPlaces

LEMMA DividedProcess ==
    ASSUME NEW c, NEW pk, NEW qu, NEW qv, NEW ac, NEW an, NEW sl, NEW sm, NEW x,
           InPlaces(c, pk, qu, ac, an, sl),
           Queued(qu) = Queued(qv) \cup {x}, Once(qv), x \notin Queued(qv),
           Taken(sm) = Taken(sl) \cup {x}, x \notin Taken(sl) => TakenOnce(sm)
    PROVE  InPlaces(c, pk, qv, ac, an, sm)
<1>1. Divided(pk, qv, ac, an, sm)
  BY DEF InPlaces, Divided, Disjoint
<1>2. Complete(c, pk[c], qv, ac, an, sm)
  BY DEF InPlaces, Complete
<1> QED BY <1>1, <1>2 DEF InPlaces

LEMMA DividedAcknowledge ==
    ASSUME NEW c, NEW pk, NEW qu, NEW ac, NEW ad, NEW an, NEW sl, NEW sm, NEW x,
           InPlaces(c, pk, qu, ac, an, sl),
           Taken(sl) = Taken(sm) \cup {x}, TakenOnce(sm), x \notin Taken(sm),
           Queued(ad) = Queued(ac) \cup {x}, x \notin Queued(ac) => Once(ad)
    PROVE  InPlaces(c, pk, qu, ad, an, sm)
<1>1. Divided(pk, qu, ad, an, sm)
  BY DEF InPlaces, Divided, Disjoint
<1>2. Complete(c, pk[c], qu, ad, an, sm)
  BY DEF InPlaces, Complete
<1> QED BY <1>1, <1>2 DEF InPlaces

LEMMA AnswersAppend ==
    ASSUME NEW P, NEW an \in [ServerClients -> Seq(P)], NEW ao, NEW c \in ServerClients,
           NEW x \in P, ao[c] = Append(an[c], x), \A d \in ServerClients : d # c => ao[d] = an[d]
    PROVE  /\ Answers(ao) = Answers(an) \cup {x}
           /\ AnswersOnce(an) /\ x \notin Answers(an) => AnswersOnce(ao)
<1>1. an[c] \in Seq(P) /\ \A d \in ServerClients : Len(an[d]) \in Nat
  OBVIOUS
<1>2. /\ Queued(ao[c]) = Queued(an[c]) \cup {x}
      /\ Len(ao[c]) = Len(an[c]) + 1
  BY <1>1, OnceAppend
<1>3. Answers(ao) = Answers(an) \cup {x}
  <2>1. ASSUME NEW y
        PROVE  (\E d \in ServerClients : y \in Queued(ao[d]))
                  <=> (\E d \in ServerClients : y \in Queued(an[d])) \/ y = x
    BY <1>2
  <2> QED BY <2>1 DEF Answers
<1>4. \A j \in 1..Len(ao[c]) :
         (j \in 1..Len(an[c]) /\ ao[c][j] = an[c][j]) \/ (j = Len(an[c]) + 1 /\ ao[c][j] = x)
  BY <1>1, <1>2
<1>5. ASSUME AnswersOnce(an), x \notin Answers(an)
      PROVE  AnswersOnce(ao)
  <2>1. \A d \in ServerClients : \A j \in 1..Len(an[d]) : an[d][j] # x
    BY <1>5 DEF Answers, Queued
  <2>2. \A d \in ServerClients : \A j \in 1..Len(ao[d]) :
           \/ j \in 1..Len(an[d]) /\ ao[d][j] = an[d][j]
           \/ d = c /\ j = Len(an[c]) + 1 /\ ao[d][j] = x
    BY <1>4
  <2>3. ASSUME NEW d \in ServerClients, NEW e \in ServerClients, NEW j \in 1..Len(ao[d]),
               NEW k \in 1..Len(ao[e]), ao[d][j] = ao[e][k]
        PROVE  d = e /\ j = k
    <3>1. CASE j \in 1..Len(an[d]) /\ ao[d][j] = an[d][j] /\ k \in 1..Len(an[e]) /\ ao[e][k] = an[e][k]
      <4>1. an[d][j] = an[e][k]
        BY <2>3, <3>1
      <4>2. \A m \in 1..Len(an[d]), n \in 1..Len(an[e]) : an[d][m] = an[e][n] => d = e /\ m = n
        BY <1>5 DEF AnswersOnce
      <4> QED BY <3>1, <4>1, <4>2
    <3>2. CASE ao[d][j] = x \/ ao[e][k] = x
      BY <2>1, <2>2, <2>3, <3>2
    <3> QED BY <2>2, <3>1, <3>2
  <2> QED BY <2>3 DEF AnswersOnce
<1> QED BY <1>3, <1>5

LEMMA DividedFetch ==
    ASSUME NEW c, NEW pk, NEW qu, NEW ac, NEW ad, NEW an, NEW ao, NEW sl, NEW x,
           InPlaces(c, pk, qu, ac, an, sl),
           Queued(ac) = Queued(ad) \cup {x}, Once(ad), x \notin Queued(ad),
           Answers(ao) = Answers(an) \cup {x}, x \notin Answers(an) => AnswersOnce(ao)
    PROVE  InPlaces(c, pk, qu, ad, ao, sl)
<1>1. Divided(pk, qu, ad, ao, sl)
  BY DEF InPlaces, Divided, Disjoint
<1>2. Complete(c, pk[c], qu, ad, ao, sl)
  BY DEF InPlaces, Complete
<1> QED BY <1>1, <1>2 DEF InPlaces

LEMMA ServerSubmit ==
    ASSUME ServerInv, NEW c \in ServerClients, Server!Client_Submit(c)
    PROVE  ServerInv'
<1>0. /\ ServerTypes /\ srvSession = c
      /\ Len(srvQueue[c]) < ServerQueue /\ srvPackets[c] < ServerPackets
      /\ srvPackets' = [srvPackets EXCEPT ![c] = srvPackets[c] + 1]
      /\ srvQueue' = [srvQueue EXCEPT ![c] = Append(srvQueue[c], <<c, srvPackets[c] + 1>>)]
      /\ UNCHANGED <<srvRoot, srvTag, srvReady, srvSession, srvClient, srvAcks, srvSlot, srvPos,
                     srvFinished, srvWakeup, srvWoken, srvAnswered>>
  BY DEF ServerInv, Server!Client_Submit, Server!dispatch, Server!handler
<1>1. srvSignal' \in BOOLEAN
  BY DEF Server!Client_Submit
<1>2. /\ InPlaces(c, srvPackets, srvQueue[c], srvAcks[c], srvAnswered, srvSlot)
      /\ srvQueue[c] \in Seq(Server!Packets) /\ srvPackets[c] \in Nat
      /\ Len(srvAcks[c]) <= ServerQueue
  BY <1>0, ServerOpen, ServerSizes
<1>3. <<c, srvPackets[c] + 1>> \in Server!Packets
  BY <1>0, <1>2, ServerSizes DEF Server!Packets
<1> DEFINE x == <<c, srvPackets[c] + 1>>
           qv == Append(srvQueue[c], x)
<1>4. /\ Queued(qv) = Queued(srvQueue[c]) \cup {x}
      /\ Once(srvQueue[c]) /\ x \notin Queued(srvQueue[c]) => Once(qv)
      /\ qv \in Seq(Server!Packets) /\ Len(qv) = Len(srvQueue[c]) + 1 /\ Len(srvQueue[c]) \in Nat
  BY <1>2, <1>3, OnceAppend
<1>5. Once(srvQueue[c])
  BY <1>2 DEF InPlaces, Divided
<1> HIDE DEF qv
<1>7. /\ srvQueue' \in [ServerClients -> Seq(Server!Packets)] /\ srvQueue'[c] = qv
      /\ srvPackets' \in [ServerClients -> 0..ServerPackets] /\ srvPackets'[c] = srvPackets[c] + 1
      /\ \A d \in ServerClients : d # c => srvQueue'[d] = srvQueue[d] /\ srvPackets'[d] = srvPackets[d]
  <2>1. srvQueue' = [srvQueue EXCEPT ![c] = qv]
    BY <1>0 DEF qv
  <2>2. srvPackets[c] + 1 \in 0..ServerPackets
    BY <1>0, <1>2, ServerSizes
  <2>3. qv \in Seq(Server!Packets)
    BY <1>4
  <2>4. /\ srvQueue \in [ServerClients -> Seq(Server!Packets)]
        /\ srvPackets \in [ServerClients -> 0..ServerPackets]
    BY <1>0 DEF ServerTypes
  <2>5. srvQueue' \in [ServerClients -> Seq(Server!Packets)] /\ srvQueue'[c] = qv
    BY <2>1, <2>3, <2>4
  <2>6. srvPackets' \in [ServerClients -> 0..ServerPackets] /\ srvPackets'[c] = srvPackets[c] + 1
    BY <1>0, <2>2, <2>4
  <2>7. \A d \in ServerClients : d # c => srvQueue'[d] = srvQueue[d] /\ srvPackets'[d] = srvPackets[d]
    BY <1>0, <2>1, <2>4
  <2> QED BY <2>5, <2>6, <2>7
<1>8. Len(srvQueue'[c]) <= ServerQueue
  BY <1>0, <1>4, <1>7, ServerSizes
<1>9. InPlaces(c, srvPackets', srvQueue'[c], srvAcks'[c], srvAnswered', srvSlot')
  <2>1. ASSUME NEW pl, pl = srvPackets'
        PROVE  InPlaces(c, pl, qv, srvAcks[c], srvAnswered, srvSlot)
    <3>1. pl[c] = srvPackets[c] + 1 /\ \A d \in ServerClients : d # c => pl[d] = srvPackets[d]
      BY <1>7, <2>1
    <3> HIDE DEF x
    <3>2. x \notin Queued(srvQueue[c]) => Once(qv)
      BY <1>4, <1>5
    <3>3. Queued(qv) = Queued(srvQueue[c]) \cup {x}
      BY <1>4
    <3> QED BY <1>2, <3>1, <3>2, <3>3, DividedSubmit DEF x
  <2>2. InPlaces(c, srvPackets', qv, srvAcks[c], srvAnswered, srvSlot)
    BY <2>1
  <2> QED BY <1>0, <1>7, <2>2
<1>10. \A r \in 1..ServerSlots : srvSlot[r] # Server!Raw => srvSlot[r].session = 42
  BY DEF ServerInv, ServerSession
<1> HIDE DEF x
<1>11. /\ srvAcks \in [ServerClients -> Seq(Server!Packets)] /\ srvPos \in 0..(ServerSlots + 1)
       /\ srvAnswered \in [ServerClients -> Seq(Server!Packets)] /\ srvFinished \in BOOLEAN
       /\ srvSlot \in [1..ServerSlots -> Server!Server_Request] /\ srvWakeup \in BOOLEAN
       /\ srvWoken \in BOOLEAN
  BY <1>0 DEF ServerTypes
<1> QED BY <1>0, <1>1, <1>2, <1>7, <1>8, <1>9, <1>10, <1>11, ServerStream

LEMMA ServerFetch ==
    ASSUME ServerInv, NEW c \in ServerClients, Server!Client_Fetch(c)
    PROVE  ServerInv'
<1>0. /\ ServerTypes /\ srvSession = c
      /\ UNCHANGED <<srvRoot, srvTag, srvReady, srvSession, srvClient, srvQueue, srvSlot, srvPos,
                     srvFinished, srvWakeup, srvPackets>>
  BY DEF ServerInv, Server!Client_Fetch, Server!dispatch, Server!handler
<1>1. srvSignal' \in BOOLEAN /\ srvWoken' \in BOOLEAN
  BY <1>0 DEF Server!Client_Fetch, ServerTypes
<1>2. /\ InPlaces(c, srvPackets, srvQueue[c], srvAcks[c], srvAnswered, srvSlot)
      /\ srvAcks[c] \in Seq(Server!Packets) /\ srvAnswered[c] \in Seq(Server!Packets)
      /\ Len(srvQueue[c]) <= ServerQueue /\ Len(srvAcks[c]) <= ServerQueue
  BY <1>0, ServerOpen
<1>3. \A r \in 1..ServerSlots : srvSlot[r] # Server!Raw => srvSlot[r].session = 42
  BY DEF ServerInv, ServerSession
<1>4. /\ srvQueue \in [ServerClients -> Seq(Server!Packets)] /\ srvPos \in 0..(ServerSlots + 1)
      /\ srvPackets \in [ServerClients -> 0..ServerPackets] /\ srvFinished \in BOOLEAN
      /\ srvSlot \in [1..ServerSlots -> Server!Server_Request] /\ srvWakeup \in BOOLEAN
      /\ srvAcks \in [ServerClients -> Seq(Server!Packets)]
      /\ srvAnswered \in [ServerClients -> Seq(Server!Packets)]
  BY <1>0 DEF ServerTypes
<1>5. CASE srvAcks[c] = <<>>
  <2>1. UNCHANGED <<srvAcks, srvAnswered>>
    BY <1>5 DEF Server!Client_Fetch
  <2> QED BY <1>0, <1>1, <1>2, <1>3, <1>4, <2>1, ServerStream
<1>6. CASE srvAcks[c] # <<>>
  <2> DEFINE x == Head(srvAcks[c])
             ad == Tail(srvAcks[c])
             ao == Append(srvAnswered[c], x)
  <2>1. /\ srvAnswered' = [srvAnswered EXCEPT ![c] = ao] /\ srvAcks' = [srvAcks EXCEPT ![c] = ad]
    BY <1>6 DEF Server!Client_Fetch
  <2>2. /\ x \in Server!Packets /\ ad \in Seq(Server!Packets)
        /\ Len(ad) = Len(srvAcks[c]) - 1 /\ Len(srvAcks[c]) \in Nat
        /\ Queued(srvAcks[c]) = Queued(ad) \cup {x}
        /\ Once(srvAcks[c]) => Once(ad) /\ x \notin Queued(ad)
    BY <1>2, <1>6, OnceTail
  <2> HIDE DEF x, ad
  <2>3. ao \in Seq(Server!Packets)
    BY <1>2, <2>2, OnceAppend
  <2>4. Once(srvAcks[c]) /\ AnswersOnce(srvAnswered)
    BY <1>2 DEF InPlaces, Divided
  <2>5. ASSUME NEW an, an = srvAnswered'
        PROVE  InPlaces(c, srvPackets, srvQueue[c], ad, an, srvSlot)
    <3>1. an[c] = Append(srvAnswered[c], x) /\ \A d \in ServerClients : d # c => an[d] = srvAnswered[d]
      BY <1>4, <2>1, <2>5
    <3>2. /\ Answers(an) = Answers(srvAnswered) \cup {x}
          /\ AnswersOnce(srvAnswered) /\ x \notin Answers(srvAnswered) => AnswersOnce(an)
      <4>1. x \in Server!Packets /\ srvAnswered \in [ServerClients -> Seq(Server!Packets)]
        BY <1>4, <2>2
      <4> HIDE <2>5
      <4> QED BY <3>1, <4>1, AnswersAppend
    <3>3. Once(ad) /\ x \notin Queued(ad) /\ (x \notin Answers(srvAnswered) => AnswersOnce(an))
      BY <2>2, <2>4, <3>2
    <3>4. Queued(srvAcks[c]) = Queued(ad) \cup {x} /\ Answers(an) = Answers(srvAnswered) \cup {x}
      BY <2>2, <3>2
    <3>5. InPlaces(c, srvPackets, srvQueue[c], srvAcks[c], srvAnswered, srvSlot)
      BY <1>2
    <3> HIDE <2>5
    <3> QED BY <3>3, <3>4, <3>5, DividedFetch
  <2> HIDE DEF ao
  <2>6. /\ srvAcks' \in [ServerClients -> Seq(Server!Packets)] /\ srvAcks'[c] = ad
        /\ srvAnswered' \in [ServerClients -> Seq(Server!Packets)]
        /\ \A d \in ServerClients : d # c => srvAcks'[d] = srvAcks[d] /\ srvAnswered'[d] = srvAnswered[d]
    BY <1>4, <2>1, <2>2, <2>3
  <2>7. Len(srvAcks'[c]) <= ServerQueue
    BY <1>2, <2>2, <2>6, ServerSizes
  <2>8. InPlaces(c, srvPackets', srvQueue'[c], srvAcks'[c], srvAnswered', srvSlot')
    <3>1. InPlaces(c, srvPackets, srvQueue[c], ad, srvAnswered', srvSlot)
      BY <2>5
    <3> QED BY <1>0, <2>6, <3>1
  <2> QED BY <1>0, <1>1, <1>2, <1>3, <1>4, <2>6, <2>7, <2>8, ServerStream
<1> QED BY <1>5, <1>6

\* Event runs only while there is a session.
LEMMA ServerBusy ==
    ASSUME ServerInv, srvPos # 0
    PROVE  srvSession \in ServerClients
BY DEF ServerInv, ServerTypes, ServerSession
LEMMA ServerProcess ==
    ASSUME ServerInv, Server!Process
    PROVE  ServerInv'
<1> DEFINE c == srvSession
           p == srvPos
<1>0. /\ ServerTypes /\ p \in 1..ServerSlots /\ srvSlot[p].status = "Raw"
      /\ Server!process_request(p)
      /\ UNCHANGED <<srvRoot, srvTag, srvReady, srvSession, srvClient, srvAcks, srvSignal, srvWakeup,
                     srvWoken, srvPackets, srvAnswered>>
  BY DEF ServerInv, Server!Process, Server!dispatch
<1>1. srvFinished' \in BOOLEAN
  BY DEF Server!Process
<1>2. srvPos' \in 0..(ServerSlots + 1)
  BY <1>0, ServerSizes DEF Server!Process
<1>3. c \in ServerClients
  BY <1>0, ServerBusy, ServerSizes
<1>4. /\ InPlaces(c, srvPackets, srvQueue[c], srvAcks[c], srvAnswered, srvSlot)
      /\ srvQueue[c] \in Seq(Server!Packets) /\ srvTag = 42
      /\ Len(srvQueue[c]) <= ServerQueue /\ Len(srvAcks[c]) <= ServerQueue
  BY <1>3, ServerOpen
<1>5. \A r \in 1..ServerSlots : srvSlot[r] # Server!Raw => srvSlot[r].session = 42
  BY DEF ServerInv, ServerSession
<1>6. /\ srvQueue \in [ServerClients -> Seq(Server!Packets)] /\ srvWoken \in BOOLEAN
      /\ srvPackets \in [ServerClients -> 0..ServerPackets] /\ srvSignal \in BOOLEAN
      /\ srvSlot \in [1..ServerSlots -> Server!Server_Request] /\ srvWakeup \in BOOLEAN
      /\ srvAcks \in [ServerClients -> Seq(Server!Packets)]
      /\ srvAnswered \in [ServerClients -> Seq(Server!Packets)]
  BY <1>0 DEF ServerTypes
<1>7. CASE srvQueue[c] = <<>>
  <2>1. UNCHANGED <<srvQueue, srvSlot>>
    BY <1>0, <1>7 DEF Server!process_request
  <2> QED BY <1>0, <1>1, <1>2, <1>3, <1>4, <1>5, <1>6, <2>1, ServerStream
<1>8. CASE srvQueue[c] # <<>>
  <2> DEFINE x == Head(srvQueue[c])
             qv == Tail(srvQueue[c])
             rq == [status |-> "Pending", session |-> srvTag, packet |-> x]
  <2>1. srvSlot' = [srvSlot EXCEPT ![p] = rq] /\ srvQueue' = [srvQueue EXCEPT ![c] = qv]
    BY <1>0, <1>8 DEF Server!process_request
  <2>2. /\ x \in Server!Packets /\ qv \in Seq(Server!Packets)
        /\ Len(qv) = Len(srvQueue[c]) - 1 /\ Len(srvQueue[c]) \in Nat
        /\ Queued(srvQueue[c]) = Queued(qv) \cup {x}
        /\ Once(srvQueue[c]) => Once(qv) /\ x \notin Queued(qv)
    BY <1>4, <1>8, OnceTail
  <2> HIDE DEF x, qv
  <2>3. /\ rq \in Server!Server_Request /\ rq.packet = x /\ rq.session = 42 /\ rq # Server!Raw
    <3>1. rq.status # Server!Raw.status
      BY DEF Server!Raw
    <3>2. rq \in [status : {"Pending"}, session : {Server!NoTag, 42}, packet : Server!Packets]
      BY <1>4, <2>2
    <3> QED BY <1>4, <3>1, <3>2 DEF Server!Server_Request
  <2> HIDE DEF rq
  <2>4. srvSlot[p] = Server!Raw
    BY <1>0, <1>6, SlotTypes
  <2>5. /\ srvSlot' \in [1..ServerSlots -> Server!Server_Request] /\ srvSlot'[p] = rq
        /\ \A r \in 1..ServerSlots : r # p => srvSlot'[r] = srvSlot[r]
    BY <1>0, <1>6, <2>1, <2>3
  <2>6. \A r \in 1..ServerSlots : srvSlot'[r] # Server!Raw => srvSlot'[r].session = 42
    BY <1>5, <2>3, <2>5
  <2>7. /\ Taken(srvSlot') = Taken(srvSlot) \cup {x}
        /\ TakenOnce(srvSlot) /\ x \notin Taken(srvSlot) => TakenOnce(srvSlot')
    <3>1. ASSUME NEW sm, sm = srvSlot'
          PROVE  /\ Taken(sm) = Taken(srvSlot) \cup {x}
                 /\ TakenOnce(srvSlot) /\ x \notin Taken(srvSlot) => TakenOnce(sm)
      <4>1. /\ sm[p] # Server!Raw /\ sm[p].packet = x
            /\ \A r \in 1..ServerSlots : r # p => sm[r] = srvSlot[r]
        BY <2>3, <2>5, <3>1
      <4> QED BY <1>0, <2>4, <4>1, TakenPut
    <3> QED BY <3>1
  <2>8. Once(srvQueue[c]) /\ TakenOnce(srvSlot)
    BY <1>4 DEF InPlaces, Divided
  <2>9. InPlaces(c, srvPackets, qv, srvAcks[c], srvAnswered, srvSlot')
    <3>1. ASSUME NEW sm, sm = srvSlot'
          PROVE  InPlaces(c, srvPackets, qv, srvAcks[c], srvAnswered, sm)
      BY <1>4, <2>2, <2>7, <2>8, <3>1, DividedProcess
    <3> QED BY <3>1
  <2>10. /\ srvQueue' \in [ServerClients -> Seq(Server!Packets)] /\ srvQueue'[c] = qv
         /\ \A d \in ServerClients : d # c => srvQueue'[d] = srvQueue[d]
    BY <1>3, <1>6, <2>1, <2>2
  <2>11. Len(srvQueue'[c]) <= ServerQueue
    BY <1>4, <2>2, <2>10, ServerSizes
  <2>12. UNCHANGED <<srvPackets, srvAcks, srvAnswered>>
    BY <1>0
  <2>13. InPlaces(c, srvPackets', srvQueue'[c], srvAcks'[c], srvAnswered', srvSlot')
    BY <2>9, <2>10, <2>12
  <2> QED BY <1>0, <1>1, <1>2, <1>3, <1>4, <1>6, <2>5, <2>6, <2>10, <2>11, <2>13, ServerStream
<1> QED BY <1>7, <1>8
LEMMA ServerAcknowledge ==
    ASSUME ServerInv, Server!Acknowledge
    PROVE  ServerInv'
<1> DEFINE c == srvSession
           p == srvPos
           x == srvSlot[srvPos].packet
<1>0. /\ ServerTypes /\ p \in 1..ServerSlots /\ srvSlot[p].status = "Pending"
      /\ srvPos' = p + 1
      /\ UNCHANGED <<srvRoot, srvTag, srvReady, srvSession, srvClient, srvQueue, srvFinished, srvSignal,
                     srvWoken, srvPackets, srvAnswered>>
  BY DEF ServerInv, Server!Acknowledge, Server!dispatch
<1>1. srvWakeup' \in BOOLEAN
  BY <1>0 DEF Server!Acknowledge, Server!acknowledge, ServerTypes
<1>2. srvPos' \in 0..(ServerSlots + 1)
  BY <1>0, ServerSizes
<1>3. c \in ServerClients
  BY <1>0, ServerBusy, ServerSizes
<1>4. /\ InPlaces(c, srvPackets, srvQueue[c], srvAcks[c], srvAnswered, srvSlot)
      /\ srvAcks[c] \in Seq(Server!Packets)
      /\ Len(srvQueue[c]) <= ServerQueue /\ Len(srvAcks[c]) <= ServerQueue
  BY <1>3, ServerOpen
<1>5. \A r \in 1..ServerSlots : srvSlot[r] # Server!Raw => srvSlot[r].session = 42
  BY DEF ServerInv, ServerSession
<1>6. /\ srvQueue \in [ServerClients -> Seq(Server!Packets)] /\ srvWoken \in BOOLEAN
      /\ srvPackets \in [ServerClients -> 0..ServerPackets] /\ srvSignal \in BOOLEAN
      /\ srvSlot \in [1..ServerSlots -> Server!Server_Request] /\ srvFinished \in BOOLEAN
      /\ srvAcks \in [ServerClients -> Seq(Server!Packets)]
      /\ srvAnswered \in [ServerClients -> Seq(Server!Packets)]
  BY <1>0 DEF ServerTypes
<1>7. CASE UNCHANGED <<srvAcks, srvSlot>>
  BY <1>0, <1>1, <1>2, <1>3, <1>4, <1>5, <1>6, <1>7, ServerStream
<1>8. ASSUME Len(srvAcks[c]) < ServerQueue,
             srvAcks' = [srvAcks EXCEPT ![c] = Append(srvAcks[c], x)],
             srvSlot' = [srvSlot EXCEPT ![p] = Server!Raw]
      PROVE  ServerInv'
  <2> DEFINE ad == Append(srvAcks[c], x)
  <2>1. srvSlot[p] # Server!Raw /\ x \in Server!Packets
    <3>1. srvSlot[p] \in Server!Server_Request
      BY <1>0, <1>6
    <3> QED BY <1>0, <3>1, SlotTypes
  <2>2. /\ Queued(ad) = Queued(srvAcks[c]) \cup {x}
        /\ Once(srvAcks[c]) /\ x \notin Queued(srvAcks[c]) => Once(ad)
        /\ ad \in Seq(Server!Packets) /\ Len(ad) = Len(srvAcks[c]) + 1 /\ Len(srvAcks[c]) \in Nat
    BY <1>4, <2>1, OnceAppend
  <2>3. srvAcks' = [srvAcks EXCEPT ![c] = ad]
    BY <1>8
  <2> HIDE DEF ad
  <2>4. Server!Raw \in Server!Server_Request
    BY DEF Server!Server_Request
  <2>5. /\ srvSlot' \in [1..ServerSlots -> Server!Server_Request] /\ srvSlot'[p] = Server!Raw
        /\ \A r \in 1..ServerSlots : r # p => srvSlot'[r] = srvSlot[r]
    BY <1>0, <1>6, <1>8, <2>4
  <2>6. \A r \in 1..ServerSlots : srvSlot'[r] # Server!Raw => srvSlot'[r].session = 42
    BY <1>5, <2>5
  <2>7. ASSUME NEW sm, sm = srvSlot'
        PROVE  /\ Taken(srvSlot) = Taken(sm) \cup {x}
               /\ TakenOnce(srvSlot) => TakenOnce(sm) /\ x \notin Taken(sm)
    <3>1. sm[p] = Server!Raw /\ \A r \in 1..ServerSlots : r # p => sm[r] = srvSlot[r]
      BY <2>5, <2>7
    <3> QED BY <1>0, <2>1, <3>1, TakenGet
  <2>8. Once(srvAcks[c]) /\ TakenOnce(srvSlot)
    BY <1>4 DEF InPlaces, Divided
  <2>9. InPlaces(c, srvPackets, srvQueue[c], ad, srvAnswered, srvSlot')
    <3>1. ASSUME NEW sm, sm = srvSlot'
          PROVE  InPlaces(c, srvPackets, srvQueue[c], ad, srvAnswered, sm)
      <4>1. Taken(srvSlot) = Taken(sm) \cup {x} /\ TakenOnce(sm) /\ x \notin Taken(sm)
        BY <2>7, <2>8, <3>1
      <4> HIDE DEF x
      <4> QED BY <1>4, <2>2, <2>8, <4>1, DividedAcknowledge
    <3> QED BY <3>1
  <2>10. /\ srvAcks' \in [ServerClients -> Seq(Server!Packets)] /\ srvAcks'[c] = ad
         /\ \A d \in ServerClients : d # c => srvAcks'[d] = srvAcks[d]
    BY <1>3, <1>6, <2>2, <2>3
  <2>11. Len(srvAcks'[c]) <= ServerQueue
    BY <1>8, <2>2, <2>10, ServerSizes
  <2>12. UNCHANGED <<srvPackets, srvQueue, srvAnswered>>
    BY <1>0
  <2>13. InPlaces(c, srvPackets', srvQueue'[c], srvAcks'[c], srvAnswered', srvSlot')
    BY <2>9, <2>10, <2>12
  <2> QED BY <1>0, <1>1, <1>2, <1>3, <1>4, <1>6, <2>5, <2>6, <2>10, <2>11, <2>13, ServerStream
<1>9. \/ UNCHANGED <<srvAcks, srvSlot>>
      \/ /\ Len(srvAcks[c]) < ServerQueue
         /\ srvAcks' = [srvAcks EXCEPT ![c] = Append(srvAcks[c], x)]
         /\ srvSlot' = [srvSlot EXCEPT ![p] = Server!Raw]
  BY DEF Server!Acknowledge, Server!acknowledge
<1> QED BY <1>7, <1>8, <1>9

LEMMA ServerStep ==
    ASSUME ServerInv, [Server!Next]_server
    PROVE  ServerInv'
<1>0. /\ srvRoot \in BOOLEAN /\ srvFinished \in BOOLEAN /\ srvSignal \in BOOLEAN
      /\ srvWakeup \in BOOLEAN /\ srvWoken \in BOOLEAN /\ srvPos \in 0..(ServerSlots + 1)
      /\ srvSession # Server!None \/ (~srvSignal /\ srvPos = 0)
  BY DEF ServerInv, ServerTypes, ServerSession
<1>1. CASE UNCHANGED server
  <2>1. UNCHANGED <<srvTag, srvReady, srvSession, srvClient, srvQueue, srvAcks, srvSlot,
                    srvPackets, srvAnswered>>
        /\ UNCHANGED <<srvRoot, srvFinished, srvSignal, srvWakeup, srvWoken, srvPos>>
    BY <1>1 DEF server
  <2> QED BY <1>0, <2>1, ServerFrame
<1>2. CASE Server!announce
  <2>1. srvRoot' \in BOOLEAN
    BY <1>2 DEF Server!announce
  <2>2. UNCHANGED <<srvTag, srvReady, srvSession, srvClient, srvQueue, srvAcks, srvSlot,
                    srvPackets, srvAnswered>>
        /\ UNCHANGED <<srvFinished, srvSignal, srvWakeup, srvWoken, srvPos>>
    BY <1>2 DEF Server!announce, Server!streams, Server!handler
  <2> QED BY <1>0, <2>1, <2>2, ServerFrame
<1>3. CASE Server!Event
  <2>1. srvSession # Server!None /\ srvPos' \in 0..(ServerSlots + 1)
    BY <1>3, ServerSizes DEF Server!Event, ServerInv, ServerSession
  <2>2. srvFinished' \in BOOLEAN /\ srvSignal' \in BOOLEAN
    BY <1>3 DEF Server!Event
  <2>3. UNCHANGED <<srvTag, srvReady, srvSession, srvClient, srvQueue, srvAcks, srvSlot,
                    srvPackets, srvAnswered>>
        /\ UNCHANGED <<srvRoot, srvWakeup, srvWoken>>
    BY <1>3 DEF Server!Event, Server!dispatch, Server!streams
  <2> QED BY <1>0, <2>1, <2>2, <2>3, ServerFrame
<1>4. CASE Server!Event_End
  <2>1. srvPos # 0 /\ srvPos' \in 0..(ServerSlots + 1)
    BY <1>4, ServerSizes DEF Server!Event_End
  <2>2. srvSession # Server!None
    BY <2>1 DEF ServerInv, ServerSession
  <2>3. srvWakeup' \in BOOLEAN /\ srvWoken' \in BOOLEAN
    BY <1>0, <1>4 DEF Server!Event_End, Server!unblock_client
  <2>4. UNCHANGED <<srvTag, srvReady, srvSession, srvClient, srvQueue, srvAcks, srvSlot,
                    srvPackets, srvAnswered>>
        /\ UNCHANGED <<srvRoot, srvFinished, srvSignal>>
    BY <1>4 DEF Server!Event_End, Server!dispatch, Server!streams
  <2> QED BY <1>0, <2>1, <2>2, <2>3, <2>4, ServerFrame
<1>5. ASSUME NEW c \in ServerClients,
             \/ Server!create_session(c) \/ Server!close(c)
             \/ Server!Client_Submit(c) \/ Server!Client_Fetch(c)
      PROVE  ServerInv'
  BY <1>5, ServerCreate, ServerClose, ServerSubmit, ServerFetch
<1> QED BY <1>1, <1>2, <1>3, <1>4, <1>5, ServerProcess, ServerAcknowledge DEF Server!Next

LEMMA ServerInvariance == PartsSpec => []ServerInv
<1>1. PartsInit => ServerInv
  BY ServerInit DEF PartsInit
<1>2. ServerInv /\ [PartsNext]_all => ServerInv'
  BY ServerStep, PartsStep
<1> QED BY <1>1, <1>2, PTL DEF PartsSpec
\* The instances count alike.
LEMMA CountAlike ==
    ASSUME NEW S
    PROVE  Server!Cardinality(S) = Cardinality(S) /\ Aio!Cardinality(S) = Cardinality(S)
BY Zenon DEF Cardinality, Server!Cardinality, Aio!Cardinality

LEMMA EntriesOf ==
    ASSUME NEW kind, NEW f, NEW p, NEW z
    PROVE  z \in Server!Entries(kind, f, p) <=>
              \E c \in ServerClients : \E i \in DOMAIN f[c] : f[c][i] = p /\ z = <<kind, c, i>>
BY DEF Server!Entries

\* A packet divided among the places is in at most one of them.
LEMMA OnePlace ==
    ASSUME ServerInv, NEW p, NEW w \in Server!Places(p), NEW z \in Server!Places(p)
    PROVE  w = z
<1> DEFINE L == {r \in 1..ServerSlots : srvSlot[r] # Server!Raw /\ srvSlot[r].packet = p}
           InQueue(y, c, i) == i \in 1..Len(srvQueue[c]) /\ srvQueue[c][i] = p /\ y = <<"queue", c, i>>
           InAcks(y, c, i) == i \in 1..Len(srvAcks[c]) /\ srvAcks[c][i] = p /\ y = <<"acks", c, i>>
           InAnswered(y, c, i) ==
              i \in 1..Len(srvAnswered[c]) /\ srvAnswered[c][i] = p /\ y = <<"answered", c, i>>
           InSlot(y, r) == r \in L /\ y = <<"slot", Server!None, r>>
<1>0. ServerTypes /\ ServerSession /\ ServerPacketsKept
  BY DEF ServerInv
<1>1. \A c \in ServerClients :
         /\ DOMAIN srvQueue[c] = 1..Len(srvQueue[c]) /\ DOMAIN srvAcks[c] = 1..Len(srvAcks[c])
         /\ DOMAIN srvAnswered[c] = 1..Len(srvAnswered[c])
  BY <1>0 DEF ServerTypes
<1>2. ASSUME NEW y \in Server!Places(p)
      PROVE  \/ \E c \in ServerClients : \E i : InQueue(y, c, i)
             \/ \E c \in ServerClients : \E i : InAcks(y, c, i)
             \/ \E c \in ServerClients : \E i : InAnswered(y, c, i)
             \/ \E r : InSlot(y, r)
  <2>1. \/ y \in Server!Entries("queue", srvQueue, p) \/ y \in Server!Entries("acks", srvAcks, p)
        \/ y \in Server!Entries("answered", srvAnswered, p)
        \/ \E r \in L : y = <<"slot", Server!None, r>>
    BY <1>2 DEF Server!Places
  <2>2. \/ \E c \in ServerClients : \E i \in DOMAIN srvQueue[c] : srvQueue[c][i] = p /\ y = <<"queue", c, i>>
        \/ \E c \in ServerClients : \E i \in DOMAIN srvAcks[c] : srvAcks[c][i] = p /\ y = <<"acks", c, i>>
        \/ \E c \in ServerClients : \E i \in DOMAIN srvAnswered[c] :
              srvAnswered[c][i] = p /\ y = <<"answered", c, i>>
        \/ \E r \in L : y = <<"slot", Server!None, r>>
    BY <2>1, EntriesOf
  <2> QED BY <1>1, <2>2
\* Only one client has a stream, and its parts have nothing in common.
<1>3. \A c, d \in ServerClients : \A i, j :
         (i \in 1..Len(srvQueue[c]) \/ i \in 1..Len(srvAcks[c]))
            /\ (j \in 1..Len(srvQueue[d]) \/ j \in 1..Len(srvAcks[d])) => c = d
  <2>1. ASSUME NEW c \in ServerClients, NEW i, i \in 1..Len(srvQueue[c]) \/ i \in 1..Len(srvAcks[c])
        PROVE  srvSession = c
    <3>1. srvQueue[c] # <<>> \/ srvAcks[c] # <<>>
      BY <1>0, <2>1 DEF ServerTypes
    <3> QED BY <1>0, <3>1 DEF ServerSession
  <2> QED BY <2>1
<1>4. \A c \in ServerClients : Divided(srvPackets, srvQueue[c], srvAcks[c], srvAnswered, srvSlot)
  BY <1>0 DEF ServerPacketsKept
<1>5. \A c \in ServerClients : \A i :
         /\ i \in 1..Len(srvQueue[c]) /\ srvQueue[c][i] = p => p \in Queued(srvQueue[c])
         /\ i \in 1..Len(srvAcks[c]) /\ srvAcks[c][i] = p => p \in Queued(srvAcks[c])
         /\ i \in 1..Len(srvAnswered[c]) /\ srvAnswered[c][i] = p => p \in Answers(srvAnswered)
         /\ i \in L => p \in Taken(srvSlot)
  BY DEF Queued, Answers, Taken
<1>6. \A c \in ServerClients : \A i, j :
         /\ i \in 1..Len(srvQueue[c]) /\ srvQueue[c][i] = p /\ j \in 1..Len(srvQueue[c])
               /\ srvQueue[c][j] = p => i = j
         /\ i \in 1..Len(srvAcks[c]) /\ srvAcks[c][i] = p /\ j \in 1..Len(srvAcks[c])
               /\ srvAcks[c][j] = p => i = j
  BY <1>4 DEF Divided, Once
<1>7. \A c, d \in ServerClients : \A i, j :
         i \in 1..Len(srvAnswered[c]) /\ srvAnswered[c][i] = p /\ j \in 1..Len(srvAnswered[d])
            /\ srvAnswered[d][j] = p => c = d /\ i = j
  BY <1>4 DEF Divided, AnswersOnce
<1>8. ASSUME NEW q \in L, NEW r \in L
      PROVE  q = r
  <2>1. srvSlot[q] \in Server!Server_Request
    BY <1>0 DEF ServerTypes
  <2>2. srvSlot[q].packet \in Server!Packets
    BY <2>1, SlotTypes
  <2>3. PICK c \in ServerClients : TRUE
    BY <2>2 DEF Server!Packets
  <2>4. TakenOnce(srvSlot)
    BY <1>4, <2>3 DEF Divided
  <2> QED BY <2>4 DEF TakenOnce
<1>9. \A c \in ServerClients :
         /\ ~(p \in Queued(srvQueue[c]) /\ p \in Queued(srvAcks[c]))
         /\ ~(p \in Queued(srvQueue[c]) /\ p \in Answers(srvAnswered))
         /\ ~(p \in Queued(srvQueue[c]) /\ p \in Taken(srvSlot))
         /\ ~(p \in Queued(srvAcks[c]) /\ p \in Answers(srvAnswered))
         /\ ~(p \in Queued(srvAcks[c]) /\ p \in Taken(srvSlot))
         /\ ~(p \in Answers(srvAnswered) /\ p \in Taken(srvSlot))
  BY <1>4 DEF Divided, Disjoint
<1> HIDE DEF L
<1>10. ASSUME NEW c \in ServerClients, NEW i, InQueue(w, c, i)
       PROVE  w = z
  <2>1. /\ ~\E d \in ServerClients : \E j : InAcks(z, d, j)
        /\ ~\E d \in ServerClients : \E j : InAnswered(z, d, j)
        /\ ~\E r : InSlot(z, r)
    BY <1>3, <1>5, <1>9, <1>10
  <2>2. PICK d \in ServerClients : \E j : InQueue(z, d, j)
    BY <1>2, <2>1
  <2>3. PICK j : InQueue(z, d, j)
    BY <2>2
  <2> QED BY <1>3, <1>6, <1>10, <2>3
<1>11. ASSUME NEW c \in ServerClients, NEW i, InAcks(w, c, i)
       PROVE  w = z
  <2>1. /\ ~\E d \in ServerClients : \E j : InQueue(z, d, j)
        /\ ~\E d \in ServerClients : \E j : InAnswered(z, d, j)
        /\ ~\E r : InSlot(z, r)
    BY <1>3, <1>5, <1>9, <1>11
  <2>2. PICK d \in ServerClients : \E j : InAcks(z, d, j)
    BY <1>2, <2>1
  <2>3. PICK j : InAcks(z, d, j)
    BY <2>2
  <2> QED BY <1>3, <1>6, <1>11, <2>3
<1>12. ASSUME NEW c \in ServerClients, NEW i, InAnswered(w, c, i)
       PROVE  w = z
  <2>1. /\ ~\E d \in ServerClients : \E j : InQueue(z, d, j)
        /\ ~\E d \in ServerClients : \E j : InAcks(z, d, j)
        /\ ~\E r : InSlot(z, r)
    BY <1>5, <1>9, <1>12
  <2>2. PICK d \in ServerClients : \E j : InAnswered(z, d, j)
    BY <1>2, <2>1
  <2>3. PICK j : InAnswered(z, d, j)
    BY <2>2
  <2> QED BY <1>7, <1>12, <2>3
<1>13. ASSUME NEW q, InSlot(w, q)
       PROVE  w = z
  <2>1. CASE \E r : InSlot(z, r)
    <3>1. PICK r : InSlot(z, r)
      BY <2>1
    <3>2. q = r
      BY <1>8, <1>13, <3>1
    <3> QED BY <1>13, <3>1, <3>2
  <2>2. CASE ~\E r : InSlot(z, r)
    BY <1>2, <1>5, <1>9, <1>13, <2>2
  <2> QED BY <2>1, <2>2
<1> QED BY <1>2, <1>10, <1>11, <1>12, <1>13

LEMMA ServerKeeps ==
    ASSUME ServerInv
    PROVE  Server!PacketsKept
<1>1. ASSUME NEW c \in ServerClients, NEW n \in 1..srvPackets[c]
      PROVE  Server!Cardinality(Server!Places(<<c, n>>)) <= 1
  <2> DEFINE P == Server!Places(<<c, n>>)
  <2>1. \A w, z \in P : w = z
    BY OnePlace
  <2> HIDE DEF P
  <2>2. CASE P = {}
    <3>1. Cardinality(P) = 0
      BY <2>2, FS_EmptySet
    <3> QED BY <3>1, CountAlike DEF P
  <2>3. CASE P # {}
    <3>1. PICK z \in P : TRUE
      BY <2>3
    <3>2. P = {z}
      BY <2>1, <3>1
    <3>3. Cardinality(P) = 1
      BY <3>2, FS_Singleton
    <3> QED BY <3>3, CountAlike DEF P
  <2> QED BY <2>2, <2>3
<1>2. ASSUME NEW c \in ServerClients, srvClient[c] = "open"
      PROVE  /\ srvSession = c /\ srvReady
             /\ \A n \in 1..srvPackets[c] : Server!Places(<<c, n>>) # {}
             /\ \A p \in Server!Range(srvAcks[c]) \cup Server!Range(srvAnswered[c]) :
                   p[1] = c \/ srvClient[p[1]] = "closed"
  <2>1. srvSession = c
    BY <1>2 DEF ServerInv, ServerSession
  <2>2. srvReady
    BY <2>1, ServerSizes DEF ServerInv, ServerSession
  <2>3. InPlaces(c, srvPackets, srvQueue[c], srvAcks[c], srvAnswered, srvSlot)
    BY <2>1, ServerOpen
  <2>4. \A d \in ServerClients :
           /\ DOMAIN srvQueue[d] = 1..Len(srvQueue[d]) /\ DOMAIN srvAcks[d] = 1..Len(srvAcks[d])
           /\ DOMAIN srvAnswered[d] = 1..Len(srvAnswered[d])
    BY DEF ServerInv, ServerTypes
  <2>5. ASSUME NEW n \in 1..srvPackets[c]
        PROVE  Server!Places(<<c, n>>) # {}
    <3> DEFINE p == <<c, n>>
    <3>1. p \in Queued(srvQueue[c]) \/ p \in Queued(srvAcks[c]) \/ p \in Answers(srvAnswered) \/ p \in Taken(srvSlot)
      BY <2>3 DEF InPlaces, Complete
    <3> HIDE DEF p
    <3>2. CASE p \in Queued(srvQueue[c])
      <4>1. PICK i \in DOMAIN srvQueue[c] : srvQueue[c][i] = p
        BY <2>4, <3>2 DEF Queued
      <4>2. <<"queue", c, i>> \in Server!Entries("queue", srvQueue, p)
        BY <4>1, EntriesOf
      <4> QED BY <4>2 DEF Server!Places, p
    <3>3. CASE p \in Queued(srvAcks[c])
      <4>1. PICK i \in DOMAIN srvAcks[c] : srvAcks[c][i] = p
        BY <2>4, <3>3 DEF Queued
      <4>2. <<"acks", c, i>> \in Server!Entries("acks", srvAcks, p)
        BY <4>1, EntriesOf
      <4> QED BY <4>2 DEF Server!Places, p
    <3>4. CASE p \in Answers(srvAnswered)
      <4>1. PICK d \in ServerClients : p \in Queued(srvAnswered[d])
        BY <3>4 DEF Answers
      <4>2. PICK i \in DOMAIN srvAnswered[d] : srvAnswered[d][i] = p
        BY <2>4, <4>1 DEF Queued
      <4>3. <<"answered", d, i>> \in Server!Entries("answered", srvAnswered, p)
        BY <4>2, EntriesOf
      <4> QED BY <4>3 DEF Server!Places, p
    <3>5. CASE p \in Taken(srvSlot)
      <4>1. PICK r \in 1..ServerSlots : srvSlot[r] # Server!Raw /\ srvSlot[r].packet = p
        BY <3>5 DEF Taken
      <4>2. <<"slot", Server!None, r>> \in Server!Places(p)
        BY <4>1 DEF Server!Places
      <4> QED BY <4>2 DEF p
    <3> QED BY <3>1, <3>2, <3>3, <3>4, <3>5
  <2>6. ASSUME NEW p \in Server!Range(srvAcks[c]) \cup Server!Range(srvAnswered[c])
        PROVE  p[1] = c \/ srvClient[p[1]] = "closed"
    <3>1. p \in Queued(srvAcks[c]) \/ p \in Answers(srvAnswered)
      BY <2>4, <2>6 DEF Queued, Answers, Server!Range
    <3>2. PICK d \in ServerClients : \E m \in 1..srvPackets[d] : p = <<d, m>>
      BY <2>3, <3>1 DEF InPlaces, Divided, Submitted
    <3>3. srvClient[d] \in {"new", "open", "denied", "closed"} /\ srvPackets[d] # 0
      BY <3>2 DEF ServerInv, ServerTypes
    <3>4. srvClient[d] = "closed" \/ d = c
      BY <2>1, <3>3 DEF ServerInv, ServerSession
    <3> QED BY <3>2, <3>4
  <2> QED BY <2>1, <2>2, <2>5, <2>6
<1> QED BY <1>1, <1>2, Zenon DEF Server!PacketsKept

\* A behaviour of the parts is one of the client.
LEMMA PartsClient == PartsSpec => Spec
<1>1. PartsInit => Init
  BY DEF PartsInit
<1>2. [PartsNext]_all => [Next]_vars
  BY PartsStep
<1> QED BY <1>1, <1>2, PTL DEF PartsSpec, Spec

\* Requests and packets are kept on both sides of a block session on Genode,
\* for any number of clients, sessions, requests and queue entries: a pending
\* request is in one place from which it can be finished, a buffer holds just
\* the packets of its requests, and at the server each packet that was
\* submitted is in one of its queues, in one request variable or answered, also
\* after clients have left with packets unanswered.  Excepted are the requests
\* whose identifier or connection was confused by the application, as
\* PendingSomewhere and BufferComesBack say (update_response_queue, release;
\* process_request, acknowledge).
THEOREM KeptOnBothSides == PartsSpec => []PacketsKept
<1>1. ServerInv => Server!PacketsKept
  BY ServerKeeps
<1>2. PartsSpec => []PendingSomewhere
  BY PartsClient, InOnePlace, PTL
<1>3. PartsSpec => []BufferComesBack
  BY PartsClient, BufferIsKept, PTL
<1>4. PendingSomewhere /\ BufferComesBack /\ Server!PacketsKept => PacketsKept
  BY DEF PacketsKept
<1> QED BY <1>1, <1>2, <1>3, <1>4, ServerInvariance, PTL

\* Each variable of the three parts keeps its type: queues stay within their
\* sizes whoever fills them, and on Linux each heap cell that is allocated has
\* exactly one request (block_client.c, block_server.cc, block_client.cc).
THEOREM PartsTypes == PartsSpec => []TypesOK
<1>1. ServerInv => Server!TypeOK
  <2> SUFFICES ASSUME ServerTypes
               PROVE  Server!TypeOK
    BY DEF ServerInv
  <2>1. \A c \in ServerClients :
          /\ srvQueue[c] \in Seq(Server!Packets) /\ Len(srvQueue[c]) <= ServerQueue
          /\ srvAcks[c] \in Seq(Server!Packets) /\ Len(srvAcks[c]) <= ServerQueue
          /\ srvAnswered[c] \in Seq(Server!Packets)
    BY DEF ServerTypes
  <2> QED BY <2>1 DEF ServerTypes, Server!TypeOK
<1>2. AioInv => Aio!TypeOK
  <2> SUFFICES ASSUME AioInv
               PROVE  Aio!TypeOK
    OBVIOUS
  <2>1. ASSUME NEW h \in AioCells
        PROVE  Aio!Cardinality({r \in AioRequests : aioRequest[r].aio_cb = h}) =
                  IF aioCell[h].live THEN 1 ELSE 0
    <3> DEFINE R == {r \in AioRequests : aioRequest[r].aio_cb = h}
    <3>1. aioCell[h].live <=> R # {}
      BY DEF AioInv, AioOwned
    <3>2. \A q, r \in R : q = r
      BY AioNone DEF AioInv, AioOwned
    <3> HIDE DEF R
    <3>0. Aio!Cardinality(R) = Cardinality(R)
      BY CountAlike
    <3>3. CASE R = {}
      <4>1. Cardinality(R) = 0
        BY <3>3, FS_EmptySet
      <4> QED BY <3>0, <3>1, <3>3, <4>1 DEF R
    <3>4. CASE R # {}
      <4>1. PICK r \in R : TRUE
        BY <3>4
      <4>2. R = {r}
        BY <3>2, <4>1
      <4>3. Cardinality(R) = 1
        BY <4>2, FS_Singleton
      <4> QED BY <3>0, <3>1, <3>4, <4>3 DEF R
    <3> QED BY <3>3, <3>4
  <2>2. AioTypes /\ \A r \in AioRequests : aioRequest[r].aio_cb = Aio!None <=> aioRequest[r].status = "raw"
    BY DEF AioInv, AioOwned
  <2>3. aioCell \in [AioCells ->
                        [live: BOOLEAN, fd: AioFds \cup {Aio!None}, of: AioFiles \cup {Aio!None},
                         op: {"idle", "queued", "taken", "running", "done", "failed",
                              "cancelled"},
                         at: AioFiles \cup {Aio!None}, loose: BOOLEAN]]
    BY <2>2 DEF AioTypes, AioCell, AioOps
  <2> QED BY <2>1, <2>2, <2>3, Zenon DEF AioTypes, Aio!TypeOK
<1>3. PartsSpec => []TypeOK
  BY PartsClient, ClientTypes, PTL
<1>4. TypeOK /\ Server!TypeOK /\ Aio!TypeOK => TypesOK
  BY DEF TypesOK
<1> QED BY <1>1, <1>2, <1>3, <1>4, ServerInvariance, AioInvariance, PTL
=============================================================================
