-------------------------- MODULE LifeTimerProofs --------------------------
(***************************************************************************)
(* Proofs about Lifecycle, for any number of components, with any of them  *)
(* crashing and any system call of the start failing, and about the        *)
(* timers, for any durations and units.                                    *)
(*                                                                         *)
(* OwnPidOnly and NoneAbandoned are not inductive: Start_Components writes *)
(* to the entry it is at, so that this entry, and those after it, have to  *)
(* be known to be untouched (NotYetStarted).                               *)
(*                                                                         *)
(* The timers implement TimerService step by step.  LinuxTimer relates the *)
(* expiry of the timerfd to the time that was asked for, GenodeTimer the   *)
(* scheduled microseconds, and the clock, to the time that has passed.     *)
(***************************************************************************)
EXTENDS MCLive, TLAPS

\* Entries the start has not come to have no process, descriptor or report.
NotYetStarted ==
    \A c \in Comps : c >= index => proc[c] = "none" /\ ~fd[c] /\ report[c] = NoStatus

\* Only a process that has been started can have vacated or been signalled.
NoneWithoutProcess ==
    \A c \in Comps : proc[c] = "none" => ~pid[c] /\ code[c] = Running /\ ~signalled[c]

IInv == TypeOK /\ NotYetStarted /\ NoneWithoutProcess /\ OwnPidOnly /\ NoneAbandoned

\* What a step may never do: the status of a component, once reported, is not
\* reported again (Event_Loop), and a process that has ended does not come
\* back (waitpid reaps it at most once).
ReportedOnce ==
    [][\A c \in Comps : /\ report[c] # NoStatus => report'[c] = report[c]
                        /\ proc[c] = "reaped" => proc'[c] = "reaped"]_vars

-----------------------------------------------------------------------------
\* The constants of a status differ, and Waitpid yields a status.
LEMMA Constants ==
    /\ N \in Nat /\ Comps \subseteq Nat /\ NoStatus \notin Statuses
    /\ Outcomes \subseteq BOOLEAN /\ Running \notin Codes
<1>1. Outcomes \subseteq BOOLEAN
    BY MayFailAssumption DEF Outcomes
<1> QED BY <1>1, NAssumption DEF Comps, NoStatus, Statuses, Success, Failure, Running, Codes

\* No component is there in the beginning.
LEMMA InitIInv == Init => IInv
BY Constants
DEF Init, IInv, TypeOK, NotYetStarted, NoneWithoutProcess, OwnPidOnly, NoneAbandoned,
    ProcStates, Alive, User, Comps

\* A component is started in an entry nobody has used, with a descriptor if
\* and only if there is a process (Start_Components).
LEMMA StartIInv ==
    ASSUME IInv, NEW named \in BOOLEAN, NEW pair \in BOOLEAN, NEW add \in BOOLEAN,
           NEW fork \in BOOLEAN, Start_Component(named, pair, add, fork)
    PROVE  IInv'
<1> DEFINE started == named /\ pair /\ fork
<1>1. /\ index \in Comps
      /\ index' \in {index + 1, N + 1}
      /\ fd' = [fd EXCEPT ![index] = started]
      /\ watched' = [watched EXCEPT ![index] = named /\ pair /\ add]
      /\ pid' = [pid EXCEPT ![index] = started]
      /\ proc' = [proc EXCEPT ![index] = IF started THEN "loading" ELSE @]
      /\ UNCHANGED <<code, signalled, report>>
    BY DEF Start_Component
<1>2. /\ started \in BOOLEAN /\ (named /\ pair /\ add) \in BOOLEAN
      /\ proc[index] = "none" /\ report[index] = NoStatus
    BY <1>1, Constants DEF IInv, NotYetStarted
<1> HIDE DEF started
<1>3. TypeOK'
    BY <1>1, <1>2, NAssumption DEF IInv, TypeOK, ProcStates, Comps
<1>4. ASSUME NEW c \in Comps
      PROVE  /\ c >= index' => proc'[c] = "none" /\ ~fd'[c] /\ report'[c] = NoStatus
             /\ proc'[c] = "none" => ~pid'[c] /\ code'[c] = Running /\ ~signalled'[c]
             /\ fd'[c] => pid'[c] /\ proc'[c] # "none" /\ report'[c] = NoStatus
             /\ proc'[c] # "none" /\ ~fd'[c] => ~Alive(c)'
    <2>1. CASE c = index
        <3>1. fd'[c] = started /\ pid'[c] = started /\ ~(c >= index')
              /\ proc'[c] = IF started THEN "loading" ELSE "none"
            BY <1>1, <1>2, <2>1, Constants DEF IInv, TypeOK, Comps
        <3> QED BY <3>1, <1>1, <1>2, <2>1 DEF IInv, NoneWithoutProcess
    <2>2. CASE c # index
        <3>1. fd'[c] = fd[c] /\ pid'[c] = pid[c] /\ proc'[c] = proc[c]
            BY <1>1, <2>2 DEF IInv, TypeOK
        <3>2. c >= index' => c >= index
            BY <1>1, Constants DEF Comps
        <3> QED BY <3>1, <3>2, <1>1
            DEF IInv, NotYetStarted, NoneWithoutProcess, OwnPidOnly, NoneAbandoned, Alive, User
    <2> QED BY <2>1, <2>2
<1> QED BY <1>3, <1>4
    DEF IInv, NotYetStarted, NoneWithoutProcess, OwnPidOnly, NoneAbandoned

\* Steps in which no entry of the broker's table changes, and a process only
\* goes on: one that has ended stays so, one that is there does not vanish.
LEMMA ProcessIInv ==
    ASSUME IInv, UNCHANGED <<index, fd, watched, pid, report>>,
           proc' \in [Comps -> ProcStates], code' \in [Comps -> Codes \cup {Running}],
           signalled' \in [Comps -> BOOLEAN],
           \A c \in Comps :
              /\ proc[c] = "none" <=> proc'[c] = "none"
              /\ ~Alive(c) => ~Alive(c)'
              /\ proc[c] = "none" => code'[c] = code[c] /\ signalled'[c] = signalled[c]
    PROVE  IInv'
<1>1. TypeOK'
    BY DEF IInv, TypeOK
<1> QED BY <1>1
    DEF IInv, NotYetStarted, NoneWithoutProcess, OwnPidOnly, NoneAbandoned

\* The process of c goes from one state to another.
LEMMA MoveIInv ==
    ASSUME IInv, NEW c \in Comps, NEW p \in ProcStates \ {"none"},
           proc' = [proc EXCEPT ![c] = p], proc[c] # "none",
           p \in {"closed", "zombie", "reaped"} \/ Alive(c),
           UNCHANGED <<index, fd, watched, pid, report>>,
           NEW k \in Codes \cup {Running}, code' = [code EXCEPT ![c] = k],
           NEW g \in BOOLEAN, signalled' = [signalled EXCEPT ![c] = g]
    PROVE  IInv'
<1>1. /\ proc' \in [Comps -> ProcStates] /\ code' \in [Comps -> Codes \cup {Running}]
      /\ signalled' \in [Comps -> BOOLEAN]
    BY DEF IInv, TypeOK
<1>2. ASSUME NEW d \in Comps
      PROVE  /\ proc[d] = "none" <=> proc'[d] = "none"
             /\ ~Alive(d) => ~Alive(d)'
             /\ proc[d] = "none" => code'[d] = code[d] /\ signalled'[d] = signalled[d]
    <2>1. CASE d = c
        <3>1. proc'[d] = p
            BY <2>1 DEF IInv, TypeOK
        <3> QED BY <3>1, <2>1 DEF Alive, User
    <2>2. CASE d # c
        <3>1. proc'[d] = proc[d] /\ code'[d] = code[d] /\ signalled'[d] = signalled[d]
            BY <2>2 DEF IInv, TypeOK
        <3> QED BY <3>1 DEF Alive, User
    <2> QED BY <2>1, <2>2
<1> QED BY <1>1, <1>2, ProcessIInv

\* The hang-up is handled of a process that has ended; its descriptor and its
\* Pid are given up together (Event_Loop).
LEMMA Hang_UpIInv ==
    ASSUME IInv, NEW c \in Comps, Hang_Up(c)
    PROVE  IInv'
<1>1. PICK s \in Waitpid(c) : report' = [report EXCEPT ![c] = s]
    BY DEF Hang_Up
<1>2. /\ fd[c] /\ proc[c] \in {"closed", "zombie"}
      /\ proc' = [proc EXCEPT ![c] = IF @ = "zombie" THEN "reaped" ELSE @]
      /\ fd' = [fd EXCEPT ![c] = FALSE]
      /\ watched' = [watched EXCEPT ![c] = FALSE]
      /\ pid' = [pid EXCEPT ![c] = FALSE]
      /\ UNCHANGED <<index, code, signalled>>
    BY DEF Hang_Up, HungUp
<1>3. s \in Statuses \cup {NoStatus}
    BY <1>1 DEF Waitpid, IInv, TypeOK, Statuses, Codes, Success, Failure, Running, NoStatus
<1>4. proc'[c] \in {"closed", "reaped"} /\ ~fd'[c] /\ ~pid'[c]
    BY <1>2 DEF IInv, TypeOK
<1>5. TypeOK'
    BY <1>1, <1>2, <1>3 DEF IInv, TypeOK, ProcStates
<1>6. ASSUME NEW d \in Comps
      PROVE  /\ d >= index' => proc'[d] = "none" /\ ~fd'[d] /\ report'[d] = NoStatus
             /\ proc'[d] = "none" => ~pid'[d] /\ code'[d] = Running /\ ~signalled'[d]
             /\ fd'[d] => pid'[d] /\ proc'[d] # "none" /\ report'[d] = NoStatus
             /\ proc'[d] # "none" /\ ~fd'[d] => ~Alive(d)'
    <2>1. CASE d = c
        BY <2>1, <1>2, <1>4 DEF IInv, NotYetStarted, Alive, User
    <2>2. CASE d # c
        <3>1. /\ proc'[d] = proc[d] /\ fd'[d] = fd[d] /\ pid'[d] = pid[d]
              /\ report'[d] = report[d]
            BY <2>2, <1>1, <1>2 DEF IInv, TypeOK
        <3> QED BY <3>1, <1>2
            DEF IInv, NotYetStarted, NoneWithoutProcess, OwnPidOnly, NoneAbandoned, Alive, User
    <2> QED BY <2>1, <2>2
<1> QED BY <1>5, <1>6
    DEF IInv, NotYetStarted, NoneWithoutProcess, OwnPidOnly, NoneAbandoned

\* Every step of the broker, the components and the kernel keeps the invariant.
LEMMA NextIInv == IInv /\ [Next]_vars => IInv'
<1> SUFFICES ASSUME IInv, [Next]_vars
             PROVE  IInv'
    OBVIOUS
<1>1. CASE Start_Components
    BY <1>1, Constants, StartIInv DEF Start_Components
<1>2. ASSUME NEW c \in Comps, NEW ok \in Outcomes, Load(c, ok)
      PROVE  IInv'
    <2>1. code' = [code EXCEPT ![c] = IF ok THEN code[c] ELSE Failure]
          /\ signalled' = [signalled EXCEPT ![c] = signalled[c]]
        BY <1>2 DEF Load, IInv, TypeOK
    <2>2. (IF ok THEN code[c] ELSE Failure) \in Codes \cup {Running} /\ signalled[c] \in BOOLEAN
        BY DEF IInv, TypeOK, Codes
    <2> QED BY <1>2, <2>1, <2>2, MoveIInv DEF Load, ProcStates, Alive
<1>3. ASSUME NEW c \in Comps, NEW status \in Codes, Vacate(c, status)
      PROVE  IInv'
    <2>1. proc' = [proc EXCEPT ![c] = proc[c]] /\ signalled' = [signalled EXCEPT ![c] = signalled[c]]
          /\ proc[c] \in ProcStates \ {"none"} /\ signalled[c] \in BOOLEAN
        BY <1>3 DEF Vacate, User, IInv, TypeOK
    <2> QED BY <1>3, <2>1, MoveIInv DEF Vacate, Alive
<1>4. ASSUME NEW c \in Comps,
             Handler_Return(c) \/ Event_Handler(c) \/ Destruct_Return(c) \/ Become_Zombie(c)
      PROVE  IInv'
    <2>1. /\ code' = [code EXCEPT ![c] = code[c]] /\ code[c] \in Codes \cup {Running}
          /\ signalled' = [signalled EXCEPT ![c] = signalled[c]] /\ signalled[c] \in BOOLEAN
          /\ UNCHANGED <<index, fd, watched, pid, report>>
        BY <1>4 DEF Handler_Return, Event_Handler, Destruct_Return, Become_Zombie, IInv, TypeOK
    <2>2. \E p \in ProcStates \ {"none"} :
             /\ proc' = [proc EXCEPT ![c] = p] /\ proc[c] # "none"
             /\ p \in {"closed", "zombie", "reaped"} \/ Alive(c)
        BY <1>4 DEF Handler_Return, Event_Handler, Destruct_Return, Become_Zombie, Alive, User,
                    ProcStates
    <2> QED BY <2>1, <2>2, MoveIInv
<1>5. ASSUME NEW c \in Comps, Crash(c)
      PROVE  IInv'
    <2>1. code' = [code EXCEPT ![c] = code[c]] /\ code[c] \in Codes \cup {Running}
          /\ proc[c] # "none"
        BY <1>5 DEF Crash, Alive, User, IInv, TypeOK
    <2> QED BY <1>5, <2>1, MoveIInv DEF Crash, ProcStates
<1>6. CASE UNCHANGED vars
    BY <1>6 DEF vars, IInv, TypeOK, NotYetStarted, NoneWithoutProcess, OwnPidOnly,
                NoneAbandoned, Alive, User
<1> QED BY <1>1, <1>2, <1>3, <1>4, <1>5, <1>6, Hang_UpIInv DEF Next

-----------------------------------------------------------------------------
\* The inductive invariant: the broker's table and the processes agree.
THEOREM LifeInvariance == Spec => []IInv
BY InitIInv, NextIInv, PTL DEF Spec

\* Every variable of the broker's table and of the processes keeps its type.
THEOREM LifeTypes == Spec => []TypeOK
<1>1. IInv => TypeOK
    BY DEF IInv
<1> QED BY <1>1, LifeInvariance, PTL

\* The broker never waits for the process of another component (gneiss_waitpid
\* with the Pid of a valid entry).
THEOREM OwnPid == Spec => []OwnPidOnly
<1>1. IInv => OwnPidOnly
    BY DEF IInv
<1> QED BY <1>1, LifeInvariance, PTL

\* The broker never gives up a component that still runs (Event_Loop,
\* Start_Components).
THEOREM NoneIsAbandoned == Spec => []NoneAbandoned
<1>1. IInv => NoneAbandoned
    BY DEF IInv
<1> QED BY <1>1, LifeInvariance, PTL

\* No component is reported twice, and no process reaped twice (Event_Loop).
THEOREM OneReport == Spec => ReportedOnce
<1>1. ASSUME IInv, [Next]_vars, NEW c \in Comps
      PROVE  /\ report[c] # NoStatus => report'[c] = report[c]
             /\ proc[c] = "reaped" => proc'[c] = "reaped"
    <2>1. CASE Start_Components
        <3>1. PICK named, pair, add, fork \in Outcomes : Start_Component(named, pair, add, fork)
            BY <2>1 DEF Start_Components
        <3>2. c = index => proc[c] = "none" /\ report[c] = NoStatus
            BY <1>1, <3>1, Constants DEF Start_Component, IInv, NotYetStarted
        <3>3. c # index => proc'[c] = proc[c]
            BY <1>1, <3>1 DEF Start_Component, IInv, TypeOK
        <3> QED BY <3>1, <3>2, <3>3 DEF Start_Component
    <2>2. ASSUME NEW d \in Comps, Hang_Up(d)
          PROVE  /\ report[c] # NoStatus => report'[c] = report[c]
                 /\ proc[c] = "reaped" => proc'[c] = "reaped"
        <3>1. d = c => fd[c] /\ proc[c] # "reaped"
            BY <2>2 DEF Hang_Up, HungUp
        <3>2. d # c => report'[c] = report[c] /\ proc'[c] = proc[c]
            BY <1>1, <2>2 DEF Hang_Up, IInv, TypeOK
        <3> QED BY <1>1, <3>1, <3>2 DEF IInv, OwnPidOnly
    <2>3. ASSUME NEW d \in Comps,
                 \/ \E ok \in Outcomes : Load(d, ok)
                 \/ \E status \in Codes : Vacate(d, status)
                 \/ Handler_Return(d) \/ Event_Handler(d) \/ Destruct_Return(d)
                 \/ Crash(d) \/ Become_Zombie(d)
          PROVE  /\ report[c] # NoStatus => report'[c] = report[c]
                 /\ proc[c] = "reaped" => proc'[c] = "reaped"
        <3>1. UNCHANGED report
            BY <2>3 DEF Load, Vacate, Handler_Return, Event_Handler, Destruct_Return, Crash,
                        Become_Zombie
        <3>2. d = c => proc[c] # "reaped"
            BY <2>3 DEF Load, Vacate, Handler_Return, Event_Handler, Destruct_Return, Crash,
                        Become_Zombie, User, Alive
        <3>3. d # c => proc'[c] = proc[c]
            BY <1>1, <2>3 DEF Load, Vacate, Handler_Return, Event_Handler, Destruct_Return, Crash,
                        Become_Zombie, IInv, TypeOK
        <3> QED BY <3>1, <3>2, <3>3
    <2>4. CASE UNCHANGED vars
        BY <2>4 DEF vars
    <2> QED BY <1>1, <2>1, <2>2, <2>3, <2>4 DEF Next
<1>2. IInv /\ [Next]_vars =>
         [\A c \in Comps : /\ report[c] # NoStatus => report'[c] = report[c]
                           /\ proc[c] = "reaped" => proc'[c] = "reaped"]_vars
    BY <1>1
<1> QED BY <1>2, LifeInvariance, PTL DEF Spec, ReportedOnce

-----------------------------------------------------------------------------
(* Timers                                                                  *)

\* Every step of the parts is one of each timer, or leaves it.
LEMMA PartsStep ==
    ASSUME [PartsNext]_all
    PROVE  [TimerLinux!Next]_timerLinux /\ [TimerGenode!Next]_timerGenode
BY DEF PartsNext, all

LEMMA TimerConstants ==
    /\ LinuxDurations \subseteq Nat \ {0} /\ Nano \in Nat \ {0} /\ MaxTime \in Nat
    /\ GenodeDurations \subseteq Nat \ {0} /\ Micro \in Nat \ {0}
BY PartsAssumption DEF TimerLinux!TimesAssumption, TimerGenode!TimesAssumption

\* Quotient and remainder.
LEMMA Division ==
    ASSUME NEW a \in Nat, NEW b \in Nat \ {0}
    PROVE  /\ a \div b \in Nat /\ b * (a \div b) <= a /\ a < b * (a \div b) + b
           /\ (a \div b) * b = b * (a \div b) /\ (a \div b) * b \in Nat
           /\ a = b * (a \div b) + (a % b)
<1>1. a \div b \in Nat /\ a % b \in Nat
  OBVIOUS
<1>2. b * (a \div b) <= a /\ a < b * (a \div b) + b
  OBVIOUS
<1>3. (a \div b) * b = b * (a \div b) /\ (a \div b) * b \in Nat
  BY <1>1
<1>4. a = b * (a \div b) + (a % b)
  OBVIOUS
<1> QED BY <1>1, <1>2, <1>3, <1>4

\* A multiple of b that is not more than a later time is not more than the
\* last multiple of b before that time.
LEMMA DivisionMonotone ==
    ASSUME NEW a \in Nat, NEW c \in Nat, a <= c, NEW b \in Nat \ {0}
    PROVE  (a \div b) * b <= (c \div b) * b
<1> DEFINE p == a \div b
           q == c \div b
<1>1. p \in Nat /\ q \in Nat /\ b * p <= a /\ c < b * q + b
  BY Division
<1> HIDE DEF p, q
<1>2. CASE p <= q
  BY <1>1, <1>2 DEF p, q
<1>3. CASE p >= q + 1
  <2>1. b * p >= b * (q + 1) /\ b * (q + 1) = b * q + b
    BY <1>1, <1>3
  <2> QED BY <1>1, <2>1
<1> QED BY <1>1, <1>2, <1>3 DEF p, q

\* Of the timerfd: an armed timer expires when it was asked to, and one that
\* has expired is due.
LinuxTimer ==
    /\ lFd \in BOOLEAN /\ lWatched \in BOOLEAN
    /\ lNow \in Nat /\ lValue \in Nat /\ lTicks \in 0..1 /\ lClock \in 0..lNow
    /\ lAsked \in Nat
    /\ lValue > 0 => lAsked = lNow + lValue /\ lTicks = 0
    /\ lTicks > 0 => lAsked <= lNow
    /\ ~TimerLinux!Initialized => lValue = 0 /\ lTicks = 0

\* Seconds and nanoseconds make up the duration.
LEMMA LinuxSet ==
    ASSUME LinuxTimer, NEW d \in LinuxDurations, TimerLinux!gneiss_timer_set(d)
    PROVE  lValue' = d /\ lTicks' = 0 /\ d \in Nat \ {0}
<1>1. d \in Nat \ {0} /\ Nano \in Nat \ {0}
  BY TimerConstants
<1>2. /\ lValue' = (d \div Nano) * Nano + (d - (d \div Nano) * Nano) /\ lTicks' = 0
  BY DEF TimerLinux!gneiss_timer_set, TimerLinux!timerfd_settime
<1>3. (d \div Nano) * Nano \in Nat
  BY <1>1, Division
<1> QED BY <1>1, <1>2, <1>3

LEMMA LinuxStep ==
    ASSUME LinuxTimer, [TimerLinux!Next]_timerLinux
    PROVE  LinuxTimer' /\ [TimerLinux!Promise!Next]_(TimerLinux!Promise!vars)
<1> DEFINE ready == lValue > 0 \/ lTicks > 0
<1>0. /\ lFd \in BOOLEAN /\ lWatched \in BOOLEAN
      /\ lNow \in Nat /\ lValue \in Nat /\ lTicks \in 0..1 /\ lClock \in 0..lNow /\ lAsked \in Nat
  BY DEF LinuxTimer
<1>1. CASE UNCHANGED timerLinux
  <2>1. UNCHANGED <<lFd, lWatched, lNow, lValue, lTicks, lCalls, lClock, lAsked>>
    BY <1>1 DEF timerLinux
  <2> QED BY <2>1 DEF LinuxTimer, TimerLinux!Initialized, TimerLinux!Promise!vars
<1>2. CASE TimerLinux!Initialize
  <2>1. /\ ~TimerLinux!Initialized /\ lFd' \in BOOLEAN /\ lWatched' = lFd'
        /\ lValue' = 0 /\ lTicks' = 0 /\ UNCHANGED <<lNow, lCalls, lClock, lAsked>>
        /\ lValue = 0 /\ lTicks = 0
    BY <1>2 DEF TimerLinux!Initialize, LinuxTimer
  <2>2. LinuxTimer'
    BY <1>0, <2>1 DEF LinuxTimer, TimerLinux!Initialized
  <2>3. CASE lFd'
    <3>1. TimerLinux!Promise!Initialize
      BY <2>1, <2>3 DEF TimerLinux!Promise!Initialize, TimerLinux!Initialized
    <3> QED BY <2>2, <3>1 DEF TimerLinux!Promise!Next
  <2>4. CASE ~lFd'
    <3>1. UNCHANGED TimerLinux!Promise!vars
      BY <2>1, <2>4 DEF TimerLinux!Promise!vars, TimerLinux!Initialized
    <3> QED BY <2>2, <3>1
  <2> QED BY <2>3, <2>4
<1>3. CASE TimerLinux!Finalize
  <2>1. /\ TimerLinux!Initialized /\ lFd' = FALSE /\ lWatched' = FALSE
        /\ lValue' = 0 /\ lTicks' = 0 /\ UNCHANGED <<lNow, lCalls, lClock, lAsked>>
    BY <1>3 DEF TimerLinux!Finalize
  <2>2. LinuxTimer'
    <3>1. lFd' \in BOOLEAN /\ lWatched' \in BOOLEAN
      BY <2>1
    <3>2. /\ lNow' \in Nat /\ lValue' \in Nat /\ lTicks' \in 0..1 /\ lClock' \in 0..lNow' /\ lAsked' \in Nat
          /\ ~(lValue' > 0) /\ ~(lTicks' > 0)
      BY <1>0, <2>1
    <3> QED BY <2>1, <3>1, <3>2 DEF LinuxTimer
  <2>3. TimerLinux!Promise!Finalize
    BY <2>1 DEF TimerLinux!Promise!Finalize, TimerLinux!Initialized
  <2> QED BY <2>2, <2>3 DEF TimerLinux!Promise!Next
<1>4. ASSUME NEW d \in LinuxDurations, TimerLinux!Set_Timeout(d)
      PROVE  LinuxTimer' /\ [TimerLinux!Promise!Next]_(TimerLinux!Promise!vars)
  <2>1. /\ TimerLinux!Initialized /\ lAsked' = lNow + d /\ UNCHANGED <<lFd, lWatched, lNow, lCalls, lClock>>
        /\ lValue' = d /\ lTicks' = 0 /\ d \in Nat \ {0}
    BY <1>4, LinuxSet DEF TimerLinux!Set_Timeout
  <2>2. LinuxTimer'
    BY <1>0, <2>1 DEF LinuxTimer, TimerLinux!Initialized
  <2>3. TimerLinux!Promise!Set_Timeout(d)
    BY <2>1 DEF TimerLinux!Promise!Set_Timeout, TimerLinux!Initialized
  <2> QED BY <1>4, <2>2, <2>3 DEF TimerLinux!Promise!Next
<1>5. CASE TimerLinux!Session_Event
  <2>1. /\ TimerLinux!Initialized /\ lTicks > 0 /\ lCalls' = lCalls + 1
        /\ UNCHANGED <<lFd, lWatched, lNow, lClock>>
    BY <1>5 DEF TimerLinux!Session_Event
  <2>2. lValue = 0 /\ lAsked <= lNow
    BY <1>0, <2>1 DEF LinuxTimer
  <2>3. CASE TimerLinux!gneiss_timer_read /\ UNCHANGED <<lValue, lAsked>>
    <3>1. lTicks' = 0
      BY <2>3 DEF TimerLinux!gneiss_timer_read
    <3>2. LinuxTimer'
      BY <1>0, <2>1, <2>2, <2>3, <3>1 DEF LinuxTimer, TimerLinux!Initialized
    <3>3. TimerLinux!Promise!Event
      BY <1>0, <2>1, <2>2, <2>3, <3>1 DEF TimerLinux!Promise!Event, TimerLinux!Initialized
    <3> QED BY <3>2, <3>3 DEF TimerLinux!Promise!Next
  <2>4. ASSUME NEW d \in LinuxDurations, TimerLinux!gneiss_timer_set(d), lAsked' = lNow + d
        PROVE  LinuxTimer' /\ [TimerLinux!Promise!Next]_(TimerLinux!Promise!vars)
    <3>1. lValue' = d /\ lTicks' = 0 /\ d \in Nat \ {0}
      BY <2>4, LinuxSet
    <3>2. LinuxTimer'
      BY <1>0, <2>1, <2>4, <3>1 DEF LinuxTimer, TimerLinux!Initialized
    <3>3. TimerLinux!Promise!Event
      BY <1>0, <2>1, <2>2, <2>4, <3>1 DEF TimerLinux!Promise!Event, TimerLinux!Initialized
    <3> QED BY <3>2, <3>3 DEF TimerLinux!Promise!Next
  <2> QED BY <1>5, <2>3, <2>4 DEF TimerLinux!Session_Event
<1>6. CASE TimerLinux!Clock
  <2>1. /\ TimerLinux!Initialized /\ lClock' = (lNow \div Nano) * Nano + (lNow % Nano)
        /\ UNCHANGED <<lFd, lWatched, lNow, lValue, lTicks, lCalls, lAsked>>
    BY <1>6 DEF TimerLinux!Clock, TimerLinux!gneiss_timer_get
  <2>2. lClock' = lNow
    BY <1>0, <2>1, Division, TimerConstants
  <2>3. LinuxTimer'
    BY <1>0, <2>1, <2>2 DEF LinuxTimer, TimerLinux!Initialized
  <2>4. TimerLinux!Promise!Clock
    BY <1>0, <2>1, <2>2 DEF TimerLinux!Promise!Clock, TimerLinux!Initialized
  <2> QED BY <2>3, <2>4 DEF TimerLinux!Promise!Next
<1>7. CASE TimerLinux!Tick
  <2>1. /\ lNow < MaxTime /\ lNow' = lNow + 1
        /\ lValue' = (IF lValue > 0 THEN lValue - 1 ELSE 0)
        /\ lTicks' = (IF lValue = 1 THEN 1 ELSE lTicks)
        /\ UNCHANGED <<lFd, lWatched, lCalls, lClock, lAsked>>
    BY <1>7 DEF TimerLinux!Tick
  <2>2. LinuxTimer'
    BY <1>0, <2>1 DEF LinuxTimer, TimerLinux!Initialized
  <2>3. (lValue' > 0 \/ lTicks' > 0) <=> ready
    BY <1>0, <2>1
  <2>4. TimerLinux!Promise!Tick
    BY <2>1, <2>3 DEF TimerLinux!Promise!Tick, TimerLinux!Initialized
  <2> QED BY <2>2, <2>4 DEF TimerLinux!Promise!Next
<1> QED BY <1>1, <1>2, <1>3, <1>4, <1>5, <1>6, <1>7 DEF TimerLinux!Next

\* The timerfd client keeps the promise of gneiss-timer-client.ads: Event is
\* called once and for the last timeout only, never too early, whatever the
\* durations and however they split into seconds and nanoseconds
\* (gneiss_timer_set, gneiss_timer_get, the kernel's one-shot timer).
THEOREM LinuxRefinement == PartsSpec => LinuxKeepsPromise
<1>1. PartsInit => LinuxTimer /\ TimerLinux!Promise!Init
  <2> SUFFICES ASSUME PartsInit
               PROVE  LinuxTimer /\ TimerLinux!Promise!Init
    OBVIOUS
  <2>1. /\ lFd = FALSE /\ lWatched = FALSE /\ lNow = 0 /\ lValue = 0 /\ lTicks = 0 /\ lCalls = 0
        /\ lClock = 0 /\ lAsked = 0
    BY DEF PartsInit, TimerLinux!Init
  <2>2. lFd \in BOOLEAN /\ lWatched \in BOOLEAN
    BY <2>1
  <2>3. /\ lNow \in Nat /\ lValue \in Nat /\ lTicks \in 0..1 /\ lClock \in 0..lNow /\ lAsked \in Nat
        /\ ~(lValue > 0) /\ ~(lTicks > 0)
    BY <2>1
  <2>4. LinuxTimer
    BY <2>1, <2>2, <2>3 DEF LinuxTimer
  <2>5. TimerLinux!Promise!Init
    BY <2>1 DEF TimerLinux!Promise!Init, TimerLinux!Initialized
  <2> QED BY <2>4, <2>5
<1>2. LinuxTimer /\ [PartsNext]_all => LinuxTimer' /\ [TimerLinux!Promise!Next]_(TimerLinux!Promise!vars)
  BY LinuxStep, PartsStep
<1> QED BY <1>1, <1>2, PTL DEF PartsSpec, LinuxKeepsPromise, TimerLinux!KeepsPromise, TimerLinux!Promise!Spec

-----------------------------------------------------------------------------

\* The time from which Event may be called: the whole microseconds asked for.
gDue == gAsked.at + TimerGenode!InMicros(gAsked.d)

\* A scheduled timeout has the microseconds it was asked for; what the client
\* has got from Clock is not more than the last microsecond.
GenodeTimer ==
    /\ gSession \in BOOLEAN /\ gNow \in Nat /\ gScheduled \in Nat /\ gDue \in Nat
    /\ gClock \in Nat /\ gClock <= (gNow \div Micro) * Micro
    /\ gScheduled # TimerGenode!Never => gScheduled = gDue + 1
    /\ ~gSession => gScheduled = TimerGenode!Never

LEMMA GenodeSet ==
    ASSUME GenodeTimer, NEW d \in GenodeDurations, TimerGenode!set_timeout(d)
    PROVE  /\ gDue' = gNow + TimerGenode!InMicros(d)
           /\ gScheduled' = gNow + TimerGenode!InMicros(d) + 1
           /\ TimerGenode!InMicros(d) \in Nat
<1>1. gAsked' = [at |-> gNow, d |-> d] /\ gScheduled' = gNow + (d \div Micro) * Micro + 1
  BY DEF TimerGenode!set_timeout, TimerGenode!update_timeout
<1>2. d \in Nat /\ Micro \in Nat \ {0}
  BY TimerConstants
<1>3. (d \div Micro) * Micro \in Nat
  BY <1>2, Division
<1> QED BY <1>1, <1>3 DEF gDue, TimerGenode!InMicros

LEMMA GenodeStep ==
    ASSUME GenodeTimer, [TimerGenode!Next]_timerGenode
    PROVE  GenodeTimer' /\ [TimerGenode!Micros!Next]_(TimerGenode!Micros!vars)
<1> USE DEF TimerGenode!Never, gDue
<1>0. /\ gSession \in BOOLEAN /\ gNow \in Nat /\ gScheduled \in Nat /\ gDue \in Nat /\ gClock \in Nat
      /\ Micro \in Nat \ {0}
  BY TimerConstants DEF GenodeTimer
<1>1. CASE UNCHANGED timerGenode
  <2>1. UNCHANGED <<gSession, gNow, gScheduled, gCalls, gClock, gAsked>>
    BY <1>1 DEF timerGenode
  <2> QED BY <2>1 DEF GenodeTimer, TimerGenode!Micros!vars
<1>2. CASE TimerGenode!initialize
  <2>1. ~gSession /\ gSession' \in BOOLEAN /\ UNCHANGED <<gNow, gScheduled, gCalls, gClock, gAsked>>
    BY <1>2 DEF TimerGenode!initialize
  <2>2. GenodeTimer'
    BY <2>1 DEF GenodeTimer
  <2>3. CASE gSession'
    <3>1. TimerGenode!Micros!Initialize
      BY <2>1, <2>3 DEF TimerGenode!Micros!Initialize
    <3> QED BY <2>2, <3>1 DEF TimerGenode!Micros!Next
  <2>4. CASE ~gSession'
    <3>1. UNCHANGED TimerGenode!Micros!vars
      <4>1. gSession' = gSession
        BY <1>0, <2>1, <2>4
      <4> QED BY <2>1, <4>1 DEF TimerGenode!Micros!vars
    <3> QED BY <2>2, <3>1
  <2> QED BY <2>3, <2>4
<1>3. CASE TimerGenode!finalize
  <2>1. /\ gSession /\ gSession' = FALSE /\ gScheduled' = TimerGenode!Never
        /\ UNCHANGED <<gNow, gCalls, gClock, gAsked>>
    BY <1>3 DEF TimerGenode!finalize
  <2>2. GenodeTimer'
    BY <1>0, <2>1 DEF GenodeTimer
  <2>3. TimerGenode!Micros!Finalize
    BY <2>1 DEF TimerGenode!Micros!Finalize
  <2> QED BY <2>2, <2>3 DEF TimerGenode!Micros!Next
<1>4. ASSUME NEW d \in GenodeDurations, TimerGenode!Set_Timeout(d)
      PROVE  GenodeTimer' /\ [TimerGenode!Micros!Next]_(TimerGenode!Micros!vars)
  <2>1. /\ gSession /\ UNCHANGED <<gSession, gNow, gCalls, gClock>>
        /\ gDue' = gNow + TimerGenode!InMicros(d) /\ gScheduled' = gNow + TimerGenode!InMicros(d) + 1
        /\ TimerGenode!InMicros(d) \in Nat
    BY <1>4, GenodeSet DEF TimerGenode!Set_Timeout
  <2>2. GenodeTimer'
    BY <1>0, <2>1 DEF GenodeTimer
  <2>3. TimerGenode!Micros!Set_Timeout(TimerGenode!InMicros(d))
    BY <1>0, <2>1 DEF TimerGenode!Micros!Set_Timeout
  <2> QED BY <1>4, <2>2, <2>3 DEF TimerGenode!Micros!Next
<1>5. CASE TimerGenode!handle_event
  <2>1. /\ gSession /\ gScheduled # TimerGenode!Never /\ gNow + 1 >= gScheduled
        /\ gCalls' = gCalls + 1 /\ UNCHANGED <<gSession, gNow, gClock>>
    BY <1>5 DEF TimerGenode!handle_event
  <2>2. gNow >= gDue
    BY <1>0, <2>1 DEF GenodeTimer
  <2>3. CASE gScheduled' = TimerGenode!Never /\ UNCHANGED gAsked
    <3>1. GenodeTimer'
      BY <1>0, <2>1, <2>3 DEF GenodeTimer
    <3>2. TimerGenode!Micros!Event
      BY <2>1, <2>2, <2>3 DEF TimerGenode!Micros!Event
    <3> QED BY <3>1, <3>2 DEF TimerGenode!Micros!Next
  <2>4. ASSUME NEW d \in GenodeDurations, TimerGenode!set_timeout(d)
        PROVE  GenodeTimer' /\ [TimerGenode!Micros!Next]_(TimerGenode!Micros!vars)
    <3>1. gDue' = gNow + TimerGenode!InMicros(d) /\ gScheduled' = gNow + TimerGenode!InMicros(d) + 1
        /\ TimerGenode!InMicros(d) \in Nat
      BY <2>4, GenodeSet
    <3>2. GenodeTimer'
      BY <1>0, <2>1, <3>1 DEF GenodeTimer
    <3>3. TimerGenode!Micros!Event
      BY <1>0, <2>1, <2>2, <2>4, <3>1 DEF TimerGenode!Micros!Event
    <3> QED BY <3>2, <3>3 DEF TimerGenode!Micros!Next
  <2> QED BY <1>5, <2>3, <2>4 DEF TimerGenode!handle_event
<1>6. CASE TimerGenode!Clock
  <2>1. /\ gSession /\ gClock' = (gNow \div Micro) * Micro
        /\ UNCHANGED <<gSession, gNow, gScheduled, gCalls, gAsked>>
    BY <1>6 DEF TimerGenode!Clock
  <2>2. gClock' \in Nat /\ gClock' <= gNow /\ gClock <= gClock'
    BY <1>0, <2>1, Division DEF GenodeTimer
  <2>3. GenodeTimer'
    BY <2>1, <2>2 DEF GenodeTimer
  <2>4. TimerGenode!Micros!Clock
    BY <1>0, <2>1, <2>2 DEF TimerGenode!Micros!Clock
  <2> QED BY <2>3, <2>4 DEF TimerGenode!Micros!Next
<1>7. CASE TimerGenode!Tick
  <2>1. /\ gNow < MaxTime /\ gNow' = gNow + 1
        /\ UNCHANGED <<gSession, gScheduled, gCalls, gClock, gAsked>>
    BY <1>7 DEF TimerGenode!Tick
  <2>2. /\ (gNow \div Micro) * Micro <= (gNow' \div Micro) * Micro
        /\ (gNow \div Micro) * Micro \in Nat /\ (gNow' \div Micro) * Micro \in Nat
    BY <1>0, <2>1, Division, DivisionMonotone
  <2>3. gClock <= (gNow' \div Micro) * Micro
    BY <1>0, <2>2 DEF GenodeTimer
  <2>4. GenodeTimer'
    BY <1>0, <2>1, <2>3 DEF GenodeTimer
  <2>5. TimerGenode!Micros!Tick
    BY <2>1 DEF TimerGenode!Micros!Tick
  <2> QED BY <2>4, <2>5 DEF TimerGenode!Micros!Next
<1> QED BY <1>1, <1>2, <1>3, <1>4, <1>5, <1>6, <1>7 DEF TimerGenode!Next

\* The Genode client keeps that promise for the whole microseconds of every
\* duration, and its clock, which is cut to microseconds, never runs
\* backwards (set_timeout, update_timeout, handle_event, clock).
THEOREM GenodeRefinement == PartsSpec => GenodeKeepsMicros
<1>1. PartsInit => GenodeTimer /\ TimerGenode!Micros!Init
  <2> SUFFICES ASSUME PartsInit
               PROVE  GenodeTimer /\ TimerGenode!Micros!Init
    OBVIOUS
  <2>1. /\ gSession = FALSE /\ gNow = 0 /\ gScheduled = TimerGenode!Never /\ gCalls = 0
        /\ gClock = 0 /\ gAsked = [at |-> 0, d |-> 0]
    BY DEF PartsInit, TimerGenode!Init
  <2>2. (0 \div Micro) * Micro >= 0 /\ (0 \div Micro) * Micro = 0
    <3>1. Micro \in Nat \ {0}
      BY TimerConstants
    <3>2. 0 \div Micro = 0
      BY <3>1
    <3> QED BY <3>1, <3>2
  <2>3. TimerGenode!InMicros(0) = 0
    BY <2>2 DEF TimerGenode!InMicros
  <2>4. gAsked.at = 0 /\ gAsked.d = 0 /\ TimerGenode!InMicros(gAsked.d) = 0
    BY <2>1, <2>3
  <2>5. gDue = 0
    BY <2>4 DEF gDue
  <2>6. GenodeTimer
    BY <2>1, <2>2, <2>5 DEF GenodeTimer, TimerGenode!Never
  <2>7. TimerGenode!Micros!Init
    BY <2>1, <2>4 DEF TimerGenode!Micros!Init, TimerGenode!Never
  <2> QED BY <2>6, <2>7
<1>2. GenodeTimer /\ [PartsNext]_all => GenodeTimer' /\ [TimerGenode!Micros!Next]_(TimerGenode!Micros!vars)
  BY GenodeStep, PartsStep
<1> QED BY <1>1, <1>2, PTL DEF PartsSpec, GenodeKeepsMicros, TimerGenode!KeepsMicros, TimerGenode!Micros!Spec
=============================================================================
