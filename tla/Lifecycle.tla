----------------------------- MODULE Lifecycle ------------------------------
(***************************************************************************)
(* The life of the component processes on Linux: the broker forks them one *)
(* after the other (gneiss-broker-startup.adb), each runs Construct, then  *)
(* events until it has vacated, then Destruct (gneiss-main.adb), and the   *)
(* broker, told by the hang-up of the component's socket, asks the kernel  *)
(* for the exit status and reports it (gneiss-broker-main.adb).            *)
(*                                                                         *)
(* Abstractions.  Components are numbered in the order of the              *)
(* configuration.  What a component does in Construct, in an event handler *)
(* and in Destruct is only whether it vacates.  The kernel's side of an    *)
(* exit takes two steps: the descriptors are closed, which hangs up the    *)
(* socket, before the process can be waited for.                           *)
(***************************************************************************)
EXTENDS Integers

CONSTANTS
    N,             \* components in the configuration
    MayCrash,      \* the components that a signal may end
    MayFail        \* TRUE: socketpair, epoll_ctl, fork and dlopen may fail

ASSUME NAssumption == N \in Nat
ASSUME MayCrashAssumption == MayCrash \subseteq 1..N
ASSUME MayFailAssumption == MayFail \in BOOLEAN

Comps == 1..N
Outcomes == IF MayFail THEN BOOLEAN ELSE {TRUE}

\* Component_Status: Running, or the return code of the process.
Running == -1
Success == 0
Failure == 1
Codes == {Success, Failure}

\* A reported status; every value of WEXITSTATUS other than 0 counts as 1.
NoStatus == -1
Statuses == {Success, Failure}

VARIABLES
    index,      \* the component Start_Components is at; N + 1 when it is done
    fd,         \* c :> Components (c).Fd is valid
    watched,    \* c :> that descriptor is in the broker's epoll set
    pid,        \* c :> Components (c).Pid is the process of c
    proc,       \* c :> what the process of c is doing
    code,       \* c :> Component_Status in the process of c
    signalled,  \* c :> a signal ended the process
    report      \* c :> the status the broker reported for c, or NoStatus

vars == <<index, fd, watched, pid, proc, code, signalled, report>>

\* none: not forked.  loading .. destruct: Gneiss.Main.Run.  closed: the
\* kernel has closed the descriptors.  zombie: waitpid finds the process.
ProcStates == {"none", "loading", "construct", "idle", "handler", "destruct",
               "closed", "zombie", "reaped"}

User(c) == proc[c] \in {"construct", "handler", "destruct"}
Alive(c) == User(c) \/ proc[c] \in {"loading", "idle"}

Init ==
    /\ index = 1
    /\ fd = [c \in Comps |-> FALSE]
    /\ watched = [c \in Comps |-> FALSE]
    /\ pid = [c \in Comps |-> FALSE]
    /\ proc = [c \in Comps |-> "none"]
    /\ code = [c \in Comps |-> Running]
    /\ signalled = [c \in Comps |-> FALSE]
    /\ report = [c \in Comps |-> NoStatus]

-----------------------------------------------------------------------------
(* The broker                                                              *)

\* Mutant: a failed fork leaves the descriptor in the table.
Start_Component_KeepsFd(named, pair, add, fork) ==
    /\ index \in Comps
    /\ LET started == named /\ pair /\ fork
       IN  /\ index' = IF named /\ pair /\ ~fork THEN N + 1 ELSE index + 1
           /\ fd' = [fd EXCEPT ![index] = named /\ pair]
           /\ watched' = [watched EXCEPT ![index] = named /\ pair /\ add]
           /\ pid' = [pid EXCEPT ![index] = started]
           /\ proc' = [proc EXCEPT ![index] = IF started THEN "loading" ELSE @]
    /\ UNCHANGED <<code, signalled, report>>

\* One turn of the loop in Start_Components.  Without a socket pair the
\* component is skipped; a failed fork ends the start of components and the
\* broker goes on to its event loop.
Start_Component(named, pair, add, fork) ==
    /\ index \in Comps
    /\ LET started == named /\ pair /\ fork
       IN  /\ index' = IF named /\ pair /\ ~fork THEN N + 1 ELSE index + 1
           /\ fd' = [fd EXCEPT ![index] = started]
           /\ watched' = [watched EXCEPT ![index] = named /\ pair /\ add]
           /\ pid' = [pid EXCEPT ![index] = started]
           /\ proc' = [proc EXCEPT ![index] = IF started THEN "loading" ELSE @]
    /\ UNCHANGED <<code, signalled, report>>

Start_Components ==
    \E named, pair, add, fork \in Outcomes : Start_Component(named, pair, add, fork)

\* Mutant: every event of a component is taken for its end.
HungUp_AnyEvent(c) == proc[c] \in {"construct", "handler", "closed", "zombie"}

\* EPOLLHUP or EPOLLRDHUP on the component's socket.
HungUp(c) == proc[c] \in {"closed", "zombie"}

\* Mutant: the status is reported without WEXITSTATUS.
Waitpid_Raw(c) == IF proc[c] = "zombie" /\ ~signalled[c] THEN {256 * code[c]} ELSE Statuses

\* gneiss_waitpid with WNOHANG.  A process that is not a zombie yet leaves
\* Exit_Status as it was: not initialized the first time, later the result
\* of the last call, of which WEXITSTATUS leaves nothing.  A signal leaves
\* no exit code either, and WEXITSTATUS yields 0 for it.
Waitpid(c) ==
    CASE proc[c] # "zombie" ->
            IF \E d \in Comps : report[d] # NoStatus THEN {0} ELSE Statuses
      [] proc[c] = "zombie" /\ signalled[c] -> {0}
      [] OTHER -> {code[c]}

\* The hang-up branch of Event_Loop.
Hang_Up(c) ==
    /\ index = N + 1
    /\ fd[c]
    /\ watched[c]
    /\ HungUp(c)
    /\ \E s \in Waitpid(c) : report' = [report EXCEPT ![c] = s]
    /\ proc' = [proc EXCEPT ![c] = IF @ = "zombie" THEN "reaped" ELSE @]
    /\ fd' = [fd EXCEPT ![c] = FALSE]
    /\ watched' = [watched EXCEPT ![c] = FALSE]
    /\ pid' = [pid EXCEPT ![c] = FALSE]
    /\ UNCHANGED <<index, code, signalled>>

-----------------------------------------------------------------------------
(* A component: Gneiss.Main.Run                                            *)

\* Loading, finding the two symbols and creating the epoll descriptor.  On
\* failure Run returns 1 without a call of Construct.
Load(c, ok) ==
    /\ proc[c] = "loading"
    /\ proc' = [proc EXCEPT ![c] = IF ok THEN "construct" ELSE "closed"]
    /\ code' = [code EXCEPT ![c] = IF ok THEN @ ELSE Failure]
    /\ UNCHANGED <<index, fd, watched, pid, signalled, report>>

\* Vacate from the user's code; the last call counts.
Vacate(c, status) ==
    /\ User(c)
    /\ code' = [code EXCEPT ![c] = status]
    /\ UNCHANGED <<index, fd, watched, pid, proc, signalled, report>>

\* Mutant: the loop goes on although the component has vacated.
Handler_Return_Loops(c) ==
    /\ proc[c] \in {"construct", "handler"}
    /\ proc' = [proc EXCEPT ![c] = "idle"]
    /\ UNCHANGED <<index, fd, watched, pid, code, signalled, report>>

\* Construct or an event handler returns, and the loop tests the status.
Handler_Return(c) ==
    /\ proc[c] \in {"construct", "handler"}
    /\ proc' = [proc EXCEPT ![c] = IF code[c] = Running THEN "idle" ELSE "destruct"]
    /\ UNCHANGED <<index, fd, watched, pid, code, signalled, report>>

Event_Handler(c) ==
    /\ proc[c] = "idle"
    /\ proc' = [proc EXCEPT ![c] = "handler"]
    /\ UNCHANGED <<index, fd, watched, pid, code, signalled, report>>

\* Destruct returns, the process returns its status and the kernel closes
\* its descriptors.
Destruct_Return(c) ==
    /\ proc[c] = "destruct"
    /\ proc' = [proc EXCEPT ![c] = "closed"]
    /\ UNCHANGED <<index, fd, watched, pid, code, signalled, report>>

Crash(c) ==
    /\ c \in MayCrash
    /\ Alive(c)
    /\ proc' = [proc EXCEPT ![c] = "closed"]
    /\ signalled' = [signalled EXCEPT ![c] = TRUE]
    /\ UNCHANGED <<index, fd, watched, pid, code, report>>

\* The kernel is done with the exit.
Become_Zombie(c) ==
    /\ proc[c] = "closed"
    /\ proc' = [proc EXCEPT ![c] = "zombie"]
    /\ UNCHANGED <<index, fd, watched, pid, code, signalled, report>>

Next ==
    \/ Start_Components
    \/ \E c \in Comps :
          \/ Hang_Up(c)
          \/ \E ok \in Outcomes : Load(c, ok)
          \/ \E status \in Codes : Vacate(c, status)
          \/ Handler_Return(c)
          \/ Event_Handler(c)
          \/ Destruct_Return(c)
          \/ Crash(c)
          \/ Become_Zombie(c)

Spec == Init /\ [][Next]_vars

\* The broker and the kernel do what they can, handlers and Destruct return;
\* nothing makes an event arrive.
Fairness ==
    \A c \in Comps :
       /\ WF_vars(Hang_Up(c))
       /\ WF_vars(\E ok \in Outcomes : Load(c, ok))
       /\ WF_vars(Handler_Return(c))
       /\ WF_vars(Destruct_Return(c))
       /\ WF_vars(Become_Zombie(c))

LiveSpec == Spec /\ WF_vars(Start_Components) /\ Fairness

-----------------------------------------------------------------------------
(* Properties                                                              *)

\* Every variable has the type its declaration in the code gives it.
TypeOK ==
    /\ index \in 1..(N + 1)
    /\ fd \in [Comps -> BOOLEAN]
    /\ watched \in [Comps -> BOOLEAN]
    /\ pid \in [Comps -> BOOLEAN]
    /\ proc \in [Comps -> ProcStates]
    /\ code \in [Comps -> Codes \cup {Running}]
    /\ signalled \in [Comps -> BOOLEAN]
    /\ report \in [Comps -> Statuses \cup {NoStatus}]

\* A descriptor the event loop can find belongs to a process whose Pid is
\* known: waitpid is never called with -1, which would reap the process of
\* another component.
OwnPidOnly ==
    \A c \in Comps : fd[c] => pid[c] /\ proc[c] # "none" /\ report[c] = NoStatus

\* A component the broker has given up is not running any more.
NoneAbandoned ==
    \A c \in Comps : (proc[c] # "none" /\ ~fd[c]) => ~Alive(c)

\* A component that vacated is in the end reported and gone from the table,
\* unless adding its socket to epoll had failed.
VacatedIsReported ==
    \A c \in Comps :
        (code[c] # Running /\ watched[c]) ~> (report[c] # NoStatus /\ ~fd[c])

\* "Component <name> exited with status 0" is what the tests of the
\* repository wait for as the sign of success: it is reported of a component
\* only if the component vacated with Success.
StatusZeroIsSuccess ==
    \A c \in Comps : report[c] = 0 => code[c] = Success

=============================================================================
