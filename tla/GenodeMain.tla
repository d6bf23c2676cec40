----------------------------- MODULE GenodeMain -----------------------------
(***************************************************************************)
(* The life of a component on Genode: construction, signal handlers,       *)
(* Vacate, destruction; and the Rom session it reads its configuration     *)
(* from.  From platform/genode/cai_main.cc, gneiss.h, cai_factory.h,       *)
(* gneiss-component.adb, rom/client/genode/gneiss_rom_client.cc and        *)
(* gneiss-rom-client.adb.  The component's own code is that of test/rom    *)
(* with an event handler like that of test/timer.                          *)
(*                                                                         *)
(* The entrypoint is one thread and runs a handler to its end.  Signals of *)
(* one context that were not handled yet are merged; contexts are handled  *)
(* in any order.  These, and the parent, are external.                     *)
(***************************************************************************)
EXTENDS Naturals, FiniteSets

CONSTANTS
    Events   \* signal contexts of the component's sessions

None == "none"
MaxDestructs == 2   \* bound of the model: Destruct is followed up to its second call
Statuses == {"running", "success", "error"}

VARIABLES
    phase,       \* "new", "loop" or "gone"
    capability,  \* [status, exit]: status; exit_signal is pending
    pending,     \* contexts with a signal to be handled
    rom,         \* [index, ptr, read] of the Rom session: valid, not null
    heap,        \* number of objects the factory has created and not destroyed
    vacated,     \* statuses Vacate was called with
    destructs,   \* how often Destruct was called
    reported     \* last status the parent was told, None before

vars == <<phase, capability, pending, rom, heap, vacated, destructs, reported>>

Capability == [status: Statuses, exit: BOOLEAN]
Rom_Client == [index: BOOLEAN, ptr: BOOLEAN, read: BOOLEAN]
Null == [index |-> FALSE, ptr |-> FALSE, read |-> FALSE]

Init ==
    /\ phase = "new"
    /\ capability = [status |-> "running", exit |-> FALSE]
    /\ pending = {}
    /\ rom = Null
    /\ heap = 0
    /\ vacated = {}
    /\ destructs = 0
    /\ reported = None

Initialized == rom.index /\ rom.ptr /\ rom.read

\* Mutant: the signal is not sent.
vacate_Silent(status) ==
    /\ capability' = [capability EXCEPT !.status = status]
    /\ vacated' = vacated \cup {status}

\* Mutant: only the first Vacate sends the signal.
vacate_First(status) ==
    /\ capability' = [status |-> status,
                      exit |-> capability.exit \/ capability.status = "running"]
    /\ vacated' = vacated \cup {status}

\* The status is set, a later one takes the place of an earlier, and the
\* exit signal is submitted.
vacate(status) ==
    /\ capability' = [status |-> status, exit |-> TRUE]
    /\ vacated' = vacated \cup {status}

\* create2 gives the dataspace, or null if its constructor throws; then
\* Initialize resets the session.
initialize(created) ==
    IF created THEN rom' = [index |-> TRUE, ptr |-> TRUE, read |-> TRUE] /\ heap' = heap + 1
    ELSE rom' = Null /\ heap' = heap

\* destroy, and the session is reset.
finalize == rom' = Null /\ heap' = heap - 1

Finalize == IF Initialized THEN finalize ELSE UNCHANGED <<rom, heap>>

\* Component::construct: Ada is initialized, Construct opens the Rom session
\* and vacates if it cannot, or at once, or stays.
Construct ==
    /\ phase = "new" /\ phase' = "loop"
    /\ \E created \in BOOLEAN :
          /\ initialize(created)
          /\ \/ vacate(IF created THEN "success" ELSE "error")
             \/ created /\ UNCHANGED <<capability, vacated>>
    /\ UNCHANGED <<pending, destructs, reported>>

\* A signal for one of the component's sessions.
Submit(e) ==
    /\ phase = "loop" /\ e \notin pending
    /\ pending' = pending \cup {e}
    /\ UNCHANGED <<phase, capability, rom, heap, vacated, destructs, reported>>

\* The component's handler: it works if its session is there, and vacates
\* when it is done or if the session is not.
Handle(e) ==
    /\ phase = "loop" /\ e \in pending
    /\ pending' = pending \ {e}
    /\ \/ Initialized /\ UNCHANGED <<capability, vacated>>
       \/ vacate(IF Initialized THEN "success" ELSE "error")
    /\ UNCHANGED <<phase, rom, heap, destructs, reported>>

\* Destruct finalizes the session and may vacate once more, which submits the
\* signal that is just being handled again.
destruct ==
    /\ Finalize
    /\ \/ vacate("error")
       \/ capability' = [capability EXCEPT !.exit = FALSE] /\ UNCHANGED vacated

\* The entrypoint handles the exit signal: Destruct, adafinal, and exit at the
\* parent with the status as it is then.  That call returns, and the
\* entrypoint goes on with the next signal.
exit_handler ==
    /\ phase = "loop" /\ capability.exit /\ destructs < MaxDestructs
    /\ destruct
    /\ destructs' = destructs + 1
    /\ reported' = capability'.status
    /\ UNCHANGED <<phase, pending>>

\* The parent destroys the component that has called exit.
Destroy ==
    /\ phase = "loop" /\ reported # None
    /\ phase' = "gone"
    /\ UNCHANGED <<capability, pending, rom, heap, vacated, destructs, reported>>

-----------------------------------------------------------------------------
Next ==
    \/ Construct
    \/ \E e \in Events : Submit(e) \/ Handle(e)
    \/ exit_handler
    \/ Destroy

Spec == Init /\ [][Next]_vars

\* Pending signals of every context are handled, also among many others.
Fairness == WF_vars(exit_handler)

FairSpec == Spec /\ Fairness

-----------------------------------------------------------------------------
(* Properties                                                              *)

\* Every variable has its type, and the factory holds the dataspace of the
\* Rom session and nothing else (initialize, finalize).
TypeOK ==
    /\ phase \in {"new", "loop", "gone"}
    /\ capability \in Capability
    /\ pending \subseteq Events
    /\ rom \in Rom_Client
    /\ heap = IF rom.ptr THEN 1 ELSE 0
    /\ vacated \subseteq Statuses
    /\ destructs \in 0..MaxDestructs
    /\ reported \in Statuses \cup {None}

\* No Vacate is lost, although signals are merged, handlers still run after
\* Destruct, and Destruct itself may vacate: the status the parent was told
\* last is that of the last Vacate, or the exit signal is pending and will have
\* it told again.  Only what the component vacated with is told, and after
\* Destruct the session stays closed, however often Destruct is called
\* (vacate, exit_handler).
LastStatusReported ==
    /\ capability.status # "running" => capability.exit \/ reported = capability.status
    /\ reported # None => reported \in vacated /\ destructs > 0
    /\ destructs > 0 => reported # None /\ rom = Null

\* A component that vacates is destructed and its status reported, however
\* many other signals it gets (vacate, exit_handler).
VacatedExits == (capability.status # "running") ~> (destructs > 0 /\ reported # None)

=============================================================================
