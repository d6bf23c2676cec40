---------------------------- MODULE TimerService ----------------------------
(***************************************************************************)
(* What gneiss-timer-client.ads promises of a timer session: Event is      *)
(* called once for the last timeout set, and not before its duration has   *)
(* passed; the clock never runs backwards nor ahead.  Both platforms'      *)
(* timers are shown to implement this.                                     *)
(***************************************************************************)
EXTENDS Naturals

CONSTANTS
    Durations,   \* durations a client sets, in the clock's finest unit
    MaxTime      \* bound: the time at which the clock stops

VARIABLES
    open,    \* the session is Initialized
    now,     \* the time
    armed,   \* a timeout is active
    due,     \* the time before which Event must not be called
    calls,   \* calls of Event
    clock    \* the last value the client got from Clock

vars == <<open, now, armed, due, calls, clock>>

Init ==
    /\ open = FALSE /\ armed = FALSE
    /\ now = 0 /\ due = 0 /\ calls = 0 /\ clock = 0

Initialize ==
    /\ ~open
    /\ open' = TRUE
    /\ UNCHANGED <<now, armed, due, calls, clock>>

Finalize ==
    /\ open
    /\ open' = FALSE
    /\ armed' = FALSE
    /\ UNCHANGED <<now, due, calls, clock>>

Set_Timeout(d) ==
    /\ open
    /\ armed' = TRUE
    /\ due' = now + d
    /\ UNCHANGED <<open, now, calls, clock>>

\* Event may set the next timeout.
Event ==
    /\ open /\ armed
    /\ now >= due
    /\ calls' = calls + 1
    /\ \/ armed' = FALSE /\ UNCHANGED due
       \/ \E d \in Durations : armed' = TRUE /\ due' = now + d
    /\ UNCHANGED <<open, now, clock>>

Clock ==
    /\ open
    /\ clock' \in clock..now
    /\ UNCHANGED <<open, now, armed, due, calls>>

Tick ==
    /\ now < MaxTime
    /\ now' = now + 1
    /\ UNCHANGED <<open, armed, due, calls, clock>>

Next ==
    \/ Initialize \/ Finalize \/ Event \/ Clock \/ Tick
    \/ \E d \in Durations : Set_Timeout(d)

Spec == Init /\ [][Next]_vars

=============================================================================
