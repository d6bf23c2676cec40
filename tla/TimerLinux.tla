----------------------------- MODULE TimerLinux -----------------------------
(***************************************************************************)
(* Timer sessions on Linux: timer/client/linux/gneiss_timer_client.c and   *)
(* gneiss-timer-client.adb over a timerfd and the component's epoll        *)
(* descriptor.  One nanosecond is the unit of time, Nano of them are a     *)
(* second.                                                                 *)
(***************************************************************************)
EXTENDS Naturals

CONSTANTS
    Durations,  \* durations a client sets
    Nano,       \* NANO, 1000000000 in the code
    MaxTime     \* bound: the time at which the clock stops

TimesAssumption ==
    Durations \subseteq Nat \ {0} /\ Nano \in Nat \ {0} /\ MaxTime \in Nat

VARIABLES
    fd,       \* the timerfd is open
    watched,  \* it is in the epoll set: with fd, Initialized
    now,      \* the time
    value,    \* it_value: the time left, 0 for a disarmed timer
    ticks,    \* expirations since the timer was set or read
    calls,    \* calls of Event
    clock,    \* the last value the client got from Clock
    asked     \* the time of the last Set_Timeout and its duration

vars == <<fd, watched, now, value, ticks, calls, clock, asked>>

Init ==
    /\ fd = FALSE /\ watched = FALSE
    /\ now = 0 /\ value = 0 /\ ticks = 0 /\ calls = 0 /\ clock = 0 /\ asked = 0

Initialized == fd /\ watched

\* The broker sends a timerfd, or none; without a place in the epoll set it is
\* closed again.
Initialize ==
    /\ ~Initialized
    /\ \E given, added \in BOOLEAN :
          fd' = (given /\ added) /\ watched' = (given /\ added)
    /\ value' = 0 /\ ticks' = 0
    /\ UNCHANGED <<now, calls, clock, asked>>

Finalize ==
    /\ Initialized
    /\ fd' = FALSE /\ watched' = FALSE
    /\ value' = 0 /\ ticks' = 0
    /\ UNCHANGED <<now, calls, clock, asked>>

\* timerfd_settime: what has expired before is forgotten.
timerfd_settime(sec, nsec) == value' = sec * Nano + nsec /\ ticks' = 0

\* Mutant: the new duration is added to what is left.
gneiss_timer_set_Adds(d) == value' = value + d /\ ticks' = 0

\* Mutant: the nanoseconds are left out.
gneiss_timer_set_Seconds(d) == timerfd_settime(d \div Nano, 0)

\* The timer is disarmed and set.
gneiss_timer_set(d) == timerfd_settime(d \div Nano, d - (d \div Nano) * Nano)

Set_Timeout(d) ==
    /\ Initialized
    /\ now + d <= MaxTime
    /\ gneiss_timer_set(d)
    /\ asked' = now + d
    /\ UNCHANGED <<fd, watched, now, calls, clock>>

\* The read makes the timerfd unready.
gneiss_timer_read == ticks' = 0

\* epoll_wait returns the timerfd: it is read and Event is called, which may
\* set the next timeout.
Session_Event ==
    /\ Initialized
    /\ ticks > 0
    /\ calls' = calls + 1
    /\ \/ gneiss_timer_read /\ UNCHANGED <<value, asked>>
       \/ \E d \in Durations :
             now + d <= MaxTime /\ gneiss_timer_set(d) /\ asked' = now + d
    /\ UNCHANGED <<fd, watched, now, clock>>

gneiss_timer_get == (now \div Nano) * Nano + (now % Nano)

Clock ==
    /\ Initialized
    /\ clock' = gneiss_timer_get
    /\ UNCHANGED <<fd, watched, now, value, ticks, calls, asked>>

\* Time passes and the kernel counts an expiration of a one-shot timer.
Tick ==
    /\ now < MaxTime
    /\ now' = now + 1
    /\ value' = IF value > 0 THEN value - 1 ELSE 0
    /\ ticks' = IF value = 1 THEN 1 ELSE ticks
    /\ UNCHANGED <<fd, watched, calls, clock, asked>>

Next ==
    \/ Initialize \/ Finalize \/ Session_Event \/ Clock \/ Tick
    \/ \E d \in Durations : Set_Timeout(d)

Spec == Init /\ [][Next]_vars

\* Time passes and the event loop serves a timerfd that is ready.
Fairness == WF_vars(Session_Event)

FairSpec == Spec /\ WF_vars(Tick) /\ Fairness

-----------------------------------------------------------------------------
(* Properties                                                              *)

Promise == INSTANCE TimerService WITH
    open <- Initialized, armed <- value > 0 \/ ticks > 0, due <- asked

\* The session keeps the promise of gneiss-timer-client.ads: Event is called
\* once, for the last timeout only and never too early, though the duration
\* is split into seconds and nanoseconds and an expiration may be unread when
\* the timer is set again.
KeepsPromise == Promise!Spec

\* A timeout that is set leads to Event, to another timeout or to Finalize.
EventFollows ==
    \A t \in 1..MaxTime :
       (value + ticks > 0 /\ asked = t) ~> (value + ticks = 0 \/ asked # t)

=============================================================================
