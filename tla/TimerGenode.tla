---------------------------- MODULE TimerGenode -----------------------------
(***************************************************************************)
(* Timer sessions on Genode, timer/client/genode/timer_client.cc and       *)
(* gneiss-timer-client.adb, over Genode's one-shot timeouts, which count   *)
(* in microseconds.  One nanosecond is the unit of time, Micro of them are *)
(* a microsecond (1000 in the code).                                       *)
(***************************************************************************)
EXTENDS Naturals

CONSTANTS
    Durations,  \* durations a client sets
    Micro,      \* nanoseconds of a microsecond, 1000 in the code
    MaxTime     \* bound: the time at which the clock stops

TimesAssumption ==
    Durations \subseteq Nat \ {0} /\ Micro \in Nat \ {0} /\ MaxTime \in Nat

Never == 0   \* in place of the time of a timeout that is not scheduled

VARIABLES
    session,    \* Timer_Session exists
    now,        \* the time
    scheduled,  \* the time of _timeout, from 1, or Never
    calls,      \* calls of Event
    clock,      \* the last value the client got from Clock
    asked       \* [at, d]: the time of the last Set_Timeout and its duration

vars == <<session, now, scheduled, calls, clock, asked>>

Init ==
    /\ session = FALSE
    /\ now = 0 /\ scheduled = Never /\ calls = 0 /\ clock = 0
    /\ asked = [at |-> 0, d |-> 0]

\* The session or a null pointer, and then Index stays invalid.
initialize ==
    /\ ~session
    /\ session' \in BOOLEAN
    /\ UNCHANGED <<now, scheduled, calls, clock, asked>>

\* The session is destroyed with its timeout.
finalize ==
    /\ session
    /\ session' = FALSE
    /\ scheduled' = Never
    /\ UNCHANGED <<now, calls, clock, asked>>

\* Mutant: a timeout that is scheduled is left as it is.
update_timeout_First(us) ==
    scheduled' = IF scheduled # Never THEN scheduled ELSE now + us * Micro + 1

\* A timeout that is scheduled is discarded before the new one.
update_timeout(us) == scheduled' = now + us * Micro + 1

\* Mutant: nanoseconds are taken for microseconds.
set_timeout_Undivided(d) ==
    /\ update_timeout(d)
    /\ asked' = [at |-> now, d |-> d]

\* The duration is cut to microseconds.
set_timeout(d) ==
    /\ update_timeout(d \div Micro)
    /\ asked' = [at |-> now, d |-> d]

\* The bounds of the model: the time, and the number of calls, since timeouts
\* of less than a microsecond let Event set another one without any time in
\* between.
Bounded(d) == now + d <= MaxTime /\ calls < MaxTime

Set_Timeout(d) ==
    /\ session
    /\ Bounded(d)
    /\ set_timeout(d)
    /\ UNCHANGED <<session, now, calls, clock>>

\* The timeout has passed: the client's Event is called, which may set the next.
handle_event ==
    /\ session
    /\ scheduled # Never /\ now + 1 >= scheduled
    /\ calls' = calls + 1
    /\ \/ scheduled' = Never /\ UNCHANGED asked
       \/ \E d \in Durations : Bounded(d) /\ set_timeout(d)
    /\ UNCHANGED <<session, now, clock>>

Clock ==
    /\ session
    /\ clock' = (now \div Micro) * Micro
    /\ UNCHANGED <<session, now, scheduled, calls, asked>>

Tick ==
    /\ now < MaxTime
    /\ now' = now + 1
    /\ UNCHANGED <<session, scheduled, calls, clock, asked>>

Next ==
    \/ initialize \/ finalize \/ handle_event \/ Clock \/ Tick
    \/ \E d \in Durations : Set_Timeout(d)

Spec == Init /\ [][Next]_vars

\* Time passes and a timeout that has passed is handled.
Fairness == WF_vars(handle_event)

FairSpec == Spec /\ WF_vars(Tick) /\ Fairness

-----------------------------------------------------------------------------
(* Properties                                                              *)

Promise == INSTANCE TimerService WITH
    open <- session, armed <- scheduled # Never, due <- asked.at + asked.d

\* "The precision of the actual timeout is platform dependent but the time is
\* guaranteed to be AT LEAST the time specified in D"
\* (gneiss-timer-client.ads:44): Event is called once, for the last timeout
\* only and never too early.
KeepsPromise == Promise!Spec

InMicros(d) == (d \div Micro) * Micro

Micros == INSTANCE TimerService WITH
    Durations <- {InMicros(d) : d \in Durations},
    open <- session, armed <- scheduled # Never, due <- asked.at + InMicros(asked.d)

\* What set_timeout keeps of the promise for every duration: Event is called
\* once, for the last timeout only, and not before the whole microseconds of
\* its duration have passed; the clock never runs backwards nor ahead.
KeepsMicros == Micros!Spec

\* A timeout that is set leads to Event, to another timeout or to Finalize
\* (update_timeout discards only to schedule again).
EventFollows ==
    \A t \in 0..MaxTime :
       (scheduled # Never /\ asked.at = t) ~> (scheduled = Never \/ asked.at # t)

=============================================================================
