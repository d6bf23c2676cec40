------------------------------- MODULE MCLive -------------------------------
(***************************************************************************)
(* What has to happen in the end: the life of the component processes on   *)
(* Linux, the event loop of one of them, timers on both platforms, and     *)
(* Message sessions and the end of a component on Genode.  None of these   *)
(* shares state with another, so each is an instance with variables of its *)
(* own, and a behaviour is one of the part that is chosen at first.        *)
(***************************************************************************)
EXTENDS Lifecycle

CONSTANTS
    LinuxDurations,    \* durations a client of the Linux timer sets, in ns
    Nano,              \* nanoseconds of a second
    GenodeDurations,   \* durations a client of the Genode timer sets, in ns
    Micro,             \* nanoseconds of a microsecond
    MaxTime            \* bound: the time at which the clocks stop

VARIABLES
    part,                                                        \* the part that runs
    mRoot, mServer, mLive, mClient, mSigh, mSignal, mHandling, mSent, mGot,
                                                                 \* of MessageSession
    eStatus, eEfd, eFd, eRegs, eSession, eChan, eBroker,         \* of EventLoop
    phase, capability, pending, rom, heap, vacated, destructs, reported,
                                                                 \* of GenodeMain
    lFd, lWatched, lNow, lValue, lTicks, lCalls, lClock, lAsked, \* of TimerLinux
    gSession, gNow, gScheduled, gCalls, gClock, gAsked           \* of TimerGenode

message == <<mRoot, mServer, mLive, mClient, mSigh, mSignal, mHandling, mSent, mGot>>
loop == <<eStatus, eEfd, eFd, eRegs, eSession, eChan, eBroker>>
main == <<phase, capability, pending, rom, heap, vacated, destructs, reported>>
timerLinux == <<lFd, lWatched, lNow, lValue, lTicks, lCalls, lClock, lAsked>>
timerGenode == <<gSession, gNow, gScheduled, gCalls, gClock, gAsked>>
all == <<part, vars, message, loop, main, timerLinux, timerGenode>>

\* The echo server of test/message_server and clients that never leave more
\* messages unread than the cache holds.
Message == INSTANCE MessageSession WITH
    Clients <- {1, 2}, Slots <- 1, CacheSize <- 4, Window <- 4,
    Spontaneous <- FALSE, CloseEarly <- FALSE, MaxMessages <- 5,
    root <- mRoot, server <- mServer, live <- mLive, client <- mClient, sigh <- mSigh,
    signal <- mSignal, handling <- mHandling, sent <- mSent, got <- mGot

Loop == INSTANCE EventLoop WITH
    Clients <- {11}, Servers <- {21}, MessageDispatchers <- {31}, LogDispatchers <- {41},
    Fds <- 1..2, Chans <- 1..2, Limit <- 2,
    status <- eStatus, efd <- eEfd, fd <- eFd, regs <- eRegs, session <- eSession,
    chan <- eChan, broker <- eBroker

Main == INSTANCE GenodeMain WITH
    Events <- 1..5

TimerLinux == INSTANCE TimerLinux WITH
    Durations <- LinuxDurations,
    fd <- lFd, watched <- lWatched, now <- lNow, value <- lValue, ticks <- lTicks,
    calls <- lCalls, clock <- lClock, asked <- lAsked

TimerGenode == INSTANCE TimerGenode WITH
    Durations <- GenodeDurations,
    session <- gSession, now <- gNow, scheduled <- gScheduled, calls <- gCalls,
    clock <- gClock, asked <- gAsked

ASSUME PartsAssumption ==
    /\ Message!SizesAssumption /\ Loop!LoopAssumption
    /\ TimerLinux!TimesAssumption /\ TimerGenode!TimesAssumption

Parts == {"life", "message", "loop", "main", "timerLinux", "timerGenode"}

PartsInit ==
    /\ part \in Parts
    /\ Init /\ Message!Init /\ Loop!Init /\ Main!Init /\ TimerLinux!Init /\ TimerGenode!Init

PartsNext ==
    /\ UNCHANGED part
    /\ \/ /\ part = "life" /\ Next
          /\ UNCHANGED <<message, loop, main, timerLinux, timerGenode>>
       \/ /\ part = "message" /\ Message!Next
          /\ UNCHANGED <<vars, loop, main, timerLinux, timerGenode>>
       \/ /\ part = "loop" /\ Loop!Next
          /\ UNCHANGED <<vars, message, main, timerLinux, timerGenode>>
       \/ /\ part = "main" /\ Main!Next
          /\ UNCHANGED <<vars, message, loop, timerLinux, timerGenode>>
       \/ /\ part = "timerLinux" /\ TimerLinux!Next
          /\ UNCHANGED <<vars, message, loop, main, timerGenode>>
       \/ /\ part = "timerGenode" /\ TimerGenode!Next
          /\ UNCHANGED <<vars, message, loop, main, timerLinux>>

PartsSpec == PartsInit /\ [][PartsNext]_all

\* Parts that are not chosen stay where nothing is due in them, but for the
\* broker's start and the time, which go on only in theirs.
FairPartsSpec ==
    /\ PartsSpec
    /\ Fairness /\ WF_vars(part = "life" /\ Start_Components)
    /\ Message!Fairness /\ Loop!Fairness /\ Main!Fairness
    /\ TimerLinux!Fairness /\ WF_timerLinux(part = "timerLinux" /\ TimerLinux!Tick)
    /\ TimerGenode!Fairness /\ WF_timerGenode(part = "timerGenode" /\ TimerGenode!Tick)

\* Every message sent to a Message client on Genode is read by it, unless it
\* closes its session (Send, signal, event, read).
EveryMessageRead == Message!EveryMessageRead

\* What arrives for a session that epoll has is read by its handler, unless
\* the session or the component ends, the peer hangs up or a Log dispatcher
\* closed epoll (gneiss_epoll_wait, Event_Handler).
InputIsHandled == Loop!InputIsHandled

\* A component that vacates is destructed and reported, however many other
\* signals it gets (vacate, exit_handler).
VacatedExits == Main!VacatedExits

\* The timerfd client implements TimerService: Event is called once, for the
\* last timeout set only, and never too early (gneiss_timer_set).
LinuxKeepsPromise == TimerLinux!KeepsPromise

\* The Genode client implements TimerService for the whole microseconds of a
\* duration: once, for the last timeout only, and not before these have passed
\* (set_timeout, update_timeout).
GenodeKeepsMicros == TimerGenode!KeepsMicros

\* A timeout that is set leads to Event, to another timeout or to Finalize,
\* on both platforms (gneiss_timer_set, update_timeout).
TimersFire == TimerLinux!EventFollows /\ TimerGenode!EventFollows
=============================================================================
