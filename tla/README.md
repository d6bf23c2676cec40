# Verification of the Gneiss component platform

Gneiss lets components that are written against one set of Ada interfaces
(Message, Log, Memory, Rom, Timer, Block) run on Linux, Genode and other
platforms.  This directory holds TLA+ models of its run-time logic, the
configurations with which TLC checks them, and proofs checked by TLAPS.
`PROJECT.json` lists components, runs, the source lines behind every
definition, findings, hazards and theorems; this file explains them.

Paths below are relative to the repository; `core/linux` stands for
`src/core/linux`, and so on.

## 1. Inventory

### The system on Linux

| part | source | state | operations |
|---|---|---|---|
| broker, messages | `core/linux/gneiss-broker-message.adb` | per component: socket `Fd`, process `Pid`, XML `Node`, service sockets `Serv (Kind)` | `Read_Message`, `Handle_Message`, `Process_Request/Confirm/Reject/Register`, `Setup_Service` |
| service lookup | `core/linux/gneiss-broker-lookup.adb` | none (reads the configuration) | `Match_Service`, `Lookup_Request`, `Find_Component_By_Name`, `Find_Resource_*` |
| broker event loop | `core/linux/gneiss-broker-main.adb` | the epoll set | `Event_Loop`, `Get_Dest` |
| startup | `core/linux/gneiss-broker-startup.adb` | component and resource tables | `Parse`, `Parse_Resources`, `Start_Components`, `Load` |
| component main loop | `core/linux/gneiss-main.adb`, `platform/linux/gneiss-component.adb` | `Component_Status`, `Epoll_Fd` | `Run`, `Event_Handler`, `Set_Status`, `Vacate` |
| client library | `platform/linux/gneiss_internal-client.adb`, `-packet.adb`, `syscall.c` | none of its own | `Register`, `Initialize`, `Dispatch`, `Confirm`, `Reject`, `Send`, `Receive` |
| events | `platform/linux/gneiss_internal-epoll.*`, `gneiss_internal.adb` | event capabilities | `Add`, `Remove`, `Wait`, `Get_Type`, `Call` |
| Message sessions | `message/client/linux`, `message/server/linux` | client: `Fd`; dispatcher: `Dispatch_Fd`, `Accepted`; server: `Fd` | `Initialize`, `Finalize`, `Read`, `Write`, `Register`, `Session_Initialize/Accept/Cleanup` |
| Log sessions | `log/client/linux`, `log/server/linux` | client: `Buffer`, `Cursor`; server: `Buffer`, `Cursor` | `Print`, `Info`, `Warning`, `Error`, `Flush`, `Session_Event` |
| Memory, Rom, Timer sessions | `memory/*/linux`, `rom/client/linux`, `timer/client/linux` | a mapping or a timer descriptor | `Initialize`, `Finalize`, `Modify`, `Update`, `Set_Timeout` |

The broker forks one process per `<component>` and keeps a socket to each.
A component calls `Initialize` (for a session) or `Register` (as a server),
which send one packet on that socket and block until one packet arrives.
The broker finds the server in the configuration, makes a socket pair and
forwards the request, with both ends, on a second socket which it shares with
that server for this kind of session.  The server's library calls the user's
`Dispatch`; what that accepts is confirmed and everything else rejected, and
the broker passes the answer on to the client.  Rom and Timer sessions are
provided by the broker itself.

### The system on Genode

| part | source | state | operations |
|---|---|---|---|
| component life | `platform/genode/cai_main.cc`, `cai_factory.h`, `gneiss.h`, `gneiss-component.adb` | status, exit signal, heap of the factory | `construct`, `vacate`, `exit_handler`, `create2`, `destroy` |
| Block client | `block/client/genode` | packet stream per session, requests (`Raw`, `Allocated`, `Pending`, `Ok`, `Error`), one cache of 128 acknowledgements for all sessions | `Initialize`, `Allocate_Request`, `Enqueue`, `Update_Request`, `Read`, `Release`, `Finalize` |
| Block server | `block/server/genode`, `block/genode` | the root, one session variable, requests | `session`, `close`, `Process`, `Acknowledge`, `Unblock_Client` |
| Message, Log, Memory sessions | `message`, `log`, `memory` | root, session variables of the server, cache of ten messages, text buffers, dataspaces | `Register`, `Session_Initialize/Accept/Cleanup`, `Send`, `Read`, `Print`, `Flush`, `Modify` |
| Rom, Timer sessions | `rom/client/genode`, `timer/client/genode` | a dataspace; a one-shot timeout | `Initialize`, `Finalize`; `Set_Timeout`, `Clock` |

Servers announce a root; the root's RPCs call the user's `Dispatch`, which
gives one of its session variables to the client.  RPCs and signals of a
component are handled by its one entrypoint, one after the other.

`block/client/linux` is a block client over POSIX asynchronous I/O; the current
Linux build does not include it.

### What is hard

* Processes run concurrently, die at any moment, and are connected by sockets
  that drop packets when they are full.  A blocked client accepts whatever
  packet comes next.
* A server may register before or after the first request for it arrives.
* A component can be client and server at once (`test/log_proxy`), and is
  deaf to its clients while it is blocked itself.
* Answers can be lost on error paths, and nothing retries or times out.
* The end of a process reaches the broker in two parts, the hang-up of the
  socket and the exit status.
* Descriptors are copied with every message; a hang-up happens only when the
  last copy is closed.
* Fixed-size buffers with text of varying length: stale contents, full
  buffers, and text of length one.
* Session variables, request variables, identifiers and descriptor numbers are
  used again, while answers, registrations, I/O operations or signals of their
  last use may be under way.
* Packet streams and caches of limited size between a client with one thread
  and a server with one thread; signals that are merged.

### What makes each part correct

* Session brokering: a client is given the session it asked for in this call,
  from the server its configuration names; one answer per call, never one too
  many; a session that a client has is held by its server; every call returns.
* Lookup: an exact match wins over a default.
* Lifecycle: a process is waited for under its own Pid, a component is given
  up only after it has ended, and its status is reported.
* Log: what the server writes is what the client printed, in that order, once,
  and all of it after a flush.
* Clean-up: a session whose client has gone is finalized.
* Event loop: a descriptor's events go to the session that has it now, and
  what arrives is read.
* Memory: both sides see one file, of the size that was asked for, and nobody's
  map reaches behind its end.
* Block: a request is finished by its own acknowledgement and sees its own
  data, no packet is lost or answered twice, and each is answered.
* Sessions on Genode: each client has a session variable of its own; messages
  and text arrive in order and once.
* Timers: `Event` comes once, for the last timeout, and not too early.
* Component life on Genode: a component that vacates is destructed, and the
  parent is told the status it vacated with last.

## 2. Modules

| module | models | shows |
|---|---|---|
| `SessionService` | the promise of session brokering, without broker and sockets | abstract specification |
| `Broker` | broker, lookup, client library, dispatchers, sockets | implements `SessionService` |
| `MCBroker` | service tables and sizes for TLC | |
| `Lifecycle` | start, run and end of component processes on Linux | |
| `Descriptors` | who holds which end of a session's socket pair | |
| `EventLoop` | epoll, descriptor numbers and event handlers of a component on Linux | |
| `LogChannel` | the buffer protocol of a log session on Linux | |
| `MemoryLinux` | the memory file from its creation over its sealing to both maps | |
| `TimerService` | the promise of a timer session | abstract specification |
| `TimerLinux`, `TimerGenode` | timers over a timerfd, and over Genode's timeouts | implement `TimerService`, the latter for whole microseconds only |
| `BlockClient`, `BlockServer` | block sessions on Genode, each side against anything the packet stream lets the other do | |
| `BlockAio` | the block client on Linux | |
| `MessageSession`, `LogSession`, `MemorySession` | these sessions on Genode, with root, dispatcher, server and clients | |
| `GenodeMain` | the life of a component on Genode, with its Rom session | |
| `MCLinux`, `MCGenode`, `MCBlock`, `MCLive` | several of the modules above side by side | |
| `BrokerTypes`, `BrokerProofs` | proofs about `Broker` | its safety and the refinement of `SessionService` |
| `EventLoopProofs`, `LinuxPartsProofs` | proofs about `EventLoop`; about `MCLinux` | safety of event loop, Memory and Log sessions on Linux |
| `LifeTimerProofs` | proofs about `MCLive` | safety of `Lifecycle`, the refinements of `TimerService` |
| `BlockClientProofs`, `BlockPartsProofs` | proofs about `BlockClient`; about `MCBlock` | safety of block sessions |
| `GenodeProofs` | proofs about `MCGenode` | safety of Message, Log and Memory sessions and of a component's life on Genode |

### Broker

The state is that of the broker (`fdValid` is `Components (c).Fd` being valid,
`serv` the kinds for which `Serv` holds a socket pair, `nextId` numbers the
session socket pairs), of every component (`status`, the library call `call`
it is blocked in, the dispatchers `disp`, the dispatch under way in `cur` and
`accepted`, its sessions `clientS` and `serverS`), and of the sockets (`up` and
`down` between component and broker, `req` and `ans` between broker and
dispatcher).

| action | code |
|---|---|
| `Read_Message`, `Hang_Up`, `Read_Service` | one turn of `Event_Loop`, with the whole of `Handle_Message` |
| `Initialize` / `Initialized` | `Gneiss_Internal.Client.Initialize` up to and from its blocking receive, with the rest of `<Kind>.Client.Initialize` |
| `Register` / `Registered` | the same for `<Kind>.Dispatcher.Register` |
| `Finalize` | `<Kind>.Client.Finalize` |
| `Dispatch_Event`, `Session_Accept`, `Dispatch_Return` | `Dispatch_Event` of a dispatcher: before, inside and after the user's `Dispatch` |
| `Construct_Return` | `Run` enters its loop |
| `Exit` | the process ends, whatever it was doing |

The broker is one thread, so that one event with all its calls is one step; a
component is one thread too, and everything it does is cut where it blocks or
where the user's code runs.  A name or label is a value with a length; file
descriptors passed with a message are one value, which records the request it
was made for.  Which session requests a component makes is arbitrary, how many
is bounded by `MaxCalls`.  `Outcomes` says whether a system call that allocates
a descriptor may fail.

### LogChannel

One client session variable, used for up to `MaxSessions` sessions in turn, and
the server's end of each.  Characters are numbered in the order in which they
are printed, so that loss, repetition and reordering show.  `Print_Char` is one
turn of the loop in `Print` (`Info`, `Warning` and `Error` are calls of
`Print`).  `BufferLast` is 128 in the code and 3 in the runs: what matters is a
text shorter than, as long as and longer than the buffer.

### Lifecycle

Components are numbered as in the configuration.  `Start_Component` is one turn
of `Start_Components`, with each of its system calls failing or not.  A process
goes through `Run`; the user's code is only whether it vacates.  Its end is two
steps of the kernel: descriptors closed, process waitable.

### Descriptors

A session request is a stage, and for each end there is the set of its holders:
processes and messages under way.  `Session_Cleanup` is possible when no holder
of the client's end is left.

### EventLoop

A descriptor is a number, which is given again once it is closed; a
registration with epoll is a number, the socket behind it when it was added,
and the address of the session's capability, and ends only with `Remove` (other
processes hold copies of the socket, so closing it does not end it).
`Event_Handler` is one turn of the loop with the handler it calls: reading of a
Message client, server or dispatcher or a Log dispatcher, or their error
handlers; that of a Log dispatcher closes epoll.  Of messages the model has the
number.

### MemoryLinux, TimerLinux, TimerGenode

`MemoryLinux` has a file per client with size and seals, and the maps of both
sides.  `fstat_size` keeps the width of the C `int`, of which `IntHalf` values
are not negative.  Whoever has the file may resize it at any time that the seals
permit, also before the broker has sealed it; a history variable records that.
In the timers one tick is the smallest unit of the code (a nanosecond); a second
is `Nano`, a microsecond `Micro` of them.  `TimerService` is mapped to by the
time that was asked for, which the code does not keep and the modules record.

### BlockClient, BlockServer, BlockAio

`BlockClient` has the requests, the streams and the cache all sessions share;
packets carry a serial number that only the properties look at.  An `Enqueue`
that finds the submit queue full blocks the only thread (`call`), and for ever:
`submit_packet` waits for the signal `ready_to_submit`, and the constructor has
installed the handler of `Event` for it (`block_client.cc:48`).  The same signal
is an additional `Event` whenever the server takes a packet from a full queue
(`Take`).  The application does whatever the preconditions of the operations
permit.  Two history variables record what the properties have to except:
`tainted` has identifiers that two requests had at a time or whose request was
released while it was pending, `strayed` the connections of a session that used
a request of another connection.  No guard reads them.

`BlockServer` has the root, the session variable that is given to one client
after the other, and the loop of the server's `Event`, one request a step, with
the client running, and leaving, in between.

`BlockAio` has descriptors, heap cells with control blocks, and the C library:
a worker takes an operation, from when on it cannot be cancelled (`Take`), later
uses its descriptor number, whatever is open there then (`Start`), and completes
it at any time (`Complete`).  The SIGIO of a completion may end the component,
since nothing in the repository handles or ignores it.  When memory that an
operation still works on is allocated again, the behaviour is undefined and the
model ends.  The history variable `loose` of a cell records that the operation's
number was closed where `aio_cancel` does not reach the operation.

### MessageSession, LogSession, MemorySession, GenodeMain

The first three share their structure, as their sources do: `create_session`
and `destroy_session` are the RPCs of the root with the whole of the user's
`Dispatch`; `Session_Initialize` meets each of its failures; the client's
constructor goes on after the session was created.  A dataspace of size 0 has no
local address, so that a Memory server that gets ready with one is Ready and not
Initialized: its client is denied and the component stays in the variable.

`GenodeMain` has the pending signals, the exit signal and the parent.  `exit` at
the parent returns, handlers go on to run, and a further `Vacate` calls
`Destruct` again, which is followed up to `MaxDestructs` calls, until the parent
destroys the component.

### The MC modules

`MCLinux`, `MCGenode`, `MCBlock` and `MCLive` put several components into one
run.  The components of one such module share no state in the code: they are
different libraries, of which the program links those it uses, and where two
meet (client and server of a block session, a component and the broker) each
module already lets its environment do whatever the interface permits.  So
their interleaving can show nothing that each does not show alone.  The
variable `part`, chosen at first, says which component runs; the others stay in
their initial state.  The properties of all of them are checked in every state.
The sizes of each component are constants of the MC module, so that the theorems
about it hold for all of them.
Nothing is due in a component that stays in its initial state, so that its
fairness holds trivially; the broker's start (`Lifecycle`) and the ticks of the
timers, which are possible from the first state on, are required to go on only
where their part is chosen.

## 3. Runs

Passing runs:

* `MCBroker_crash`: two clients and a server, one client also a server, two
  labels, Log sessions that are forwarded and Rom sessions that the core
  provides; every allocation may fail, and the server and the client that is a
  server too @  requests can wait in one service socket, and lookup has a default and an exact
  match to choose from.
* `MCBroker_live`: the log proxy of the tests, under the fairness below; the
  client calls twice, so that an answer could be taken for that of a later call.
* `MCLinux`: `EventLoop` with a session of each role, three descriptors and
  three sockets, so that a number is used for a second socket, every
  registration failing or not, and the broker ending before the component;
  `MemoryLinux` with three clients for two session variables, sizes of none, one,
  the first that is negative as an `int` and the first that is positive again,
  and files that are resized at any time; `LogChannel` with two sessions, six
  characters (twice the buffer) and sockets of two packets, so that packets are
  also lost.
* `MCGenode`: `MessageSession` with three clients for two session variables, a
  cache of two and three messages, so that it is full, a server that sends at
  any time and clients that leave at any time; `LogSession` with texts shorter
  and longer than buffer (4) and slice (2); `MemorySession` with dataspaces that
  are empty, just too small and large enough for the server's greeting;
  `GenodeMain` with five other signals and two calls of `Destruct`.
* `MCBlock`: `BlockClient` with two sessions that may have the same index, two
  requests, identifiers, connections and packets, so that identifiers are used
  twice, requests outlive their session and meet the next one, and a submit
  queue of one is full; `BlockServer` with two clients, two requests and queues
  of two; `BlockAio` with two sessions, files, descriptors and cells.
* `MCBlock_live`: the same with queues of one and one session; the server's
  client has up to three packets unanswered, which jam the acknowledgements.
* `MCLive`: `Lifecycle` with two components, so that one can be started while
  the other ends, all failures and crashes; `MessageSession` with the echo
  server of the tests and two clients that compete for one session variable;
  `EventLoop` with a session of each role; `GenodeMain`; and the timers, with
  durations below, at and above a second, and below, at and between the
  multiples of a microsecond.

The bounds are small because the properties speak of one client and one server,
or of two that could be confused.  All of them except the liveness properties
are also proved for all sizes (section 5).

What the passing runs check, apart from the types (`TypeOK`, `TypesOK`):

| run | property | says |
|---|---|---|
| `MCBroker_crash` | `OneAnswerPerCall`, `SocketsBounded` | of each call at most one request or answer is under way, so that none is dropped at a full socket or taken for another call's |
| | `SessionsAsConfigured`, `SessionsServed` | both ends of a session are those the configuration names |
| both broker runs | `ImplementsSessionService` | the broker with its protocol implements `SessionService` |
| `MCBroker_live` | `GrantMatchesCall` | what a call gets is what was asked for |
| | `EveryCallReturns` | `Initialize` and `Register` return |
| `MCLinux` | `RegistrationsLive` | what the epoll set points to is a session that still exists |
| | `MemoryAsAsked`, `MemoryIsShared` | the server's map never reaches behind the end of the file, which has the size asked for if nobody resized it; both sides have the same file |
| | `WrittenInOrder`, `WrittenOnce` | of the printed text the server writes no character twice, late or in another session |
| `MCGenode` | `EachItsOwn`, `ClientsKeptApart` | clients and session variables belong together one to one, through failures and early ends |
| | `ReadInOrder`, `TextInOrder` | messages are read in order and once; of a text nothing is lost |
| | `LastStatusReported` | the parent has the status of the last `Vacate`, or the exit signal is pending; what `Destruct` closed stays closed |
| `MCBlock` | `CompletedByOwn`, `DataIsOwn` | a request is completed by the answer to itself and gets its own data |
| | `PacketsKept` | a packet is in one place, its buffer comes back, and what a client gets of another's answers is that of clients that left |
| | `NoUseAfterFree`, `OwnFileOnly` | asynchronous I/O touches freed memory or another file only after a release or a close that `aio_cancel` came too late for |
| `MCBlock_live` | `PendingCompletes`, `EveryPacketAnswered`, `AioCompletes` | what is pending is completed and what is submitted answered |
| `MCLive` | `OwnPidOnly`, `NoneAbandoned`, `VacatedIsReported` | the broker waits for the right process, gives up none that runs, and reports each that vacates |
| | `EveryMessageRead`, `InputIsHandled` | what arrives is read |
| | `VacatedExits` | a component that vacates is destructed and reported |
| | `LinuxKeepsPromise`, `GenodeKeepsMicros`, `TimersFire` | both timers implement `TimerService`, the one on Genode for the whole microseconds of a duration, and fire |

Runs that find a disagreement between the code and what the repository says
about it (details under `findings` in `PROJECT.json`):

* `MCBroker_long_label` (`EveryCallReturns`): `Initialize` does not return.
* `MCLogChannel_single` (`FlushedIsWritten`): a packet with one character is not written.
* `MCLifecycle_race` (`StatusZeroIsSuccess`): status 0 is reported for a component that did not vacate
  with success.
* `MCDescriptors` (`DisconnectedIsFinalized`): server sessions are never cleaned up after their client.
* `MCTimerGenode_early` (`KeepsPromise`): on Genode `Event` comes before the
  duration has passed.

Deadlock is not checked: a system in which all components have made their
calls, or have died, rightly stops.

### What the passing properties except

Where the code does not keep a property in all cases, the cases are in the run
and the property names them, so that it says that there are no others.  Each
exception is one that TLC refutes the property without:

| property | except | code | what the repository says |
|---|---|---|---|
| `CompletedByOwn`, `PendingSomewhere` | an identifier two requests had at a time (`tainted`): the cache is shared by all sessions and matched by identifier only | `block/client/genode/gneiss-block-client.adb:123` | `gneiss-block-client.ads:114` calls it a "Unique identifier for this request, chosen by the application", not unique among which |
| same | an identifier whose request was released pending (`tainted`): its acknowledgement finishes the next request that has it | same | `ads:234`: "it is possible to release unfinished requests" |
| `DataIsOwn`, `PendingSomewhere`, `BufferComesBack` | connections of which a session used another's request (`strayed`): sessions of one index, or one that was finalized with requests left and initialized again | same file, `:39`, `:219` | `ads:91`: "It can then only be used by this session."; the default of the index is 1 (`ads:160`), and `Finalize` asks for nothing |
| `PendingCompletes` | an `Enqueue` that found the submit queue full (`call`), which does not return | `block_client.cc:48`, `:162` | `ads:171`: "Enqueueing the request might fail. If this happens the request status will stay Allocated." |
| `PendingCompletes` | more requests pending than the cache has room for (`Room`, 128 slots): an acknowledgement stays in the stream's queue, for which no signal comes any more | `gneiss-block-client.adb:121` | nothing |
| `PacketsKept` | packets of a client that left are acknowledged to the next | `gneiss-block-dispatcher.adb:146` | nothing |
| `EveryPacketAnswered` | all requests are pending and the acknowledgement queue full (`Jammed`): `Event` of the test's server loops and never wakes the client | `test/block_server/component.adb:148` | nothing |
| `NoUseAfterFree` | a request that was released while a worker had its operation, or after its number was closed | `block_client.c:152` | `ads:234`, as above |
| `OwnFileOnly` | an operation whose number was closed when a worker had taken it, before it was enqueued, or before it was allocated (`loose`) | `block_client.c:116`, `:99` | nothing |
| `AioCompletes` | the component is ended by the SIGIO of a completion | `block_client.c:46` | nothing |
| `InputIsHandled` | the peer hangs up before the input is read: both together count as an error | `gneiss_internal-epoll.ads:46` | nothing |
| `InputIsHandled` | `Dispatch_Error` of a Log dispatcher has closed the component's epoll descriptor | `gneiss-log-dispatcher.adb:110` | nothing |
| `InputIsHandled` | sessions that epoll did not take: `Register` ignores that | `gneiss-message-dispatcher.adb:160` | nothing |
| `MemoryAsAsked` | a file that was resized before it was sealed has another size than its client asked for, and sizes are those of an `int` | `syscall.c:207`, `:234` | nothing |
| `MemoryIsOwn` (in `ClientsKeptApart`) | the empty component of a client that was denied stays in its variable | `memory/server/genode/gneiss-memory-dispatcher.adb:113` | nothing |
| `GenodeKeepsMicros` | what a duration has beyond whole microseconds | `timer_client.cc:94` | refuted as `KeepsPromise`, see above |

Two properties depend on constants of their run instead:

| property | holds with | otherwise | code |
|---|---|---|---|
| `EveryCallReturns` | no Rom with a server, servers that live (`MCBroker_live`) | the client is never answered | `gneiss-broker-message.adb:191`, `gneiss-broker-main.adb:91` |
| `EveryMessageRead` | `Spontaneous` = FALSE | a message sent before the client's `sigh` has no signal, and none follows | `gneiss_message_server.cc:84` |
| `EveryMessageRead` | `CloseEarly` = FALSE | the next client of the session variable finds the cache of the last one | `gneiss-message-dispatcher.adb:163` |

`StatusZeroIsSuccess`, which is refuted by the race, fails of a component ended
by a signal as well: its status is 0 (`syscall.c:60`).

Also seen while modelling, and not stated as properties: the Log dispatcher on
Genode calls the server's `Initialize` also when there is no component and the
index is not valid, against the precondition in `test/log_proxy` (in the model
the server may end there); a Memory dispatcher on Genode marks a session ready
without memory, and the variable is then lost; on Genode handlers run after
`Destruct` and `adafinal`, and a second `Vacate` destructs again
(`cai_main.cc:26`); the Memory server on Linux never unmaps; `Finalize` of a Log client on Genode does not flush;
`Log_Component::write` returns the lower 32 bits of a `size_t` that it did not
initialize.

## 4. Fairness

`MCBroker_live` and `MCBroker_long_label` assume weak
fairness of each turn of the broker's event loop per descriptor (epoll is level
triggered and serves ready descriptors in turn), of the return from a blocking
receive once a packet is there, and of dispatching.  Of the user's code it is
assumed that `Construct` and `Dispatch` return and that a component which the
configuration names as a server registers; without that no request to it could
ever be answered.  `Initialize`, `Finalize`, `Session_Accept` and `Exit` are
never assumed to happen.  `Lifecycle` assumes that the broker and the kernel go
on and that handlers return, not that events arrive; `Descriptors` that
messages are delivered and handled.

In `MCBlock_live` and `MCLive` an entrypoint delivers pending signals and its
handler comes to its end; epoll serves ready descriptors in turn; time passes;
a server takes and answers what it is sent, a client takes what it has been told of;
the C library works on what is queued, and the Linux block client, which has no
working notification, keeps calling `Update_Request`.  That anybody opens or
closes a session, allocates, enqueues, sends or vacates is never assumed.

## 5. Proofs

Every invariant, action property and refinement that a passing run checks is
also a theorem, for all values of the constants.  What each rests on:

### The broker (`BrokerTypes`, `BrokerProofs`)

For every configuration, every number of components, labels and kinds, every
socket size and with all failures:

* `TypeCorrect`: `Spec => []TypeOK`.
* `Invariance`: `Spec => []IInv`, the inductive invariant.
* `OneAnswer`, `Served`, `AsConfigured`, `Bounded`: the invariants
  `OneAnswerPerCall`, `SessionsServed`, `SessionsAsConfigured`, `SocketsBounded`.
* `Grants`: the action property `GrantMatchesCall`.
* `Refinement`: `Spec => ImplementsSessionService`.

They rest on the named assumptions of `Broker` about its constants (there are
finitely many components, names have 1 to 255 characters, labels 0 to 255, the
markers such as `NoFd` are none of the values they stand out from, services name
components) which TLC evaluates in every run of `MCBroker`.

None of the properties is inductive.  That a client gets one answer depends
on there being one message about it anywhere, and that this message belongs to
the call; what is found in a service socket must therefore agree with the call
of the client it names, which may be many steps away.  `IInv` says that there
is an assignment `ph` of a stage (`idle`, `up`, `req`, `cur`, `ans`, `down`) to
each component such that a message about it is found only at the place of that
stage (`UpInv`, `DownInv`, `CurInv`, `QueueInv`), that it is at most one there,
and that it has kind, label, server and end of the call (`Pending`, `Suits`).
A client may be at a stage without a message being there: that is a message
lost or dropped.  `AnswerInv` and `HeldEnds` add that an end is confirmed only
while its server holds it, `SessionsRouted` that both ends are those configured.

The stage of a component is existentially quantified, so that each step lemma
(`AskStep`, `ReturnStep`, `HandleStep`, `ReadUpStep`, `ReadAnsStep`,
`DispatchStep`, `AnswerStep`, `IdleStep`) gives the assignment after the step.
`HandleEffect` sums up what the broker does with a message: drop it, answer the
component it is about, once, or forward it to the server configured.

`Bounded` counts: the messages in the two directions of a service socket name
different clients, all of them blocked on that server.  `Refinement` takes the
actions one by one: the client's and the server's steps are those of
`SessionService`, everything the broker does in between is a stutter, and a
grant is an abstract one because the server already holds its end.

### Processes and timers (`LifeTimerProofs`)

* `LifeInvariance`, `LifeTypes`, `OwnPid`, `NoneIsAbandoned`: `IInv`, `TypeOK`,
  `OwnPidOnly` and `NoneAbandoned` of `Lifecycle`, for any number of components
  and with all failures and crashes.
* `OneReport`: the action property that no reported status changes and no
  reaped process comes back.
* `LinuxRefinement`, `GenodeRefinement`: `LinuxKeepsPromise` and
  `GenodeKeepsMicros`, for all durations.

`OwnPidOnly` fails to be inductive because a turn of `Start_Components` writes to
one entry: that entry must be known to be untouched (`NotYetStarted`), and a
component without a process to have done nothing (`NoneWithoutProcess`).

`LinuxTimer` says that an armed timerfd expires when it was asked to and one
that has expired is due; `GenodeTimer` that a scheduled timeout is the one asked
for, cut to microseconds, and that `Clock` gave no more than the microsecond
that has begun.  The abstract timer that `GenodeRefinement` speaks of is set to
the whole microseconds of the duration; with the duration itself TLC finds the
event to come early (`MCTimerGenode_early`).

### Sessions on Linux (`EventLoopProofs`, `LinuxPartsProofs`)

* `LoopInvariance`, `LoopTypes`, `Registrations`: `IInv`, `TypeOK` and
  `RegistrationsLive` of `EventLoop`, for every number of sessions, descriptors
  and sockets, with all failures and hang-ups (from `LoopAssumption`).
* `OneSharer`, `WholeMemory`: `MemoryIsShared` and `MemoryAsAsked`.
* `LogWritten`, `LogSessionsApart`: `WrittenInOrder` and `WrittenOnce`.
* `PartsTypes`: `TypesOK` of `MCLinux`.

`RegistrationsLive` is not inductive: a number that is closed and given again
could carry an old registration, or a socket be open under two numbers.  `IInv`
adds that an open descriptor is that of exactly one session, which is also the
one its socket was made for, and that descriptor and capability of a session
are valid together.

`MemoryServed` ties each descriptor of the server to one client that has got as
far as being served.  `MemoryFiles` follows a file: it has the size that was
asked for as long as nobody resizes it, and from the broker's seals on it cannot
change.  The server maps it only after that, and so its map keeps the length of
the file; since `fstat_size` of a size, where it is positive, is not above it,
the map ends within the file, however large the file is.

`LogInv` orders the characters of a session by where they are: those written
come before those in the packets under way (`InOrder`), these before those in
the client's buffer (`Buffered`), and all before the ones of later sessions
(`Ahead`).  Without the packets and the buffer the order of what is written says
nothing about what may be written next.

### Block sessions (`BlockClientProofs`, `BlockPartsProofs`)

* `ClientTypes`, `OwnAcknowledgement`, `OwnData`, `BufferIsKept`, `InOnePlace`:
  `TypeOK`, `CompletedByOwn`, `DataIsOwn`, `BufferComesBack` and
  `PendingSomewhere` of `BlockClient`.
* `KeptOnBothSides`: `PacketsKept`, for client and server.
* `AioMemory`, `AioOwnFile`: `NoUseAfterFree` and `OwnFileOnly` of `BlockAio`.
* `PartsTypes`: `TypesOK` of `MCBlock`.

They hold whatever the application does within the preconditions of the
operations, and rest on no assumption beyond those on the sizes.

The loop of `Update_Request` is a recursive function over the slots of the
cache.  `CountUp` gives induction on the turns, and from it follows that the
loop takes at most the acknowledgement of the request that is updated and loses
no other (`Finishes`), as far as identifiers are not tainted.  On this rest
`Base` (types, one connection per session, unique serial numbers, identifiers
unique but for the tainted ones), `Finished` (each packet on the way is that of
one pending request, and in one place), `Kept` (every request has its cell in the
buffer of its connection) and `Somewhere` (a pending request has a packet on the
way).  `Finished` says nothing about tainted identifiers, `Kept` nothing about
strayed connections and `Somewhere` nothing about either.

`ServerInv` divides the packets that clients have submitted among queues,
request variables, acknowledgements and what was fetched, and says that the
session variable belongs to the one client that is open.  `AioInv` gives each
request that is not raw a heap cell of its own, and each operation that may yet
be started a descriptor that is still that of its file, unless the number was
closed behind its back.

### Sessions on Genode (`GenodeProofs`)

* `MessageInvariance`, `MessageTypeCorrect`, `OwnSession`, `ReadingOrder`: `IInv`,
  `TypeOK`, `EachItsOwn` and `ReadInOrder` of `MessageSession`, with servers that
  send at any time and clients that leave at any time if the constants say so.
* `KeptApart`: `ClientsKeptApart`, for Log and Memory sessions.
* `PrintedInOrder`: `TextInOrder`.
* `StatusReported`: `LastStatusReported`.
* `PartsTypes`: `TypesOK` of `MCGenode`.

`Homes`, `LogHomes` and `MemoryHomes` say that clients, components and session
variables agree: only then is the variable that an RPC goes to determined.
`Order` speaks of the messages in all caches, those to clients that are gone
included, because a session variable keeps its cache for the next client.
`MainInv` has that a status that is set was vacated with, and that the exit
signal is pending whenever the status is not the one reported; `MemoryHomes`
also says what is left in the variable of a client that was denied.

`LogText` states that what the server has, the slices under way and the buffer
make up the text.  `Print` and `Flush` cut a text into slices; that these
(`Joins`) flatten to the text again is an induction over the recursive function
behind `FlattenSeq`.  The library's theorems on induction take an operator as a
parameter, which the provers cannot instantiate; `CountUp`, here and in
`BlockClientProofs`, takes a set of numbers instead, and looks at the smallest
number that is missing from it.

### Only model-checked

Liveness, which is out of reach of the prover: `EveryCallReturns`,
`PendingCompletes`, `EveryPacketAnswered`, `AioCompletes`,
`VacatedIsReported`, `EveryMessageRead`, `InputIsHandled`, `VacatedExits`,
`TimersFire`.  `Descriptors` has no safety property of its own.

## 6. Not modelled

* The encoding of packets: code generated from `session.rflx` by RecordFlux,
  which is taken to be lossless.
* Parsing of the XML configuration and command line, printing, the dynamic
  linker: wrappers of libraries, done once at the start.
* The bytes of messages, blocks, dataspaces and Rom modules: a message or
  packet is a value.  `Read` and `Write` of Message clients on Linux pass
  `Content'Size * 8` as a length, `gneiss_read_message` counts the header of a
  control message as descriptors; both concern memory outside the model.
* `Update` of Rom sessions, which maps or reads a file and keeps nothing.
* `Sync` and `Trim` of the block client beyond being unsupported, and block
  sizes and ranges.
* The build tool `cement` and the drivers of the tests.  The components of the
  tests are modelled where they are the server behind a session.

## 7. Plan

Prove: `SessionService` by itself never grants twice; that `Match_Service`
returns the first exact match or else the last default.  Model: the search loops of `Match_Service` and
`Find_Resource_*` against these definitions.
