------------------------------ MODULE BlockAio ------------------------------
(***************************************************************************)
(* Block clients on Linux: sessions are files or devices, requests POSIX   *)
(* asynchronous I/O operations.  From block/client/linux/block_client.c    *)
(* and block_client.h (lower-case names, without the prefix block_client_) *)
(* and gneiss-block-client.adb (names in Ada's spelling).  The operations  *)
(* of libc, Take, Start and Complete, are external.                        *)
(*                                                                         *)
(* Descriptors are numbers the system gives out lowest first and gives     *)
(* again once closed; control blocks with their data buffers are cells of  *)
(* a heap that are given again once freed.  Of the data the model has the  *)
(* file it is read from or written to.  If memory is given again that an   *)
(* operation still works on, nothing is defined any more, and the model    *)
(* ends there.                                                             *)
(***************************************************************************)
EXTENDS Naturals, FiniteSets

CONSTANTS
    Sessions,       \* Client_Session variables, with distinct tags
    Requests,       \* Request variables
    Files,          \* paths the client opens
    Fds,            \* descriptor numbers, 1 and up
    Cells           \* heap cells

AioAssumption == Fds \subseteq Nat \ {0}

None == 0     \* no descriptor (-1), null pointer, no file
Aio_Kinds == {"read", "write", "sync"}
Statuses == {"raw", "allocated", "pending", "ok", "error"}

VARIABLES
    session,   \* s :> [fd, set]: descriptor; event and rw are not null
    path,      \* s :> the file the client uses s for, None if it does not
    file,      \* n :> the file open as descriptor n, None if n is free
    request,   \* r :> [status, aio_cb, session]; what else a Raw request has is
               \* not looked at, and the operation of its kind works alike
    cell,      \* h :> [live, fd, of, op, at, loose]: allocated; aio_fildes; the
               \* file of the session that allocated it; state of the operation;
               \* the file the operation works on; its number was closed, by
               \* whomever, where aio_cancel does not reach the operation
    alive      \* the component runs and its behaviour is defined

vars == <<session, path, file, request, cell, alive>>

Request == [status: Statuses, aio_cb: Cells \cup {None}, session: Sessions \cup {None}]
Block_Client == [fd: Fds \cup {None}, set: BOOLEAN]
Raw == [status |-> "raw", aio_cb |-> None, session |-> None]

Init ==
    /\ session = [s \in Sessions |-> [fd |-> None, set |-> FALSE]]
    /\ path = [s \in Sessions |-> None]
    /\ file = [n \in Fds |-> None]
    /\ request = [r \in Requests |-> Raw]
    /\ cell = [h \in Cells |->
                 [live |-> FALSE, fd |-> None, of |-> None, op |-> "idle", at |-> None,
                  loose |-> FALSE]]
    /\ alive = TRUE

Initialized(c) == c.set /\ c.fd # None
Assigned(s, r) == request[r].session = s
InFlight(h) == cell[h].op \in {"queued", "taken", "running"}

-----------------------------------------------------------------------------
(* Sessions                                                                *)

\* Mutant: finalize without aio_cancel.
finalize_NoCancel(n) ==
    /\ file' = [m \in Fds |-> IF m = n THEN None ELSE file[m]]
    /\ UNCHANGED cell

\* aio_cancel takes back the operations that no worker has taken, close frees
\* the number.  On a number that is not open both fail.
finalize(n) ==
    /\ cell' = [h \in Cells |->
          IF cell[h].fd # n \/ file[n] = None THEN cell[h]
          ELSE [cell[h] EXCEPT !.op = IF @ = "queued" THEN "cancelled" ELSE @,
                               !.loose = @ \/ cell[h].op \in {"idle", "taken"}]]
    /\ file' = [m \in Fds |-> IF m = n THEN None ELSE file[m]]

\* open, read-write or else read-only, then the type of the file.  What has no
\* meta data or is neither a regular file nor a block device is closed, but
\* keeps its number and the callbacks; if it cannot be opened the number is -1
\* and the callbacks are not set.
initialize(s, f) ==
    \/ \E n \in Fds :
          /\ file[n] = None /\ \A m \in Fds : file[m] = None => n <= m
          /\ session' = [session EXCEPT ![s] = [fd |-> n, set |-> TRUE]]
          /\ file' \in {[file EXCEPT ![n] = f], file}
    \/ session' = [session EXCEPT ![s].fd = None] /\ UNCHANGED file

\* A session that is Initialized, as it still is after Finalize, is left as it
\* is.  The client uses the session if it is Initialized then.
Initialize(s, f) ==
    /\ alive /\ path[s] = None
    /\ IF Initialized(session[s]) THEN UNCHANGED <<session, file>> ELSE initialize(s, f)
    /\ path' = [path EXCEPT ![s] = IF Initialized(session'[s]) THEN f ELSE None]
    /\ UNCHANGED <<request, cell, alive>>

Finalize(s) ==
    /\ alive
    /\ Initialized(session[s])   \* else it returns
    /\ finalize(session[s].fd)
    /\ path' = [path EXCEPT ![s] = None]
    /\ UNCHANGED <<session, request, alive>>

-----------------------------------------------------------------------------
(* Requests                                                                *)

\* Control block and buffer are allocated and the status is Allocated, or
\* there is no memory or the kind is not supported and it stays Raw.
allocate_request(s, r, k) ==
    \/ \E h \in Cells :
          /\ k # "sync" /\ ~cell[h].live
          /\ alive' = ~InFlight(h)
          /\ request' = [request EXCEPT ![r] = [status |-> "allocated", aio_cb |-> h, session |-> s]]
          /\ cell' = [cell EXCEPT ![h] = [live |-> TRUE, fd |-> session[s].fd,
                                          of |-> path[s], op |-> "idle", at |-> None,
                                          loose |-> file[session[s].fd] # path[s]]]
    \/ UNCHANGED <<request, cell, alive>>

Allocate_Request(s, r, k) ==
    /\ alive /\ path[s] # None /\ request[r].status = "raw"
    /\ allocate_request(s, r, k)
    /\ UNCHANGED <<session, path, file>>

\* The operation is queued and the request Pending, or aio_read or aio_write
\* fails and it stays Allocated.
enqueue(r) ==
    /\ request' = [request EXCEPT ![r].status = "pending"]
    /\ cell' = [cell EXCEPT ![request[r].aio_cb].op = "queued"]

Enqueue(s, r) ==
    /\ alive /\ path[s] # None /\ request[r].status = "allocated" /\ Assigned(s, r)
    /\ enqueue(r) \/ UNCHANGED <<request, cell>>
    /\ UNCHANGED <<session, path, file, alive>>

\* Mutant: an operation in progress is taken as failed.
update_request_Early(r) ==
    IF cell[request[r].aio_cb].op = "done" THEN "ok" ELSE "error"

\* Mutant: failures are not looked at.
update_request_OkOnly(r) ==
    IF cell[request[r].aio_cb].op = "done" THEN "ok" ELSE "pending"

\* aio_error and aio_return.
update_request(r) ==
    IF InFlight(request[r].aio_cb) THEN "pending"
    ELSE IF cell[request[r].aio_cb].op = "done" THEN "ok" ELSE "error"

Update_Request(s, r) ==
    /\ alive /\ path[s] # None /\ request[r].status = "pending" /\ Assigned(s, r)
    /\ request' = [request EXCEPT ![r].status = update_request(r)]
    /\ UNCHANGED <<session, path, file, cell, alive>>

\* aio_cancel, and control block and buffer are freed whatever it returns;
\* the request, which may be Pending, is set to zero.
release(s, r) ==
    LET h == request[r].aio_cb
    IN /\ cell' = [cell EXCEPT ![h].live = FALSE,
                               ![h].op = IF @ = "queued" /\ file[session[s].fd] # None
                                         THEN "cancelled" ELSE @]
       /\ request' = [request EXCEPT ![r] = Raw]

Release(s, r) ==
    /\ alive /\ path[s] # None /\ request[r].status # "raw" /\ Assigned(s, r)
    /\ release(s, r)
    /\ UNCHANGED <<session, path, file, alive>>

-----------------------------------------------------------------------------
(* libc and the kernel                                                     *)

\* A worker takes the operation; from here on it cannot be cancelled.
Take(h) ==
    /\ alive /\ cell[h].op = "queued"
    /\ cell' = [cell EXCEPT ![h].op = "taken"]
    /\ UNCHANGED <<session, path, file, request, alive>>

\* The worker's system call gets the file that is behind the number now.
Start(h) ==
    /\ alive /\ cell[h].op = "taken"
    /\ cell' = [cell EXCEPT ![h].op = IF file[cell[h].fd] = None THEN "failed" ELSE "running",
                            ![h].at = file[cell[h].fd]]
    /\ UNCHANGED <<session, path, file, request, alive>>

\* All bytes are transferred, or fewer, or none; then SIGIO, which ends the
\* component unless it was started with that signal ignored.
Complete(h) ==
    /\ alive /\ cell[h].op = "running"
    /\ \E op \in {"done", "failed"} : cell' = [cell EXCEPT ![h].op = op]
    /\ alive' \in BOOLEAN
    /\ UNCHANGED <<session, path, file, request>>

-----------------------------------------------------------------------------
Next ==
    \/ \E s \in Sessions :
          \/ \E f \in Files : Initialize(s, f)
          \/ Finalize(s)
          \/ \E r \in Requests :
                \/ \E k \in Aio_Kinds : Allocate_Request(s, r, k)
                \/ Enqueue(s, r) \/ Update_Request(s, r) \/ Release(s, r)
    \/ \E h \in Cells : Take(h) \/ Start(h) \/ Complete(h)

Spec == Init /\ [][Next]_vars

\* libc works on what is queued; the client keeps asking for its requests.
Fairness ==
    /\ \A h \in Cells : WF_vars(Take(h)) /\ WF_vars(Start(h)) /\ WF_vars(Complete(h))
    /\ \A s \in Sessions, r \in Requests : WF_vars(Update_Request(s, r))

FairSpec == Spec /\ Fairness

-----------------------------------------------------------------------------
(* Properties                                                              *)

\* Every variable has its type, and the allocated cells are exactly those of
\* the requests, one each: none is leaked or shared (allocate_request, release).
TypeOK ==
    /\ session \in [Sessions -> Block_Client]
    /\ path \in [Sessions -> Files \cup {None}]
    /\ file \in [Fds -> Files \cup {None}]
    /\ request \in [Requests -> Request]
    /\ cell \in [Cells -> [live: BOOLEAN, fd: Fds \cup {None}, of: Files \cup {None},
                           op: {"idle", "queued", "taken", "running", "done", "failed",
                                "cancelled"},
                           at: Files \cup {None}, loose: BOOLEAN]]
    /\ \A h \in Cells :
          Cardinality({r \in Requests : request[r].aio_cb = h}) = IF cell[h].live THEN 1 ELSE 0
    /\ \A r \in Requests : request[r].aio_cb = None <=> request[r].status = "raw"
    /\ alive \in BOOLEAN

\* The memory of an operation in flight is that of a Pending request: libc
\* writes to memory that is freed only if the client released the request after
\* a worker had taken it or the session's number was closed, never because
\* update_request ended it too soon or a queued operation was left behind
\* (release, update_request).
NoUseAfterFree ==
    \A h \in Cells : InFlight(h) =>
       \/ \E r \in Requests : request[r].aio_cb = h /\ request[r].status = "pending"
       \/ ~cell[h].live /\ (cell[h].op \in {"taken", "running"} \/ cell[h].loose)

\* An operation reads or writes a file other than the one its session has only
\* if the number was closed while aio_cancel could not reach the operation: a
\* worker had taken it, it was not enqueued yet, or the number was not the
\* session's own any more when it was allocated.  What is queued never meets a
\* reused number (finalize, initialize).
OwnFileOnly == \A h \in Cells : cell[h].at \in {None, cell[h].of} \/ cell[h].loose

\* No descriptor is left open: each is that of a session in use and on its
\* file, whatever fails in initialize and although Finalize may close the
\* number of another session (initialize, finalize).
NoneLeftOpen ==
    \A n \in Fds : file[n] # None =>
       \E s \in Sessions : path[s] = file[n] /\ session[s].fd = n

\* A Pending request becomes Ok or Error, its session is finalized, or the
\* component is ended by the signal of a completion (update_request,
\* aio_sigevent in allocate_request).
PendingCompletes ==
    \A s \in Sessions, r \in Requests :
       (request[r].status = "pending" /\ Assigned(s, r))
          ~> (request[r].status # "pending" \/ path[s] = None \/ ~alive)

=============================================================================
