----------------------------- MODULE LogSession -----------------------------
(***************************************************************************)
(* Log sessions on Genode: the clients' buffers, the slices in which they  *)
(* are written, and the root and dispatcher that hand the server's session *)
(* variables to clients.  From log/client/genode/gneiss-log-client.adb,    *)
(* log/server/genode/gneiss-log-dispatcher.adb (names in Ada's spelling)   *)
(* and the gneiss_log_*.cc and .h files (lower-case names); the server is  *)
(* that of test/log_proxy.                                                 *)
(*                                                                         *)
(* A character is its number in the text its client prints (no NUL, which  *)
(* would end a slice early).  RPCs are handled by one entrypoint, each     *)
(* slice is one.                                                           *)
(***************************************************************************)
EXTENDS Naturals, Sequences, FiniteSets, SequencesExt

CONSTANTS
    Clients,     \* clients, each opens one session
    Slots,       \* session variables of the server, 10 in the test
    BufferSize,  \* Buffer'Last, 4096 in the code
    SliceSize,   \* Maximum_Message_Length, 216 in the code
    MaxChars     \* bound: characters a client prints

SizesAssumption ==
    /\ Clients \subseteq Nat \ {0}
    /\ Slots \in Nat \ {0} /\ BufferSize \in Nat \ {0} /\ SliceSize \in Nat \ {0}
    /\ MaxChars \in Nat

None == 0   \* the null pointer in place of a client's component

\* Outcomes of Session_Initialize: no memory for the component, a server that
\* does not get ready, success.
Outcomes == {"none", "refused", "ready"}

\* Server_Session: the client of its component (with Write set), whether Index
\* is valid, Ready in the server's context.
Server_Session == [component: Clients \cup {None}, index: BOOLEAN, ready: BOOLEAN]
Unused == [component |-> None, index |-> FALSE, ready |-> FALSE]

\* Client_Session: Buffer up to the Cursor, and the slices the call under way
\* has still to write.
Client_Session == [buffer: Seq(1..MaxChars), out: Seq(Seq(1..MaxChars))]

VARIABLES
    root,      \* the dispatcher is registered
    alive,     \* the server has not been ended by a failed check
    server,    \* i :> the server's session variables
    state,     \* c :> "new", "open", "closed" or "denied"
    session,   \* c :> the client's session variable
    printed,   \* c :> characters printed
    received   \* c :> characters the server's Write got from c, in order

serving == <<root, alive, server>>
vars == <<serving, state, session, printed, received>>

Init ==
    /\ root = FALSE
    /\ alive = TRUE
    /\ server = [i \in 1..Slots |-> Unused]
    /\ state = [c \in Clients |-> "new"]
    /\ session = [c \in Clients |-> [buffer |-> <<>>, out |-> <<>>]]
    /\ printed = [c \in Clients |-> 0]
    /\ received = [c \in Clients |-> <<>>]

Initialized(s) == s.component # None
Ready(s) == s.index /\ s.ready

-----------------------------------------------------------------------------
(* Opening and closing sessions                                            *)

\* Initialize and Register of the dispatcher.
register_service ==
    /\ ~root
    /\ root' = TRUE
    /\ UNCHANGED <<alive, server, state, session, printed, received>>

\* Log_Server is left alone without a component.
initialize(c, s, o) == IF o = "none" THEN s ELSE [s EXCEPT !.component = c]

\* Component and Write are set to null by finalize.
cleanup(s) == Unused

\* Index is valid before the component is created and not if that fails;
\* Serv.Initialize follows in any case, and a session that is then not Ready
\* is cleaned up.
Session_Initialize(c, s, o) ==
    LET created == [initialize(c, s, o) EXCEPT !.index = (o # "none"), !.ready = (o = "ready")]
    IN IF Ready(created) THEN created ELSE cleanup(created)

Free == {i \in 1..Slots : ~Ready(server[i]) /\ ~Initialized(server[i])}

\* Dispatch of the server on a session request: free session variables are
\* initialized in order, up to the first that is Ready, which is accepted.
\* The server's Initialize reads the value of an Index that is not valid when
\* there is no component: a failed check ends the server if checks are on.
Dispatch(c, o) ==
    LET tried == {i \in Free : \A j \in Free : j < i => o[j] # "ready"}
        bad == \E i \in tried : o[i] = "none"
    IN \/ /\ alive' = TRUE
          /\ server' = [i \in 1..Slots |->
                IF i \in tried THEN Session_Initialize(c, server[i], o[i]) ELSE server[i]]
          /\ state' = [state EXCEPT ![c] =
                IF \E i \in tried : o[i] = "ready" THEN "open" ELSE "denied"]
       \/ bad /\ alive' = FALSE /\ UNCHANGED <<server, state>>

\* A request with too little quota never gets to the dispatcher.
create_session(c) ==
    /\ root /\ alive
    /\ state[c] = "new"
    /\ \/ \E o \in [1..Slots -> Outcomes] : Dispatch(c, o)
       \/ state' = [state EXCEPT ![c] = "denied"] /\ UNCHANGED <<server, alive>>
    /\ UNCHANGED <<root, session, printed, received>>

\* Mutant: any session variable in use is taken for the closed one.
Session_Cleanup_Any(c, s) == IF Initialized(s) THEN cleanup(s) ELSE s

\* Serv.Finalize and cleanup, if s has the component that was closed.
Session_Cleanup(c, s) ==
    IF Initialized(s) /\ s.component = c THEN cleanup(s) ELSE s

\* Finalize of the client destroys its connection; what is in the buffer is
\* not flushed.  The root destroys the session and Dispatch offers every
\* session variable for cleanup.
destroy_session(c) ==
    /\ alive
    /\ state[c] = "open"
    /\ session[c].out = <<>>
    /\ state' = [state EXCEPT ![c] = "closed"]
    /\ server' = [i \in 1..Slots |-> Session_Cleanup(c, server[i])]
    /\ UNCHANGED <<root, alive, session, printed, received>>

-----------------------------------------------------------------------------
(* Printing                                                                *)

\* The slices of a text, from Basalt.Slicer.
Slices(text) ==
    [k \in 1..((Len(text) + SliceSize - 1) \div SliceSize) |->
        SubSeq(text, (k - 1) * SliceSize + 1,
               IF k * SliceSize > Len(text) THEN Len(text) ELSE k * SliceSize)]

Flush(s) == [buffer |-> <<>>, out |-> s.out \o Slices(s.buffer)]

\* Mutant: a long text overtakes the buffered one.
Put_Overtakes(s, msg) ==
    IF msg = <<>> THEN s
    ELSE IF Len(msg) > BufferSize - (Len(s.buffer) + 1)
    THEN [s EXCEPT !.out = @ \o Slices(msg)]
    ELSE [s EXCEPT !.buffer = @ \o msg]

\* Print of the client, with Cursor = Len(buffer) + 1: a text that does not
\* fit is written behind the buffer's.
Put(s, msg) ==
    IF msg = <<>> THEN s
    ELSE IF Len(msg) > BufferSize - (Len(s.buffer) + 1)
    THEN [Flush(s) EXCEPT !.out = @ \o Slices(msg)]
    ELSE [s EXCEPT !.buffer = @ \o msg]

\* Info, and in its form Warning and Error, without and with a newline, which
\* is the last character of the text.
Info(s, msg, newline) ==
    IF newline THEN Flush(Put(Put(s, Front(msg)), <<Last(msg)>>)) ELSE Put(s, msg)

\* A client calls Print, Info, Warning, Error or Flush.
Call(c, k, newline) ==
    /\ state[c] = "open"
    /\ session[c].out = <<>>
    /\ printed[c] + k <= MaxChars
    /\ session' = [session EXCEPT ![c] =
          IF k = 0 THEN Flush(@) ELSE Info(@, [j \in 1..k |-> printed[c] + j], newline)]
    /\ printed' = [printed EXCEPT ![c] = @ + k]
    /\ UNCHANGED <<serving, state, received>>

\* The server's Write appends what it gets to the text of its client.
Genode_Write(c, slice) == received' = [received EXCEPT ![c] = @ \o slice]

\* One RPC.
write(c) ==
    /\ alive
    /\ session[c].out # <<>>
    /\ Genode_Write(c, Head(session[c].out))
    /\ session' = [session EXCEPT ![c].out = Tail(@)]
    /\ UNCHANGED <<serving, state, printed>>

-----------------------------------------------------------------------------
Next ==
    \/ register_service
    \/ \E c \in Clients :
          \/ create_session(c) \/ destroy_session(c) \/ write(c)
          \/ \E k \in 0..MaxChars, newline \in BOOLEAN : Call(c, k, newline)

Spec == Init /\ [][Next]_vars

-----------------------------------------------------------------------------
(* Properties                                                              *)

\* Every variable has its type; the Cursor, one past the buffered text, stays
\* in Buffer'Range (asserted in Print and part of Initialized), and no slice
\* is longer than a log session takes.
TypeOK ==
    /\ root \in BOOLEAN /\ alive \in BOOLEAN
    /\ server \in [1..Slots -> Server_Session]
    /\ state \in [Clients -> {"new", "open", "closed", "denied"}]
    /\ session \in [Clients -> Client_Session]
    /\ \A c \in Clients :
          /\ Len(session[c].buffer) + 1 <= BufferSize
          /\ \A j \in 1..Len(session[c].out) : Len(session[c].out[j]) \in 1..SliceSize
    /\ printed \in [Clients -> 0..MaxChars]
    /\ received \in [Clients -> Seq(1..MaxChars)]

\* Nothing a client prints is lost, duplicated or reordered on its way: what
\* the server has, what the call under way has still to write and what is in
\* the buffer make up the text (Print, Flush, Write, Slicer).
TextInOrder ==
    \A c \in Clients :
       LET text == received[c] \o FlattenSeq(session[c].out) \o session[c].buffer
       IN text = [j \in 1..printed[c] |-> j]

\* A client has a session exactly if one session variable, which nobody else
\* has, is Ready and Initialized for it, and one that nobody has is free
\* again (Session_Initialize, Session_Cleanup, Dispatch).
EachItsOwn ==
    /\ \A c \in Clients :
          Cardinality({i \in 1..Slots : server[i].component = c /\ Ready(server[i])}) =
             IF state[c] = "open" THEN 1 ELSE 0
    /\ \A i \in 1..Slots : Initialized(server[i]) \/ server[i] = Unused

=============================================================================
