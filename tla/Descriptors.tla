---------------------------- MODULE Descriptors -----------------------------
(***************************************************************************)
(* Who holds a descriptor of a session's socket pair on Linux, from the    *)
(* request to the end of the session.  A descriptor sent with a message is *)
(* a copy: the sender keeps its own.  The server's end hangs up when no    *)
(* process holds the client's end any more and no message carries it, and  *)
(* the hang-up is what makes the server's library call Dispatch for        *)
(* Session_Cleanup.  From gneiss-broker-message.adb and the Message client *)
(* and dispatcher; Log and Memory sessions are handed over the same way.   *)
(*                                                                         *)
(* Abstractions.  The messages of a session request are a stage; what is   *)
(* in them is left to module Broker.  The broker does not exit.            *)
(***************************************************************************)
EXTENDS Naturals, FiniteSets

CONSTANTS
    Sessions,      \* session requests, of any client to one server
    Slots          \* server session variables the server has

\* The copies of the client's and of the server's end that can exist.
\* "request", "confirm" and "answer" are messages under way, "broker2" is
\* the copy the broker received with the confirm.
Holders == {"broker", "request", "server", "confirm", "broker2", "answer", "client"}

VARIABLES
    stage,         \* n :> where session request n is
    clientEnd,     \* n :> the holders of the client's end
    serverEnd,     \* n :> the holders of the server's end
    slot           \* n :> state of the server session made for n

vars == <<stage, clientEnd, serverEnd, slot>>

Stages == {"idle", "requested", "dispatching", "confirmed", "rejected",
           "answered", "open", "closed", "refused"}

Init ==
    /\ stage = [n \in Sessions |-> "idle"]
    /\ clientEnd = [n \in Sessions |-> {}]
    /\ serverEnd = [n \in Sessions |-> {}]
    /\ slot = [n \in Sessions |-> "none"]

Step(n, from, to) == stage[n] = from /\ stage' = [stage EXCEPT ![n] = to]

\* The broker makes the socket pair and forwards both ends.
Process_Request(n) ==
    /\ Step(n, "idle", "requested")
    /\ clientEnd' = [clientEnd EXCEPT ![n] = {"broker", "request"}]
    /\ serverEnd' = [serverEnd EXCEPT ![n] = {"broker", "request"}]
    /\ UNCHANGED slot

\* The server receives them, one request at a time.
Dispatch_Event(n) ==
    /\ \A m \in Sessions : stage[m] # "dispatching"
    /\ Step(n, "requested", "dispatching")
    /\ clientEnd' = [clientEnd EXCEPT ![n] = (@ \ {"request"}) \cup {"server"}]
    /\ serverEnd' = [serverEnd EXCEPT ![n] = (@ \ {"request"}) \cup {"server"}]
    /\ UNCHANGED slot

Used == {n \in Sessions : slot[n] = "initialized"}

\* Session_Initialize in a free server session; a server that is not ready
\* has its end closed again.
Session_Initialize(n, ready) ==
    /\ stage[n] = "dispatching"
    /\ slot[n] = "none"
    /\ Cardinality(Used) < Slots
    /\ slot' = [slot EXCEPT ![n] = IF ready THEN "initialized" ELSE "failed"]
    /\ serverEnd' = [serverEnd EXCEPT ![n] = IF ready THEN @ ELSE @ \ {"server"}]
    /\ UNCHANGED <<stage, clientEnd>>

\* Session_Accept sends a copy of the client's end and keeps its own.
Session_Accept(n) ==
    /\ slot[n] = "initialized"
    /\ Step(n, "dispatching", "confirmed")
    /\ clientEnd' = [clientEnd EXCEPT ![n] = @ \cup {"confirm"}]
    /\ UNCHANGED <<serverEnd, slot>>

\* Dispatch returned without accepting.
Reject(n) ==
    /\ slot[n] # "initialized"
    /\ Step(n, "dispatching", "rejected")
    /\ UNCHANGED <<clientEnd, serverEnd, slot>>

\* The broker passes the answer on; of a confirm it keeps its copy.
Process_Confirm(n) ==
    /\ Step(n, "confirmed", "answered")
    /\ clientEnd' = [clientEnd EXCEPT ![n] = (@ \ {"confirm"}) \cup {"broker2", "answer"}]
    /\ UNCHANGED <<serverEnd, slot>>

Process_Reject(n) ==
    /\ Step(n, "rejected", "refused")
    /\ UNCHANGED <<clientEnd, serverEnd, slot>>

\* Initialize of the client returns with the session.
Initialized(n) ==
    /\ Step(n, "answered", "open")
    /\ clientEnd' = [clientEnd EXCEPT ![n] = (@ \ {"answer"}) \cup {"client"}]
    /\ UNCHANGED <<serverEnd, slot>>

\* The client finalizes the session or its process ends.
Disconnect(n) ==
    /\ Step(n, "open", "closed")
    /\ clientEnd' = [clientEnd EXCEPT ![n] = @ \ {"client"}]
    /\ UNCHANGED <<serverEnd, slot>>

\* The server's end has hung up: Dispatch is called with the descriptor as
\* Clean_Fd and Session_Cleanup finalizes the server session.
Session_Cleanup(n) ==
    /\ slot[n] = "initialized"
    /\ clientEnd[n] = {}
    /\ slot' = [slot EXCEPT ![n] = "finalized"]
    /\ serverEnd' = [serverEnd EXCEPT ![n] = @ \ {"server"}]
    /\ UNCHANGED <<stage, clientEnd>>

Next ==
    \E n \in Sessions :
        \/ Process_Request(n)
        \/ Dispatch_Event(n)
        \/ \E ready \in BOOLEAN : Session_Initialize(n, ready)
        \/ Session_Accept(n)
        \/ Reject(n)
        \/ Process_Confirm(n)
        \/ Process_Reject(n)
        \/ Initialized(n)
        \/ Disconnect(n)
        \/ Session_Cleanup(n)

\* Everything but the wish of a client to have or to end a session happens
\* if it can.
Fairness ==
    \A n \in Sessions :
        /\ WF_vars(Dispatch_Event(n))
        /\ WF_vars(Session_Accept(n))
        /\ WF_vars(Reject(n))
        /\ WF_vars(Process_Confirm(n))
        /\ WF_vars(Process_Reject(n))
        /\ WF_vars(Initialized(n))
        /\ WF_vars(Session_Cleanup(n))

Spec == Init /\ [][Next]_vars /\ Fairness

-----------------------------------------------------------------------------
\* Session_Cleanup is documented to finalize a server session whose client
\* has disconnected: every session that a client closes is cleaned up.
DisconnectedIsFinalized ==
    \A n \in Sessions : (stage[n] = "closed") ~> (slot[n] = "finalized")
=============================================================================
