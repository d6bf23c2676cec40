--------------------------- MODULE SessionService ---------------------------
(***************************************************************************)
(* What a component may rely on when it asks the platform for a session,   *)
(* without the broker, the sockets and the messages: a component asks, the *)
(* server that the configuration names may take up its end, and the answer *)
(* either is nothing or the other end of what that server holds.           *)
(***************************************************************************)
EXTENDS Naturals

CONSTANTS
    Components,
    Calls,         \* what a component can ask for: action, kind, label
    Ends,          \* session ends: id, client, server, kind, label
    NoCall,
    NoServer,      \* the platform itself
    Route          \* <<component, kind, label>> :> the server configured

VARIABLES
    alive,         \* the components that have not exited
    asked,         \* c :> the call c waits for, or NoCall
    open,          \* c :> the ends of c's client sessions
    held           \* c :> the ends of c's server sessions

vars == <<alive, asked, open, held>>

Init ==
    /\ alive = Components
    /\ asked = [c \in Components |-> NoCall]
    /\ open  = [c \in Components |-> {}]
    /\ held  = [c \in Components |-> {}]

Ask(c, call) ==
    /\ c \in alive
    /\ asked[c] = NoCall
    /\ asked' = [asked EXCEPT ![c] = call]
    /\ UNCHANGED <<alive, open, held>>

\* The end answers the call c waits for.
Suits(c, end) ==
    /\ asked[c] # NoCall
    /\ asked[c].action = "Request"
    /\ end.client = c
    /\ end.kind = asked[c].kind
    /\ end.label = asked[c].label

\* The server takes up its end while the client waits, or has died waiting.
Accept(s, end) ==
    /\ s \in alive
    /\ end \notin held[s]
    /\ end.server = s
    /\ end.client \in Components
    /\ Suits(end.client, end)
    /\ Route[<<end.client, end.kind, end.label>>] = s
    /\ held' = [held EXCEPT ![s] = @ \cup {end}]
    /\ UNCHANGED <<alive, asked, open>>

Refuse(c) ==
    /\ c \in alive
    /\ asked[c] # NoCall
    /\ asked' = [asked EXCEPT ![c] = NoCall]
    /\ UNCHANGED <<alive, open, held>>

\* A session with a component needs its server end, unless that component
\* has died since; every other session is with the platform itself.
Grant(c, end) ==
    /\ c \in alive
    /\ Suits(c, end)
    /\ end \notin open[c]
    /\ end.server # NoServer => Route[<<c, end.kind, end.label>>] = end.server
    /\ end.server \in alive => end \in held[end.server]
    /\ asked' = [asked EXCEPT ![c] = NoCall]
    /\ open' = [open EXCEPT ![c] = @ \cup {end}]
    /\ UNCHANGED <<alive, held>>

Close(c, end) ==
    /\ c \in alive
    /\ end \in open[c]
    /\ open' = [open EXCEPT ![c] = @ \ {end}]
    /\ UNCHANGED <<alive, asked, held>>

Die(c) ==
    /\ c \in alive
    /\ alive' = alive \ {c}
    /\ open' = [open EXCEPT ![c] = {}]
    /\ held' = [held EXCEPT ![c] = {}]
    /\ UNCHANGED asked

Next ==
    \E c \in Components :
        \/ \E call \in Calls : Ask(c, call)
        \/ \E end \in held'[c] : Accept(c, end)
        \/ Refuse(c)
        \/ \E end \in open'[c] : Grant(c, end)
        \/ \E end \in open[c] : Close(c, end)
        \/ Die(c)

Spec == Init /\ [][Next]_vars
=============================================================================
