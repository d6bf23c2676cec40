------------------------------ MODULE MCBroker ------------------------------
(***************************************************************************)
(* Configurations for the model checker.  Each .cfg substitutes one of the *)
(* service tables below for Services; the components, labels and markers   *)
(* are model values.                                                       *)
(***************************************************************************)
EXTENDS Broker, TLC

CONSTANTS c1, c2, s1, l1, none

Service(kind, label, server, resource) ==
    [kind |-> kind, label |-> label, server |-> server, resource |-> resource]

\* Two clients of one log server; c1 has two labels of which one is routed
\* to c2, so that a lookup has more than one entry to choose from.  The Rom of
\* c2 has a resource, that of c1 has none; c2's label sends a Log to the core
\* and a Rom to a component, neither of which can be had.
LogServices ==
    c1 :> <<Service("Log", NoLabel, s1, FALSE), Service("Log", l1, c2, FALSE),
            Service("Rom", NoLabel, NoServer, FALSE)>>
 @@ c2 :> <<Service("Log", NoLabel, s1, FALSE), Service("Log", l1, NoServer, FALSE),
            Service("Rom", NoLabel, NoServer, TRUE), Service("Rom", l1, s1, FALSE)>>
 @@ s1 :> <<>>

\* The log_proxy test: c1 logs to the proxy c2, which logs to s1; the core has
\* timers for both.
ProxyServices ==
    c1 :> <<Service("Log", NoLabel, c2, FALSE), Service("Timer", NoLabel, NoServer, FALSE)>>
 @@ c2 :> <<Service("Log", NoLabel, s1, FALSE), Service("Timer", NoLabel, NoServer, FALSE)>>
 @@ s1 :> <<>>

\* One client, one log server.
PairServices ==
    c1 :> <<Service("Log", NoLabel, s1, FALSE)>> @@ s1 :> <<>>

ClientCalls == [c \in Components |-> IF c = s1 THEN 0 ELSE 1]
TwoCalls    == [ClientCalls EXCEPT ![c1] = 2]

\* A name of five and a label of 251 characters.
LongNames   == [c \in Components |-> 5]
LongLabels  == [l \in Labels |-> IF l = EmptyLabel THEN 0 ELSE 251]
ShortNames  == [c \in Components |-> 2]
ShortLabels == [l \in Labels |-> IF l = EmptyLabel THEN 0 ELSE 2]
=============================================================================
