SPECIFICATION Spec
CONSTANTS
    c1 = c1  c2 = c2  s1 = s1  l1 = l1  none = none
    Components = {c1, c2, s1}
    Kinds = {"Log", "Rom"}
    Labels = {none, l1}
    EmptyLabel = none
    NameLen <- ShortNames
    LabelLen <- ShortLabels
    Services <- LogServices
    NoLabel = NoLabel
    NoServer = NoServer
    NoFd = NoFd
    NoCall = NoCall
    NoMsg = NoMsg
    QueueLimit = 2
    MaxCalls <- ClientCalls
    MayExit = {c2, s1}
    Outcomes = {TRUE, FALSE}
INVARIANTS TypeOK OneAnswerPerCall SessionsAsConfigured SessionsServed SocketsBounded
PROPERTY ImplementsSessionService
CHECK_DEADLOCK FALSE
