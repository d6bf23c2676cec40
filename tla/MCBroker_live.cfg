SPECIFICATION LiveSpec
CONSTANTS
    c1 = c1  c2 = c2  s1 = s1  l1 = l1  none = none
    Components = {c1, c2, s1}
    Kinds = {"Log", "Timer"}
    Labels = {none}
    EmptyLabel = none
    NameLen <- ShortNames
    LabelLen <- ShortLabels
    Services <- ProxyServices
    NoLabel = NoLabel
    NoServer = NoServer
    NoFd = NoFd
    NoCall = NoCall
    NoMsg = NoMsg
    QueueLimit = 2
    MaxCalls <- TwoCalls
    MayExit = {}
    Outcomes = {TRUE}
PROPERTIES GrantMatchesCall ImplementsSessionService EveryCallReturns
CHECK_DEADLOCK FALSE
