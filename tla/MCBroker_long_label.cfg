SPECIFICATION LiveSpec
CONSTANTS
    c1 = c1  c2 = c2  s1 = s1  l1 = l1  none = none
    Components = {c1, s1}
    Kinds = {"Log"}
    Labels = {none, l1}
    EmptyLabel = none
    NameLen <- LongNames
    LabelLen <- LongLabels
    Services <- PairServices
    NoLabel = NoLabel
    NoServer = NoServer
    NoFd = NoFd
    NoCall = NoCall
    NoMsg = NoMsg
    QueueLimit = 2
    MaxCalls <- ClientCalls
    MayExit = {}
    Outcomes = {TRUE}
PROPERTY EveryCallReturns
CHECK_DEADLOCK FALSE
