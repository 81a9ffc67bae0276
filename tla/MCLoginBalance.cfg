CONSTANTS
    s1 = s1  s2 = s2
    Server = {s1, s2}
    MaxConn <- MCMaxConn
    NoServer = NoServer
    NoInfo = NoInfo
    MaxClients = 2
    MaxQueue = 3
    MaxBreaks = 2
SPECIFICATION Spec
INVARIANTS
    CountIsExact
PROPERTIES
    AnswerIsLeastLoaded
