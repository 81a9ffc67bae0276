\* Two workers, the pools at their limits after one or two connections.
SPECIFICATION FairSpec
CONSTANTS
    w1 = w1  w2 = w2  w3 = w3
    h1 = h1  h2 = h2
    master = master  slave = slave  unread = unread  group_member = group_member
    Thread = {w1, w2}
    Pool = {master, slave, unread, group_member}
    NoPool = NoPool
    MinConn <- MCMinConn
    MaxConn <- MCMaxConn
    Handle = {h1}
    Kind = {"groupSend", "unreadCount", "history", "addOne", "createGroup", "readAck"}
    MaxUuid = 2
    MaxRequest = 2
    Master = master  Slave = slave  Unread = unread  GroupMember = group_member
INVARIANTS OneOwner NoMissedSignal NothingForgotten AnswerReachesAsker
    SomeoneRuns
PROPERTIES RequestsEnd UsesThePools
CHECK_DEADLOCK FALSE
