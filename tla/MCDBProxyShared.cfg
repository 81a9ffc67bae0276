\* Members are added two at a time while others send to the group.
SPECIFICATION Spec
CONSTANTS
    w1 = w1  w2 = w2  w3 = w3
    h1 = h1  h2 = h2
    master = master  slave = slave  unread = unread  group_member = group_member
    Thread = {w1, w2}
    Pool = {master, slave, unread, group_member}
    NoPool = NoPool
    MinConn <- MCMinConn
    MaxConn <- MCMaxConn
    Handle = {h1}
    Kind = {"addTwo", "delMember", "groupSend", "singleSend"}
    MaxUuid = 1
    MaxRequest = 2
    Master = master  Slave = slave  Unread = unread  GroupMember = group_member
INVARIANTS OneUser
CHECK_DEADLOCK FALSE
