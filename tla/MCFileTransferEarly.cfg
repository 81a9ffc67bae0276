CONSTANTS
    c1 = c1  c2 = c2  c3 = c3
    online = online  offline = offline  offline2 = offline2
    Conn = {c1, c2}
    Task = {online, offline}
    OnlineTask = {online}
    Blocks = 2
    Early = TRUE
    NoConn = NoConn
    NoTask = NoTask
SPECIFICATION Spec
INVARIANTS
    CachedTaskIsAlive
