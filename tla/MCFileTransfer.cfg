CONSTANTS
    c1 = c1  c2 = c2  c3 = c3
    online = online  offline = offline  offline2 = offline2
    Conn = {c1, c2, c3}
    Task = {online, offline, offline2}
    OnlineTask = {online}
    Blocks = 3
    Early = FALSE
    NoConn = NoConn
    NoTask = NoTask
SPECIFICATION FairSpec
INVARIANTS
    CachedTaskIsAlive
    TaskConnIsOpen
    NoTaskLeftBehind
    RelayHasBothPeers
    DownloadsAreWhole
PROPERTIES
    PeerIsClosed
