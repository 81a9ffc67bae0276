----------------------------- MODULE RouteStatus -----------------------------
(***************************************************************************)
(* The online status a route_server keeps for every user, fed by the       *)
(* msg_servers: each announces its users when its connection is confirmed  *)
(* (IMOnlineUserInfo) and every arrival and departure afterwards           *)
(* (IMUserStatusUpdate).  Each connection is a FIFO queue; it may break,   *)
(* which the two ends notice in either order.  What a msg_server announces *)
(* is its AnnouncedIsOpen of MsgSession, as a count per user and type.     *)
(***************************************************************************)
EXTENDS Integers, Sequences, FiniteSets

CONSTANTS
    Server,     \* msg_servers; a route connection is named by its msg_server
    Uid,
    Type,       \* client types
    PCType,     \* the types CHECK_CLIENT_TYPE_PC accepts
    MaxClients, \* bound: clients of one user and type on one msg_server
    MaxQueue,   \* bound: messages in one connection
    MaxBreaks   \* bound: connections broken

ASSUME ServerAssumption == IsFiniteSet(Server)
ASSUME TypeAssumption == PCType \subseteq Type
ASSUME BoundAssumption == MaxClients \in Nat /\ MaxQueue \in Nat /\ MaxBreaks \in Nat

VARIABLES
    online, \* open clients on each msg_server, per user and type
    link,   \* "down", "up", "closing" (closed by the msg_server only) or
            \* "lost" (closed by the route_server only)
    queue,  \* messages on their way to the route_server
    table,  \* g_user_map: m_RouteConnSet and m_ClientTypeList of each user
    told,   \* the last IMUserStatNotify broadcast about each user was ONLINE
    breaks

vars == <<online, link, queue, table, told, breaks>>

Clients == Uid \X Type

NoTypes == [k \in Type |-> 0]

\* A user with no CUserInfo; an entry always has a connection.
Absent == [conns |-> {}, types |-> NoTypes]

IsPCClientLogin(e) == \E k \in PCType : e.types[k] > 0

\* GetStatus, and OFFLINE for an absent user.
IsOnline(u) == IsPCClientLogin(table[u])

RemoveRouteConn(e, s) ==
    IF e.conns \subseteq {s} THEN Absent ELSE [e EXCEPT !.conns = @ \ {s}]

\* Mutant: the type is erased instead of counted down.
EraseClientType(e, k) == [e EXCEPT !.types[k] = 0]

RemoveClientType(e, k) == [e EXCEPT !.types[k] = IF @ > 0 THEN @ - 1 ELSE 0]

(***************************************************************************)
(* _UpdateUserStatus, on one table entry.                                  *)
(***************************************************************************)
GoOnline(e, s, k) ==
    [conns |-> e.conns \cup {s}, types |-> [e.types EXCEPT ![k] = @ + 1]]

\* Mutant: the connection leaves with the last client of one type.
GoOfflineOfType(e, s, k) ==
    LET left == RemoveClientType(e, k)
    IN  IF s \notin e.conns THEN e
        ELSE IF left.types[k] = 0 THEN RemoveRouteConn(left, s) ELSE left

GoOffline(e, s, k) ==
    LET left == RemoveClientType(e, k)
    IN  IF s \notin e.conns THEN e
        ELSE IF left.types = NoTypes THEN RemoveRouteConn(left, s) ELSE left

-----------------------------------------------------------------------------
Users(count) == [kind |-> "users", count |-> count]
Status(u, k, on) == [kind |-> "status", uid |-> u, type |-> k, on |-> on]

Send(s, m) ==
    IF link[s] = "up"
    THEN Len(queue[s]) < MaxQueue /\ queue' = [queue EXCEPT ![s] = Append(@, m)]
    ELSE UNCHANGED queue

Init ==
    /\ online = [s \in Server |-> [p \in Clients |-> 0]]
    /\ link = [s \in Server |-> "down"]
    /\ queue = [s \in Server |-> <<>>]
    /\ table = [u \in Uid |-> Absent]
    /\ told = [u \in Uid |-> FALSE]
    /\ breaks = 0

\* SendUserStatusUpdate(ONLINE) of a login on msg_server s.
Login(s, u, k) ==
    /\ online[s][<<u, k>>] < MaxClients
    /\ online' = [online EXCEPT ![s][<<u, k>>] = @ + 1]
    /\ Send(s, Status(u, k, TRUE))
    /\ UNCHANGED <<link, table, told, breaks>>

\* SendUserStatusUpdate(OFFLINE).
Logout(s, u, k) ==
    /\ online[s][<<u, k>>] > 0
    /\ online' = [online EXCEPT ![s][<<u, k>>] = @ - 1]
    /\ Send(s, Status(u, k, FALSE))
    /\ UNCHANGED <<link, table, told, breaks>>

\* OnConfirm of the msg_server with OnConnect of the route_server: the
\* first message is the list of all open clients.
Connect(s) ==
    /\ link[s] = "down"
    /\ link' = [link EXCEPT ![s] = "up"]
    /\ queue' = [queue EXCEPT ![s] = <<Users(online[s])>>]
    /\ UNCHANGED <<online, table, told, breaks>>

\* _HandleOnlineUserInfo; it broadcasts nothing.
HandleOnlineUserInfo(s) ==
    LET count == Head(queue[s]).count
        \* the entry of u after its clients of all types in the message
        Listed(u) ==
            IF \A k \in Type : count[<<u, k>>] = 0 THEN table[u]
            ELSE [conns |-> table[u].conns \cup {s},
                  types |-> [k \in Type |-> table[u].types[k] + count[<<u, k>>]]]
    IN  /\ queue[s] # <<>> /\ Head(queue[s]).kind = "users"
        /\ queue' = [queue EXCEPT ![s] = Tail(@)]
        /\ table' = [u \in Uid |-> Listed(u)]
        /\ UNCHANGED <<online, link, told, breaks>>

\* _HandleUserStatusUpdate.  A change of a desktop client is broadcast,
\* unless one went offline while another is still there.
HandleUserStatusUpdate(s) ==
    LET m == Head(queue[s])
    IN  /\ queue[s] # <<>> /\ m.kind = "status"
        /\ queue' = [queue EXCEPT ![s] = Tail(@)]
        /\ table' = [table EXCEPT ![m.uid] = IF m.on THEN GoOnline(@, s, m.type)
                                                    ELSE GoOffline(@, s, m.type)]
        /\ told' = IF m.type \in PCType /\ (m.on \/ ~IsPCClientLogin(table'[m.uid]))
                   THEN [told EXCEPT ![m.uid] = m.on] ELSE told
        /\ UNCHANGED <<online, link, breaks>>

\* CRouteServConn::Close; what was sent before may still arrive in part.
MsgServerCloses(s) ==
    /\ link[s] = "up" /\ breaks < MaxBreaks
    /\ link' = [link EXCEPT ![s] = "closing"]
    /\ \E n \in 0..Len(queue[s]) : queue' = [queue EXCEPT ![s] = SubSeq(@, 1, n)]
    /\ breaks' = breaks + 1
    /\ UNCHANGED <<online, table, told>>

\* CRouteConn::Close: the connection leaves every entry; an entry with no
\* connection left is deleted.  Nothing is broadcast.
CloseRouteConn(s, next) ==
    /\ link' = [link EXCEPT ![s] = next]
    /\ queue' = [queue EXCEPT ![s] = <<>>]
    /\ table' = [u \in Uid |-> RemoveRouteConn(table[u], s)]
    /\ UNCHANGED <<online, told>>

RouteServerCloses(s) ==
    /\ link[s] = "up" /\ breaks < MaxBreaks
    /\ CloseRouteConn(s, "lost")
    /\ breaks' = breaks + 1

RouteServerNotices(s) ==
    /\ link[s] = "closing"
    /\ CloseRouteConn(s, "down")
    /\ UNCHANGED breaks

MsgServerNotices(s) ==
    /\ link[s] = "lost"
    /\ link' = [link EXCEPT ![s] = "down"]
    /\ UNCHANGED <<online, queue, table, told, breaks>>

Next ==
    \E s \in Server :
        \/ \E u \in Uid, k \in Type : Login(s, u, k) \/ Logout(s, u, k)
        \/ HandleOnlineUserInfo(s) \/ HandleUserStatusUpdate(s)
        \/ Connect(s)
        \/ MsgServerCloses(s) \/ RouteServerCloses(s)
        \/ RouteServerNotices(s) \/ MsgServerNotices(s)

Spec == Init /\ [][Next]_vars

-----------------------------------------------------------------------------
Message ==
    [kind : {"users"}, count : [Clients -> Nat]]
    \cup [kind : {"status"}, uid : Uid, type : Type, on : BOOLEAN]

EntryType == [conns : SUBSET Server, types : [Type -> Nat]]

\* Every variable has its type, and an entry without a connection is empty.
TypeOK ==
    /\ online \in [Server -> [Clients -> 0..MaxClients]]
    /\ link \in [Server -> {"down", "up", "closing", "lost"}]
    /\ \A s \in Server : \A i \in DOMAIN queue[s] : queue[s][i] \in Message
    /\ table \in [Uid -> EntryType]
    /\ \A u \in Uid : table[u].conns = {} => table[u] = Absent
    /\ told \in [Uid -> BOOLEAN]
    /\ breaks \in 0..MaxBreaks

\* The connections the route_server holds.
Connected == {s \in Server : link[s] \in {"up", "closing"}}

\* Every msg_server is connected or known to be gone, and all is delivered.
Settled == \A s \in Server : link[s] \in {"up", "down"} /\ queue[s] = <<>>

\* How many clients of u of type k there are on the connected msg_servers: they are
\* numbered on each.
OpenClients(u, k) ==
    Cardinality({c \in Connected \X (1..MaxClients) : c[2] <= online[c[1]][<<u, k>>]})

\* No entry keeps a pointer to a closed connection.
OnlyOpenRouteConns == \A u \in Uid : table[u].conns \subseteq Connected

\* Nobody is reported offline by mistake: once all messages are delivered,
\* the counters of a user cover the clients that are there, and the
\* connections of the user include their msg_servers.
NoFalseOffline ==
    Settled => \A u \in Uid :
        /\ \A k \in Type : table[u].types[k] >= OpenClients(u, k)
        /\ \A s \in Connected, k \in Type : online[s][<<u, k>>] > 0 => s \in table[u].conns

\* What the route_server does with its table is safe: the connections it sends
\* a user's messages to are open, and once all has arrived they are all that it
\* takes to reach the user, who is reported online.
TableIsSafe == OnlyOpenRouteConns /\ NoFalseOffline

\* As long as no connection was ever broken, the counters are exact once all
\* messages are delivered, whatever the order the msg_servers' messages
\* interleave in; and nobody was told a user is online who is not.
ExactWithoutBreaks ==
    (Settled /\ breaks = 0) => \A u \in Uid :
        /\ \A k \in Type : table[u].types[k] = OpenClients(u, k)
        /\ told[u] => IsOnline(u)

\* A user reported online once everything is delivered has a desktop client
\* on a connected msg_server: what "remove all user info from this
\* MessageServer" promises for the msg_server whose connection closed.
OnlineIsReal ==
    Settled => \A u \in Uid : IsOnline(u) =>
        \E s \in Connected, k \in PCType : online[s][<<u, k>>] > 0
=============================================================================
