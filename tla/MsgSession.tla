----------------------------- MODULE MsgSession -----------------------------
(***************************************************************************)
(* The session registry of one msg_server process: the client connections  *)
(* (CMsgConn), the user objects that hold them (CImUser) and the two       *)
(* indexes of CImUserManager, by login name and by user id, while logins,  *)
(* answers of the database proxy, kicks, timeouts and disconnections       *)
(* interleave.  The process is single threaded: every action below is one  *)
(* callback of its event loop, run to completion.                          *)
(*                                                                         *)
(* User objects are heap objects: they are allocated, deleted and reused,  *)
(* so that a pointer left behind by a wrong order of removals shows up as  *)
(* an index entry or a connection list that names a dead or a foreign      *)
(* object.  Several login names may denote one user id (the name index of  *)
(* the database is not unique), and socket handles are reused.             *)
(***************************************************************************)
EXTENDS Integers, FiniteSets, FiniteSetsExt

CONSTANTS
    Conn,           \* CMsgConn objects
    Handle,         \* socket handles, ordered as the keys of m_conn_map
    Name,           \* login names
    Uid,            \* user ids of the database
    UserObj,        \* CImUser heap objects
    Class,          \* client_type >> 4: the classes that exclude each other
    PC, Mobile,     \* the two classes of the code
    UidOf,          \* the user id the database answers for a login name
    NoConn, NoHandle, NoName, NoUid, NoUser, NoClass,
    MaxValidating   \* bound: validate requests in flight at the database

ASSUME HandleAssumption == Handle \subseteq Nat /\ IsFiniteSet(Handle)
ASSUME ConnAssumption == IsFiniteSet(Conn)
ASSUME ClassAssumption == Class = {PC, Mobile}
ASSUME UidOfAssumption == UidOf \in [Name -> Uid]
ASSUME NullAssumption ==
    /\ NoConn \notin Conn /\ NoHandle \notin Handle /\ NoName \notin Name
    /\ NoUid \notin Uid /\ NoUser \notin UserObj /\ NoClass \notin Class

VARIABLES
    conn,       \* the fields of every CMsgConn; FreeConn when not allocated
    reg,        \* CImUserManager: byName, byId and the heap of CImUser objects
    validating, \* IMValidateReq sent and not yet answered, per (handle, name)
    announced   \* ONLINE minus OFFLINE updates sent, per (user id, class)

vars == <<conn, reg, validating, announced>>

FreeConn == [handle |-> NoHandle, name |-> NoName, class |-> NoClass,
             uid |-> NoUid, open |-> FALSE, kicked |-> FALSE]

DeadUser == [live |-> FALSE, name |-> NoName, uid |-> NoUid,
             conns |-> [h \in Handle |-> NoConn], unval |-> {}]

Up(c) == conn[c].handle # NoHandle

(***************************************************************************)
(* The operations of CImUser and CImUserManager, on a registry r.          *)
(***************************************************************************)
UserByName(r, n) == IF n \in Name THEN r.byName[n] ELSE NoUser
UserById(r, u)   == IF u \in Uid THEN r.byId[u] ELSE NoUser

IsMsgConnEmpty(r, o) == \A h \in Handle : r.user[o].conns[h] = NoConn

AddMsgConn(r, o, h, c)    == [r EXCEPT !.user[o].conns[h] = c]
DelMsgConn(r, o, h)       == [r EXCEPT !.user[o].conns[h] = NoConn]
AddUnValidate(r, o, c)    == [r EXCEPT !.user[o].unval = @ \cup {c}]
DelUnValidate(r, o, c)    == [r EXCEPT !.user[o].unval = @ \ {c}]
ValidateMsgConn(r, o, h, c) == DelUnValidate(AddMsgConn(r, o, h, c), o, c)

\* `delete pUser' together with the erasure of the index entries u and n.
DeleteUser(r, o, u, n) ==
    [byName |-> [m \in Name |-> IF m = n THEN NoUser ELSE r.byName[m]],
     byId   |-> [v \in Uid  |-> IF v = u THEN NoUser ELSE r.byId[v]],
     user   |-> [r.user EXCEPT ![o] = DeadUser]]

\* Mutant: the id index is forgotten.
RemoveImUserByName(r, o) == DeleteUser(r, o, NoUid, r.user[o].name)

RemoveImUser(r, o) == DeleteUser(r, o, r.user[o].uid, r.user[o].name)

RemoveIfEmpty(r, o) == IF IsMsgConnEmpty(r, o) THEN RemoveImUser(r, o) ELSE r

AddImUserByLoginName(r, o, n) ==
    [r EXCEPT !.byName[n] = o, !.user[o] = [DeadUser EXCEPT !.live = TRUE, !.name = n]]

\* SetUserId, and AddImUserById which keeps an entry that is already there.
AddImUserById(r, o, u) ==
    [r EXCEPT !.user[o].uid = u, !.byId[u] = IF @ = NoUser THEN o ELSE @]

\* The connections of o in class k other than `from', by handle; m_conn_map
\* is walked in handle order and the walk stops at the first one kicked.
Rivals(cs, r, o, k, from) ==
    {h \in Handle : LET d == r.user[o].conns[h]
                    IN  d \in Conn /\ d # from /\ cs[d].class = k}

KickOutSameClientType(cs, r, o, k, from) ==
    LET rivals == Rivals(cs, r, o, k, from)
    IN  IF rivals = {} THEN cs
        ELSE [cs EXCEPT ![r.user[o].conns[Min(rivals)]].kicked = TRUE]

-----------------------------------------------------------------------------
(***************************************************************************)
(* CMsgConn::Close.  The connection leaves the user found by its id, goes  *)
(* offline (the status is sent only while that user is still indexed) and  *)
(* leaves the user found by its login name; each user object left without  *)
(* a validated connection is deleted.                                      *)
(***************************************************************************)

\* Mutant: the connection stays in m_conn_map.
LeaveByIdListed(r, c, k) ==
    LET o == UserById(r, k.uid)
    IN  IF o = NoUser THEN r ELSE DelUnValidate(r, o, c)

LeaveById(r, c, k) ==
    LET o == UserById(r, k.uid)
    IN  IF o = NoUser THEN r
        ELSE DelUnValidate(DelMsgConn(r, o, k.handle), o, c)

\* Mutant: the user is removed with its first connection, not its last.
DropByIdAlways(r, k) ==
    LET o == UserById(r, k.uid)
    IN  IF o = NoUser THEN r ELSE RemoveImUser(r, o)

DropById(r, k) ==
    LET o == UserById(r, k.uid)
    IN  IF o = NoUser THEN r ELSE RemoveIfEmpty(r, o)

\* Mutant: the user found by name is not checked for emptiness.
CloseByNameOnly(r, c, k) ==
    LET o == UserByName(r, k.name)
    IN  IF o = NoUser THEN r ELSE DelUnValidate(r, o, c)

CloseByName(r, c, k) ==
    LET o == UserByName(r, k.name)
    IN  IF o = NoUser THEN r ELSE RemoveIfEmpty(DelUnValidate(r, o, c), o)

\* SendUserStatusUpdate: silent unless the connection is open and its user
\* is found by id.
SendUserStatusUpdate(a, r, k, delta) ==
    IF k.open /\ UserById(r, k.uid) # NoUser
    THEN [a EXCEPT ![<<k.uid, k.class>>] = @ + delta]
    ELSE a

\* Mutant: the status is sent after the user may have been removed.
CloseAnnouncingLast(c) ==
    LET k == conn[c]
        left == DropById(LeaveById(reg, c, k), k)
    IN  /\ conn' = [conn EXCEPT ![c] = FreeConn]
        /\ announced' = SendUserStatusUpdate(announced, left, k, -1)
        /\ reg' = CloseByName(left, c, k)

Close(c) ==
    LET k    == conn[c]
        left == LeaveById(reg, c, k)
    IN  /\ conn' = [conn EXCEPT ![c] = FreeConn]
        /\ announced' = SendUserStatusUpdate(announced, left, k, -1)
        /\ reg' = CloseByName(DropById(left, k), c, k)

-----------------------------------------------------------------------------
Init ==
    /\ conn = [c \in Conn |-> FreeConn]
    /\ reg = [byName |-> [n \in Name |-> NoUser],
              byId   |-> [u \in Uid |-> NoUser],
              user   |-> [o \in UserObj |-> DeadUser]]
    /\ validating = [q \in Handle \X Name |-> 0]
    /\ announced = [p \in Uid \X Class |-> 0]

\* A client connects; the kernel hands out a handle no socket uses.
OnConnect(c, h) ==
    /\ ~Up(c)
    /\ \A d \in Conn : conn[d].handle # h
    /\ conn' = [conn EXCEPT ![c].handle = h]
    /\ UNCHANGED <<reg, validating, announced>>

\* The peer closes, resets, logs in with no answer from a peer server, or
\* stays silent past CLIENT_TIMEOUT: all end in Close().
OnClose(c) ==
    /\ Up(c)
    /\ Close(c)
    /\ UNCHANGED validating

\* Mutant: only a connection some user still waits with is timed out.
LoginTimeoutOfWaiting(c) ==
    /\ Up(c) /\ ~conn[c].open
    /\ \E o \in UserObj : c \in reg.user[o].unval
    /\ Close(c)
    /\ UNCHANGED validating

\* OnTimer: the login was not completed within TIMEOUT_WATI_LOGIN_RESPONSE.
LoginTimeout(c) ==
    /\ Up(c) /\ ~conn[c].open
    /\ Close(c)
    /\ UNCHANGED validating

InFlight == MapThenSumSet(LAMBDA q : validating[q], Handle \X Name)

\* The first login request of a connection; any other is ignored.
MayLogin(c) == Up(c) /\ conn[c].name = NoName

\* _HandleLoginRequest when a database, a login and a route server are
\* connected.
HandleLoginRequest(c, n, k) ==
    LET o == UserByName(reg, n)
        q == <<conn[c].handle, n>>
    IN  /\ MayLogin(c)
        /\ InFlight < MaxValidating
        /\ conn' = [conn EXCEPT ![c].name = n, ![c].class = k]
        /\ \/ /\ o # NoUser
              /\ reg' = AddUnValidate(reg, o, c)
           \/ /\ o = NoUser
              /\ \E new \in UserObj :
                    /\ ~reg.user[new].live
                    /\ reg' = AddUnValidate(AddImUserByLoginName(reg, new, n), new, c)
        /\ validating' = [validating EXCEPT ![q] = @ + 1]
        /\ UNCHANGED announced

\* _HandleLoginRequest when one of those servers is missing.
RefuseLogin(c) ==
    /\ MayLogin(c)
    /\ Close(c)
    /\ UNCHANGED validating

\* The connections _HandleValidateResponse finds for an answer: the pending
\* ones with that handle of the user found by the login name.
Waiting(h, n) ==
    LET o == UserByName(reg, n)
    IN  IF o = NoUser THEN {}
        ELSE {c \in reg.user[o].unval : conn[c].handle = h /\ ~conn[c].open}

Answered(h, n) ==
    /\ validating[<<h, n>>] > 0
    /\ validating' = [validating EXCEPT ![<<h, n>>] = @ - 1]

\* The answer finds no user of that name, or no pending connection.
ValidateStale(h, n) ==
    /\ Answered(h, n)
    /\ Waiting(h, n) = {}
    /\ UNCHANGED <<conn, reg, announced>>

ValidateRefused(h, n) ==
    /\ Answered(h, n)
    /\ \E c \in Waiting(h, n) : Close(c)

\* Mutant: the connection stays with the user found by its login name.
StayWithUserOfName(r, c, n, u) == <<r, UserByName(r, n)>>

\* The pending connection moves to the user already indexed by that id, if
\* there is one; its former user is deleted when it has no validated
\* connection.  The result is <<registry, user>>.
MoveToUserOfId(r, c, n, u) ==
    LET o == UserByName(r, n)
        p == UserById(r, u)
        moved == DelUnValidate(AddUnValidate(r, p, c), o, c)
    IN  IF p = NoUser THEN <<r, o>>
        ELSE <<IF IsMsgConnEmpty(moved, o) THEN DeleteUser(moved, o, NoUid, n) ELSE moved, p>>

ValidateAccepted(h, n) ==
    /\ Answered(h, n)
    /\ \E c \in Waiting(h, n) :
        LET u       == UidOf[n]
            placed  == MoveToUserOfId(reg, c, n, u)
            o       == placed[2]
            indexed == AddImUserById(placed[1], o, u)
            kicked  == KickOutSameClientType(conn, indexed, o, conn[c].class, c)
        IN  /\ conn' = [kicked EXCEPT ![c].uid = u, ![c].open = TRUE]
            /\ announced' = SendUserStatusUpdate(announced, indexed, conn'[c], 1)
            /\ reg' = ValidateMsgConn(indexed, o, h, c)

\* The connection to the database proxy breaks, or the proxy drops the request.
LoseValidation(h, n) ==
    /\ Answered(h, n)
    /\ UNCHANGED <<conn, reg, announced>>

\* HandlePdu turns away only a kicked connection that is not open, and none
\* is: a kicked client's request is still served.
HandleLoginOutRequest(c) ==
    /\ Up(c)
    /\ Close(c)
    /\ UNCHANGED validating

Kick(u, k, from) ==
    /\ UserById(reg, u) # NoUser
    /\ conn' = KickOutSameClientType(conn, reg, UserById(reg, u), k, from)
    /\ UNCHANGED <<reg, validating, announced>>

\* A mobile client asks for the desktop client of its user to be kicked.
HandleKickPCClient(c) ==
    /\ Up(c) /\ conn[c].class = Mobile
    /\ Kick(conn[c].uid, PC, c)

\* The same user logged in through another msg_server (route server).
HandleKickUser(u, k) == Kick(u, k, NoConn)

Next ==
    \/ \E c \in Conn :
        \/ OnClose(c) \/ LoginTimeout(c) \/ RefuseLogin(c)
        \/ HandleLoginOutRequest(c) \/ HandleKickPCClient(c)
        \/ \E h \in Handle : OnConnect(c, h)
        \/ \E n \in Name, k \in Class : HandleLoginRequest(c, n, k)
    \/ \E h \in Handle, n \in Name :
        \/ ValidateStale(h, n) \/ ValidateRefused(h, n)
        \/ ValidateAccepted(h, n) \/ LoseValidation(h, n)
    \/ \E u \in Uid, k \in Class : HandleKickUser(u, k)

Spec == Init /\ [][Next]_vars

\* The timer of the event loop fires every second and closes every
\* connection that has waited for its login too long.
FairSpec == Spec /\ \A c \in Conn : WF_vars(LoginTimeout(c))

-----------------------------------------------------------------------------
ConnType == [handle : Handle \cup {NoHandle}, name : Name \cup {NoName},
             class : Class \cup {NoClass}, uid : Uid \cup {NoUid},
             open : BOOLEAN, kicked : BOOLEAN]

UserType == [live : BOOLEAN, name : Name \cup {NoName}, uid : Uid \cup {NoUid},
             conns : [Handle -> Conn \cup {NoConn}], unval : SUBSET Conn]

RegType == [byName : [Name -> UserObj \cup {NoUser}],
            byId   : [Uid -> UserObj \cup {NoUser}],
            user   : [UserObj -> UserType]]

\* Every variable keeps its type; requests in flight never go negative.
TypeOK ==
    /\ conn \in [Conn -> ConnType]
    /\ reg \in RegType
    /\ validating \in [Handle \X Name -> Nat]
    /\ announced \in [Uid \X Class -> Int]

\* The two indexes name exactly the objects that are alive: no entry of
\* CImUserManager survives `delete pUser', none is lost while the object
\* lives, and an object is found under its own name and its own id.
RegistryConsistent ==
    /\ \A n \in Name : reg.byName[n] # NoUser =>
            reg.user[reg.byName[n]].live /\ reg.user[reg.byName[n]].name = n
    /\ \A u \in Uid : reg.byId[u] # NoUser =>
            reg.user[reg.byId[u]].live /\ reg.user[reg.byId[u]].uid = u
    /\ \A o \in UserObj : reg.user[o].live =>
            /\ UserByName(reg, reg.user[o].name) = o
            /\ reg.user[o].uid # NoUid => UserById(reg, reg.user[o].uid) = o

\* No user object holds a pointer to a deleted connection: what m_conn_map
\* maps a handle to is an open connection of this user with this handle, and
\* what the unvalidated set holds is a connection still waiting for an answer.
NoDanglingConn ==
    \A o \in UserObj : reg.user[o].live =>
        /\ \A h \in Handle : LET c == reg.user[o].conns[h] IN c # NoConn =>
                conn[c].handle = h /\ conn[c].open /\ conn[c].uid = reg.user[o].uid
        /\ \A c \in reg.user[o].unval :
                Up(c) /\ ~conn[c].open /\ conn[c].name = reg.user[o].name

\* Every open connection can be reached by the messages for its user: the
\* user is indexed by id and maps the connection's handle to it.
OpenConnIsReachable ==
    \A c \in Conn : conn[c].open =>
        LET o == UserById(reg, conn[c].uid)
        IN  o # NoUser /\ reg.user[o].conns[conn[c].handle] = c

\* A user object dies with its last connection: none is kept with neither a
\* validated nor a pending one, and one indexed by id has a validated one.
NoUserLeak ==
    \A o \in UserObj : reg.user[o].live =>
        /\ ~IsMsgConnEmpty(reg, o) \/ reg.user[o].unval # {}
        /\ reg.user[o].uid # NoUid <=> ~IsMsgConnEmpty(reg, o)

OpenConns(u, k) == {c \in Conn : conn[c].open /\ conn[c].uid = u /\ conn[c].class = k}

\* What the login and route servers were told is what is there: the ONLINE
\* updates sent exceed the OFFLINE ones by the number of open connections.
AnnouncedIsOpen ==
    \A u \in Uid, k \in Class : announced[<<u, k>>] = Cardinality(OpenConns(u, k))

\* A client that asked to log in is eventually open or disconnected, even if
\* the answer is lost or its user object was deleted under it.
LoginResolved ==
    \A c \in Conn : (conn[c].name # NoName /\ ~conn[c].open) ~> (conn[c].open \/ ~Up(c))

\* The rule stated above KickOutSameClientType: one desktop client and one
\* mobile client per user.  Counted are the clients not yet told to leave.
OneClientPerClass ==
    \A u \in Uid, k \in Class :
        Cardinality({c \in OpenConns(u, k) : ~conn[c].kicked}) <= 1
-----------------------------------------------------------------------------
(***************************************************************************)
(* The registry implements UserPresence: its indexes, heap and handles     *)
(* amount to a set of approved clients per user and class.                 *)
(***************************************************************************)
Phase(c) ==
    IF ~Up(c) THEN "idle"
    ELSE IF conn[c].open THEN "online"
    ELSE IF conn[c].name = NoName THEN "connected" ELSE "pending"

\* The connections a message for u is delivered to, as FindUser and the
\* broadcasts of CImUser walk them: by id, then through m_conn_map.
Delivered(u, k) ==
    IF reg.byId[u] = NoUser THEN {}
    ELSE {c \in Conn : conn[c].class = k /\
            \E h \in Handle : reg.user[reg.byId[u]].conns[h] = c}

Presence == INSTANCE UserPresence WITH
    phase   <- [c \in Conn |-> Phase(c)],
    members <- [p \in Uid \X Class |-> Delivered(p[1], p[2])]

\* Every callback is one promised step or changes nothing a client can see:
\* a login is approved once, leaving takes exactly the leaver out of the
\* delivery lists, and each is told to the other servers exactly once.
ImplementsPresence == Presence!Spec
=============================================================================
