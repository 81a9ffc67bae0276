---------------------------- MODULE PcLoginStatus ----------------------------
(***************************************************************************)
(* RouteStatus with the way back: what every msg_server knows of the       *)
(* desktop clients of its users.  The route_server tells all msg_servers   *)
(* when a user's first desktop client is there or the last one has gone    *)
(* (IMServerPCLoginStatusNotify), over the same connections; a msg_server  *)
(* keeps it in the user's object, which lives while the user has a client  *)
(* there, and pushes to phones silently while a desktop client is on.      *)
(* What the phones on line are told of it changes nothing and is left out. *)
(***************************************************************************)
EXTENDS RouteStatus

CONSTANT MaxNotices     \* bound: notices in one connection

ASSUME NoticesAssumption == MaxNotices \in Nat

VARIABLES
    notices,    \* IMServerPCLoginStatusNotify on their way to each msg_server
    pcStatus,   \* m_pc_login_status of each user's object on each msg_server:
                \* "fresh" is the USER_STATUS_OFFLINE it is made with; "none"
                \* if the user has no object there
    missed      \* history: users about whose desktop clients nobody was told

pcVars == <<vars, notices, pcStatus, missed>>

PcInit ==
    /\ Init
    /\ notices = [s \in Server |-> <<>>]
    /\ pcStatus = [s \in Server |-> [u \in Uid |-> "none"]]
    /\ missed = {}

\* CImUser::CImUser, with the user's first client.
UserLogin(s, u, k) ==
    /\ Login(s, u, k)
    /\ pcStatus' = [pcStatus EXCEPT ![s][u] = IF @ = "none" THEN "fresh" ELSE @]
    /\ UNCHANGED <<notices, missed>>

\* RemoveImUser, with the last one.
UserLogout(s, u, k) ==
    /\ Logout(s, u, k)
    /\ pcStatus' = [pcStatus EXCEPT ![s][u] =
                        IF \A j \in Type : online'[s][<<u, j>>] = 0 THEN "none" ELSE @]
    /\ UNCHANGED <<notices, missed>>

\* Mutant: any desktop client that leaves is told, also if another one stays.
LoginStatusOfAny(m, e) ==
    {on \in {m.on} : e # Absent /\ IF on THEN IsPCClientLogin(e) ELSE m.type \in PCType}

\* What _HandleUserStatusUpdate has to tell about the user's entry e, if anything:
\* nothing about who has no entry any more.
LoginStatus(m, e) ==
    {on \in {m.on} : e # Absent /\ IF on THEN IsPCClientLogin(e)
                                   ELSE m.type \in PCType /\ ~IsPCClientLogin(e)}

\* _BroadcastMsg; what is sent to a msg_server that has closed is lost.
Broadcast(u, told_) ==
    LET to == {s \in Server : link[s] = "up" /\ told_ # {}}
    IN  /\ \A s \in to : Len(notices[s]) < MaxNotices
        /\ notices' = [s \in Server |->
                          IF s \in to
                          THEN Append(notices[s], [uid |-> u, on |-> TRUE \in told_])
                          ELSE notices[s]]

\* The msg_servers with an object of u, or with a notice about u on its way to them.
Concerned(u) ==
    {s \in Server : \/ pcStatus[s][u] # "none"
                    \/ \E i \in DOMAIN notices[s] : notices[s][i].uid = u}

\* The whole of _HandleUserStatusUpdate.
UserStatusUpdate(s) ==
    /\ HandleUserStatusUpdate(s)
    /\ LET m    == Head(queue[s])
           tell == LoginStatus(m, table'[m.uid])
       IN  /\ Broadcast(m.uid, tell)
           /\ missed' =
                IF /\ IsPCClientLogin(table[m.uid]) # IsPCClientLogin(table'[m.uid])
                   /\ tell = {} /\ Concerned(m.uid) # {}
                THEN missed \cup {m.uid} ELSE missed
    /\ UNCHANGED pcStatus

\* _HandleOnlineUserInfo tells nobody of the clients on the list, and the msg_server
\* that sent it nothing of other desktop clients of theirs.
OnlineUserInfo(s) ==
    /\ HandleOnlineUserInfo(s)
    /\ LET count == Head(queue[s]).count
       IN  missed' = missed \cup
                {u \in Uid : IsPCClientLogin(table'[u]) /\ \E k \in Type : count[<<u, k>>] > 0}
    /\ UNCHANGED <<notices, pcStatus>>

HandlePCLoginStatusNotify(s) ==
    /\ notices[s] # <<>>
    /\ LET m == Head(notices[s])
       IN  pcStatus' = [pcStatus EXCEPT ![s][m.uid] =
                            IF @ = "none" THEN @ ELSE IF m.on THEN "on" ELSE "off"]
    /\ notices' = [notices EXCEPT ![s] = Tail(@)]
    /\ UNCHANGED <<vars, missed>>

LinkUp(s) == Connect(s) /\ UNCHANGED <<notices, pcStatus, missed>>

\* A connection that breaks: what the route_server sent before it closed may still
\* arrive in part, and nothing once the msg_server has closed.
LinkBreaks(s) ==
    /\ \/ MsgServerCloses(s) /\ notices' = [notices EXCEPT ![s] = <<>>]
       \/ /\ RouteServerCloses(s)
          /\ \E n \in 0..Len(notices[s]) : notices' = [notices EXCEPT ![s] = SubSeq(@, 1, n)]
    /\ UNCHANGED <<pcStatus, missed>>

LinkDown(s) ==
    /\ \/ RouteServerNotices(s) /\ UNCHANGED notices
       \/ MsgServerNotices(s) /\ notices' = [notices EXCEPT ![s] = <<>>]
    /\ UNCHANGED <<pcStatus, missed>>

PcNext ==
    \E s \in Server :
        \/ \E u \in Uid, k \in Type : UserLogin(s, u, k) \/ UserLogout(s, u, k)
        \/ OnlineUserInfo(s) \/ UserStatusUpdate(s) \/ HandlePCLoginStatusNotify(s)
        \/ LinkUp(s) \/ LinkBreaks(s) \/ LinkDown(s)

PcSpec == PcInit /\ [][PcNext]_pcVars

-----------------------------------------------------------------------------
PcTypeOK ==
    /\ \A s \in Server : \A i \in DOMAIN notices[s] : notices[s][i] \in [uid : Uid, on : BOOLEAN]
    /\ pcStatus \in [Server -> [Uid -> {"none", "fresh", "on", "off"}]]
    /\ missed \subseteq Uid

\* What msg_server s pushes to the phones of u: it asks the route_server about a
\* user it has no object of.
PushIsSilent(s, u) ==
    IF pcStatus[s][u] = "none" THEN IsOnline(u) ELSE pcStatus[s][u] = "on"

AllDelivered == Settled /\ \A s \in Server : notices[s] = <<>>

HasDesktop(u) == \E x \in Connected, k \in PCType : online[x][<<u, k>>] > 0

\* "When a pc client is logged in, push without disturbing" (DBServConn.cpp:767):
\* once everything is delivered, phones are pushed to silently exactly while the
\* user has a desktop client somewhere, whatever the order in which the msg_servers'
\* reports and the notices about them were handled, and though objects of users
\* come and go while notices are on their way.  It is not so for a user nobody was
\* told about: the notice that the last desktop client has gone is not sent if the
\* user has no entry any more, though a client that just came may need it.
PushIsRight ==
    AllDelivered /\ breaks = 0 =>
        \A s \in Connected, u \in Uid \ missed : PushIsSilent(s, u) <=> HasDesktop(u)
=============================================================================
