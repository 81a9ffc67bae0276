---------------------------- MODULE LoginBalance ----------------------------
(***************************************************************************)
(* The login_server's count of the clients of every msg_server, and the    *)
(* msg_server it hands to a client.  A msg_server reports its count when   *)
(* its connection is confirmed (IMMsgServInfo) and every change afterwards *)
(* (IMUserCntUpdate); connections are FIFO queues and may break, which the *)
(* two ends notice in either order.                                        *)
(***************************************************************************)
EXTENDS Integers, Sequences, FiniteSets

CONSTANTS
    Server,     \* msg_servers; a connection is named by its msg_server
    MaxConn,    \* max_conn_cnt of each msg_server
    NoServer,   \* the answer "no msg_server" or "all full"
    NoInfo,     \* no msg_serv_info_t for the connection
    MaxClients, \* bound: clients of one msg_server
    MaxQueue,   \* bound: messages in one connection
    MaxBreaks   \* bound: connections broken

ASSUME ServerAssumption == IsFiniteSet(Server)
ASSUME MaxConnAssumption == MaxConn \in [Server -> Nat]
ASSUME NullAssumption == NoServer \notin Server /\ NoInfo \notin Int
ASSUME BoundAssumption == MaxClients \in Nat /\ MaxQueue \in Nat /\ MaxBreaks \in Nat

VARIABLES
    online, \* open clients of each msg_server
    link,   \* "down", "up", "closing" (closed by the msg_server only) or
            \* "lost" (closed by the login_server only)
    queue,  \* messages on their way to the login_server
    info,   \* g_msg_serv_info: cur_conn_cnt per connection
    total,  \* g_total_online_user_cnt
    answer, \* the last msg_server handed to a client
    breaks

vars == <<online, link, queue, info, total, answer, breaks>>

MsgServInfo(n) == [kind |-> "info", cur |-> n]
UserCnt(d) == [kind |-> "count", delta |-> d]

Init ==
    /\ online = [s \in Server |-> 0]
    /\ link = [s \in Server |-> "down"]
    /\ queue = [s \in Server |-> <<>>]
    /\ info = [s \in Server |-> NoInfo]
    /\ total = 0
    /\ answer = NoServer
    /\ breaks = 0

Send(s, m) ==
    IF link[s] = "up"
    THEN Len(queue[s]) < MaxQueue /\ queue' = [queue EXCEPT ![s] = Append(@, m)]
    ELSE UNCHANGED queue

\* A client of s opens (1) or leaves (-1): USER_CNT_INC or USER_CNT_DEC.
UserChange(s, d) ==
    /\ online[s] + d \in 0..MaxClients
    /\ online' = [online EXCEPT ![s] = @ + d]
    /\ Send(s, UserCnt(d))
    /\ UNCHANGED <<link, info, total, answer, breaks>>

\* OnConfirm: the first message carries the number of open clients.
Connect(s) ==
    /\ link[s] = "down"
    /\ link' = [link EXCEPT ![s] = "up"]
    /\ queue' = [queue EXCEPT ![s] = <<MsgServInfo(online[s])>>]
    /\ UNCHANGED <<online, info, total, answer, breaks>>

HandleMsgServInfo(s) ==
    /\ queue[s] # <<>> /\ Head(queue[s]).kind = "info"
    /\ queue' = [queue EXCEPT ![s] = Tail(@)]
    /\ info' = [info EXCEPT ![s] = IF @ = NoInfo THEN Head(queue[s]).cur ELSE @]
    /\ total' = total + Head(queue[s]).cur
    /\ UNCHANGED <<online, link, answer, breaks>>

HandleUserCntUpdate(s) ==
    /\ queue[s] # <<>> /\ Head(queue[s]).kind = "count"
    /\ queue' = [queue EXCEPT ![s] = Tail(@)]
    /\ IF info[s] = NoInfo THEN UNCHANGED <<info, total>>
       ELSE /\ info' = [info EXCEPT ![s] = @ + Head(queue[s]).delta]
            /\ total' = total + Head(queue[s]).delta
    /\ UNCHANGED <<online, link, answer, breaks>>

Registered == {s \in Server : info[s] # NoInfo}

\* Mutant: a full msg_server is handed out.
NotOverfull == {s \in Registered : info[s] <= MaxConn[s]}

NotFull == {s \in Registered : info[s] < MaxConn[s]}

\* An HTTP request of a client: the first of the least loaded msg_servers,
\* by handle, that is not full.
HandleMsgServRequest ==
    /\ IF NotFull = {} THEN answer' = NoServer
       ELSE answer' \in {s \in NotFull : \A t \in NotFull : info[s] <= info[t]}
    /\ UNCHANGED <<online, link, queue, info, total, breaks>>

\* CLoginServConn::Close; what was sent before may still arrive in part.
MsgServerCloses(s) ==
    /\ link[s] = "up" /\ breaks < MaxBreaks
    /\ link' = [link EXCEPT ![s] = "closing"]
    /\ \E n \in 0..Len(queue[s]) : queue' = [queue EXCEPT ![s] = SubSeq(@, 1, n)]
    /\ breaks' = breaks + 1
    /\ UNCHANGED <<online, info, total, answer>>

\* Mutant: the msg_serv_info_t of the lost msg_server is kept.
CloseLoginConnKept(s, next) ==
    /\ link' = [link EXCEPT ![s] = next]
    /\ queue' = [queue EXCEPT ![s] = <<>>]
    /\ UNCHANGED <<online, info, total, answer>>

\* CLoginConn::Close of a msg_server's connection.
CloseLoginConn(s, next) ==
    /\ link' = [link EXCEPT ![s] = next]
    /\ queue' = [queue EXCEPT ![s] = <<>>]
    /\ info' = [info EXCEPT ![s] = NoInfo]
    /\ total' = IF info[s] = NoInfo THEN total ELSE total - info[s]
    /\ UNCHANGED <<online, answer>>

LoginServerCloses(s) ==
    /\ link[s] = "up" /\ breaks < MaxBreaks
    /\ CloseLoginConn(s, "lost")
    /\ breaks' = breaks + 1

LoginServerNotices(s) ==
    /\ link[s] = "closing"
    /\ CloseLoginConn(s, "down")
    /\ UNCHANGED breaks

MsgServerNotices(s) ==
    /\ link[s] = "lost"
    /\ link' = [link EXCEPT ![s] = "down"]
    /\ UNCHANGED <<online, queue, info, total, answer, breaks>>

Next ==
    \/ \E s \in Server :
        \/ UserChange(s, 1) \/ UserChange(s, -1)
        \/ Connect(s) \/ HandleMsgServInfo(s) \/ HandleUserCntUpdate(s)
        \/ MsgServerCloses(s) \/ LoginServerCloses(s)
        \/ LoginServerNotices(s) \/ MsgServerNotices(s)
    \/ HandleMsgServRequest

Spec == Init /\ [][Next]_vars

-----------------------------------------------------------------------------
\* The clients counted, numbered on each connected msg_server.
Counted == {c \in Registered \X (1..MaxClients) : c[2] <= info[c[1]]}

\* The counts, unsigned in the code, never pass below zero nor above what a
\* msg_server had, and the total counts the clients of the connected msg_servers
\* together, also after any of them came and went with messages lost.  Once the
\* messages of a connected msg_server are delivered its count is exact, whatever
\* happened to its earlier connections; a msg_server that is not connected is
\* never counted nor handed out.
CountIsExact ==
    /\ \A s \in Registered : info[s] \in 0..MaxClients
    /\ total = Cardinality(Counted)
    /\ \A s \in Server :
        /\ (link[s] = "up" /\ queue[s] = <<>>) => info[s] = online[s]
        /\ link[s] \in {"down", "lost"} => info[s] = NoInfo

Settled == \A s \in Server : link[s] \in {"up", "down"} /\ queue[s] = <<>>

\* A client is sent to a connected msg_server with room: when no message is
\* on its way, to one that really has the fewest clients among those.
AnswerIsLeastLoaded ==
    [][HandleMsgServRequest /\ Settled =>
        LET room == {s \in Server : link[s] = "up" /\ online[s] < MaxConn[s]}
        IN  IF room = {} THEN answer' = NoServer
            ELSE answer' \in room /\ \A t \in room : online[answer'] <= online[t]]_vars
=============================================================================
