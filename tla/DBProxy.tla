------------------------------- MODULE DBProxy -------------------------------
(***************************************************************************)
(* The request pipeline of the database proxy over its connection pools:   *)
(* the main thread gives each packet of a msg_server to a random worker    *)
(* thread; workers run the handlers, which take and give back connections  *)
(* of four pools, and put their answers into one list; the main thread     *)
(* sends each answer to the connection the request came from, if it is     *)
(* still there.                                                            *)
(*                                                                         *)
(* A handler is the sequence of what it does to the pools and to the list  *)
(* of answers (Script): which connection is taken while which others are   *)
(* held, what is skipped when the pool answers NULL, and where the data    *)
(* decides.  What it reads and writes is the subject of GroupStore.        *)
(***************************************************************************)
EXTENDS ConnPool, Integers, Sequences

CONSTANTS
    Handle,         \* sockets of msg_servers
    Kind,           \* the requests made in this instance
    MaxUuid,        \* bound: connections accepted, the last of which stays
    MaxRequest,     \* bound: requests made
    Master, Slave, Unread, GroupMember  \* the pools (teamtalk_master, ...)

ASSUME PoolNames == {Master, Slave, Unread, GroupMember} \subseteq Pool
ASSUME PoolsDiffer ==
    /\ Master \notin {Slave, Unread, GroupMember}
    /\ Slave \notin {Unread, GroupMember}
    /\ Unread # GroupMember
ASSUME BoundAssumption == MaxUuid \in Nat /\ MaxRequest \in Nat

Worker == Thread

VARIABLES
    lastUuid,   \* s_uuid_alloctor
    uuid,       \* m_uuid of the connection on each handle, 0 when there is none
    asked,      \* the requests so far: connection, kind and socket of each
    queue,      \* m_task_list of each worker: requests by number
    work,       \* the request each worker runs, its step and its local pointers
    resp,       \* s_response_pdu_list: requests by number
    got,        \* the connections that were sent the answer of each request
    silent      \* the requests whose handler ended without an answer

connVars == <<lastUuid, uuid, asked>>
vars == <<poolVars, connVars, queue, work, resp, got, silent>>

-----------------------------------------------------------------------------
(***************************************************************************)
(* Handlers.  A step takes a connection into a local variable (get, with   *)
(* the number of steps to jump over on NULL), gives back what the variable *)
(* holds (rel), works with it though it was given back (use), follows what *)
(* the data say (branch) or answers.                                       *)
(***************************************************************************)
Step(op, p, var, jump) == <<[op |-> op, pool |-> p, var |-> var, jump |-> jump]>>

\* More than the steps of any handler: return at once, without an answer.
Return == 100

Branch(jump) == Step("branch", NoPool, 0, jump)
Answer       == Step("answer", NoPool, 0, 0)

\* The body runs with a connection of p in variable var, or not at all.
Hold(p, var, body) ==
    Step("get", p, var, Len(body) + 1) \o body \o Step("rel", p, var, 0)

Once(p) == Hold(p, 1, <<>>)

\* The same, and the rest is not run when there was no connection.
First(p, var, rest) ==
    Step("get", p, var, Len(rest) + 1) \o Step("rel", p, var, 0) \o rest

\* Mutant: an early return inside a body forgets RelDBConn.
MaybeLeaving(body) == Branch(Len(body) + 1) \o body

\* The data may be such that the body is not run.
Maybe(body) == Branch(Len(body)) \o body

\* What was read must be there, and be right, for the rest to be run.
Needs(p, var, rest) == First(p, var, Maybe(rest))

\* isValidateGroupId, isInGroup: without a connection, or when the answer is
\* no, the handler returns at once.
MustBe == Step("get", GroupMember, 1, Return) \o Step("rel", GroupMember, 1, 0)
            \o Branch(Return)

\* addSession: looked up again, deleted ones included, then written.
AddSession == Once(Slave) \o Once(Master)

\* sendMessage of CGroupMessageModel.  The connection that inserted the message
\* is kept while updateGroupChat takes another one of the same pool, and while
\* the counters are written.
UpdateGroupChat == Hold(Master, 2, <<>>)
IncMessageCount == Hold(Unread, 2, <<>>)

\* clearMessageCount gives its connection back and then writes through it.
ClearMessageCount == Needs(Unread, 2, Step("use", Unread, 2, 0))

StoreGroupMessage ==
    Hold(Master, 1, Maybe(UpdateGroupChat \o IncMessageCount \o ClearMessageCount))

GroupSend ==
    LET send == Needs(GroupMember, 1, StoreGroupMessage) \o Once(Master)
    IN  MustBe \o MustBe \o Once(Slave) \o Maybe(AddSession)
            \o Maybe(Needs(Unread, 1, send)) \o Answer

\* addRelation resets the counter of message ids while it holds a connection.
AddRelation == Hold(Master, 1, Maybe(Hold(Unread, 2, <<>>)))

SingleSend ==
    LET send == Needs(Master, 1, Once(Unread)) \o Once(Master) \o Once(Master)
    IN  Once(Slave) \o Maybe(AddSession) \o Once(Slave) \o Maybe(AddSession)
            \o Needs(Slave, 1, AddRelation) \o Maybe(Needs(Unread, 1, send)) \o Answer

\* One sender with unread messages, one group with some.
UnreadCount ==
    Needs(Unread, 1, Needs(Slave, 1, Once(Slave))) \o Once(Slave)
        \o Hold(Unread, 1, Maybe(Hold(Slave, 2, <<>>))) \o Answer

\* Mutant: the time of joining is read from the database.
HistoryNested ==
    Needs(GroupMember, 1,
        Hold(Slave, 1, Hold(Slave, 2, <<>>)) \o Maybe(Once(Slave))) \o Answer

\* getMessage of a group: the time of joining is read while the query waits; the
\* audio files are looked up afterwards.
History ==
    Needs(GroupMember, 1,
        Hold(Slave, 1, Hold(GroupMember, 2, <<>>)) \o Maybe(Once(Slave))) \o Answer

\* Mutant: the connection is given back after the loop as well.
RemoveRepeatUserTwice(ids) ==
    LET again == IF ids = 1 THEN <<>>
                 ELSE Step("use", GroupMember, 1, 0) \o Step("rel", GroupMember, 1, 0)
    IN  First(GroupMember, 1, again \o Step("rel", GroupMember, 1, 0))

\* removeRepeatUser gives its connection back once for each id of the request,
\* and looks up the next id with it.
RemoveRepeatUser(ids) ==
    LET again == IF ids = 1 THEN <<>>
                 ELSE Step("use", GroupMember, 1, 0) \o Step("rel", GroupMember, 1, 0)
    IN  First(GroupMember, 1, again)

WriteMembers == Hold(Master, 1, Hold(GroupMember, 2, <<>>))

AddMember(ids) ==
    LET change == RemoveRepeatUser(ids) \o Maybe(First(Slave, 1, WriteMembers))
                    \o Once(GroupMember) \o Maybe(Once(Master) \o Once(Unread))
    IN  MustBe \o Needs(Slave, 1, change) \o Answer

DelMember ==
    LET change == WriteMembers \o Maybe(Once(GroupMember)) \o Once(Slave) \o Once(Master)
                    \o Maybe(Once(Master) \o Once(Unread))
    IN  MustBe \o Needs(Slave, 1, change) \o Answer

CreateGroup ==
    Needs(Master, 1, Once(Unread) \o Once(Master) \o Once(GroupMember)
                        \o First(Slave, 1, WriteMembers)) \o Answer

Script ==
    [groupSend   |-> GroupSend,    singleSend |-> SingleSend, unreadCount |-> UnreadCount,
     history     |-> History,      addOne     |-> AddMember(1), addTwo    |-> AddMember(2),
     delMember   |-> DelMember,    createGroup |-> CreateGroup, readAck   |-> Once(Unread)]

ASSUME KindAssumption == Kind \subseteq DOMAIN Script

-----------------------------------------------------------------------------
NoRequest == 0
NoVar == <<NoPool, 0>>
Idle == [req |-> NoRequest, pc |-> 0, var |-> <<NoVar, NoVar>>]

\* Where a handler may be, having come to step n: what the data decide belongs
\* to the step before.
Landings ==
    [k \in DOMAIN Script |->
        LET last == Len(Script[k]) + 1
            From[n \in 1..last + Return] ==
                IF n >= last THEN {last}
                ELSE IF Script[k][n].op = "branch"
                     THEN From[n + 1] \cup From[n + 1 + Script[k][n].jump] ELSE {n}
        IN  From]

Requests   == DOMAIN asked
Busy(w)    == work[w].req # NoRequest
KindOf(w)  == asked[work[w].req].kind
Handler(w) == Script[KindOf(w)]
At(w, op)  == Busy(w) /\ work[w].pc <= Len(Handler(w)) /\ Handler(w)[work[w].pc].op = op
Current(w) == Handler(w)[work[w].pc]
Local(w)   == work[w].var[Current(w).var]

\* The next step but n, with x assigned to the variable of the current one.
Skip(w, n) ==
    \E i \in Landings[KindOf(w)][work[w].pc + 1 + n] : work' = [work EXCEPT ![w].pc = i]
Assign(w, x) ==
    \E i \in Landings[KindOf(w)][work[w].pc + 1] :
        work' = [work EXCEPT ![w].pc = i, ![w].var[Current(w).var] = x]

Init ==
    /\ PoolInit
    /\ lastUuid = 0
    /\ uuid = [h \in Handle |-> 0]
    /\ asked = <<>>
    /\ queue = [w \in Worker |-> <<>>]
    /\ work = [w \in Worker |-> Idle]
    /\ resp = <<>>
    /\ got = [r \in 1..MaxRequest |-> {}]
    /\ silent = {}

(***************************************************************************)
(* The main thread.                                                        *)
(***************************************************************************)
OnConnect(h) ==
    /\ uuid[h] = 0 /\ lastUuid < MaxUuid
    /\ lastUuid' = lastUuid + 1
    /\ uuid' = [uuid EXCEPT ![h] = lastUuid']
    /\ UNCHANGED <<poolVars, asked, queue, work, resp, got, silent>>

\* The msg_server hangs up or falls silent; the tasks of the connection and
\* their answers stay where they are.
Close(h) ==
    /\ uuid[h] # 0 /\ lastUuid < MaxUuid
    /\ uuid' = [uuid EXCEPT ![h] = 0]
    /\ UNCHANGED <<poolVars, lastUuid, asked, queue, work, resp, got, silent>>

\* A request with a handler: AddTask picks a worker at random.
HandlePduBuf(h, k, w) ==
    /\ uuid[h] # 0 /\ Len(asked) < MaxRequest
    /\ asked' = Append(asked, [uuid |-> uuid[h], kind |-> k, handle |-> h])
    /\ queue' = [queue EXCEPT ![w] = Append(@, Len(asked'))]
    /\ UNCHANGED <<poolVars, lastUuid, uuid, work, resp, got, silent>>

\* Mutant: the answer goes to the socket the request came from.
GetConnByHandle(r) == {uuid[asked[r].handle]} \ {0}

\* get_proxy_conn_by_uuid
GetConn(r) == {asked[r].uuid} \cap {uuid[h] : h \in Handle}

\* The list is emptied; answers for connections that are gone are dropped.
SendResponsePduList ==
    /\ resp # <<>>
    /\ resp' = <<>>
    /\ got' = [r \in DOMAIN got |->
                IF \E i \in DOMAIN resp : resp[i] = r THEN got[r] \cup GetConn(r) ELSE got[r]]
    /\ UNCHANGED <<poolVars, connVars, queue, work, silent>>

(***************************************************************************)
(* A worker thread.                                                        *)
(***************************************************************************)
Execute(w) ==
    /\ ~Busy(w) /\ queue[w] # <<>>
    /\ \E i \in Landings[asked[Head(queue[w])].kind][1] :
        work' = [work EXCEPT ![w] = [Idle EXCEPT !.req = Head(queue[w]), !.pc = i]]
    /\ queue' = [queue EXCEPT ![w] = Tail(@)]
    /\ UNCHANGED <<poolVars, connVars, resp, got, silent>>

GetDBConn(w) ==
    /\ At(w, "get")
    /\ LET p == Current(w).pool
       IN  \/ \E c \in free[p] : Take(w, p, c) /\ Assign(w, <<p, c>>)
           \/ Grow(w, p) /\ Assign(w, <<p, created'[p]>>)
           \/ GrowFails(w, p) /\ Skip(w, Current(w).jump)
           \/ Wait(w, p) /\ UNCHANGED work
    /\ UNCHANGED <<connVars, queue, resp, got, silent>>

\* Mutant: what is given back goes to the end of the list, and nobody is told.
RelDBConnQuietly(w) ==
    /\ At(w, "rel")
    /\ free' = [free EXCEPT ![Local(w)[1]] = @ \cup {Local(w)[2]}]
    /\ held' = [held EXCEPT ![w] = @ \ {Local(w)}]
    /\ Skip(w, 0)
    /\ UNCHANGED <<created, waiting, woken, connVars, queue, resp, got, silent>>

RelDBConn(w) ==
    /\ At(w, "rel")
    /\ Rel(w, Local(w)[1], Local(w)[2])
    /\ Skip(w, 0)
    /\ UNCHANGED <<connVars, queue, resp, got, silent>>

UseDBConn(w) ==
    /\ At(w, "use")
    /\ Skip(w, 0)
    /\ UNCHANGED <<poolVars, connVars, queue, resp, got, silent>>

AddResponsePdu(w) ==
    /\ At(w, "answer")
    /\ resp' = Append(resp, work[w].req)
    /\ work' = [work EXCEPT ![w] = Idle]
    /\ UNCHANGED <<poolVars, connVars, queue, got, silent>>

\* The handler returned without an answer, or has none to give.
Finish(w) ==
    /\ Busy(w) /\ work[w].pc > Len(Handler(w))
    /\ work' = [work EXCEPT ![w] = Idle]
    /\ silent' = silent \cup {work[w].req}
    /\ UNCHANGED <<poolVars, connVars, queue, resp, got>>

Work(w) ==
    \/ Execute(w) \/ GetDBConn(w) \/ RelDBConn(w)
    \/ UseDBConn(w) \/ AddResponsePdu(w) \/ Finish(w)

WakesUp(w) == SpuriousWake(w) /\ UNCHANGED <<connVars, queue, work, resp, got, silent>>

Next ==
    \/ SendResponsePduList
    \/ \E h \in Handle : OnConnect(h) \/ Close(h)
    \/ \E h \in Handle, k \in Kind, w \in Worker : HandlePduBuf(h, k, w)
    \/ \E w \in Worker : Work(w) \/ WakesUp(w)

Spec == Init /\ [][Next]_vars

\* Every thread runs, and the loop callback is called after each poll.
FairSpec == Spec /\ WF_vars(SendResponsePduList) /\ \A w \in Worker : WF_vars(Work(w))

-----------------------------------------------------------------------------
\* On no path through a handler, whatever pool answers NULL and whatever the
\* data say, is a connection forgotten: a worker between two requests holds
\* none, and one that waits for a connection holds what its variables name.
NothingForgotten ==
    \A w \in Worker :
        IF Busy(w) THEN held[w] \subseteq {work[w].var[i] : i \in 1..2} ELSE held[w] = {}

Unfinished(r) ==
    \/ \E w \in Worker : work[w].req = r \/ \E i \in DOMAIN queue[w] : queue[w][i] = r
    \/ \E i \in DOMAIN resp : resp[i] = r

\* An answer goes to the connection that asked and to no other, though sockets
\* are reused while workers are busy (ProxyConn.h:38); it goes there whenever
\* that connection is still open and the handler gave one.
AnswerReachesAsker ==
    \A r \in Requests :
        /\ got[r] \subseteq {asked[r].uuid}
        /\ ~Unfinished(r) /\ GetConn(r) # {} => got[r] = GetConn(r) \/ r \in silent

\* The workers holding all connections of the master pool wait for one more:
\* sendMessage of CGroupMessageModel, which keeps one over updateGroupChat.
MasterExhausted ==
    \A c \in 1..created[Master] :
        \E w \in Worker : waiting[w] = Master /\ <<Master, c>> \in held[w]

\* A connection of p may be kept while one of q is waited for: pools are taken in
\* the order master, unread, slave, group_member, the first one more than once.
Before(p, q) ==
    \/ p = Master
    \/ p = Unread /\ q \in {Slave, GroupMember}
    \/ p = Slave /\ q = GroupMember

\* Nobody waits for a connection of a pool while it holds one of that pool or of a
\* later one, but for the master pool: handlers nest their connections in calls from
\* one model to another (GroupMessageModel.cpp:105), where no line shows the order.
WaitsInOrder ==
    \A w \in Worker : waiting[w] # NoPool =>
        \A x \in held[w] : Before(x[1], waiting[w])

Asleep(w) == waiting[w] # NoPool /\ w \notin woken

\* Workers never wait for each other: while one is asleep, another is on its way
\* through a handler and will give back, unless the master pool is exhausted.
SomeoneRuns ==
    \A w \in Worker : Asleep(w) /\ ~MasterExhausted =>
        \E v \in Worker : Busy(v) /\ ~Asleep(v)

\* The connections a worker works with: the ones it holds, and one it gave back
\* and still uses.
Uses(w) == IF At(w, "use") THEN held[w] \cup {Local(w)} ELSE held[w]

\* The rule the comments at GroupMessageModel.cpp:86 and MessageModel.cpp:132
\* give: a connection is not used after it was released, lest several threads
\* operate on it.
OneUser ==
    \A w, v \in Worker : w # v => Uses(w) \cap Uses(v) = {}

\* Every request comes to its end, unless the master pool is exhausted: in no other
\* way do workers wait for each other, as the remaining pools are taken in the order
\* master, unread, slave, group_member.
RequestsEnd ==
    \A r \in 1..MaxRequest :
        (r \in Requests /\ Unfinished(r)) ~> (~Unfinished(r) \/ MasterExhausted)

\* The workers use the pools as ConnPool asks: what is given back was taken and
\* not yet given back.
UsesThePools == PoolSpec
=============================================================================
