# TeamTalk in TLA+

A verification project for the servers of TeamTalk (`src/server/src`), an
instant-messaging system. It holds TLA+ models of the parts of the servers that
are hard to get right, TLC configurations that check them on small instances,
and proofs, checked by TLAPS, of what matters most for every instance.

Paths below are relative to `src/server/src` unless they begin with `src/`.

## 1. The system

| server | role | state worth modelling |
|---|---|---|
| `login_server` | hands a client the least loaded msg_server | counts of clients per msg_server and in total |
| `msg_server` (several) | holds the client connections, relays everything | connections, user objects with their two indexes, connections to the other servers |
| `route_server` | connects the msg_servers; knows who is online where | a table: per user, its msg_servers and a count per client type |
| `db_proxy_server` | worker threads over MySQL and Redis | pools, request queue, relations, sessions, messages, unread counters, groups |
| `file_server` | online and offline file transfer | transfer tasks and their two connections |
| `push_server`, `http_msg_server`, `msfs` | push notifications, HTTP front end, picture store | hardly any |
| `base/` | connections, epoll dispatch, timers, threads | buffers, sockets, timers |

Every server but the database proxy is one thread around an event loop: a
callback (packet, connect, close, timer) runs to completion, so a callback is
the atomic step of the models. Interleaving comes from the order of the
callbacks of different connections and from the messages between servers. The
database proxy adds a pool of worker threads.

How they interact:

- client -> msg_server: login request; the msg_server asks the database proxy
  (`IMValidateReq`, matched to its answer by login name and socket handle), and
  refuses outright when a database, login or route server is missing;
- msg_server -> login_server: its number of clients when the connection is
  confirmed (`IMMsgServInfo`), each arrival and departure afterwards
  (`IMUserCntUpdate`);
- msg_server -> route_server: its clients when the connection is confirmed
  (`IMOnlineUserInfo`), each arrival and departure afterwards
  (`IMUserStatusUpdate`); through the *master* connection everything to be routed
  once; the route_server broadcasts status changes and forwards kicks and
  messages;
- msg_server -> file_server, push_server: requests of clients.

### Components and what makes each correct

| component | state | operations | hard part | correct when |
|---|---|---|---|---|
| client sessions (`msg_server/MsgConn`, `ImUser`, `DBServConn`) | `CMsgConn` fields, `CImUserManager` indexes, `CImUser` containers | connect, login, answer, kick, logout, timeout, close | raw pointers in three places, removal in two phases, several names for one id, reused handles, late and lost answers | indexes, objects and connections agree; nothing dangles or leaks; each arrival and departure is announced once; a login ends |
| route links (`msg_server/RouteServConn`, `base/ServInfo.h`) | slot per server, back-off, master | connect, confirm, close, timer | several closings in one pass, immediate failure of `connect()` | master exists exactly while a link is open, and is the oldest; empty slots are retried |
| online status (`route_server/RouteConn`, `UserInfo`) | table per user | snapshot, update, close | broken links noticed at different times, lost updates, counts not kept per link | no false offline; exact without failures |
| load balance (`login_server`) | count per msg_server, total | register, update, close, choose | the same; unsigned counts | counts recover and never wrap; the choice is the least loaded |
| PC-login status and push (`msg_server`, `route_server`) | `m_pc_login_status` per user object | notice, push decision | objects come and go while notices are on their way; a notice that is not sent | pushes are silent exactly while a desktop client is on |
| file transfer (`file_server`, `msg_server/FileHandler`) | task state machine, its two connections | login, pull, data, close, timer | either side closes at any time | no connection points to a deleted task; tasks are reclaimed |
| pools (`db_proxy_server/DBPool`, `CachePool`) | free list, counter, condition variable | get, grow, wait, release | one signal per release, nested acquisition, failing to grow | bounded, a connection has one owner, no sleeper is forgotten |
| request pipeline (`ProxyConn`, `base/ThreadPool`) | queues of the workers, list of answers | request, work, answer, close | answers after close and reuse, workers that wait for each other | each answer goes to its requester; every request ends |
| business models (`db_proxy_server/business`) | rows in MySQL, counters and hashes in Redis | send, read, group changes | check-then-act across threads, two stores written one after the other, calls that fail | what the stores and the clients have fits together |
| group synchronisation (`SyncCenter`) | last update time | periodic pass, restart | time taken after the query; restart | no change is skipped |
| network layer (`base`) | buffers, sockets | read, write, dispatch | dispatch after close, descriptor reuse | a packet goes to the connection it was sent on |

The hazards are listed one by one, each at its line, in `PROJECT.json`.

## 2. Modules

| module | models |
|---|---|
| `MsgSession` | the session registry of one msg_server |
| `UserPresence` | abstract: what a msg_server promises about its clients |
| `RouteLinks` | the connections of a msg_server to the route servers |
| `RouteStatus` | the msg_servers and a route_server, joined by connections that break |
| `PcLoginStatus` | `RouteStatus` with the notices back to the msg_servers and what these do with them |
| `LoginBalance` | the msg_servers and the login_server, joined the same way |
| `FileTransfer` | the transfer tasks of a file_server, its client connections and the files on disk |
| `ConnPool` | the connection pools of the database proxy |
| `DBProxy` | the request pipeline of the database proxy: connections, worker threads, handlers as users of the pools |
| `GroupStore` | one group in MySQL and Redis under concurrent handlers |
| `MessageStore` | sessions, relations and single messages in MySQL and Redis under concurrent handlers |
| `MsgSession_proofs`, `RouteLinks_proofs`, `RouteStatus_proofs`, `FileTransfer_proofs`, `DBProxy_proofs`, `GroupStore_proofs`, `MessageStore_proofs`, `LoginBalance_proofs` | theorems and their lemmas |
| `MC*` | instances for TLC |

`PcLoginStatus` extends `RouteStatus`, conjoining its actions with what they do to
the notices; `DBProxy` extends `ConnPool`, calling its actions. `UserPresence` and
`ConnPool` (as `PoolSpec`) are the abstract specifications that `MsgSession` and
`DBProxy` implement.

The operators marked "Mutant" in the modules are plausible bugs of the definition
that follows them; they occur in no specification. Each property was checked to
fail when its mutant replaces that definition (the list is in `PROJECT.json`).

### MsgSession

State: `conn` holds the fields of every `CMsgConn` the code tests (handle,
`m_login_name`, client class, `m_user_id`, `m_bOpen`, `m_bKickOff`); `reg` is
`CImUserManager` with its indexes `byName` and `byId` and a heap of `CImUser`
objects, each with `m_conn_map` (`conns`) and `m_unvalidate_conn_set` (`unval`);
`validating` counts the requests in flight at the database, by the handle and the
name that come back with the answer; `announced` is the number of ONLINE minus
OFFLINE updates sent, per user and class.

The heap is what makes pointer bugs visible: objects are allocated, deleted and
reused, so an index entry or a container that outlives its object is a state in
which the invariants fail. Helper operators carry the names of the methods and
work on a registry value, so that a handler is the composition of its calls, in
the order the code makes them; `Close` is the two-phase removal of
`CMsgConn::Close`, by id and then by name.

| action | code |
|---|---|
| `OnConnect` | `CMsgConn::OnConnect` |
| `OnClose` | peer closed, read error, bad packet, or silence past `CLIENT_TIMEOUT` (`MOBILE_CLIENT_TIMEOUT`) |
| `LoginTimeout` | `CMsgConn::OnTimer`, not open after 15 s |
| `HandleLoginRequest`, `RefuseLogin` | `_HandleLoginRequest` with all servers there, or one missing |
| `ValidateAccepted`, `ValidateRefused`, `ValidateStale` | `CDBServConn::_HandleValidateResponse` and its early returns |
| `LoseValidation` | the connection to the database proxy breaks, or the request is dropped |
| `HandleLoginOutRequest`, `HandleKickPCClient`, `HandleKickUser` | the handlers of these names |

Abstractions: login names, ids and handles are small sets; client types are their
class (`client_type >> 4`), which is what kicking compares; passwords are the
choice between accepted and refused; message relay leaves this state alone. The
database answers one id per name, the same each time (`UidOf`): two names for one
id happen because the login name is compared by the database without regard to
case and has no unique index. Handlers of packets that the clients of the
repository never send (a login with an empty name, a packet after logout) have
no action.

`UserPresence` says the same with no objects, indexes or handles: each client is
idle, connected, pending or online; messages for a user reach exactly its
approved clients; every arrival and departure is told once. `ImplementsPresence`
is the refinement, `members` being what the delivery code would walk: from the id
index to the object to its connection map.

### RouteLinks

`link[i]` is a `serv_info_t` with the state of its `serv_conn`; `master` is
`g_master_rs_conn` as a slot. `Timer` is the whole pass of
`route_server_conn_timer_callback`: the connections silent for too long are
closed, in one step because the outcome for the master does not depend on their
order, then each empty slot counts a tick and may connect. `attempt` is what
`connect()` yields: in progress, or failed at once, which leaves an object in the
slot that is in no connection map ("invalid"). All server-to-server connections
share `ServInfo.h`; only these have a master. Ticks are timer passes.

### RouteStatus and LoginBalance

Each msg_server has one connection, a FIFO queue: TCP without loss while it is
up. `MsgServerCloses` and `RouteServerCloses` break it at one end, cutting off any
part of what is still queued; the other end notices later (`link` is "closing" or
"lost" until then), and only then can the msg_server connect anew. Clients come
and go meanwhile, unannounced when there is no connection. The actions of the
receiving server are its packet handlers and `Close`. What a msg_server announces
is justified by `AnnouncedIsOpen` of `MsgSession`: one ONLINE and one OFFLINE per
open client.

### PcLoginStatus

The route_server tells every msg_server when a user's desktop client is there
(after any login of the user) and when the last one is gone
(`IMServerPCLoginStatusNotify`). `pcStatus` is `m_pc_login_status` of the user's
object on each msg_server, which exists while the user has a client there; it is
"fresh" until the first notice. `notices` are the messages on their way back, over
the same connections as the reports.

| action | code |
|---|---|
| `UserLogin`, `UserLogout` | login and last close, with the life of the `CImUser` |
| `OnlineUserInfo`, `UserStatusUpdate` | `_HandleOnlineUserInfo`; `_HandleUserStatusUpdate` with its `_BroadcastMsg` |
| `HandlePCLoginStatusNotify` | the handler of this name in the msg_server |
| `LinkUp`, `LinkBreaks`, `LinkDown` | the connection is made, breaks at one end, is noticed at the other |

`PushIsSilent` is the decision of `_HandleGetDeviceTokenResponse`: by the object, or
by asking the route_server when there is none. `PushIsRight` says that it is right
once all is delivered, but for the users in `missed`, about whom the route_server
told nobody though somebody should have been told. The model checker found that the
exclusion is needed, in two ways: the OFF notice is not sent if the user has no
entry any more, while the object of a phone that has just come to another
msg_server is about to be told "on" or holds it already; and the list a msg_server
sends when it connects changes the table without any notice. Several route_servers,
which only multiply the notices, are left out, as is what phones on line are told.

### FileTransfer

State: `task` is the map of the `TransferTaskManager` (per id: present or not,
`state_`, `from_conn_` and `to_conn_` as `at`, `transfered_idx_` as `idx`); `conn`
is the map of client connections with what each caches (`transfer_task_`, the role
of its user) and where its client stands (`got`, `req`); `disk` is the number of
blocks in the file of each offline task; `created` the ids ever given. Only `disk`
and the ids survive `Restart`.

| action | code |
|---|---|
| `HandleMsgFileTransferReq` | the msg_server asks for a task |
| `OnConnect`, `OnClose` | a client connects; it hangs up or falls silent |
| `Login`, `RefuseLogin` | `_HandleClientFileLoginReq` with `ChangePullState` and `LoadFromDisk` |
| `PullOnline`, `PullOffline`, `PullRefused` | `_HandleClientFilePullFileReq` with `DoPullFileRequest` |
| `DataOnline`, `DataOffline`, `DataRefused` | `_HandleClientFilePullFileRsp` with `DoRecvData` |
| `HandleClientFileStates` | cancelled, refused or done: the connection closes |
| `OnTimer`, `TaskTimer` | the timers of the connections and of the tasks |
| `Restart` | the process ends and starts again |

Every end runs through `Close`, which changes the task and may delete it
(`Deleted`). A file is a number of blocks of `SEGMENT_SIZE`; an `fwrite` whose
result is ignored may leave a block out. What clients send is taken from the
Windows client: a block is answered when asked for and pulled when the last one
has come (`Answers`, `Pulls`); one connection per user and task, and a user does
not send to himself. When receivers come is the constant `Early`: FALSE for those
who were offline when an offline transfer was announced and come when nobody is
at the task; TRUE for those who were online, whom the msg_server notifies at once
(`FileServConn.cpp:238`) and whose client logs in at once. The properties hold in
the first case, and the second is what breaks them (disagreement 3).

### ConnPool and DBProxy

`ConnPool` is `CDBPool` and `CachePool`, which are the same program: `created` is the
count of connections, `free` the list, `held` what each thread took, `waiting` and
`woken` the threads in `Wait()` and those of them that a signal or a spurious
wakeup chose. Each action is one critical section of the pool's mutex: `Take`,
`Grow`, `GrowFails` (the caller gets NULL), `Wait` are the ways through
`GetDBConn`, `Rel` is `RelDBConn` with the single `Signal`. `PoolSpec` adds what a
user of a pool has to keep to: give back what you took, once (`Release`).

`DBProxy` is what runs on top. Its main thread accepts connections, each with a new
`m_uuid`, gives each packet to a random worker (`HandlePduBuf`) and sends the list of
answers (`SendResponsePduList`); closing a connection leaves its tasks and answers
where they are. A worker takes a task (`Execute`), runs its handler and queues the
answer. A handler is translated to the sequence of what it does to the pools and
to the list of answers (`Script`), one operator per function of the code, composed
as the functions call each other: `get` with the number of steps that are skipped on
NULL, `rel`, `use` (work through a connection after it was given back), `branch` (the
data decide) and `answer`. What is read and written between them is left out, which
makes every path through a handler possible that some data take. A branch is decided
together with the step before it (`Landings`), as it touches nothing shared.

The kinds of requests are those that hold one connection while they take another, or
whose releases are intricate; a handler that takes one connection at a time behaves
like `readAck`.

Handlers nest: a function that holds a connection calls one that takes another. All of
them take the pools in one order (`Before`: master, unread, slave, group_member), which no
line of the code states and each new call may break; only the master pool is taken while
one of its own connections is held (`GroupMessageModel.cpp:105`). `WaitsInOrder` is this
order (proved only: no run repeats it), `SomeoneRuns` what it is for: the workers can only
stop each other by exhausting the master pool (`MasterExhausted`).

### GroupStore

The data of one group: rows, version and messages in MySQL (`rows`, `version`,
`msgs`), hash of members, last message id, total and per-user counters in Redis
(`member`, `lastId`, `total`, `cnt`); what a client has cached and which ids were
answered. An action is one query or command of a handler, the unit the servers make
atomic, with `ok` saying whether it succeeded and what the handler does if not; `pc`
names the next call. Handlers: `createGroup`, `modifyMember` (add, remove),
`sendMessage`, `clearUnreadMsgCounter` (`ReadAck`), `getGroupInfo`. Master and slave
are one database, as the shipped configuration has it.

The properties hold for all interleavings and failures but those they exclude by
name, and each exclusion is needed: TLC finds a counterexample without it.
`clashed` are the users two requests were in work for at once (an addition and a
removal that overlap leave the table and the hash different; two copies of the total
may be written in the wrong order); `left` those who were removed (between the two
looks `sendMessage` takes at the group); `early` marks a list that was fetched while
the group was being created; `faults` counts failed calls (nothing is retried or
rolled back); `BadId` is the id that the -1 of a failed `incrBy` becomes. `TotalIsStored`,
`CopyIsExact` and `VersionCoversMembers` speak of exact agreement only while no call
failed. `AnswersFitTable` holds whichever calls fail: what is stored is answered, and a
failed call costs at most one acknowledged message of a sender who stayed. An insertion
that fails does cost one, since its sender is told an id all the same.

### MessageStore

Messages between users: the rows of `IMRelationShip`, `IMRecentSession` and `IMMessage`
(`rels`, `ses`, `msgs`), the last message id of each relation and the unread counters in
Redis (`lastId`, `unread`). As in `GroupStore` an action is one query or command, with
`ok`; `pc` names the next call of a worker and `side` whose session it is at, the
sender's or the receiver's.

| action | code |
|---|---|
| `Request` | a message, the removal of a session (`deleteRecentSession`), an acknowledgement (`clearUnreadMsgCounter`) |
| `FindSession`, `KnowSession`, `AddSession` | `getSessionId` and `addSession`, which looks again, among the removed ones too |
| `GetRelationId`, `LookOnMaster`, `AddRelation`, `ResetMsgId` | `getRelationId`, and the parts of `addRelation` |
| `GetMsgId`, `InsertMessage`, `IncMsgCount` | `getMsgId`, `sendMessage` and `incMsgCount` of `CMessageModel` |
| `FindRemoved`, `RemoveSession`, `ClearUserCounter` | `getSessionId`, `removeSession`, `clearUserCounter` |

Text, audio and image messages take the same steps; the rows that hold their contents
are left out, as are times and group sessions. Nothing is unique in the tables but ids
that MySQL gives, so which of several rows a lookup ends with is a choice (`Pick`).

The exclusions in the properties are again each needed. `doubled` are the relations and
sessions that two workers looked for at once, both about to insert, or that were looked
for by a query that failed; `early` the relations an id was taken from between their
insertion and `resetMsgId`; `missed` the sessions removed while a message for them was
on its way. For the pairs in `doubled` the properties do not claim a single row, but
bound how many there can be: `AreFew`, as many as there are workers and failed calls,
however many messages follow.

## 3. Runs

| run | question | instance | result |
|---|---|---|---|
| `msg_session` | does the registry stay consistent, does it implement `UserPresence`, and does every login end? | 2 connections, 2 handles, 3 names of 2 users, 3 objects, 2 requests in flight, fairness | holds, 80 512 states |
| `msg_rivals` | one client per class? | 3 connections of 1 user | **violated** |
| `route_links` | is the master right, is reconnection on time, is an emptied slot retried? | 3 servers, back-off 4..8, clock 0..3, fairness | holds, 76 000 states |
| `pc_login_status` | is the table right, and what the msg_servers know of desktop clients? | 2 msg_servers, 1 user, a desktop and a mobile type, 2 broken connections, 2 notices per connection | holds, 4.83 million states |
| `route_status_ghost` | is everybody reported online really there? | 2 msg_servers, 1 user, 3 client types, 1 broken connection | **violated** |
| `login_balance` | do counts recover, is the choice right? | 2 msg_servers, 2 broken connections | holds, 78 000 states |
| `file_transfer` | do tasks and connections agree, are files whole, is the peer closed when one side leaves? | 3 connections, 1 online and 2 offline tasks, 3 blocks, fairness | holds, 76 146 states |
| `file_transfer_early` | is a cached task alive when receivers come early? | 2 connections, `Early` | **violated** |
| `db_proxy` | are pools, answers and requests right, whatever the handlers do at once? | 2 workers, 6 kinds of requests, 2 requests, 2 connections, pools of 1 and 2, fairness | holds, 383 567 states |
| `db_proxy_shared` | is a connection used only by its owner? | 2 workers, 4 kinds of requests | **violated** |
| `group_store` | do MySQL, Redis and the clients agree about a group? | 2 workers, 3 users (2 founders), 4 requests, 2 failed calls | holds, 3.67 million states |
| `message_store` | are the messages between two users found, numbered and shown? | 2 workers, 2 users, 4 requests, 1 failed call | holds, 3.1 million states |

The type invariants of `MsgSession`, `RouteLinks`, `RouteStatus`, `PcLoginStatus`,
`FileTransfer`, `ConnPool`, `GroupStore` and `MessageStore` are proved (section 4) and not
run.

Bounds, and why they are enough:

- two connections show an accepted one and a pending one of one user, a handle that is
  reused while an answer to its former owner is on its way, and a user object that is
  deleted and made anew; three names of two users, two of them of one, let an accepted
  connection move between objects while another user is there. The five invariants are
  proved for any number of connections; `msg_rivals` needs three. `UserObj` has an
  object per name: more can never be alive at once, as each is in the name index
  (`RegistryConsistent`);
- `MaxValidating` 2: an answer for a former owner of the handle and the owner's own,
  or one each of two users;
- three route servers: a master, one that is lost with it in one timer pass and
  one that is left; a clock of 0..3 gives each its own age and equal ages; a
  back-off of 4..8 doubles once and wraps;
- the status and count models need two msg_servers for their messages to
  interleave, one user (users share no entry), one client of each type per
  msg_server, and two breaks: one before and one after a reconnection. Two desktop
  types (the `route_status_ghost` instance) show nothing one does not: the status and
  the notices read only whether there is any. Queues of 2 and 3 hold the snapshot and
  updates behind it; a full queue only delays clients, and a full queue of notices the
  route_server;
- three connections occupy both places of a task and one of another, so that a
  pointer into the wrong task shows; three tasks let connections move to another
  one; of three blocks there is a first, a middle and a last;
- two workers are enough to exhaust pools of one and two connections, and each other:
  pools start with one connection (`MIN_*_CONN_CNT` is 2) and the master pool grows by
  one, so that growing, failing to grow, waiting and the limit all occur. Two requests
  keep both workers busy, two values of `m_uuid` give a reused socket; the proofs about
  the pools and `DBProxy` cover any number of threads, requests and connections and any
  limits;
- `message_store`: two workers, which is what a lookup and an insertion at once take, two
  users (pairs of users share nothing), four requests: two first messages, a removal and
  what follows; one call fails;
- `group_store`: two workers, three users (two founders, one who joins and leaves), four
  requests after each other or at once and two failing calls; the proofs about
  `GroupStore`, as those about `MessageStore`, cover the rest.

Deadlock is checked in every run but four: requests are bounded in `group_store`,
`message_store` and the `db_proxy` runs, which end when all are done, and `db_proxy`
really stops when the master pool is exhausted; `RequestsEnd` and `SomeoneRuns` say that
it stops in no other way. `msg_rivals` uses the symmetry of `MsgSession` in connections and objects
(handles are ordered: rivals are kicked by handle), the runs of `RouteStatus` that of
msg_servers and of the desktop types, `group_store` that of workers and of founders,
`message_store` that of workers and of users; runs with liveness use no symmetry.

### Fairness

`msg_session` assumes weak fairness of `LoginTimeout` for each connection,
`route_links` of `Timer`, and `file_transfer` of `OnTimer` for each connection and of
`TaskTimer`. All are callbacks of `netlib_register_timer`, every 1 or 10 seconds; the
event loop runs its timers between two waits of bounded length and every callback
terminates. `db_proxy` assumes weak fairness of each worker's `Work`, a thread that
runs whenever it is not asleep, and of `SendResponsePduList`, which
`init_proxy_conn` registers to be called in every round of the loop. Nothing is
assumed of clients, of the database, of the network, or of which sleeper a signal
wakes. `GetDBConn` and its `Wait` are one action for fairness: a woken thread does get
the mutex again, but may find the pool empty each time.

### Disagreements between code and comments

1. `msg_rivals`: `ImUser.cpp:161` allows one desktop and one mobile client.
   `KickOutSameClientType` stops at the first rival in handle order. A kicked
   connection stays in the map until its client hangs up, so the next login kicks
   it a second time and the other one is never told.
2. `route_status_ghost`: `RouteConn.cpp:70` says that closing removes "all user
   info from this MessageServer". The client counts stay; a user with a mobile
   client on another msg_server remains ONLINE by a desktop client that is gone.
3. `file_transfer_early`: `file_client_conn.h:65` caches the task in a connection
   because each connection has one. The task of an offline transfer is deleted
   when either of its connections closes in any state but WaitingUpload, and a
   receiver who is online comes while the sender is there: the connection left
   over points to a deleted task. It may even come first, although
   `transfer_task.cpp:331` says that must be the uploader: the check that says so
   leaves `rv` true.
4. `db_proxy_shared`: the comments at `GroupMessageModel.cpp:86` and
   `MessageModel.cpp:132` say what must not happen to a connection that was released:
   several threads operating on it. `removeRepeatUser` (`GroupModel.cpp:684`) releases
   its connection inside the loop over the ids and uses it for the next one;
   `clearMessageCount` (`GroupMessageModel.cpp:185`, 189) writes through one it gave
   back.

Met while modelling, without a run of their own:

- `DBServConn.cpp:57` promises a reconnection "in 4s, 8s, 16s, ...". If `connect()`
  fails at once the slot keeps an object ("invalid" in `RouteLinks`) that no callback
  and no timer reaches, and the server is never connected to again.
  `EmptySlotIsRetried` is what does hold: a slot that was emptied is retried.
- `fileserver.conf:8` sets a task timeout. It applies only to tasks in TransferDone
  (`transfer_task_manager.cpp:32`), a state nothing enters.
- `RouteConn.cpp:210` says that a notice is sent when a desktop client leaves and none
  is left; the code sends it only while the user has some other client, `if (pUser)`
  (`missed` in `PcLoginStatus`).
- `m_pc_login_status` begins as `USER_STATUS_OFFLINE`, which is 2
  (`ImUser.cpp:24`), while `ImUser.h:64` has 1 for on and 0 for off; `FileHandler.cpp:67`
  takes any value but 0 for "desktop client logged in". Pushes compare with ON and
  are not affected ("fresh" in `PcLoginStatus`).
- `CGroupMessageModel::sendMessage` declares `bRet` twice and always returns false
  (`GroupMessageModel.cpp:75`, 102); its caller does not look, and answers an id also
  when nothing was stored. `AnswersFitTable` counts such losses: one at most for each
  call that failed.
- `MessageContent.cpp:172` assigns the new session of the receiver to `nSessionId`:
  the sender's session is not updated, `nPeerSessionId` stays `INVALID_VALUE`, and if
  the receiver's session cannot be added the message is dropped though the sender's
  is there (`AddSession`).
- Two first messages at once, or a look on the master that fails, insert a relation
  twice (`RelationModel.cpp:79`, 136); which of the two a lookup ends with is not
  determined, and the messages of the other are not seen (`doubled` in `StoredIsFound`).
  Sessions are inserted twice in the same way (`SessionModel.cpp:150`), and removing one
  leaves the other. There can be more than two, but no more than workers and failed
  calls (`AreFew`).
- `resetMsgId` comes after the row can be seen (`RelationModel.cpp:140`): ids another
  worker took in between are given again (`early` in `MessageIdsUnique`).
- A session that is removed while a message for it is past its look at the session stays
  hidden, with the message unread in it (`missed` in `UnreadIsListed`).
- `removeRepeatUser` with no ids never releases its connection
  (`GroupModel.cpp:677`); heartbeats and packets without a handler leak their
  `CImPdu` (`ProxyConn.cpp:203`).

## 4. Proofs

Proved by TLAPS for every value of the constants:

| theorem | states |
|---|---|
| `MsgSession_proofs!TypeCorrect` | `Spec => []TypeOK` |
| `MsgSession_proofs!RegistryCorrect` | `Spec => []RegistryConsistent` |
| `MsgSession_proofs!NoDangling` | `Spec => []NoDanglingConn` |
| `MsgSession_proofs!Reachable` | `Spec => []OpenConnIsReachable` |
| `MsgSession_proofs!NoLeak` | `Spec => []NoUserLeak` |
| `MsgSession_proofs!AnnouncedCorrect` | `Spec => []AnnouncedIsOpen` |
| `MsgSession_proofs!ImplementsPresenceCorrect` | `Spec => ImplementsPresence` |
| `RouteLinks_proofs!TypeCorrect` | `Spec => []TypeOK` |
| `RouteLinks_proofs!MasterCorrect` | `Spec => []MasterIsOldest` |
| `RouteLinks_proofs!ReconnectCorrect` | `Spec => []ReconnectIsDue` |
| `RouteLinks_proofs!MasterStable` | `Spec => MasterIsStable` |
| `FileTransfer_proofs!TypeCorrect` | `~Early => (Spec => []TypeOK)` |
| `FileTransfer_proofs!CachedTaskStaysAlive` | `~Early => (Spec => []CachedTaskIsAlive)` |
| `FileTransfer_proofs!TaskConnStaysOpen` | `~Early => (Spec => []TaskConnIsOpen)` |
| `FileTransfer_proofs!TasksEnd` | `~Early => (Spec => []NoTaskLeftBehind)` |
| `FileTransfer_proofs!RelaysHaveBothPeers` | `~Early => (Spec => []RelayHasBothPeers)` |
| `FileTransfer_proofs!DownloadsStayWhole` | `~Early => (Spec => []DownloadsAreWhole)` |
| `RouteStatus_proofs!RouteCorrect`, `TypeCorrect` | `Spec => []RouteInv`, `Spec => []TypeOK` |
| `RouteStatus_proofs!OnlyOpenCorrect` | `Spec => []OnlyOpenRouteConns` |
| `RouteStatus_proofs!NoFalseOfflineCorrect` | `Spec => []NoFalseOffline` |
| `RouteStatus_proofs!TableIsSafeCorrect` | `Spec => []TableIsSafe`, the two joined |
| `RouteStatus_proofs!ExactWithoutBreaksCorrect` | `Spec => []ExactWithoutBreaks` |
| `RouteStatus_proofs!PcImplementsRoute` | `PcSpec => Spec` (of `RouteStatus`) |
| `RouteStatus_proofs!PcTypeCorrect` | `PcSpec => []PcTypeOK` |
| `RouteStatus_proofs!PushIsRightCorrect` | `PcSpec => []PushIsRight` |
| `LoginBalance_proofs!CountIsExactCorrect` | `Spec => []CountIsExact` |
| `LoginBalance_proofs!AnswerIsLeastLoadedCorrect` | `Spec => []AnswerIsLeastLoaded` |
| `DBProxy_proofs!PoolTypeCorrect` | `PoolSpec => []PoolTypeOK` |
| `DBProxy_proofs!OneOwnerCorrect` | `PoolSpec => []OneOwner` |
| `DBProxy_proofs!NoMissedSignalCorrect` | `PoolSpec => []NoMissedSignal` |
| `DBProxy_proofs!AnswerReachesAskerCorrect` | `Spec => []AnswerReachesAsker` |
| `DBProxy_proofs!NothingForgottenCorrect` | `Spec => []NothingForgotten` |
| `DBProxy_proofs!UsesThePoolsCorrect` | `Spec => UsesThePools`, unless `"addTwo"` is in `Kind` |
| `DBProxy_proofs!ProxyOneOwnerCorrect` | `Spec => []OneOwner`, with the same condition |
| `DBProxy_proofs!ProxyNoMissedSignalCorrect` | `Spec => []NoMissedSignal`, with the same condition |
| `DBProxy_proofs!WaitsInOrderCorrect` | `Spec => []WaitsInOrder` |
| `DBProxy_proofs!SomeoneRunsCorrect` | `Spec => []SomeoneRuns`, with the same condition |
| `GroupStore_proofs!GroupCorrect`, `TypeCorrect` | `Spec => []GroupInv`, `Spec => []TypeOK` |
| `GroupStore_proofs!CountCorrect` | `Spec => []CountNeverAhead` |
| `GroupStore_proofs!IdsCorrect` | `Spec => []MessageIdsUnique` |
| `GroupStore_proofs!TotalCorrect` | `Spec => []TotalIsStored` |
| `GroupStore_proofs!CopyCorrect` | `Spec => []CopyIsExact` |
| `GroupStore_proofs!VersionCorrect` | `Spec => []VersionCoversMembers` |
| `GroupStore_proofs!AnswersCorrect` | `Spec => []AnswersFitTable` |
| `GroupStore_proofs!ReadCorrect` | `Spec => ReadStaysRead` |
| `MessageStore_proofs!TypeCorrect` | `Spec => []TypeOK` |
| `MessageStore_proofs!StoredIsFoundCorrect` | `Spec => []StoredIsFound` |
| `MessageStore_proofs!MessageIdsUniqueCorrect` | `Spec => []MessageIdsUnique` |
| `MessageStore_proofs!OneSessionCorrect` | `Spec => []OneSession` |
| `MessageStore_proofs!UnreadIsListedCorrect` | `Spec => []UnreadIsListed` |

They rest on the assumptions named in the modules: sets of connections and
handles, msg_servers, threads and workers are finite, handles, limits and bounds are
natural numbers, the null values are outside their sets, a group has a founder, the
requests made are among those with a handler, the four pools of the handlers are
different and created with a connection at least, and `2 <= MinReconnect <= MaxReconnect`.

**MsgSession.** None of the invariants of the registry is inductive alone. That a connection
in a map is open needs the map's owner to be the one found by its id; that an
open connection is found needs its user not to be deleted with another one; that
a deleted user leaves no index entry needs to know that it is indexed under its
own name and id only. The invariant `IInv` joins them:
`ConnOK` (what a connection's fields say of each other: open exactly with an id,
pending exactly with a name and no id), `IndexOK` (entries name live objects that
bear the key), `ConnsOK` (what an object holds), `OpenOK` (open connections are in
the map of the object indexed by their id) and `LiveOK` (a live object is
indexed, has an id exactly when its map is not empty, and holds something), beside
the types of the counters.

`Close` is a composition of five operators on registry values, so the proof
follows the intermediate registries: a lemma for each operator says what it
preserves when one connection is "on its way out". The lemmas about accepting a
login do the same for the move, the indexing and the validation. One step per
action then completes the proof. `AnnouncedIsOpen` compares a counter with the
cardinality of a set: with `IInv` each step either leaves the open connections of a
user and class and the counter alone (`QuietKeepsAnnounced`) or adds one to both or
takes one from both (`OneMore`).

The refinement of `UserPresence` needs one fact more: under `IInv` the connections
found by id and through `m_conn_map` are exactly the open ones of that user and class
(`DeliveredIsOpen`), so the delivery lists can be followed as sets of connections.
Closing is then `Leave`, an accepted login is `Approve`, and kicks, stale and lost
answers are stutters (`StepIsPresenceStep`).

**RouteLinks.** The types, the back-off bounds and the statement about the oldest
connection are inductive together. The lemma behind it is that a finite nonempty
set of slots has an element that `Older` puts first; it rests on the least element
of a set of natural numbers (`LeastNatural`). That an empty slot's back-off is in its range
needs the same of the halved value a connection begins with (`BackoffFloor`).

**FileTransfer.** That a cached task is alive cannot be shown alone: a task is
deleted with one of its connections, so the other place must be empty then. Which
places are taken follows from the state of the task, hence the invariant joins the
pointers in both directions (`ConnsOK`, `TaskConnIsOpen`) with what each state says
of the places, the index and the file (`OnlineOK`, `OfflineOK`). Three lemmas carry
the steps: one for a step that gives one task and one connection new values
(`OneTaskOneConn`), one for a step that leaves all pointers as they are
(`SameConns`), and `CloseKeeps` for the closing every end runs through. The
assumption `~Early` is used once, where a receiver logs in; `file_transfer_early`
shows that it is needed.

**LoginBalance.** The counts cannot be followed alone: what the login_server will know
once a queue is empty depends on every message in it. `LinkOK` says that there is a
*path* through the queue of a connection that is up, from the count the login_server has
to the number of clients that are there: one number after each message, each between 0
and the limit. Handling a message takes the head off the path, sending one adds to its
end, a break cuts it off (`PathTail`, `PathAppend`, `PathCut`). No count can wrap, since
the numbers on the path are counts. The total is the cardinality of the set of clients,
numbered for each msg_server (`CountedIn`), so that a changed count changes it by the
difference without any recursion over the servers (`CountedChanges`).

**RouteStatus and PcLoginStatus.** That an entry names only open connections needs to
know that messages wait only at connections the route_server holds (`RouteInv`):
otherwise handling one could put a closed connection into an entry. The operations
on an entry have a lemma each.

The table does not keep what each msg_server reported, so `CountInv` says that there is
such an account: a matrix `h` of how many clients of each user and type the route_server
has heard of from each connection (`Accounts`). Along every queue a path leads from its row
to what is open at the other end, as in `LoginBalance`; a closed connection has an empty
row; the counters of the table are at least the sums of its columns, and exactly these
until a connection breaks (`BeforeBreaks`); an entry names every connection with a client
in the column. A break leaves counters behind, which is why they are only bounds
afterwards (`route_status_ghost`). When nothing is under way, `h` is what is open
(`HeardIsOpen`), and `NoFalseOffline` and `ExactWithoutBreaks` follow.

Each step of `PcLoginStatus` is a step of `RouteStatus` or leaves its variables alone, so
everything proved of `Spec` holds of `PcSpec`. `PushInv` then says, while no connection
has broken and for users not in `missed`, that the last notice under way about a user, or
else the status in the object, agrees with the table, or says "off" while a report of the
msg_server's own desktop client is still on its way to the route_server, which will
answer it.

**The pools.** `OneOwner` is inductive with the types. `NoMissedSignal` needs the number
of free connections compared with the number of woken threads, hence the finiteness
of `Thread` and lemmas about the cardinality of a set that one element joins or leaves:
`Take` removes one of each or only a free one, a release adds one of each unless
nobody sleeps.

**DBProxy.** For the answers, `AskInv` knows that numbers of connections are given once,
so that one that is gone never returns, and that a request which is in no queue, with no
worker and in no list of answers is answered, silent, or was made on a connection that is
gone (`Unfinished`, `Answered`).

That no handler forgets a connection is a statement about the paths of nine programs of
up to 40 steps. It is proved by labelling: `Fits` says what it takes for a function from
the steps to the sets of slots (a variable and the pool of the connection in it) to be
"what is held there": a `get` adds its slot, of a pool that comes after those in use, or
jumps to a step with the same label; a `rel` removes one; a `branch` joins equal labels; an
answer, and a jump out of the handler, need the empty one. A part of a handler
`Keeps` a label if it has a labelling that begins and ends with it, there is one lemma for
each operator handlers are built from (`HoldKeeps`, `NeedsKeeps`, ...), and each handler is
put together from these as it is in the code. `LandsOnSlots` extends it to what the data
decide: `Landings`, a recursive function, satisfies its equation (a solution is built from
the last step on, by the least counterexample, `LandingsSolve`) and lands on steps with
the same label. `HeldInv` says that a worker holds nothing but what the variables of its
label name, and needs no assumption about the kinds of requests.

The converse, that it holds *all* of these, each in a variable of its own (`OwnInv`), is
what the rule of the pools needs, and is false for the handler that adds two members: it
gives back what it gave back before. For the others every release is a `Release` of
`PoolSpec` (`RelIsRelease`), the steps of the proxy are steps of the pools
(`StepIsPoolStep`), and what was proved of the pools holds of the proxy.
`db_proxy_shared` shows what the handler left out does.

`OrderInv` adds that the connection in each variable is of the pool its slot names, and that
a worker waits at a `get` of the pool it waits for; with the labels this is `WaitsInOrder`.
`SomeoneRuns` joins it with what is known of the pools: if nobody runs, no sleeper of a
pool is woken, so none of its connections is free (`NoMissedSignal`), so each is with a
worker (`OneOwner`), which sleeps for a later pool (`AllAsleep`). There is none after
group_member, so nobody sleeps there, nor, one by one, at slave and at unread; what is left
is the master pool, all of it with workers that want one more of it.

**GroupStore.** `GroupInv` joins `Base` (types, which calls each kind of handler makes,
one creation and one `getGroupInfo` at a time, nothing there before the group is)
with: bounds between what a worker has read and the
counters (no `seen` is ahead of `total`, no id ahead of `lastId`); who owns which id
(a message id is in the table, or with one worker, and never both, unless it is
`BadId`); the total against the stored messages and the workers between the two; for
each user no two requests overlapped about, which stage of its handler accounts for a
difference between table and hash; how far the member list a client holds may
differ from the hash while a worker has yet to raise the version; and who accounts for a
stored message (an answer given or to come) and for a lost one (`AnswersInv`: the
acknowledged messages that were not stored and those about to be acknowledged are
together no more than the failed calls, as only a failed call makes one). Each has its own
lemma for each group of steps, under the assumption of the others.

**MessageStore.** `Base` joins the types with which calls each kind of request makes
(`Route`), and with the fact that the rows a worker is about to use, and those messages
point to, are those of their users (`Rows`, `MessageRows`); it survives any step as no
row is deleted or changes its users. Each property then needs to know what the workers
between two calls know. `SessionInv` and `RelationInv`: one that found no row may still
add one, and of two that are about to, each is in `doubled`. `SessionsFew` and `RelationsFew`: once
there is a row, the rows of a pair and the workers about to add one are together no more
than workers and failed calls, since a look that succeeds finds a row (`Few`). `IdInv`: the ids in
messages and in workers' hands are no greater than the relation's counter and
different, and none exist before the reset. `UnreadInv`: a counter that a worker is
about to increase has its session shown, and a session is hidden with unread messages
only while the worker that hid it is about to clear them.

Only model-checked: liveness (`LoginResolved`, `EmptySlotIsRetried`, `PeerIsClosed`,
`RequestsEnd`), which the prover does not reach (no `ENABLED`, no fairness); of
`RequestsEnd`, `SomeoneRuns` is the part that is safety. Every other property of a run
that passes has its theorem.

## 5. Not modelled

- `db_proxy_server`: the data of users, departments, files and audio, and of sessions with
  groups; the login check and its limit of attempts; the synchronisation of groups
  (`SyncCenter`). Of the request pipeline, heartbeats,
  shutdown and malformed packets.
- `msg_server`: message relay, acknowledgement lists and group chat, which pass packets
  on and keep next to no state.
- `push_server`, `http_msg_server`, `msfs`: nearly stateless front ends and I/O.
- `base`: connections appear as their callbacks. Two hazards lie below that level
  (packets dispatched after a close, events of a reused descriptor).
- Clients, protocol definitions, vendored libraries.
- Assumed of the environment: the wall clock behind `get_tick_count` does not step
  back; a msg_server has one connection at a time to each route and login server;
  one answer per request from the database.

## 6. Plan

Order of the remaining work, most important first:

1. `FileDelivery`: an abstract specification of a transfer (blocks arrive in order and
   each once, or the transfer fails) that `FileTransfer` implements.
2. `GroupSync`: the thread that turns group activity into sessions, with a crash and a
   restart, and changes between its query and its clock.
3. `EventDispatch` with descriptor reuse, and packets dispatched after a close; the relay
   of messages with its acknowledgement lists.
