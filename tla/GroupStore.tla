----------------------------- MODULE GroupStore -----------------------------
(***************************************************************************)
(* One group in the database proxy: its members, version, messages and     *)
(* unread counters, kept partly in MySQL and partly in Redis, and changed  *)
(* by worker threads that run the handlers of GroupAction, MessageContent  *)
(* and MessageCounter at the same time.                                    *)
(*                                                                         *)
(* Each action is one query or command, the unit the two servers make      *)
(* atomic; "ok" says whether it succeeded.  Master and slave are one       *)
(* database, as in dbproxyserver.conf.  The sessions of the users and the  *)
(* pools the connections come from are left out (DBProxy has the pools).   *)
(***************************************************************************)
EXTENDS Naturals, Sequences, FiniteSets

CONSTANTS
    Worker,     \* worker threads
    User,
    Founder,    \* the members a group is created with
    NoUser,
    BadId,      \* the id that incrBy's -1 becomes, 2^32 - 1
    MaxRequest, \* bound: requests made
    MaxFault    \* bound: queries and commands that fail

ASSUME WorkerAssumption == IsFiniteSet(Worker)
ASSUME FounderAssumption == Founder \subseteq User /\ Founder # {} /\ NoUser \notin User
ASSUME IdAssumption == BadId \in Nat \ {0}
ASSUME BoundAssumption == MaxRequest \in Nat /\ MaxFault \in Nat

VARIABLES
    rows,       \* IMGroupMember: rows of each user, and how many have status 0
    version,    \* IMGroup.version; 0 before the group is created
    msgs,       \* IMGroupMessage: ids in the order they were stored
    member,     \* Redis group_member_<id>
    lastId,     \* Redis group_msg_id_<id>
    total,      \* Redis <id>_im_group_msg, field count
    cnt,        \* Redis <user>_<id>_im_user_group, field count
    cache,      \* what a client last got of getGroupInfo
    answered,   \* the messages whose id went back to the sender
    work,       \* the request and the next call of each worker
    asked,      \* requests made
    faults,     \* calls that failed
    clashed,    \* history: users two requests were in work for at the same time
    left        \* history: users that were removed at some time

mysql == <<rows, version, msgs>>
redis == <<member, lastId, total, cnt>>
out   == <<cache, answered>>
hist  == <<asked, clashed, left>>
vars  == <<mysql, redis, out, work, faults, hist>>

\* INVALID_VALUE: there was no connection to fetch an id through.
NoId == 0

Idle == [op |-> "none", user |-> NoUser, pc |-> "start", todo |-> {}, has |-> {},
         seen |-> 0, id |-> NoId, again |-> FALSE]

Busy(w)  == work[w].op # "none"
At(w, p) == work[w].pc = p
Go(w, p) == work' = [work EXCEPT ![w].pc = p]
Done(w)  == work' = [work EXCEPT ![w] = Idle]

\* The users whose data a request is about.
About(w) == IF work[w].op = "create" THEN User ELSE {work[w].user}

\* A query or command that succeeds, or not.
Call(ok) == IF ok THEN UNCHANGED faults ELSE faults < MaxFault /\ faults' = faults + 1

Init ==
    /\ rows = [u \in User |-> [n |-> 0, in |-> 0]]
    /\ version = 0 /\ msgs = <<>>
    /\ member = {} /\ lastId = 0 /\ total = 0 /\ cnt = [u \in User |-> 0]
    /\ cache = [version |-> 0, members |-> {}, early |-> FALSE]
    /\ answered = {}
    /\ work = [w \in Worker |-> Idle]
    /\ asked = 0
    /\ faults = 0 /\ clashed = {} /\ left = {}

-----------------------------------------------------------------------------
(***************************************************************************)
(* A worker begins with a request.                                         *)
(***************************************************************************)
Start(w, op, u, pc, users) ==
    /\ ~Busy(w) /\ asked < MaxRequest
    /\ asked' = asked + 1
    /\ work' = [work EXCEPT ![w] =
                    [Idle EXCEPT !.op = op, !.user = u, !.pc = pc, !.todo = users]]
    /\ clashed' = clashed \cup
                    {x \in users : \E v \in Worker \ {w} : Busy(v) /\ x \in About(v)}
    /\ UNCHANGED left

\* isValidateGroupId: Redis has no empty hashes.
IsValidate == member # {}

InsertNewGroup(w) ==
    /\ version = 0 /\ version' = 1
    /\ Start(w, "create", NoUser, "reset", Founder)
    /\ UNCHANGED <<rows, msgs, redis, out, faults>>

\* The kinds of requests about a group that is there: the first call after
\* isValidateGroupId, if there is one.
First == [add |-> "repeat", remove |-> "rowOut", send |-> "isIn", info |-> "ver"]

Request(w, op, u) ==
    /\ IsValidate
    /\ op = "info" => \A v \in Worker : work[v].op # "info"
    /\ Start(w, op, u, First[op], {u})
    /\ UNCHANGED <<mysql, redis, out, faults>>

\* clearUnreadMsgCounter does not ask whether there is such a group.
ReadAck(w, u) ==
    /\ Start(w, "ack", u, "read", {u})
    /\ UNCHANGED <<mysql, redis, out, faults>>

(***************************************************************************)
(* createGroup                                                             *)
(***************************************************************************)
ResetMsgId(w, ok) ==
    /\ At(w, "reset") /\ Call(ok)
    /\ lastId' = IF ok THEN 0 ELSE lastId
    /\ Go(w, "clearRows")
    /\ UNCHANGED <<mysql, member, total, cnt, out, hist>>

ClearRows(w, ok) ==
    /\ At(w, "clearRows") /\ Call(ok)
    /\ rows' = IF ok THEN [u \in User |-> [n |-> 0, in |-> 0]] ELSE rows
    /\ Go(w, "clearHash")
    /\ UNCHANGED <<version, msgs, redis, out, hist>>

ClearHash(w, ok) ==
    /\ At(w, "clearHash") /\ Call(ok)
    /\ member' = IF ok THEN {} ELSE member
    /\ Go(w, "select")
    /\ UNCHANGED <<mysql, lastId, total, cnt, out, hist>>

(***************************************************************************)
(* modifyMember                                                            *)
(***************************************************************************)
\* removeRepeatUser; insertNewMember of nobody returns false, and then there is
\* no new version and no counter to clear.
RemoveRepeatUser(w, ok) ==
    /\ At(w, "repeat") /\ Call(ok)
    /\ IF ok /\ work[w].user \in member THEN Done(w) ELSE Go(w, "select")
    /\ UNCHANGED <<mysql, redis, out, hist>>

\* insertNewMember: who has a row already?  Without a connection it returns
\* false, with a query that fails it finds nobody.
SelectHas(w, ok) ==
    /\ At(w, "select") /\ Call(ok)
    /\ LET found == {u \in work[w].todo : rows[u].n > 0}
       IN  \/ work' = [work EXCEPT ![w].pc = "write", ![w].has = IF ok THEN found ELSE {}]
           \/ ~ok /\ Done(w)
    /\ UNCHANGED <<mysql, redis, out, hist>>

\* Mutant: who left is not taken back.
RowsWithNewOnly(users, has) ==
    [u \in User |->
        IF u \notin users \ has THEN rows[u]
        ELSE [n |-> rows[u].n + 1, in |-> rows[u].in + 1]]

\* All rows of who has one get status 0, the others get a row.
RowsWith(users, has) ==
    [u \in User |->
        IF u \notin users THEN rows[u]
        ELSE IF u \in has THEN [n |-> rows[u].n, in |-> rows[u].n]
        ELSE [n |-> rows[u].n + 1, in |-> rows[u].in + 1]]

WriteRows(w, ok) ==
    /\ At(w, "write") /\ Call(ok)
    /\ \/ rows' = (IF ok THEN RowsWith(work[w].todo, work[w].has) ELSE rows) /\ Go(w, "hset")
       \/ ~ok /\ UNCHANGED rows /\ Done(w)
    /\ UNCHANGED <<version, msgs, redis, out, hist>>

HSet(w, ok) ==
    /\ At(w, "hset") /\ Call(ok)
    /\ \E u \in work[w].todo :
        /\ member' = IF ok THEN member \cup {u} ELSE member
        /\ IF work[w].todo # {u} THEN work' = [work EXCEPT ![w].todo = @ \ {u}]
           ELSE IF work[w].op = "create" THEN Done(w) ELSE Go(w, "version")
    /\ UNCHANGED <<mysql, lastId, total, cnt, out, hist>>

\* removeMember
RowOut(w, ok) ==
    /\ At(w, "rowOut") /\ Call(ok)
    /\ \/ /\ rows' = IF ok THEN [rows EXCEPT ![work[w].user].in = 0] ELSE rows
          /\ Go(w, "hdel")
       \/ ~ok /\ UNCHANGED rows /\ Done(w)
    /\ left' = left \cup {work[w].user}
    /\ UNCHANGED <<version, msgs, redis, out, asked, clashed>>

\* Mutant: only who joins makes a new version.
HDelUnversioned(w, ok) ==
    /\ At(w, "hdel") /\ Call(ok)
    /\ member' = IF ok THEN member \ {work[w].user} ELSE member
    /\ Go(w, "read")
    /\ UNCHANGED <<mysql, lastId, total, cnt, out, hist>>

HDel(w, ok) ==
    /\ At(w, "hdel") /\ Call(ok)
    /\ member' = IF ok THEN member \ {work[w].user} ELSE member
    /\ Go(w, "version")
    /\ UNCHANGED <<mysql, lastId, total, cnt, out, hist>>

IncGroupVersion(w, ok) ==
    /\ At(w, "version") /\ Call(ok)
    /\ version' = IF ok THEN version + 1 ELSE version
    /\ Go(w, "read")
    /\ UNCHANGED <<rows, msgs, redis, out, hist>>

(***************************************************************************)
(* sendMessage                                                             *)
(***************************************************************************)
IsInGroup(w, ok) ==
    /\ At(w, "isIn") /\ Call(ok)
    /\ IF ok /\ work[w].user \in member THEN Go(w, "id") ELSE Done(w)
    /\ UNCHANGED <<mysql, redis, out, hist>>

\* Mutant: the next id is that of the messages stored so far.
NextIdStored == Len(msgs) + 1

NextId == lastId + 1

\* Mutant: the id goes back to the sender as soon as it is there.
GetMsgIdAnswering(w, ok) ==
    /\ At(w, "id") /\ Call(ok) /\ ok
    /\ lastId' = NextId
    /\ work' = [work EXCEPT ![w].id = NextId, ![w].pc = "isInAgain"]
    /\ answered' = answered \cup {[id |-> NextId, from |-> work[w].user]}
    /\ UNCHANGED <<mysql, member, total, cnt, cache, hist>>

GetMsgId(w, ok) ==
    /\ At(w, "id") /\ Call(ok)
    /\ lastId' = IF ok THEN NextId ELSE lastId
    /\ \E id \in IF ok THEN {NextId} ELSE {NoId, BadId} :
        work' = [work EXCEPT ![w].id = id,
                             ![w].pc = IF id = NoId THEN "answer" ELSE "isInAgain"]
    /\ UNCHANGED <<mysql, member, total, cnt, out, hist>>

IsInGroupStill(w, ok) ==
    /\ At(w, "isInAgain") /\ Call(ok)
    /\ Go(w, IF ok /\ work[w].user \in member THEN "insert" ELSE "answer")
    /\ UNCHANGED <<mysql, redis, out, hist>>

\* Mutant: a message that was not stored is counted as well.
AfterInsertAlways(ok) == "inc"

AfterInsert(ok) == IF ok THEN "inc" ELSE "answer"

InsertMessage(w, ok) ==
    /\ At(w, "insert") /\ Call(ok)
    /\ msgs' = IF ok THEN Append(msgs, work[w].id) ELSE msgs
    /\ Go(w, AfterInsert(ok))
    /\ UNCHANGED <<rows, version, redis, out, hist>>

\* incMessageCount; the sender's counter is copied then, and once more by
\* clearMessageCount.
IncMessageCount(w, ok) ==
    /\ At(w, "inc") /\ Call(ok)
    /\ total' = IF ok THEN total + 1 ELSE total
    /\ work' = [work EXCEPT ![w].pc = "read", ![w].again = TRUE]
    /\ UNCHANGED <<mysql, member, lastId, cnt, out, hist>>

\* The id goes back to the sender, and to the members, unless there is none:
\* "write db failed", as HandleGroupMessage of the msg_server puts it.
AddResponsePdu(w) ==
    /\ At(w, "answer")
    /\ answered' = IF work[w].id = NoId THEN answered
                   ELSE answered \cup {[id |-> work[w].id, from |-> work[w].user]}
    /\ Done(w)
    /\ UNCHANGED <<mysql, redis, cache, faults, hist>>

(***************************************************************************)
(* Unread counters: clearUserCounter, and the copies of sendMessage.       *)
(***************************************************************************)
\* Where a handler goes on when the counter is copied or could not be.
AfterCopy(w) ==
    IF work[w].again THEN work' = [work EXCEPT ![w].pc = "read", ![w].again = FALSE]
    ELSE IF work[w].op = "send" THEN Go(w, "answer") ELSE Done(w)

ReadTotal(w, ok) ==
    /\ At(w, "read") /\ Call(ok)
    /\ IF ok THEN work' = [work EXCEPT ![w].pc = "set", ![w].seen = total] ELSE AfterCopy(w)
    /\ UNCHANGED <<mysql, redis, out, hist>>

\* Mutant: a group's counter is cleared as the counter of a single user is.
CopyOrZero(w) == IF work[w].op = "ack" THEN 0 ELSE work[w].seen

\* Mutant: the counter of the user is incremented, not copied.
CopyIncremented(w) == cnt[work[w].user] + 1

Copy(w) == work[w].seen

SetCount(w, ok) ==
    /\ At(w, "set") /\ Call(ok)
    /\ cnt' = IF ok THEN [cnt EXCEPT ![work[w].user] = Copy(w)] ELSE cnt
    /\ AfterCopy(w)
    /\ UNCHANGED <<mysql, member, lastId, total, out, hist>>

(***************************************************************************)
(* getGroupInfo                                                            *)
(***************************************************************************)
\* Only a group with a higher version than the client's is filled in.
GetGroupVersion(w, ok) ==
    /\ At(w, "ver") /\ Call(ok)
    /\ IF ok /\ cache.version < version
       THEN work' = [work EXCEPT ![w].pc = "members", ![w].seen = version] ELSE Done(w)
    /\ UNCHANGED <<mysql, redis, out, hist>>

Creating == \E w \in Worker : work[w].op = "create"

\* fillGroupMember; when the hash cannot be read the list is empty.
FillGroupMember(w, ok) ==
    /\ At(w, "members") /\ Call(ok)
    /\ cache' = [version |-> work[w].seen, members |-> IF ok THEN member ELSE {},
                 early |-> Creating]
    /\ Done(w)
    /\ UNCHANGED <<mysql, redis, answered, hist>>

CreateStep(w, ok) == ResetMsgId(w, ok) \/ ClearRows(w, ok) \/ ClearHash(w, ok)
InsertNewMember(w, ok) == SelectHas(w, ok) \/ WriteRows(w, ok) \/ HSet(w, ok)
RemoveMember(w, ok) == RowOut(w, ok) \/ HDel(w, ok)
SendStep(w, ok) ==
    \/ IsInGroup(w, ok) \/ GetMsgId(w, ok) \/ IsInGroupStill(w, ok)
    \/ InsertMessage(w, ok) \/ IncMessageCount(w, ok)
CounterStep(w, ok) == ReadTotal(w, ok) \/ SetCount(w, ok)
InfoStep(w, ok) == GetGroupVersion(w, ok) \/ FillGroupMember(w, ok)

Next ==
    \/ \E w \in Worker :
        \/ InsertNewGroup(w) \/ AddResponsePdu(w)
        \/ \E u \in User : ReadAck(w, u) \/ \E op \in DOMAIN First : Request(w, op, u)
        \/ \E ok \in BOOLEAN :
            \/ CreateStep(w, ok) \/ RemoveRepeatUser(w, ok) \/ InsertNewMember(w, ok)
            \/ RemoveMember(w, ok) \/ IncGroupVersion(w, ok) \/ SendStep(w, ok)
            \/ CounterStep(w, ok) \/ InfoStep(w, ok)

Spec == Init /\ [][Next]_vars

-----------------------------------------------------------------------------
Ids == 0..lastId \cup {BadId}
Ops == {"none", "create", "ack"} \cup DOMAIN First

\* Every variable keeps its type; no user has more active rows than rows.
TypeOK ==
    /\ \A u \in User : rows[u].n \in Nat /\ rows[u].in \in 0..rows[u].n
    /\ version \in Nat /\ msgs \in Seq(Ids) /\ total \in Nat
    /\ member \subseteq User /\ cnt \in [User -> Nat]
    /\ cache.version \in 0..version /\ cache.members \subseteq User /\ cache.early \in BOOLEAN
    /\ answered \subseteq [id : Ids, from : User]
    /\ \A w \in Worker : work[w].op \in Ops /\ work[w].user \in User \cup {NoUser}
    /\ asked \in 0..MaxRequest /\ faults \in 0..MaxFault /\ clashed \subseteq User /\ left \subseteq User

\* No user has read more than the group ever had: getUnreadMsgCount subtracts
\* unsigned numbers, and where the difference would be negative it takes the
\* count of the group before (GroupMessageModel.cpp:356).  This survives calls
\* that fail and workers that overtake each other.
CountNeverAhead == \A u \in User : cnt[u] <= total

\* A message is found again by its id: no two stored messages have the same one,
\* though workers send at the same time, members leave between the two looks at
\* the group, and createGroup resets the counter.  Only the id made of incrBy's
\* -1 may come twice.
MessageIdsUnique ==
    \A i, j \in DOMAIN msgs : msgs[i] = msgs[j] => i = j \/ msgs[i] = BadId

Storing(w) == work[w].op = "send" /\ work[w].pc = "inc"

\* The total the unread counts are taken from is the number of messages stored:
\* never more, and no less when no worker is between the two and nothing failed.
TotalIsStored ==
    /\ total <= Len(msgs)
    /\ faults = 0 => total + Cardinality({w \in Worker : Storing(w)}) = Len(msgs)

\* The hash in Redis is the copy of the table that GroupModel.cpp:410 makes it
\* to be, with one row for each member ever: for users no two requests were in
\* work for at once (an addition and a removal that overlap can leave one in the
\* table and not in the hash, or the other way round), once nothing failed.
CopyIsExact ==
    \A u \in User \ clashed :
        faults = 0 /\ (\A w \in Worker : u \notin About(w)) =>
            /\ u \in member <=> rows[u].in > 0
            /\ rows[u].n <= 1

Changing(w) == work[w].op \in {"add", "remove"} /\ work[w].pc # "read" /\ work[w].pc # "set"

\* A client that holds the current version holds the current members, since a
\* change is made before the version is raised and the version is read before the
\* members.  It may miss some for good if it asked while the group was being
\* created: the version is there first, and is not raised afterwards.  All this as
\* long as no call failed: a failed read of the hash is cached as an empty group.
VersionCoversMembers ==
    faults = 0 /\ cache.version = version /\ version # 0 /\ ~cache.early
        /\ (\A w \in Worker : ~Changing(w))
        => cache.members = member

IsStored(id) == \E i \in DOMAIN msgs : msgs[i] = id

\* Past the insertion, or past the point where it was given up, an answer to come.
Holds(x) == x.op = "send" /\ x.pc \in {"inc", "read", "set", "answer"}

\* Acknowledged messages of users who never left that nobody will ever read.
Lost == {a \in answered : a.from \notin left /\ ~IsStored(a.id)}

\* What senders were told fits the table, whichever calls fail.  A message in the
\* table is answered, or a worker is still about to: no failure in counting it makes
\* its sender send it again.  And a call that fails costs at most one acknowledged
\* message (sendMessage's result is not looked at, so a failed insertion does cost
\* one), whatever is between the id, the second look at the group, the insertion and
\* the answer of the workers; a sender who left meanwhile may lose more.
AnswersFitTable ==
    /\ \A i \in DOMAIN msgs :
        \/ \E a \in answered : a.id = msgs[i]
        \/ \E w \in Worker : Holds(work[w]) /\ work[w].id = msgs[i]
    /\ Cardinality(Lost) <= faults

\* What a user has read stays read: the counter falls only if two requests of
\* that user overlapped, and an older copy of the total was written last.
ReadStaysRead ==
    [][\A u \in User : cnt'[u] < cnt[u] => u \in clashed]_vars
=============================================================================
