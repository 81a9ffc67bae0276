---------------------------- MODULE MessageStore ----------------------------
(***************************************************************************)
(* Messages between users in the database proxy: the relation two users    *)
(* share, the session each has with the other, and the messages, in MySQL; *)
(* the message ids and the unread counters in Redis.  Worker threads run   *)
(* the handlers of MessageContent, RecentSession and MessageCounter at the *)
(* same time.                                                              *)
(*                                                                         *)
(* Each action is one query or command, the unit the two servers make      *)
(* atomic; "ok" says whether it succeeded.  Master and slave are one       *)
(* database, as in dbproxyserver.conf; neither table has a unique key but  *)
(* its id.  Times are left out, and with them updateSession, which only    *)
(* sets one; so is the status of relations, which nothing but              *)
(* removeRelation takes from 0, and nobody calls that.                     *)
(***************************************************************************)
EXTENDS Naturals, Sequences, FiniteSets

CONSTANTS
    Worker,     \* worker threads
    User,
    NoUser,
    BadId,      \* the id that incrBy's -1 becomes, 2^32 - 1
    MaxRequest, \* bound: requests made
    MaxFault    \* bound: queries and commands that fail

ASSUME WorkerAssumption == IsFiniteSet(Worker)
ASSUME UserAssumption == NoUser \notin User
ASSUME IdAssumption == BadId \in Nat \ {0}
ASSUME BoundAssumption == MaxRequest \in Nat /\ MaxFault \in Nat

VARIABLES
    rels,       \* IMRelationShip: the users of each row; its id is its place
    ses,        \* IMRecentSession: whose session with whom, and status = 0
    msgs,       \* IMMessage: [rel, id, from, to] in the order they were stored
    lastId,     \* Redis msg_id_<relation>
    unread,     \* Redis unread_<user>, field <peer>
    work,       \* the request and the next call of each worker
    asked,      \* requests made
    faults,     \* calls that failed
    doubled,    \* history: the relations and sessions whose rows were looked for
                \* by two workers at once that would add one, or in vain
    early,      \* history: relations an id was taken from before it was reset
    missed      \* history: sessions removed with a message for them on its way

mysql == <<rels, ses, msgs>>
redis == <<lastId, unread>>
hist  == <<doubled, early, missed>>
vars  == <<mysql, redis, work, asked, faults, hist>>

\* INVALID_VALUE
None == 0

Idle == [op |-> "none", from |-> NoUser, to |-> NoUser, pc |-> "start", side |-> "own",
         found |-> None, session |-> None, rel |-> None, id |-> None]

Busy(w)  == work[w].op # "none"
At(w, p) == work[w].pc = p
Go(w, p) == work' = [work EXCEPT ![w].pc = p]
Done(w)  == work' = [work EXCEPT ![w] = Idle]

\* A query or command that succeeds, or not.
Call(ok) == IF ok THEN UNCHANGED faults ELSE faults < MaxFault /\ faults' = faults + 1

\* Of several rows the code keeps the one that happens to come last (or first);
\* without rows, or without an answer, None.
Pick(ok, rows) == IF ok /\ rows # {} THEN rows ELSE {None}

\* Mutant: smallId and bigId are the sender and the receiver.
KeyAsSent(u, v) == <<u, v>>

\* smallId and bigId: who of the two sends makes no difference.
Key(u, v) == {u, v}

Relations(u, v) == {r \in DOMAIN rels : rels[r] = Key(u, v)}
Sessions(o)     == {s \in DOMAIN ses : ses[s].of = o}
Shown(o)        == {s \in Sessions(o) : ses[s].on}

\* The session a worker is busy with, as <<whose, with whom>>: the sender's or
\* the receiver's.
Of(w) == IF work[w].side = "own" THEN <<work[w].from, work[w].to>>
         ELSE <<work[w].to, work[w].from>>

Init ==
    /\ rels = <<>> /\ ses = <<>> /\ msgs = <<>>
    /\ lastId = <<>> /\ unread = [o \in User \X User |-> 0]
    /\ work = [w \in Worker |-> Idle]
    /\ asked = 0 /\ faults = 0
    /\ doubled = [rels |-> {}, ses |-> {}] /\ early = {} /\ missed = {}

-----------------------------------------------------------------------------
\* A worker begins with a request; a message to oneself is only logged.
Request(w, op, u, v) ==
    /\ ~Busy(w) /\ asked < MaxRequest /\ u # v
    /\ asked' = asked + 1
    /\ work' = [work EXCEPT ![w] = [Idle EXCEPT !.op = op, !.from = u, !.to = v,
                                                !.pc = IF op = "ack" THEN "clear" ELSE "find"]]
    /\ UNCHANGED <<mysql, redis, faults, hist>>

(***************************************************************************)
(* Sessions, of the sender and then of the receiver.                       *)
(***************************************************************************)
\* Where sendMessage goes on with a session: the receiver's, or the relation.
NextSide(w, s) ==
    IF work[w].side = "own"
    THEN work' = [work EXCEPT ![w].side = "peer", ![w].pc = "find",
                              ![w].found = None, ![w].session = s]
    ELSE work' = [work EXCEPT ![w].pc = "rel", ![w].found = None, ![w].session = s]

\* Mutant: a removed session is found as well.
FoundRemoved(w) == Sessions(Of(w))

\* getSessionId without and with the sessions that were removed.
Found(w) == Shown(Of(w))

\* Mutant: addSession does not look for removed sessions.
KnownShown(w) == Shown(Of(w))

Known(w) == Sessions(Of(w))

\* The receiver's session has a variable of its own, which only updateSession
\* looks at.
FindSession(w, ok) ==
    /\ At(w, "find") /\ work[w].op = "send" /\ Call(ok)
    /\ \E s \in Pick(ok, Found(w)) :
        IF s = None THEN Go(w, "known")
        ELSE NextSide(w, IF work[w].side = "own" THEN s ELSE work[w].session)
    /\ UNCHANGED <<mysql, redis, asked, hist>>

\* addSession looks again.
KnowSession(w, ok) ==
    /\ At(w, "known") /\ Call(ok)
    /\ \E s \in Pick(ok, Known(w)) :
        work' = [work EXCEPT ![w].pc = "addSession", ![w].found = s]
    /\ doubled' = IF ~ok \/ \E v \in Worker \ {w} : At(v, "addSession") /\ Of(v) = Of(w)
                  THEN [doubled EXCEPT !.ses = @ \cup {Of(w)}] ELSE doubled
    /\ UNCHANGED <<mysql, redis, asked, early, missed>>

\* A session that is there is shown again, else one is inserted.  When there is
\* no connection the one that is there is returned all the same.  The result
\* takes the place of the sender's session, whoever's it is.
AddSession(w, ok) ==
    LET s == work[w].found
    IN  /\ At(w, "addSession") /\ Call(ok)
        /\ IF ~ok THEN UNCHANGED ses /\ \E r \in {s, None} : NextSide(w, r)
           ELSE IF s # None THEN ses' = [ses EXCEPT ![s].on = TRUE] /\ NextSide(w, s)
           ELSE ses' = Append(ses, [of |-> Of(w), on |-> TRUE]) /\ NextSide(w, Len(ses) + 1)
        /\ UNCHANGED <<rels, msgs, redis, asked, hist>>

(***************************************************************************)
(* deleteRecentSession                                                     *)
(***************************************************************************)
FindRemoved(w, ok) ==
    /\ At(w, "find") /\ work[w].op = "remove" /\ Call(ok)
    /\ \E s \in Pick(ok, Found(w)) :
        IF s = None THEN Done(w)
        ELSE work' = [work EXCEPT ![w].pc = "hide", ![w].found = s]
    /\ UNCHANGED <<mysql, redis, asked, hist>>

\* A message for the user of session o was past its look at that session.
OnItsWay(v, o) ==
    /\ work[v].op = "send" /\ <<work[v].to, work[v].from>> = o
    /\ work[v].pc \notin {"find", "known", "addSession"}

RemoveSession(w, ok) ==
    /\ At(w, "hide") /\ Call(ok)
    /\ ses' = IF ok THEN [ses EXCEPT ![work[w].found].on = FALSE] ELSE ses
    /\ IF ok THEN Go(w, "clear") ELSE Done(w)
    /\ missed' = IF ok /\ \E v \in Worker : OnItsWay(v, Of(w))
                 THEN missed \cup {Of(w)} ELSE missed
    /\ UNCHANGED <<rels, msgs, redis, asked, doubled, early>>

\* clearUserCounter, also by itself for clearUnreadMsgCounter.
ClearUserCounter(w, ok) ==
    /\ At(w, "clear") /\ Call(ok)
    /\ unread' = IF ok THEN [unread EXCEPT ![Of(w)] = 0] ELSE unread
    /\ Done(w)
    /\ UNCHANGED <<mysql, lastId, asked, hist>>

(***************************************************************************)
(* The relation: getRelationId, addRelation                                *)
(***************************************************************************)
\* Without a session there is no message.
Proceed(w, r) ==
    IF work[w].session = None THEN Done(w)
    ELSE work' = [work EXCEPT ![w].pc = "id", ![w].found = None, ![w].rel = r]

GetRelationId(w, ok) ==
    /\ At(w, "rel") /\ Call(ok)
    /\ \/ \E r \in Pick(ok, Relations(work[w].from, work[w].to)) :
            IF r = None THEN Go(w, "look") ELSE Proceed(w, r)
       \/ ~ok /\ Done(w)
    /\ UNCHANGED <<mysql, redis, asked, hist>>

Users(w) == {work[w].from, work[w].to}

\* addRelation looks again, on the master; a query that fails finds nothing.
LookOnMaster(w, ok) ==
    /\ At(w, "look") /\ Call(ok)
    /\ \/ \E r \in Pick(ok, Relations(work[w].from, work[w].to)) :
            work' = [work EXCEPT ![w].pc = "addRelation", ![w].found = r]
       \/ ~ok /\ Done(w)
    /\ doubled' = IF ~ok \/ \E v \in Worker \ {w} : At(v, "addRelation") /\ Users(v) = Users(w)
                  THEN [doubled EXCEPT !.rels = @ \cup {Users(w)}] ELSE doubled
    /\ UNCHANGED <<mysql, redis, asked, early, missed>>

\* Mutant: the ids of a relation that is there begin anew.
AfterUpdateReset(w, r) == work' = [work EXCEPT ![w].pc = "reset", ![w].rel = r]

AfterUpdate(w, r) == Proceed(w, r)

AddRelation(w, ok) ==
    LET r == work[w].found
    IN  /\ At(w, "addRelation") /\ Call(ok)
        /\ IF ~ok THEN UNCHANGED <<rels, lastId>> /\ Done(w)
           ELSE IF r # None THEN UNCHANGED <<rels, lastId>> /\ AfterUpdate(w, r)
           ELSE /\ rels' = Append(rels, Key(work[w].from, work[w].to))
                /\ lastId' = Append(lastId, 0)
                /\ work' = [work EXCEPT ![w].pc = "reset", ![w].rel = Len(rels) + 1]
        /\ UNCHANGED <<ses, msgs, unread, asked, hist>>

ResetMsgId(w, ok) ==
    /\ At(w, "reset") /\ Call(ok)
    /\ lastId' = IF ok THEN [lastId EXCEPT ![work[w].rel] = 0] ELSE lastId
    /\ Proceed(w, work[w].rel)
    /\ UNCHANGED <<mysql, unread, asked, hist>>

(***************************************************************************)
(* The message                                                             *)
(***************************************************************************)
GetMsgId(w, ok) ==
    LET r == work[w].rel
    IN  /\ At(w, "id") /\ Call(ok)
        /\ lastId' = IF ok THEN [lastId EXCEPT ![r] = @ + 1] ELSE lastId
        /\ \/ ok /\ work' = [work EXCEPT ![w].pc = "insert", ![w].id = lastId[r] + 1]
           \/ ~ok /\ work' = [work EXCEPT ![w].pc = "insert", ![w].id = BadId]
           \/ ~ok /\ Done(w)
        /\ early' = IF \E v \in Worker : At(v, "reset") /\ work[v].rel = r
                    THEN early \cup {r} ELSE early
        /\ UNCHANGED <<mysql, unread, asked, doubled, missed>>

InsertMessage(w, ok) ==
    /\ At(w, "insert") /\ Call(ok)
    /\ msgs' = IF ok THEN Append(msgs, [rel |-> work[w].rel, id |-> work[w].id,
                                         from |-> work[w].from, to |-> work[w].to])
               ELSE msgs
    /\ IF ok THEN Go(w, "inc") ELSE Done(w)
    /\ UNCHANGED <<rels, ses, redis, asked, hist>>

IncMsgCount(w, ok) ==
    /\ At(w, "inc") /\ Call(ok)
    /\ unread' = IF ok THEN [unread EXCEPT ![<<work[w].to, work[w].from>>] = @ + 1] ELSE unread
    /\ Done(w)
    /\ UNCHANGED <<mysql, lastId, asked, hist>>

SessionStep(w, ok) == FindSession(w, ok) \/ KnowSession(w, ok) \/ AddSession(w, ok)
RemoveStep(w, ok) == FindRemoved(w, ok) \/ RemoveSession(w, ok) \/ ClearUserCounter(w, ok)
RelationStep(w, ok) ==
    GetRelationId(w, ok) \/ LookOnMaster(w, ok) \/ AddRelation(w, ok) \/ ResetMsgId(w, ok)
MessageStep(w, ok) == GetMsgId(w, ok) \/ InsertMessage(w, ok) \/ IncMsgCount(w, ok)

Ops == {"send", "remove", "ack"}

Next ==
    \E w \in Worker :
        \/ \E op \in Ops, u, v \in User : Request(w, op, u, v)
        \/ \E ok \in BOOLEAN :
            SessionStep(w, ok) \/ RemoveStep(w, ok) \/ RelationStep(w, ok) \/ MessageStep(w, ok)

Spec == Init /\ [][Next]_vars

-----------------------------------------------------------------------------
Pcs == {"start", "find", "known", "addSession", "hide", "clear", "rel", "look",
        "addRelation", "reset", "id", "insert", "inc"}

WorkType ==
    [op : Ops \cup {"none"}, from : User \cup {NoUser}, to : User \cup {NoUser}, pc : Pcs,
     side : {"own", "peer"}, found : Nat, session : Nat, rel : Nat, id : Nat]

DataOK ==
    /\ rels \in Seq(SUBSET User)
    /\ ses \in Seq([of : User \X User, on : BOOLEAN])
    /\ msgs \in Seq([rel : Nat, id : Nat, from : User, to : User])
    /\ lastId \in Seq(Nat) /\ Len(lastId) = Len(rels)
    /\ unread \in [User \X User -> Nat]
    /\ asked \in 0..MaxRequest /\ faults \in 0..MaxFault
    /\ doubled \in [rels : SUBSET SUBSET User, ses : SUBSET (User \X User)]
    /\ early \subseteq Nat /\ missed \subseteq User \X User

\* Every variable keeps its type.
TypeOK == DataOK /\ work \in [Worker -> WorkType]

\* Rows of one kind for the same users: no more than workers can have inserted
\* at once, and one for each call that failed.
AreFew(rows) == Cardinality(rows) <= Cardinality(Worker) + faults

\* No message is lost to its readers: getRelationId, which everything that reads
\* messages begins with, leads both users to the relation it was stored under.
\* Two first messages at the same moment, or a look on the master that fails,
\* make two relations, and the messages of one of them are not found again; but
\* that ends with the workers that looked before the first one was there, however
\* many messages follow.
StoredIsFound ==
    /\ \A i \in DOMAIN msgs :
        LET m == msgs[i]
        IN  {m.from, m.to} \notin doubled.rels =>
                Relations(m.from, m.to) = {m.rel} /\ Relations(m.to, m.from) = {m.rel}
    /\ \A u, v \in User : AreFew(Relations(u, v))

\* A message is found by its id, which is unique among the messages of two users.
\* It is not if a worker took an id from a relation another worker had just
\* inserted and was about to reset; and the id made of incrBy's -1 may come twice.
MessageIdsUnique ==
    \A i, j \in DOMAIN msgs :
        msgs[i].rel = msgs[j].rel /\ msgs[i].id = msgs[j].id =>
            i = j \/ msgs[i].id = BadId \/ msgs[i].rel \in early

\* A user has one session with another, whoever of them sent the first message
\* and however often it was removed, so that removing it removes it.  Workers that
\* add it at once, or looks that fail, make more, but no more than they are.
OneSession ==
    /\ \A s, t \in DOMAIN ses : ses[s].of = ses[t].of => s = t \/ ses[s].of \in doubled.ses
    /\ \A o \in User \X User : AreFew(Sessions(o))

\* Unread messages can be reached: their session is among the recent ones, unless
\* it is just being removed, or was while such a message was on its way: the
\* sender's worker had seen the session, and does not look again.
UnreadIsListed ==
    faults = 0 =>
        \A o \in User \X User :
            \/ unread[o] = 0 \/ Shown(o) # {} \/ o \in missed
            \/ \E w \in Worker : work[w].op = "remove" /\ Of(w) = o
=============================================================================
