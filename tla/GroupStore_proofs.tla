-------------------------- MODULE GroupStore_proofs --------------------------
(***************************************************************************)
(* Proofs about GroupStore, for any finite number of workers, any users    *)
(* and founders, and any number of requests and of calls that fail.        *)
(***************************************************************************)
EXTENDS GroupStore, FiniteSetTheorems, TLAPS

-----------------------------------------------------------------------------
(***************************************************************************)
(* The base every other invariant rests on: types, where each kind of      *)
(* request may be, and the quiet time before a group has members.          *)
(***************************************************************************)
Pcs == {"start", "reset", "clearRows", "clearHash", "repeat", "select", "write", "hset",
        "rowOut", "hdel", "version", "isIn", "id", "isInAgain", "insert", "inc", "answer",
        "read", "set", "ver", "members"}

WorkType ==
    [op : Ops, user : User \cup {NoUser}, pc : Pcs, todo : SUBSET User, has : SUBSET User,
     seen : Nat, id : Nat, again : BOOLEAN]

RestTypes ==
    /\ rows \in [User -> [n : Nat, in : Nat]]
    /\ \A u \in User : rows[u].in <= rows[u].n
    /\ version \in Nat /\ lastId \in Nat /\ total \in Nat
    /\ member \subseteq User /\ cnt \in [User -> Nat]
    /\ cache \in [version : Nat, members : SUBSET User, early : BOOLEAN]
    /\ cache.version <= version
    /\ asked \in 0..MaxRequest /\ faults \in 0..MaxFault
    /\ clashed \subseteq User /\ left \subseteq User

Types == RestTypes /\ work \in [Worker -> WorkType]

\* Where a request of each kind may be.
Route(op, pc) ==
    \/ op = "none" /\ pc = "start"
    \/ /\ op = "create"
       /\ pc \in {"reset", "clearRows", "clearHash", "select", "write", "hset"}
    \/ op = "add" /\ pc \in {"repeat", "select", "write", "hset", "version", "read", "set"}
    \/ op = "remove" /\ pc \in {"rowOut", "hdel", "version", "read", "set"}
    \/ /\ op = "send"
       /\ pc \in {"isIn", "id", "isInAgain", "insert", "inc", "read", "set", "answer"}
    \/ op = "info" /\ pc \in {"ver", "members"}
    \/ op = "ack" /\ pc \in {"read", "set"}

\* Whom it is about.
Party(x) ==
    /\ x.op = "create" => x.todo \subseteq Founder
    /\ x.op = "add" => x.todo = {x.user}
    /\ x.op \in {"add", "remove", "send", "ack"} => x.user \in User

Place(x) == Route(x.op, x.pc) /\ Party(x)

\* Who is alone at what it does; who removes somebody said so.
Alone ==
    \A w \in Worker :
        /\ Place(work[w])
        /\ work[w].op = "create" => version # 0
        /\ work[w].pc = "members" => work[w].seen <= version
        /\ work[w].pc \in {"isInAgain", "insert"} => work[w].id # NoId
        /\ \A v \in Worker \ {w} :
            work[w].op \in {"create", "info"} => work[v].op # work[w].op

\* No group, or one that is being created and has no members yet.
Fresh ==
    \/ version = 0
    \/ \E w \in Worker : work[w].op = "create" /\ work[w].pc # "hset"

Empty ==
    /\ member = {} /\ msgs = <<>> /\ answered = {} /\ lastId = 0
    /\ \A u \in User : rows[u].n = 0 /\ rows[u].in = 0

Quiet ==
    /\ Empty
    /\ \A w \in Worker :
        /\ work[w].op \in {"none", "create", "ack"}
        /\ work[w].op = "create" => work[w].has = {}

Base == Types /\ Alone /\ (Fresh => Quiet)

-----------------------------------------------------------------------------
\* What First and Ops are, for the provers.
LEMMA FirstCalls ==
    /\ DOMAIN First = {"add", "remove", "send", "info"}
    /\ First["add"] = "repeat" /\ First["remove"] = "rowOut"
    /\ First["send"] = "isIn" /\ First["info"] = "ver"
BY DEF First

LEMMA OpsAre == Ops = {"none", "create", "ack", "add", "remove", "send", "info"}
BY FirstCalls DEF Ops

LEMMA InitBase == Init => Base
<1>. SUFFICES ASSUME Init PROVE Base
    OBVIOUS
<1>. USE DEF Init
<1>1. Types
    BY BoundAssumption, OpsAre DEF Types, RestTypes, WorkType, Idle, Pcs, NoId
<1>2. Alone
    BY DEF Alone, Place, Route, Party, Idle, NoId
<1>3. Fresh => Quiet
    BY DEF Quiet, Empty, Idle
<1>. QED BY <1>1, <1>2, <1>3 DEF Base

-----------------------------------------------------------------------------
(***************************************************************************)
(* A worker begins with a request, or takes a step of it.                  *)
(***************************************************************************)
\* Only worker w changes, and it stays with its request or ends it.
Moves(w) ==
    /\ work' = [work EXCEPT ![w] = work'[w]]
    /\ work'[w] \in WorkType
    /\ Place(work'[w])
    /\ work'[w].op \in {work[w].op, "none"}
    /\ work'[w].op = "create" /\ work'[w].pc # "hset" => work[w].pc # "hset"
    /\ work'[w].pc = "members" => work'[w].seen <= version'
    /\ work'[w].pc \in {"isInAgain", "insert"} => work'[w].id # NoId
    /\ version <= version'

\* A move within a request keeps the base.
LEMMA MoveKeeps ==
    ASSUME Base, NEW w \in Worker, Moves(w), RestTypes',
           Fresh /\ Fresh' /\ Quiet =>
                Empty' /\ (work'[w].op = "create" => work'[w].has = {})
    PROVE  Base'
<1>. USE DEF Base
<1>1. /\ version \in Nat /\ version' \in Nat /\ version <= version'
      /\ work \in [Worker -> WorkType]
    BY DEF Types, RestTypes, Moves
<1>2. Types'
    BY <1>1 DEF Types, Moves
<1>3. \A v \in Worker : /\ v # w => work'[v] = work[v]
                        /\ work'[v].op \in {work[v].op, "none"}
    BY <1>1 DEF Moves
<1>4. Alone'
  <2>. SUFFICES ASSUME NEW v \in Worker
                PROVE  /\ Place(work'[v])
                       /\ work'[v].op = "create" => version' # 0
                       /\ work'[v].pc = "members" => work'[v].seen <= version'
                       /\ work'[v].pc \in {"isInAgain", "insert"} => work'[v].id # NoId
                       /\ \A x \in Worker \ {v} :
                            work'[v].op \in {"create", "info"} => work'[x].op # work'[v].op
      BY DEF Alone, Place
  <2>1. \A x \in Worker \ {v} : work'[v].op \in {"create", "info"} => work'[x].op # work'[v].op
      BY <1>3 DEF Alone
  <2>2. work'[v].op = "create" => version' # 0
      BY <1>1, <1>3 DEF Alone
  <2>3. CASE v = w
      BY <2>1, <2>2, <2>3 DEF Moves
  <2>4. CASE v # w
    <3>1. work'[v] = work[v] /\ work[v] \in WorkType
        BY <1>1, <1>3, <2>4
    <3>. QED BY <1>1, <2>1, <2>2, <3>1 DEF Alone, WorkType
  <2>. QED BY <2>3, <2>4
<1>5. Fresh' => Fresh
    BY <1>1, <1>3 DEF Fresh, Alone, Moves
<1>6. Fresh' => Quiet'
    BY <1>3, <1>5 DEF Quiet
<1>. QED BY <1>2, <1>4, <1>6

\* The ways a step changes the worker's entry are moves.
LEMMA DoneMoves ==
    ASSUME Base, NEW w \in Worker, Done(w), version <= version'
    PROVE  Moves(w) /\ work'[w] = Idle
BY OpsAre DEF Done, Moves, Base, Types, WorkType, Pcs, Idle, Place, Route, Party, NoId

LEMMA GoMoves ==
    ASSUME Base, NEW w \in Worker, NEW p \in Pcs \ {"members"}, Go(w, p), version <= version',
           Route(work[w].op, p), work[w].op = "create" /\ p # "hset" => work[w].pc # "hset",
           p \in {"isInAgain", "insert"} => work[w].id # NoId
    PROVE  Moves(w) /\ work'[w] = [work[w] EXCEPT !.pc = p]
<1>1. work[w] \in WorkType /\ Party(work[w]) /\ work \in [Worker -> WorkType]
    BY DEF Base, Types, Alone, Place
<1>2. work' = [work EXCEPT ![w] = work'[w]] /\ work'[w] = [work[w] EXCEPT !.pc = p]
    BY <1>1 DEF Go
<1>3. work'[w] \in WorkType
    BY <1>1, <1>2 DEF WorkType
<1>4. Place(work'[w])
    BY <1>1, <1>2 DEF Place, Party, WorkType
<1>. QED BY <1>1, <1>2, <1>3, <1>4 DEF Moves, WorkType

\* What insertNewMember writes.
LEMMA RowsWithResult ==
    ASSUME RestTypes, NEW users, NEW has
    PROVE  /\ RowsWith(users, has) \in [User -> [n : Nat, in : Nat]]
           /\ \A u \in User : RowsWith(users, has)[u].in <= RowsWith(users, has)[u].n
BY DEF RestTypes, RowsWith

\* Once the members of a new group are put into the hash it is not fresh: nobody
\* else creates it.
LEMMA NotFreshAtHSet ==
    ASSUME Base, NEW w \in Worker, work[w].op = "create", Moves(w),
           work'[w].op = "create" => work'[w].pc = "hset"
    PROVE  ~Fresh'
BY DEF Base, Types, RestTypes, Alone, Moves, Fresh

\* Every action keeps the base.
LEMMA AddResponsePduBase ==
    ASSUME Base, NEW w \in Worker, AddResponsePdu(w)
    PROVE  Base'
<1>. USE DEF AddResponsePdu, Call, At
<1>1. work[w] \in WorkType /\ Place(work[w]) /\ RestTypes /\ work \in [Worker -> WorkType]
    BY DEF Base, Types, Alone, Place
<1>2. Moves(w) /\ (work'[w] = Idle \/ work'[w] = [work[w] EXCEPT !.pc = work'[w].pc])
  <2>1. version <= version'
      BY <1>1 DEF RestTypes, mysql
  <2>2. CASE Done(w)
      BY <2>1, <2>2, DoneMoves
  <2>. QED BY <2>2
<1>3. RestTypes'
    BY <1>1, BoundAssumption DEF RestTypes, mysql, redis, out, hist
<1>4. Fresh /\ Fresh' /\ Quiet => Empty' /\ (work'[w].op = "create" => work'[w].has = {})
    BY <1>1, <1>2 DEF Quiet, Empty, WorkType, Idle, Place, Route, mysql, redis, out
<1>. QED BY <1>2, <1>3, <1>4, MoveKeeps

LEMMA ResetMsgIdBase ==
    ASSUME Base, NEW w \in Worker, NEW ok \in BOOLEAN, ResetMsgId(w, ok)
    PROVE  Base'
<1>. USE DEF ResetMsgId, Call, At
<1>1. work[w] \in WorkType /\ Place(work[w]) /\ RestTypes /\ work \in [Worker -> WorkType]
    BY DEF Base, Types, Alone, Place
<1>2. Moves(w) /\ (work'[w] = Idle \/ work'[w] = [work[w] EXCEPT !.pc = work'[w].pc])
  <2>1. version <= version'
      BY <1>1 DEF RestTypes, mysql
  <2>2. CASE Go(w, "clearRows")
      BY <1>1, <2>1, <2>2, GoMoves, "clearRows" \in Pcs DEF Place, Route, Pcs, WorkType
  <2>. QED BY <2>2
<1>3. RestTypes'
    BY <1>1, BoundAssumption DEF RestTypes, mysql, redis, out, hist
<1>4. Fresh /\ Fresh' /\ Quiet => Empty' /\ (work'[w].op = "create" => work'[w].has = {})
    BY <1>1, <1>2 DEF Quiet, Empty, WorkType, Idle, Place, Route, mysql, redis, out
<1>. QED BY <1>2, <1>3, <1>4, MoveKeeps

LEMMA ClearRowsBase ==
    ASSUME Base, NEW w \in Worker, NEW ok \in BOOLEAN, ClearRows(w, ok)
    PROVE  Base'
<1>. USE DEF ClearRows, Call, At
<1>1. work[w] \in WorkType /\ Place(work[w]) /\ RestTypes /\ work \in [Worker -> WorkType]
    BY DEF Base, Types, Alone, Place
<1>2. Moves(w) /\ (work'[w] = Idle \/ work'[w] = [work[w] EXCEPT !.pc = work'[w].pc])
  <2>1. version <= version'
      BY <1>1 DEF RestTypes, mysql
  <2>2. CASE Go(w, "clearHash")
      BY <1>1, <2>1, <2>2, GoMoves, "clearHash" \in Pcs DEF Place, Route, Pcs, WorkType
  <2>. QED BY <2>2
<1>3. RestTypes'
    BY <1>1, BoundAssumption DEF RestTypes, mysql, redis, out, hist
<1>4. Fresh /\ Fresh' /\ Quiet => Empty' /\ (work'[w].op = "create" => work'[w].has = {})
    BY <1>1, <1>2 DEF Quiet, Empty, WorkType, Idle, Place, Route, mysql, redis, out
<1>. QED BY <1>2, <1>3, <1>4, MoveKeeps

LEMMA ClearHashBase ==
    ASSUME Base, NEW w \in Worker, NEW ok \in BOOLEAN, ClearHash(w, ok)
    PROVE  Base'
<1>. USE DEF ClearHash, Call, At
<1>1. work[w] \in WorkType /\ Place(work[w]) /\ RestTypes /\ work \in [Worker -> WorkType]
    BY DEF Base, Types, Alone, Place
<1>2. Moves(w) /\ (work'[w] = Idle \/ work'[w] = [work[w] EXCEPT !.pc = work'[w].pc])
  <2>1. version <= version'
      BY <1>1 DEF RestTypes, mysql
  <2>2. CASE Go(w, "select")
      BY <1>1, <2>1, <2>2, GoMoves, "select" \in Pcs DEF Place, Route, Pcs, WorkType
  <2>. QED BY <2>2
<1>3. RestTypes'
    BY <1>1, BoundAssumption DEF RestTypes, mysql, redis, out, hist
<1>4. Fresh /\ Fresh' /\ Quiet => Empty' /\ (work'[w].op = "create" => work'[w].has = {})
    BY <1>1, <1>2 DEF Quiet, Empty, WorkType, Idle, Place, Route, mysql, redis, out
<1>. QED BY <1>2, <1>3, <1>4, MoveKeeps

LEMMA RemoveRepeatUserBase ==
    ASSUME Base, NEW w \in Worker, NEW ok \in BOOLEAN, RemoveRepeatUser(w, ok)
    PROVE  Base'
<1>. USE DEF RemoveRepeatUser, Call, At
<1>1. work[w] \in WorkType /\ Place(work[w]) /\ RestTypes /\ work \in [Worker -> WorkType]
    BY DEF Base, Types, Alone, Place
<1>2. Moves(w) /\ (work'[w] = Idle \/ work'[w] = [work[w] EXCEPT !.pc = work'[w].pc])
  <2>1. version <= version'
      BY <1>1 DEF RestTypes, mysql
  <2>2. CASE Go(w, "select")
      BY <1>1, <2>1, <2>2, GoMoves, "select" \in Pcs DEF Place, Route, Pcs, WorkType
  <2>3. CASE Done(w)
      BY <2>1, <2>3, DoneMoves
  <2>. QED BY <2>2, <2>3
<1>3. RestTypes'
    BY <1>1, BoundAssumption DEF RestTypes, mysql, redis, out, hist
<1>4. Fresh /\ Fresh' /\ Quiet => Empty' /\ (work'[w].op = "create" => work'[w].has = {})
    BY <1>1, <1>2 DEF Quiet, Empty, WorkType, Idle, Place, Route, mysql, redis, out
<1>. QED BY <1>2, <1>3, <1>4, MoveKeeps

LEMMA WriteRowsBase ==
    ASSUME Base, NEW w \in Worker, NEW ok \in BOOLEAN, WriteRows(w, ok)
    PROVE  Base'
<1>. USE DEF WriteRows, Call, At
<1>1. work[w] \in WorkType /\ Place(work[w]) /\ RestTypes /\ work \in [Worker -> WorkType]
    BY DEF Base, Types, Alone, Place
<1>2. Moves(w) /\ (work'[w] = Idle \/ work'[w] = [work[w] EXCEPT !.pc = "hset"])
  <2>1. version <= version'
      BY <1>1 DEF RestTypes, mysql
  <2>2. CASE Go(w, "hset")
      BY <1>1, <2>1, <2>2, GoMoves, "hset" \in Pcs DEF Place, Route, Pcs, WorkType
  <2>3. CASE Done(w)
      BY <2>1, <2>3, DoneMoves
  <2>. QED BY <2>2, <2>3
<1>3. RestTypes'
    BY <1>1, BoundAssumption, RowsWithResult DEF RestTypes, mysql, redis, out, hist
<1>4. Fresh /\ Fresh' /\ Quiet => Empty' /\ (work'[w].op = "create" => work'[w].has = {})
  <2>1. Quiet => work[w].op = "create"
      BY <1>1 DEF Quiet, Place, Route
  <2>2. work[w].op = "create" => ~Fresh'
      BY <1>1, <1>2, NotFreshAtHSet DEF Idle, WorkType
  <2>. QED BY <2>1, <2>2
<1>. QED BY <1>2, <1>3, <1>4, MoveKeeps

LEMMA RowOutBase ==
    ASSUME Base, NEW w \in Worker, NEW ok \in BOOLEAN, RowOut(w, ok)
    PROVE  Base'
<1>. USE DEF RowOut, Call, At
<1>1. work[w] \in WorkType /\ Place(work[w]) /\ RestTypes /\ work \in [Worker -> WorkType]
    BY DEF Base, Types, Alone, Place
<1>2. Moves(w) /\ (work'[w] = Idle \/ work'[w] = [work[w] EXCEPT !.pc = work'[w].pc])
  <2>1. version <= version'
      BY <1>1 DEF RestTypes, mysql
  <2>2. CASE Go(w, "hdel")
      BY <1>1, <2>1, <2>2, GoMoves, "hdel" \in Pcs DEF Place, Route, Pcs, WorkType
  <2>3. CASE Done(w)
      BY <2>1, <2>3, DoneMoves
  <2>. QED BY <2>2, <2>3
<1>3. RestTypes'
    BY SMTT(30), <1>1, BoundAssumption DEF RestTypes, Place, Route, Party, WorkType, mysql,
       redis, out,
       hist
<1>4. Fresh /\ Fresh' /\ Quiet => Empty' /\ (work'[w].op = "create" => work'[w].has = {})
    BY <1>1, <1>2 DEF Quiet, Empty, WorkType, Idle, Place, Route, mysql, redis, out
<1>. QED BY <1>2, <1>3, <1>4, MoveKeeps

LEMMA HDelBase ==
    ASSUME Base, NEW w \in Worker, NEW ok \in BOOLEAN, HDel(w, ok)
    PROVE  Base'
<1>. USE DEF HDel, Call, At
<1>1. work[w] \in WorkType /\ Place(work[w]) /\ RestTypes /\ work \in [Worker -> WorkType]
    BY DEF Base, Types, Alone, Place
<1>2. Moves(w) /\ (work'[w] = Idle \/ work'[w] = [work[w] EXCEPT !.pc = work'[w].pc])
  <2>1. version <= version'
      BY <1>1 DEF RestTypes, mysql
  <2>2. CASE Go(w, "version")
      BY <1>1, <2>1, <2>2, GoMoves, "version" \in Pcs DEF Place, Route, Pcs, WorkType
  <2>. QED BY <2>2
<1>3. RestTypes'
    BY <1>1, BoundAssumption DEF RestTypes, mysql, redis, out, hist
<1>4. Fresh /\ Fresh' /\ Quiet => Empty' /\ (work'[w].op = "create" => work'[w].has = {})
    BY <1>1, <1>2 DEF Quiet, Empty, WorkType, Idle, Place, Route, mysql, redis, out
<1>. QED BY <1>2, <1>3, <1>4, MoveKeeps

LEMMA IncGroupVersionBase ==
    ASSUME Base, NEW w \in Worker, NEW ok \in BOOLEAN, IncGroupVersion(w, ok)
    PROVE  Base'
<1>. USE DEF IncGroupVersion, Call, At
<1>1. work[w] \in WorkType /\ Place(work[w]) /\ RestTypes /\ work \in [Worker -> WorkType]
    BY DEF Base, Types, Alone, Place
<1>2. Moves(w) /\ (work'[w] = Idle \/ work'[w] = [work[w] EXCEPT !.pc = work'[w].pc])
  <2>1. version <= version'
      BY <1>1 DEF RestTypes, mysql
  <2>2. CASE Go(w, "read")
      BY <1>1, <2>1, <2>2, GoMoves, "read" \in Pcs DEF Place, Route, Pcs, WorkType
  <2>. QED BY <2>2
<1>3. RestTypes'
    BY <1>1, BoundAssumption DEF RestTypes, mysql, redis, out, hist
<1>4. Fresh /\ Fresh' /\ Quiet => Empty' /\ (work'[w].op = "create" => work'[w].has = {})
    BY <1>1, <1>2 DEF Quiet, Empty, WorkType, Idle, Place, Route, mysql, redis, out
<1>. QED BY <1>2, <1>3, <1>4, MoveKeeps

LEMMA IsInGroupBase ==
    ASSUME Base, NEW w \in Worker, NEW ok \in BOOLEAN, IsInGroup(w, ok)
    PROVE  Base'
<1>. USE DEF IsInGroup, Call, At
<1>1. work[w] \in WorkType /\ Place(work[w]) /\ RestTypes /\ work \in [Worker -> WorkType]
    BY DEF Base, Types, Alone, Place
<1>2. Moves(w) /\ (work'[w] = Idle \/ work'[w] = [work[w] EXCEPT !.pc = work'[w].pc])
  <2>1. version <= version'
      BY <1>1 DEF RestTypes, mysql
  <2>2. CASE Go(w, "id")
      BY <1>1, <2>1, <2>2, GoMoves, "id" \in Pcs DEF Place, Route, Pcs, WorkType
  <2>3. CASE Done(w)
      BY <2>1, <2>3, DoneMoves
  <2>. QED BY <2>2, <2>3
<1>3. RestTypes'
    BY <1>1, BoundAssumption DEF RestTypes, mysql, redis, out, hist
<1>4. Fresh /\ Fresh' /\ Quiet => Empty' /\ (work'[w].op = "create" => work'[w].has = {})
    BY <1>1, <1>2 DEF Quiet, Empty, WorkType, Idle, Place, Route, mysql, redis, out
<1>. QED BY <1>2, <1>3, <1>4, MoveKeeps

LEMMA IsInGroupStillBase ==
    ASSUME Base, NEW w \in Worker, NEW ok \in BOOLEAN, IsInGroupStill(w, ok)
    PROVE  Base'
<1>. USE DEF IsInGroupStill, Call, At
<1>1. /\ work[w] \in WorkType /\ Place(work[w]) /\ RestTypes /\ work \in [Worker -> WorkType]
      /\ work[w].id # NoId
    BY DEF Base, Types, Alone, Place
<1>2. Moves(w) /\ (work'[w] = Idle \/ work'[w] = [work[w] EXCEPT !.pc = work'[w].pc])
  <2>1. version <= version'
      BY <1>1 DEF RestTypes, mysql
  <2>2. CASE Go(w, "insert")
      BY <1>1, <2>1, <2>2, GoMoves, "insert" \in Pcs DEF Place, Route, Pcs, WorkType
  <2>3. CASE Go(w, "answer")
      BY <1>1, <2>1, <2>3, GoMoves, "answer" \in Pcs DEF Place, Route, Pcs, WorkType
  <2>. QED BY <2>2, <2>3
<1>3. RestTypes'
    BY <1>1, BoundAssumption DEF RestTypes, mysql, redis, out, hist
<1>4. Fresh /\ Fresh' /\ Quiet => Empty' /\ (work'[w].op = "create" => work'[w].has = {})
    BY <1>1, <1>2 DEF Quiet, Empty, WorkType, Idle, Place, Route, mysql, redis, out
<1>. QED BY <1>2, <1>3, <1>4, MoveKeeps

LEMMA InsertMessageBase ==
    ASSUME Base, NEW w \in Worker, NEW ok \in BOOLEAN, InsertMessage(w, ok)
    PROVE  Base'
<1>. USE DEF InsertMessage, Call, At
<1>1. work[w] \in WorkType /\ Place(work[w]) /\ RestTypes /\ work \in [Worker -> WorkType]
    BY DEF Base, Types, Alone, Place
<1>2. Moves(w) /\ (work'[w] = Idle \/ work'[w] = [work[w] EXCEPT !.pc = work'[w].pc])
  <2>1. version <= version'
      BY <1>1 DEF RestTypes, mysql
  <2>2. CASE Go(w, "inc")
      BY <1>1, <2>1, <2>2, GoMoves, "inc" \in Pcs DEF Place, Route, Pcs, WorkType
  <2>3. CASE Go(w, "answer")
      BY <1>1, <2>1, <2>3, GoMoves, "answer" \in Pcs DEF Place, Route, Pcs, WorkType
  <2>. QED BY <2>2, <2>3 DEF AfterInsert
<1>3. RestTypes'
    BY <1>1, BoundAssumption DEF RestTypes, mysql, redis, out, hist
<1>4. Fresh /\ Fresh' /\ Quiet => Empty' /\ (work'[w].op = "create" => work'[w].has = {})
    BY <1>1, <1>2 DEF Quiet, Empty, WorkType, Idle, Place, Route, mysql, redis, out
<1>. QED BY <1>2, <1>3, <1>4, MoveKeeps

LEMMA FillGroupMemberBase ==
    ASSUME Base, NEW w \in Worker, NEW ok \in BOOLEAN, FillGroupMember(w, ok)
    PROVE  Base'
<1>. USE DEF FillGroupMember, Call, At
<1>1. work[w] \in WorkType /\ Place(work[w]) /\ RestTypes /\ work \in [Worker -> WorkType]
    BY DEF Base, Types, Alone, Place
<1>2. Moves(w) /\ (work'[w] = Idle \/ work'[w] = [work[w] EXCEPT !.pc = work'[w].pc])
  <2>1. version <= version'
      BY <1>1 DEF RestTypes, mysql
  <2>2. CASE Done(w)
      BY <2>1, <2>2, DoneMoves
  <2>. QED BY <2>2
<1>3. RestTypes'
    BY <1>1, BoundAssumption DEF RestTypes, Creating, Base, Alone, WorkType, mysql, redis,
       out, hist
<1>4. Fresh /\ Fresh' /\ Quiet => Empty' /\ (work'[w].op = "create" => work'[w].has = {})
    BY <1>1, <1>2 DEF Quiet, Empty, WorkType, Idle, Place, Route, mysql, redis, out
<1>. QED BY <1>2, <1>3, <1>4, MoveKeeps

LEMMA StepMoves ==
    ASSUME Base, NEW w \in Worker, NEW x \in WorkType, work' = [work EXCEPT ![w] = x],
           x.op = work[w].op, Place(x), version <= version',
           x.op = "create" /\ x.pc # "hset" => work[w].pc # "hset",
           x.pc = "members" => x.seen <= version',
           x.pc \in {"isInAgain", "insert"} => x.id # NoId
    PROVE  Moves(w) /\ work'[w] = x
BY DEF Moves, Base, Types

LEMMA AfterCopyMoves ==
    ASSUME Base, NEW w \in Worker, work[w].pc \in {"read", "set"}, AfterCopy(w),
           version <= version'
    PROVE  /\ Moves(w)
           /\ work'[w] \in {Idle, [work[w] EXCEPT !.pc = "answer"],
                            [work[w] EXCEPT !.pc = "read", !.again = FALSE]}
           /\ work[w].op # "create" /\ work'[w].op # "create"
<1>1. work[w] \in WorkType /\ Place(work[w]) /\ work \in [Worker -> WorkType]
    BY DEF Base, Types, Alone, Place
<1>2. CASE work[w].again
  <2>1. [work[w] EXCEPT !.pc = "read", !.again = FALSE] \in WorkType
      BY <1>1 DEF WorkType, Pcs
  <2>2. Place([work[w] EXCEPT !.pc = "read", !.again = FALSE])
      BY <1>1 DEF Place, Route, Party, WorkType
  <2>3. work' = [work EXCEPT ![w] = [work[w] EXCEPT !.pc = "read", !.again = FALSE]]
      BY <1>1, <1>2 DEF AfterCopy
  <2>. QED BY <1>1, <2>1, <2>2, <2>3, StepMoves DEF WorkType, Place, Route
<1>3. CASE ~work[w].again /\ work[w].op = "send"
    BY <1>1, <1>3, GoMoves, "answer" \in Pcs DEF AfterCopy, Place, Route, Pcs, WorkType
<1>4. CASE ~work[w].again /\ work[w].op # "send"
  <2>1. Idle.op # "create" /\ work[w].op # "create"
      BY <1>1 DEF Idle, Place, Route
  <2>. QED BY <1>4, <2>1, DoneMoves DEF AfterCopy
<1>. QED BY <1>2, <1>3, <1>4

LEMMA SelectHasBase ==
    ASSUME Base, NEW w \in Worker, NEW ok \in BOOLEAN, SelectHas(w, ok)
    PROVE  Base'
<1>. USE DEF SelectHas, Call, At
<1>1. work[w] \in WorkType /\ Place(work[w]) /\ RestTypes /\ work \in [Worker -> WorkType]
    BY DEF Base, Types, Alone, Place
<1>2. version <= version' /\ UNCHANGED <<mysql, redis, out, hist>>
    BY <1>1 DEF RestTypes, mysql
<1>3. RestTypes'
    BY <1>1, <1>2, BoundAssumption DEF RestTypes, mysql, redis, out, hist
<1>4. CASE Done(w)
    BY <1>2, <1>3, <1>4, DoneMoves, MoveKeeps DEF Quiet, Empty, Idle, mysql, redis, out
<1>5. CASE ~Done(w)
  <2>. DEFINE found == {u \in work[w].todo : rows[u].n > 0}
              has == IF ok THEN found ELSE {}
              x == [work[w] EXCEPT !.pc = "write", !.has = has]
  <2>1. work' = [work EXCEPT ![w] = x]
      BY <1>1, <1>5
  <2>2. has \in SUBSET User
      BY <1>1 DEF WorkType
  <2>3. x \in WorkType
      BY <1>1, <2>2 DEF WorkType, Pcs
  <2>4. Place(x)
      BY <1>1, <2>2 DEF Place, Route, Party, WorkType
  <2>5. Moves(w) /\ work'[w] = x
      BY <1>1, <1>2, <2>1, <2>3, <2>4, StepMoves DEF WorkType
  <2>6. Quiet => has = {}
      BY <1>1 DEF Quiet, Empty, WorkType, RestTypes
  <2>7. Quiet => Empty' /\ (work'[w].op = "create" => work'[w].has = {})
      BY <1>1, <1>2, <2>5, <2>6 DEF Quiet, Empty, mysql, redis, out, WorkType
  <2>. QED BY <1>3, <2>5, <2>7, MoveKeeps
<1>. QED BY <1>4, <1>5

LEMMA HSetBase ==
    ASSUME Base, NEW w \in Worker, NEW ok \in BOOLEAN, HSet(w, ok)
    PROVE  Base'
<1>. USE DEF HSet, Call, At
<1>1. work[w] \in WorkType /\ Place(work[w]) /\ RestTypes /\ work \in [Worker -> WorkType]
    BY DEF Base, Types, Alone, Place
<1>2. version <= version' /\ version \in Nat
    BY <1>1 DEF RestTypes, mysql
<1>3. PICK u \in work[w].todo :
        /\ member' = IF ok THEN member \cup {u} ELSE member
        /\ IF work[w].todo # {u} THEN work' = [work EXCEPT ![w].todo = @ \ {u}]
           ELSE IF work[w].op = "create" THEN Done(w) ELSE Go(w, "version")
    OBVIOUS
<1>4. Moves(w) /\ (work'[w].op = "create" => work'[w].pc = "hset")
  <2>1. CASE work[w].todo # {u}
    <3>. DEFINE x == [work[w] EXCEPT !.todo = @ \ {u}]
    <3>1. x \in WorkType
        BY <1>1 DEF WorkType
    <3>2. Place(x)
        BY <1>1, <1>3, <2>1 DEF Place, Route, Party, WorkType
    <3>3. work' = [work EXCEPT ![w] = x]
        BY <1>1, <1>3, <2>1
    <3>. QED BY <1>1, <1>2, <3>1, <3>2, <3>3, StepMoves DEF WorkType
  <2>2. CASE work[w].todo = {u} /\ work[w].op = "create"
      BY <1>2, <1>3, <2>2, DoneMoves DEF Idle
  <2>3. CASE work[w].todo = {u} /\ work[w].op # "create"
      BY <1>1, <1>2, <1>3, <2>3, GoMoves, "version" \in Pcs DEF Place, Route, Pcs, WorkType
  <2>. QED BY <2>1, <2>2, <2>3
<1>5. RestTypes'
    BY <1>1, <1>3, BoundAssumption DEF RestTypes, WorkType, mysql, out, hist
<1>6. ~(Fresh /\ Fresh' /\ Quiet)
  <2>1. Quiet => work[w].op = "create"
      BY <1>1 DEF Quiet, Place, Route
  <2>2. work[w].op = "create" => ~Fresh'
      BY <1>4, NotFreshAtHSet
  <2>. QED BY <2>1, <2>2
<1>. QED BY <1>4, <1>5, <1>6, MoveKeeps

LEMMA GetMsgIdBase ==
    ASSUME Base, NEW w \in Worker, NEW ok \in BOOLEAN, GetMsgId(w, ok)
    PROVE  Base'
<1>. USE DEF GetMsgId, Call, At
<1>1. work[w] \in WorkType /\ Place(work[w]) /\ RestTypes /\ work \in [Worker -> WorkType]
    BY DEF Base, Types, Alone, Place
<1>2. PICK id \in IF ok THEN {NextId} ELSE {NoId, BadId} :
        work' = [work EXCEPT ![w].id = id,
                             ![w].pc = IF id = NoId THEN "answer" ELSE "isInAgain"]
    OBVIOUS
<1>. DEFINE x == [work[w] EXCEPT !.id = id, !.pc = IF id = NoId THEN "answer" ELSE "isInAgain"]
<1>3. id \in Nat
    BY <1>1, IdAssumption DEF NextId, NoId, RestTypes
<1>4. x \in WorkType
    BY <1>1, <1>3 DEF WorkType, Pcs
<1>5. Place(x)
    BY <1>1 DEF Place, Route, Party, WorkType
<1>6. work' = [work EXCEPT ![w] = x]
    BY <1>1, <1>2
<1>7. Moves(w)
    BY <1>1, <1>4, <1>5, <1>6, StepMoves DEF WorkType, RestTypes, mysql, Place, Route
<1>8. RestTypes'
    BY <1>1, BoundAssumption DEF RestTypes, NextId, mysql, out, hist
<1>9. ~Quiet
    BY <1>1 DEF Quiet, Place, Route
<1>. QED BY <1>7, <1>8, <1>9, MoveKeeps

LEMMA IncMessageCountBase ==
    ASSUME Base, NEW w \in Worker, NEW ok \in BOOLEAN, IncMessageCount(w, ok)
    PROVE  Base'
<1>. USE DEF IncMessageCount, Call, At
<1>1. work[w] \in WorkType /\ Place(work[w]) /\ RestTypes /\ work \in [Worker -> WorkType]
    BY DEF Base, Types, Alone, Place
<1>. DEFINE x == [work[w] EXCEPT !.pc = "read", !.again = TRUE]
<1>2. x \in WorkType
    BY <1>1 DEF WorkType, Pcs
<1>3. Place(x)
    BY <1>1 DEF Place, Route, Party, WorkType
<1>4. work' = [work EXCEPT ![w] = x]
    BY <1>1
<1>5. Moves(w)
  <2>1. version <= version'
      BY <1>1 DEF RestTypes, mysql
  <2>2. x.op = work[w].op /\ x.pc = "read" /\ work[w].op # "create"
      BY <1>1 DEF WorkType, Place, Route
  <2>. HIDE DEF x
  <2>. QED BY <1>2, <1>3, <1>4, <2>1, <2>2, StepMoves
<1>6. RestTypes'
    BY <1>1, BoundAssumption DEF RestTypes, mysql, out, hist
<1>7. ~Quiet
    BY <1>1 DEF Quiet, Place, Route
<1>. QED BY <1>5, <1>6, <1>7, MoveKeeps

LEMMA ReadTotalBase ==
    ASSUME Base, NEW w \in Worker, NEW ok \in BOOLEAN, ReadTotal(w, ok)
    PROVE  Base'
<1>. USE DEF ReadTotal, Call, At
<1>1. work[w] \in WorkType /\ Place(work[w]) /\ RestTypes /\ work \in [Worker -> WorkType]
    BY DEF Base, Types, Alone, Place
<1>2. RestTypes' /\ version <= version'
    BY <1>1, BoundAssumption DEF RestTypes, mysql, redis, out, hist
<1>3. Moves(w) /\ work'[w].op \in {"none", work[w].op} /\ work[w].op # "create"
  <2>1. CASE ok
    <3>. DEFINE x == [work[w] EXCEPT !.pc = "set", !.seen = total]
    <3>1. x \in WorkType
        BY <1>1 DEF WorkType, Pcs, RestTypes
    <3>2. Place(x)
        BY <1>1 DEF Place, Route, Party, WorkType
    <3>3. work' = [work EXCEPT ![w] = x]
        BY <1>1, <2>1
    <3>. QED BY <1>1, <1>2, <3>1, <3>2, <3>3, StepMoves DEF WorkType, Place, Route
  <2>2. CASE ~ok
    <3>1. work[w].pc \in {"read", "set"} /\ AfterCopy(w)
        BY <2>2
    <3>. QED BY <1>2, <3>1, AfterCopyMoves DEF Moves
  <2>. QED BY <2>1, <2>2
<1>4. Quiet => Empty' /\ (work'[w].op = "create" => work'[w].has = {})
    BY <1>3 DEF Quiet, Empty, mysql, redis, out
<1>. QED BY <1>2, <1>3, <1>4, MoveKeeps

LEMMA SetCountBase ==
    ASSUME Base, NEW w \in Worker, NEW ok \in BOOLEAN, SetCount(w, ok)
    PROVE  Base'
<1>. USE DEF SetCount, Call, At
<1>1. work[w] \in WorkType /\ Place(work[w]) /\ RestTypes /\ work \in [Worker -> WorkType]
    BY DEF Base, Types, Alone, Place
<1>2. version <= version' /\ cnt' \in [User -> Nat]
    BY <1>1 DEF RestTypes, WorkType, Copy, Place, Route, Party, mysql
<1>3. Moves(w) /\ work'[w].op # "create"
  <2>1. work[w].pc \in {"read", "set"} /\ AfterCopy(w)
      OBVIOUS
  <2>. QED BY <1>2, <2>1, AfterCopyMoves
<1>4. Quiet => Empty'
    BY DEF Quiet, Empty, mysql, out
<1>5. RestTypes'
    BY <1>1, <1>2, BoundAssumption DEF RestTypes, mysql, out, hist
<1>. QED BY <1>3, <1>4, <1>5, MoveKeeps

LEMMA GetGroupVersionBase ==
    ASSUME Base, NEW w \in Worker, NEW ok \in BOOLEAN, GetGroupVersion(w, ok)
    PROVE  Base'
<1>. USE DEF GetGroupVersion, Call, At
<1>1. work[w] \in WorkType /\ Place(work[w]) /\ RestTypes /\ work \in [Worker -> WorkType]
    BY DEF Base, Types, Alone, Place
<1>2. RestTypes' /\ version <= version' /\ version' = version
    BY <1>1, BoundAssumption DEF RestTypes, mysql, redis, out, hist
<1>3. Moves(w)
  <2>1. CASE ok /\ cache.version < version
    <3>. DEFINE x == [work[w] EXCEPT !.pc = "members", !.seen = version]
    <3>1. x \in WorkType
        BY <1>1 DEF WorkType, Pcs, RestTypes
    <3>2. Place(x)
        BY <1>1 DEF Place, Route, Party, WorkType
    <3>3. work' = [work EXCEPT ![w] = x]
        BY <1>1, <2>1
    <3>. QED BY <1>1, <1>2, <3>1, <3>2, <3>3, StepMoves DEF WorkType, Place, Route, RestTypes
  <2>2. CASE ~(ok /\ cache.version < version)
      BY <1>2, <2>2, DoneMoves
  <2>. QED BY <2>1, <2>2
<1>4. ~Quiet
    BY <1>1 DEF Quiet, Place, Route
<1>. QED BY <1>2, <1>3, <1>4, MoveKeeps

-----------------------------------------------------------------------------
(***************************************************************************)
(* The beginnings of requests.                                             *)
(***************************************************************************)
LEMMA InsertNewGroupBase ==
    ASSUME Base, NEW w \in Worker, InsertNewGroup(w)
    PROVE  Base'
<1>. USE FirstCalls, OpsAre, BoundAssumption, FounderAssumption DEF InsertNewGroup, Start, Busy
<1>0. work \in [Worker -> WorkType] /\ RestTypes
    BY DEF Base, Types
<1>1. Types'
  <2>1. work' \in [Worker -> WorkType]
    BY <1>0 DEF WorkType, Pcs, Idle, NoId
  <2>2. RestTypes'
    BY <1>0 DEF RestTypes, About, mysql, redis, out, hist
  <2>. QED BY <2>1, <2>2 DEF Types
<1>2. Alone'
    BY <1>0 DEF Base, RestTypes, WorkType, Idle, NoId, Alone, Place, Route, Party, mysql
<1>3. (Fresh => Quiet)'
    BY <1>0 DEF Base, RestTypes, WorkType, Idle, Alone, Place, Route, Party, Fresh, Quiet,
       Empty,
               mysql, redis, out
<1>. QED BY <1>1, <1>2, <1>3 DEF Base

LEMMA ReadAckBase ==
    ASSUME Base, NEW w \in Worker, NEW u \in User, ReadAck(w, u)
    PROVE  Base'
<1>. USE FirstCalls, OpsAre, BoundAssumption, FounderAssumption DEF ReadAck, Start, Busy
<1>0. work \in [Worker -> WorkType] /\ RestTypes
    BY DEF Base, Types
<1>1. Types'
  <2>1. work' \in [Worker -> WorkType]
    BY <1>0 DEF WorkType, Pcs, Idle, NoId
  <2>2. RestTypes'
    BY <1>0 DEF RestTypes, About, mysql, redis, out, hist
  <2>. QED BY <2>1, <2>2 DEF Types
<1>2. Alone'
    BY <1>0 DEF Base, RestTypes, WorkType, Idle, NoId, Alone, Place, Route, Party, mysql
<1>3. (Fresh => Quiet)'
    BY SMTT(30), <1>0 DEF Base, RestTypes, WorkType, Idle, Alone, Place, Route, Party, Fresh, Quiet,
       Empty,
               mysql, redis, out
<1>. QED BY <1>1, <1>2, <1>3 DEF Base

LEMMA RequestBase ==
    ASSUME Base, NEW w \in Worker, NEW op \in DOMAIN First, NEW u \in User, Request(w, op, u)
    PROVE  Base'
<1>. USE FirstCalls, OpsAre, BoundAssumption, FounderAssumption DEF Request, Start, IsValidate, Busy
<1>0. work \in [Worker -> WorkType] /\ RestTypes
    BY DEF Base, Types
<1>1. Types'
  <2>1. work' \in [Worker -> WorkType]
    <3>. DEFINE x == [Idle EXCEPT !.op = op, !.user = u, !.pc = First[op], !.todo = {u}]
    <3>1. x \in WorkType
        BY DEF WorkType, Pcs, Idle, NoId
    <3>. QED BY <1>0, <3>1
  <2>2. RestTypes'
    BY <1>0 DEF RestTypes, About, mysql, redis, out, hist
  <2>. QED BY <2>1, <2>2 DEF Types
<1>2. Alone'
    BY <1>0 DEF Base, RestTypes, WorkType, Idle, NoId, Alone, Place, Route, Party, mysql
<1>3. (Fresh => Quiet)'
    BY SMTT(30), <1>0 DEF Base, RestTypes, WorkType, Idle, Alone, Place, Route, Party, Fresh, Quiet,
       Empty,
               mysql, redis, out
<1>. QED BY <1>1, <1>2, <1>3 DEF Base

-----------------------------------------------------------------------------
LEMMA BaseStep == Base /\ [Next]_vars => Base'
<1>1. Base /\ UNCHANGED vars => Base'
    BY DEF Base, Types, RestTypes, Alone, Fresh, Quiet, Empty, vars, mysql, redis, out, hist
<1>2. Base /\ Next => Base'
    BY InsertNewGroupBase, AddResponsePduBase, ReadAckBase, RequestBase, ResetMsgIdBase,
       ClearRowsBase, ClearHashBase, RemoveRepeatUserBase, SelectHasBase, WriteRowsBase,
       HSetBase, RowOutBase, HDelBase, IncGroupVersionBase, IsInGroupBase, GetMsgIdBase,
       IsInGroupStillBase, InsertMessageBase, IncMessageCountBase, ReadTotalBase,
       SetCountBase, GetGroupVersionBase, FillGroupMemberBase
    DEF Next, CreateStep, InsertNewMember, RemoveMember, SendStep, CounterStep, InfoStep
<1>. QED BY <1>1, <1>2

\* The base holds always, whichever calls fail.
THEOREM BaseCorrect == Spec => []Base
BY InitBase, BaseStep, PTL DEF Spec


\* A copy of the total on its way to a counter is behind the total too.
CountInv ==
    /\ CountNeverAhead
    /\ \A w \in Worker : work[w].pc = "set" => work[w].seen <= total

\* An id that is on its way to the table is not there, nor on its way twice.
IdsInv ==
    /\ msgs \in Seq(Ids) /\ answered \subseteq [id : Ids, from : User]
    /\ MessageIdsUnique
    /\ \A w \in Worker :
        /\ work[w].id \in Ids
        /\ work[w].pc \in {"isInAgain", "insert"} /\ work[w].id # BadId =>
            /\ \A i \in DOMAIN msgs : msgs[i] # work[w].id
            /\ \A v \in Worker \ {w} :
                work[v].pc \in {"isInAgain", "insert"} => work[v].id # work[w].id

\* A step that leaves messages and ids alone, in which nobody gets an id to store.
LEMMA IdsFrame ==
    ASSUME Types, IdsInv, NEW w \in Worker, work' = [work EXCEPT ![w] = work'[w]],
           UNCHANGED <<msgs, lastId>>, answered' \subseteq answered \cup [id : Ids, from : User],
           work'[w].id \in {work[w].id, NoId},
           work'[w].pc \in {"isInAgain", "insert"} =>
                work[w].pc \in {"isInAgain", "insert"} /\ work'[w].id = work[w].id
    PROVE  IdsInv'
<1>1. \A v \in Worker \ {w} : work'[v] = work[v]
    BY DEF Types
<1>2. Ids' = Ids /\ NoId \in Ids
    BY DEF Ids, NoId, Types, RestTypes
<1>3. ASSUME NEW x \in Worker
      PROVE  /\ work'[x].id \in Ids'
             /\ work'[x].pc \in {"isInAgain", "insert"} =>
                    work[x].pc \in {"isInAgain", "insert"} /\ work'[x].id = work[x].id
    BY <1>1, <1>2, <1>3 DEF IdsInv
<1>. QED BY <1>2, <1>3 DEF IdsInv, MessageIdsUnique

\* No step breaks an invariant, one proof step per action.
LEMMA IdsStep ==
    ASSUME Base, Base', IdsInv, [Next]_vars
    PROVE  IdsInv'
<1>. USE DEF Go, Done, At, Call, Idle, mysql, redis, out, hist
<1>0. /\ work \in [Worker -> WorkType] /\ work' \in [Worker -> WorkType]
      /\ RestTypes /\ RestTypes' /\ Alone /\ \A w \in Worker : Place(work[w])
    BY DEF Base, Types, Alone, Place
<1>1. ASSUME NEW w \in Worker, InsertNewGroup(w)
      PROVE  IdsInv'
    <2>1. /\ work' = [work EXCEPT ![w] = work'[w]]
          /\ UNCHANGED <<msgs, lastId>> /\ answered' \subseteq answered \cup [id : Ids, from : User]
          /\ work'[w].id \in {work[w].id, NoId}
          /\ work'[w].pc \in {"isInAgain", "insert"} =>
                work[w].pc \in {"isInAgain", "insert"} /\ work'[w].id = work[w].id
        BY <1>0, <1>1 DEF InsertNewGroup, Start, NoId, WorkType
    <2>. QED BY <2>1, IdsFrame DEF Base
<1>2. ASSUME NEW w \in Worker, AddResponsePdu(w)
      PROVE  IdsInv'
    <2>1. work[w].id \in Ids /\ work[w].user \in User
        BY <1>0, <1>2 DEF AddResponsePdu, IdsInv, Place, Route, Party
    <2>2. [id |-> work[w].id, from |-> work[w].user] \in [id : Ids, from : User]
        BY <2>1
    <2>3. UNCHANGED <<msgs, lastId>> /\ answered' \subseteq answered \cup [id : Ids, from : User]
        BY <1>2, <2>2 DEF AddResponsePdu
    <2>4. work' = [work EXCEPT ![w] = work'[w]] /\ work'[w].id = NoId /\ work'[w].pc = "start"
        BY <1>0, <1>2 DEF AddResponsePdu, NoId
    <2>. QED BY <2>3, <2>4, IdsFrame DEF Base
<1>3. ASSUME NEW w \in Worker, NEW u \in User, ReadAck(w, u)
      PROVE  IdsInv'
    <2>1. /\ work' = [work EXCEPT ![w] = work'[w]]
          /\ UNCHANGED <<msgs, lastId>> /\ answered' \subseteq answered \cup [id : Ids, from : User]
          /\ work'[w].id \in {work[w].id, NoId}
          /\ work'[w].pc \in {"isInAgain", "insert"} =>
                work[w].pc \in {"isInAgain", "insert"} /\ work'[w].id = work[w].id
        BY <1>0, <1>3 DEF ReadAck, Start, NoId, WorkType
    <2>. QED BY <2>1, IdsFrame DEF Base
<1>4. ASSUME NEW w \in Worker, NEW op \in DOMAIN First, NEW u \in User, Request(w, op, u)
      PROVE  IdsInv'
    <2>1. /\ work' = [work EXCEPT ![w] = work'[w]]
          /\ UNCHANGED <<msgs, lastId>> /\ answered' \subseteq answered \cup [id : Ids, from : User]
          /\ work'[w].id \in {work[w].id, NoId}
          /\ work'[w].pc \in {"isInAgain", "insert"} =>
                work[w].pc \in {"isInAgain", "insert"} /\ work'[w].id = work[w].id
        BY <1>0, <1>4, FirstCalls DEF Request, Start, IsValidate, NoId, WorkType
    <2>. QED BY <2>1, IdsFrame DEF Base
<1>5. ASSUME NEW w \in Worker, NEW ok \in BOOLEAN, ResetMsgId(w, ok)
      PROVE  IdsInv'
    <2>1. /\ work' = [work EXCEPT ![w] = work'[w]]
          /\ UNCHANGED <<msgs, lastId>> /\ answered' \subseteq answered \cup [id : Ids, from : User]
          /\ work'[w].id \in {work[w].id, NoId}
          /\ work'[w].pc \in {"isInAgain", "insert"} =>
                work[w].pc \in {"isInAgain", "insert"} /\ work'[w].id = work[w].id
        BY <1>0, <1>5 DEF ResetMsgId, NoId, WorkType, Base, Fresh, Quiet, Empty, Route, Place
    <2>. QED BY <2>1, IdsFrame DEF Base
<1>6. ASSUME NEW w \in Worker, NEW ok \in BOOLEAN, ClearRows(w, ok)
      PROVE  IdsInv'
    <2>1. /\ work' = [work EXCEPT ![w] = work'[w]]
          /\ UNCHANGED <<msgs, lastId>> /\ answered' \subseteq answered \cup [id : Ids, from : User]
          /\ work'[w].id \in {work[w].id, NoId}
          /\ work'[w].pc \in {"isInAgain", "insert"} =>
                work[w].pc \in {"isInAgain", "insert"} /\ work'[w].id = work[w].id
        BY <1>0, <1>6 DEF ClearRows, NoId, WorkType
    <2>. QED BY <2>1, IdsFrame DEF Base
<1>7. ASSUME NEW w \in Worker, NEW ok \in BOOLEAN, ClearHash(w, ok)
      PROVE  IdsInv'
    <2>1. /\ work' = [work EXCEPT ![w] = work'[w]]
          /\ UNCHANGED <<msgs, lastId>> /\ answered' \subseteq answered \cup [id : Ids, from : User]
          /\ work'[w].id \in {work[w].id, NoId}
          /\ work'[w].pc \in {"isInAgain", "insert"} =>
                work[w].pc \in {"isInAgain", "insert"} /\ work'[w].id = work[w].id
        BY <1>0, <1>7 DEF ClearHash, NoId, WorkType
    <2>. QED BY <2>1, IdsFrame DEF Base
<1>8. ASSUME NEW w \in Worker, NEW ok \in BOOLEAN, RemoveRepeatUser(w, ok)
      PROVE  IdsInv'
    <2>1. /\ work' = [work EXCEPT ![w] = work'[w]]
          /\ UNCHANGED <<msgs, lastId>> /\ answered' \subseteq answered \cup [id : Ids, from : User]
          /\ work'[w].id \in {work[w].id, NoId}
          /\ work'[w].pc \in {"isInAgain", "insert"} =>
                work[w].pc \in {"isInAgain", "insert"} /\ work'[w].id = work[w].id
        BY <1>0, <1>8 DEF RemoveRepeatUser, NoId, WorkType
    <2>. QED BY <2>1, IdsFrame DEF Base
<1>9. ASSUME NEW w \in Worker, NEW ok \in BOOLEAN, SelectHas(w, ok)
      PROVE  IdsInv'
    <2>1. /\ work' = [work EXCEPT ![w] = work'[w]]
          /\ UNCHANGED <<msgs, lastId>> /\ answered' \subseteq answered \cup [id : Ids, from : User]
          /\ work'[w].id \in {work[w].id, NoId}
          /\ work'[w].pc \in {"isInAgain", "insert"} =>
                work[w].pc \in {"isInAgain", "insert"} /\ work'[w].id = work[w].id
        BY <1>0, <1>9 DEF SelectHas, NoId, WorkType
    <2>. QED BY <2>1, IdsFrame DEF Base
<1>10. ASSUME NEW w \in Worker, NEW ok \in BOOLEAN, WriteRows(w, ok)
      PROVE  IdsInv'
    <2>1. /\ work' = [work EXCEPT ![w] = work'[w]]
          /\ UNCHANGED <<msgs, lastId>> /\ answered' \subseteq answered \cup [id : Ids, from : User]
          /\ work'[w].id \in {work[w].id, NoId}
          /\ work'[w].pc \in {"isInAgain", "insert"} =>
                work[w].pc \in {"isInAgain", "insert"} /\ work'[w].id = work[w].id
        BY <1>0, <1>10 DEF WriteRows, NoId, WorkType
    <2>. QED BY <2>1, IdsFrame DEF Base
<1>11. ASSUME NEW w \in Worker, NEW ok \in BOOLEAN, HSet(w, ok)
      PROVE  IdsInv'
    <2>1. /\ work' = [work EXCEPT ![w] = work'[w]]
          /\ UNCHANGED <<msgs, lastId>> /\ answered' \subseteq answered \cup [id : Ids, from : User]
          /\ work'[w].id \in {work[w].id, NoId}
          /\ work'[w].pc \in {"isInAgain", "insert"} =>
                work[w].pc \in {"isInAgain", "insert"} /\ work'[w].id = work[w].id
        BY <1>0, <1>11 DEF HSet, NoId, WorkType
    <2>. QED BY <2>1, IdsFrame DEF Base
<1>12. ASSUME NEW w \in Worker, NEW ok \in BOOLEAN, RowOut(w, ok)
      PROVE  IdsInv'
    <2>1. /\ work' = [work EXCEPT ![w] = work'[w]]
          /\ UNCHANGED <<msgs, lastId>> /\ answered' \subseteq answered \cup [id : Ids, from : User]
          /\ work'[w].id \in {work[w].id, NoId}
          /\ work'[w].pc \in {"isInAgain", "insert"} =>
                work[w].pc \in {"isInAgain", "insert"} /\ work'[w].id = work[w].id
        BY <1>0, <1>12 DEF RowOut, NoId, WorkType
    <2>. QED BY <2>1, IdsFrame DEF Base
<1>13. ASSUME NEW w \in Worker, NEW ok \in BOOLEAN, HDel(w, ok)
      PROVE  IdsInv'
    <2>1. /\ work' = [work EXCEPT ![w] = work'[w]]
          /\ UNCHANGED <<msgs, lastId>> /\ answered' \subseteq answered \cup [id : Ids, from : User]
          /\ work'[w].id \in {work[w].id, NoId}
          /\ work'[w].pc \in {"isInAgain", "insert"} =>
                work[w].pc \in {"isInAgain", "insert"} /\ work'[w].id = work[w].id
        BY <1>0, <1>13 DEF HDel, NoId, WorkType
    <2>. QED BY <2>1, IdsFrame DEF Base
<1>14. ASSUME NEW w \in Worker, NEW ok \in BOOLEAN, IncGroupVersion(w, ok)
      PROVE  IdsInv'
    <2>1. /\ work' = [work EXCEPT ![w] = work'[w]]
          /\ UNCHANGED <<msgs, lastId>> /\ answered' \subseteq answered \cup [id : Ids, from : User]
          /\ work'[w].id \in {work[w].id, NoId}
          /\ work'[w].pc \in {"isInAgain", "insert"} =>
                work[w].pc \in {"isInAgain", "insert"} /\ work'[w].id = work[w].id
        BY <1>0, <1>14 DEF IncGroupVersion, NoId, WorkType
    <2>. QED BY <2>1, IdsFrame DEF Base
<1>15. ASSUME NEW w \in Worker, NEW ok \in BOOLEAN, IsInGroup(w, ok)
      PROVE  IdsInv'
    <2>1. /\ work' = [work EXCEPT ![w] = work'[w]]
          /\ UNCHANGED <<msgs, lastId>> /\ answered' \subseteq answered \cup [id : Ids, from : User]
          /\ work'[w].id \in {work[w].id, NoId}
          /\ work'[w].pc \in {"isInAgain", "insert"} =>
                work[w].pc \in {"isInAgain", "insert"} /\ work'[w].id = work[w].id
        BY <1>0, <1>15 DEF IsInGroup, NoId, WorkType
    <2>. QED BY <2>1, IdsFrame DEF Base
<1>16. ASSUME NEW w \in Worker, NEW ok \in BOOLEAN, GetMsgId(w, ok)
      PROVE  IdsInv'
    <2>1. PICK id \in IF ok THEN {NextId} ELSE {NoId, BadId} :
            work' = [work EXCEPT ![w].id = id,
                                 ![w].pc = IF id = NoId THEN "answer" ELSE "isInAgain"]
        BY <1>16 DEF GetMsgId
    <2>2. /\ UNCHANGED <<msgs, answered>> /\ lastId \in Nat
          /\ lastId' = IF ok THEN lastId + 1 ELSE lastId
        BY <1>0, <1>16 DEF GetMsgId, NextId, RestTypes
    <2>3. id \in Ids' /\ Ids \subseteq Ids' /\ (id # BadId => id = NoId \/ id \notin Ids)
        BY <2>2, IdAssumption DEF NextId, Ids, NoId
    <2>4. /\ work'[w].id = id /\ (work'[w].pc \in {"isInAgain", "insert"} => id # NoId)
          /\ \A x \in Worker \ {w} : work'[x] = work[x]
        BY <1>0, <2>1 DEF WorkType
    <2>5. msgs' \in Seq(Ids') /\ \A i \in DOMAIN msgs : msgs[i] \in Ids
        BY <2>2, <2>3 DEF IdsInv
    <2>6. answered' \subseteq [id : Ids', from : User]
        BY <2>2, <2>3 DEF IdsInv
    <2>7. MessageIdsUnique' /\ \A x \in Worker : work'[x].id \in Ids'
        BY <2>2, <2>3, <2>4 DEF IdsInv, MessageIdsUnique
    <2>8. ASSUME NEW x \in Worker, work'[x].pc \in {"isInAgain", "insert"}, work'[x].id # BadId
          PROVE  /\ \A i \in DOMAIN msgs' : msgs'[i] # work'[x].id
                 /\ \A v \in Worker \ {x} :
                        work'[v].pc \in {"isInAgain", "insert"} => work'[v].id # work'[x].id
        BY <2>2, <2>3, <2>4, <2>5, <2>8 DEF IdsInv
    <2>. QED BY <2>5, <2>6, <2>7, <2>8 DEF IdsInv
<1>17. ASSUME NEW w \in Worker, NEW ok \in BOOLEAN, IsInGroupStill(w, ok)
      PROVE  IdsInv'
    <2>1. /\ work' = [work EXCEPT ![w] = work'[w]]
          /\ UNCHANGED <<msgs, lastId>> /\ answered' \subseteq answered \cup [id : Ids, from : User]
          /\ work'[w].id \in {work[w].id, NoId}
          /\ work'[w].pc \in {"isInAgain", "insert"} =>
                work[w].pc \in {"isInAgain", "insert"} /\ work'[w].id = work[w].id
        BY <1>0, <1>17 DEF IsInGroupStill, NoId, WorkType
    <2>. QED BY <2>1, IdsFrame DEF Base
<1>18. ASSUME NEW w \in Worker, NEW ok \in BOOLEAN, InsertMessage(w, ok)
      PROVE  IdsInv'
    <2>1. work[w].pc = "insert" /\ work' = [work EXCEPT ![w].pc = AfterInsert(ok)]
          /\ UNCHANGED <<lastId, answered>>
        BY <1>18 DEF InsertMessage
    <2>2. Ids' = Ids /\ work[w].id \in Ids /\ msgs \in Seq(Ids)
        BY <2>1 DEF Ids, IdsInv
    <2>3. CASE ~ok
      <3>1. msgs' = msgs
          BY <1>18, <2>3 DEF InsertMessage
      <3>. QED BY <1>0, <2>1, <2>3, <3>1, IdsFrame DEF Base, AfterInsert, WorkType
    <2>4. CASE ok
      <3>1. msgs' = Append(msgs, work[w].id) /\ work' = [work EXCEPT ![w].pc = "inc"]
          BY <1>18, <2>1, <2>4 DEF InsertMessage, AfterInsert
      <3>2. /\ msgs' \in Seq(Ids') /\ DOMAIN msgs = 1..Len(msgs) /\ Len(msgs) \in Nat
            /\ DOMAIN msgs' = 1..Len(msgs) + 1 /\ msgs'[Len(msgs) + 1] = work[w].id
            /\ \A i \in 1..Len(msgs) : msgs'[i] = msgs[i]
          BY <2>2, <3>1
      <3>3. \A x \in Worker :
                /\ work'[x].id = work[x].id
                /\ work'[x].pc \in {"isInAgain", "insert"} =>
                        x # w /\ work[x].pc \in {"isInAgain", "insert"}
          BY <1>0, <3>1 DEF WorkType
      <3>4. MessageIdsUnique'
          BY <2>1, <3>2 DEF IdsInv, MessageIdsUnique
      <3>5. ASSUME NEW x \in Worker, work'[x].pc \in {"isInAgain", "insert"}, work'[x].id # BadId
            PROVE  /\ \A i \in DOMAIN msgs' : msgs'[i] # work'[x].id
                   /\ \A v \in Worker \ {x} :
                        work'[v].pc \in {"isInAgain", "insert"} => work'[v].id # work'[x].id
          BY <2>1, <3>2, <3>3, <3>5 DEF IdsInv
      <3>. QED BY <2>1, <2>2, <3>2, <3>3, <3>4, <3>5 DEF IdsInv
    <2>. QED BY <2>3, <2>4
<1>19. ASSUME NEW w \in Worker, NEW ok \in BOOLEAN, IncMessageCount(w, ok)
      PROVE  IdsInv'
    <2>1. /\ work' = [work EXCEPT ![w] = work'[w]]
          /\ UNCHANGED <<msgs, lastId>> /\ answered' \subseteq answered \cup [id : Ids, from : User]
          /\ work'[w].id \in {work[w].id, NoId}
          /\ work'[w].pc \in {"isInAgain", "insert"} =>
                work[w].pc \in {"isInAgain", "insert"} /\ work'[w].id = work[w].id
        BY <1>0, <1>19 DEF IncMessageCount, NoId, WorkType
    <2>. QED BY <2>1, IdsFrame DEF Base
<1>20. ASSUME NEW w \in Worker, NEW ok \in BOOLEAN, ReadTotal(w, ok)
      PROVE  IdsInv'
    <2>1. /\ work' = [work EXCEPT ![w] = work'[w]]
          /\ UNCHANGED <<msgs, lastId>> /\ answered' \subseteq answered \cup [id : Ids, from : User]
          /\ work'[w].id \in {work[w].id, NoId}
          /\ work'[w].pc \in {"isInAgain", "insert"} =>
                work[w].pc \in {"isInAgain", "insert"} /\ work'[w].id = work[w].id
        BY <1>0, <1>20 DEF ReadTotal, AfterCopy, NoId, WorkType
    <2>. QED BY <2>1, IdsFrame DEF Base
<1>21. ASSUME NEW w \in Worker, NEW ok \in BOOLEAN, SetCount(w, ok)
      PROVE  IdsInv'
    <2>1. /\ work' = [work EXCEPT ![w] = work'[w]]
          /\ UNCHANGED <<msgs, lastId>> /\ answered' \subseteq answered \cup [id : Ids, from : User]
          /\ work'[w].id \in {work[w].id, NoId}
          /\ work'[w].pc \in {"isInAgain", "insert"} =>
                work[w].pc \in {"isInAgain", "insert"} /\ work'[w].id = work[w].id
        BY <1>0, <1>21 DEF SetCount, Copy, AfterCopy, NoId, WorkType
    <2>. QED BY <2>1, IdsFrame DEF Base
<1>22. ASSUME NEW w \in Worker, NEW ok \in BOOLEAN, GetGroupVersion(w, ok)
      PROVE  IdsInv'
    <2>1. /\ work' = [work EXCEPT ![w] = work'[w]]
          /\ UNCHANGED <<msgs, lastId>> /\ answered' \subseteq answered \cup [id : Ids, from : User]
          /\ work'[w].id \in {work[w].id, NoId}
          /\ work'[w].pc \in {"isInAgain", "insert"} =>
                work[w].pc \in {"isInAgain", "insert"} /\ work'[w].id = work[w].id
        BY <1>0, <1>22 DEF GetGroupVersion, NoId, WorkType
    <2>. QED BY <2>1, IdsFrame DEF Base
<1>23. ASSUME NEW w \in Worker, NEW ok \in BOOLEAN, FillGroupMember(w, ok)
      PROVE  IdsInv'
    <2>1. /\ work' = [work EXCEPT ![w] = work'[w]]
          /\ UNCHANGED <<msgs, lastId>> /\ answered' \subseteq answered \cup [id : Ids, from : User]
          /\ work'[w].id \in {work[w].id, NoId}
          /\ work'[w].pc \in {"isInAgain", "insert"} =>
                work[w].pc \in {"isInAgain", "insert"} /\ work'[w].id = work[w].id
        BY <1>0, <1>23 DEF FillGroupMember, Creating, NoId, WorkType
    <2>. QED BY <2>1, IdsFrame DEF Base
<1>24. CASE UNCHANGED vars
    BY <1>24 DEF IdsInv, Ids, NoId, MessageIdsUnique, vars
<1>. QED
    BY <1>1, <1>2, <1>3, <1>4, <1>5, <1>6, <1>7, <1>8, <1>9, <1>10, <1>11, <1>12, <1>13,
       <1>14, <1>15, <1>16, <1>17, <1>18, <1>19, <1>20, <1>21, <1>22, <1>23, <1>24
    DEF Next, CreateStep, InsertNewMember, RemoveMember, SendStep, CounterStep, InfoStep

LEMMA CountStep ==
    ASSUME Base, Base', CountInv, [Next]_vars
    PROVE  CountInv'
<1>. USE DEF Go, Done, At, Call, Idle, mysql, redis, out, hist
<1>0. /\ work \in [Worker -> WorkType] /\ work' \in [Worker -> WorkType]
      /\ RestTypes /\ RestTypes' /\ Alone /\ \A w \in Worker : Place(work[w])
    BY DEF Base, Types, Alone, Place
<1>1. ASSUME NEW w \in Worker, InsertNewGroup(w)
      PROVE  CountInv'
    BY <1>0, <1>1 DEF InsertNewGroup, Start, CountInv, CountNeverAhead, WorkType, RestTypes,
       Place, Route, Party
<1>2. ASSUME NEW w \in Worker, AddResponsePdu(w)
      PROVE  CountInv'
    BY <1>0, <1>2 DEF AddResponsePdu, CountInv, CountNeverAhead, WorkType, RestTypes, Place,
       Route, Party
<1>3. ASSUME NEW w \in Worker, NEW u \in User, ReadAck(w, u)
      PROVE  CountInv'
    BY <1>0, <1>3 DEF ReadAck, Start, CountInv, CountNeverAhead, WorkType, RestTypes, Place,
       Route, Party
<1>4. ASSUME NEW w \in Worker, NEW op \in DOMAIN First, NEW u \in User, Request(w, op, u)
      PROVE  CountInv'
    BY <1>0, <1>4, FirstCalls DEF Request, Start, IsValidate, CountInv, CountNeverAhead,
       WorkType, RestTypes, Place, Route, Party
<1>5. ASSUME NEW w \in Worker, NEW ok \in BOOLEAN, ResetMsgId(w, ok)
      PROVE  CountInv'
    BY <1>0, <1>5 DEF ResetMsgId, CountInv, CountNeverAhead, WorkType, RestTypes, Place,
       Route, Party
<1>6. ASSUME NEW w \in Worker, NEW ok \in BOOLEAN, ClearRows(w, ok)
      PROVE  CountInv'
    BY <1>0, <1>6 DEF ClearRows, CountInv, CountNeverAhead, WorkType, RestTypes, Place, Route,
       Party
<1>7. ASSUME NEW w \in Worker, NEW ok \in BOOLEAN, ClearHash(w, ok)
      PROVE  CountInv'
    BY <1>0, <1>7 DEF ClearHash, CountInv, CountNeverAhead, WorkType, RestTypes, Place, Route,
       Party
<1>8. ASSUME NEW w \in Worker, NEW ok \in BOOLEAN, RemoveRepeatUser(w, ok)
      PROVE  CountInv'
    BY <1>0, <1>8 DEF RemoveRepeatUser, CountInv, CountNeverAhead, WorkType, RestTypes, Place,
       Route, Party
<1>9. ASSUME NEW w \in Worker, NEW ok \in BOOLEAN, SelectHas(w, ok)
      PROVE  CountInv'
    BY <1>0, <1>9 DEF SelectHas, CountInv, CountNeverAhead, WorkType, RestTypes, Place, Route,
       Party
<1>10. ASSUME NEW w \in Worker, NEW ok \in BOOLEAN, WriteRows(w, ok)
      PROVE  CountInv'
    BY <1>0, <1>10 DEF WriteRows, CountInv, CountNeverAhead, WorkType, RestTypes, Place,
       Route, Party
<1>11. ASSUME NEW w \in Worker, NEW ok \in BOOLEAN, HSet(w, ok)
      PROVE  CountInv'
    BY <1>0, <1>11 DEF HSet, CountInv, CountNeverAhead, WorkType, RestTypes, Place, Route, Party
<1>12. ASSUME NEW w \in Worker, NEW ok \in BOOLEAN, RowOut(w, ok)
      PROVE  CountInv'
    BY <1>0, <1>12 DEF RowOut, CountInv, CountNeverAhead, WorkType, RestTypes, Place, Route,
       Party
<1>13. ASSUME NEW w \in Worker, NEW ok \in BOOLEAN, HDel(w, ok)
      PROVE  CountInv'
    BY <1>0, <1>13 DEF HDel, CountInv, CountNeverAhead, WorkType, RestTypes, Place, Route, Party
<1>14. ASSUME NEW w \in Worker, NEW ok \in BOOLEAN, IncGroupVersion(w, ok)
      PROVE  CountInv'
    BY <1>0, <1>14 DEF IncGroupVersion, CountInv, CountNeverAhead, WorkType, RestTypes, Place,
       Route, Party
<1>15. ASSUME NEW w \in Worker, NEW ok \in BOOLEAN, IsInGroup(w, ok)
      PROVE  CountInv'
    BY <1>0, <1>15 DEF IsInGroup, CountInv, CountNeverAhead, WorkType, RestTypes, Place,
       Route, Party
<1>16. ASSUME NEW w \in Worker, NEW ok \in BOOLEAN, GetMsgId(w, ok)
      PROVE  CountInv'
    BY <1>0, <1>16 DEF GetMsgId, NextId, CountInv, CountNeverAhead, WorkType, RestTypes,
       Place, Route, Party
<1>17. ASSUME NEW w \in Worker, NEW ok \in BOOLEAN, IsInGroupStill(w, ok)
      PROVE  CountInv'
    BY <1>0, <1>17 DEF IsInGroupStill, CountInv, CountNeverAhead, WorkType, RestTypes, Place,
       Route, Party
<1>18. ASSUME NEW w \in Worker, NEW ok \in BOOLEAN, InsertMessage(w, ok)
      PROVE  CountInv'
    BY <1>0, <1>18 DEF InsertMessage, AfterInsert, CountInv, CountNeverAhead, WorkType,
       RestTypes, Place, Route, Party
<1>19. ASSUME NEW w \in Worker, NEW ok \in BOOLEAN, IncMessageCount(w, ok)
      PROVE  CountInv'
    BY <1>0, <1>19 DEF IncMessageCount, CountInv, CountNeverAhead, WorkType, RestTypes, Place,
       Route, Party
<1>20. ASSUME NEW w \in Worker, NEW ok \in BOOLEAN, ReadTotal(w, ok)
      PROVE  CountInv'
    BY <1>0, <1>20 DEF ReadTotal, AfterCopy, CountInv, CountNeverAhead, WorkType, RestTypes,
       Place, Route, Party
<1>21. ASSUME NEW w \in Worker, NEW ok \in BOOLEAN, SetCount(w, ok)
      PROVE  CountInv'
    BY SMTT(30), <1>0, <1>21 DEF SetCount, Copy, AfterCopy, CountInv, CountNeverAhead, WorkType,
       RestTypes, Place, Route, Party
<1>22. ASSUME NEW w \in Worker, NEW ok \in BOOLEAN, GetGroupVersion(w, ok)
      PROVE  CountInv'
    BY <1>0, <1>22 DEF GetGroupVersion, CountInv, CountNeverAhead, WorkType, RestTypes, Place,
       Route, Party
<1>23. ASSUME NEW w \in Worker, NEW ok \in BOOLEAN, FillGroupMember(w, ok)
      PROVE  CountInv'
    BY <1>0, <1>23 DEF FillGroupMember, Creating, CountInv, CountNeverAhead, WorkType,
       RestTypes, Place, Route, Party
<1>24. CASE UNCHANGED vars
    BY <1>24 DEF CountInv, CountNeverAhead, vars
<1>. QED
    BY <1>1, <1>2, <1>3, <1>4, <1>5, <1>6, <1>7, <1>8, <1>9, <1>10, <1>11, <1>12, <1>13,
       <1>14, <1>15, <1>16, <1>17, <1>18, <1>19, <1>20, <1>21, <1>22, <1>23, <1>24
    DEF Next, CreateStep, InsertNewMember, RemoveMember, SendStep, CounterStep, InfoStep


\* Between a change of the members and the new version some worker is at "version".
VersionInv ==
    /\ cache.version # 0 /\ ~cache.early => \A w \in Worker : work[w].op # "create"
    /\ faults = 0 /\ cache.version = version /\ version # 0 /\ ~cache.early
         /\ (\A w \in Worker : work[w].pc # "version")
       => cache.members = member

\* Who holds an answer for a message that was not stored, and did not leave.
LostHeld ==
    {w \in Worker : /\ Holds(work[w]) /\ work[w].id # NoId
                    /\ work[w].user \notin left /\ ~IsStored(work[w].id)}

\* Message i is answered, or an answer is on its way.
Accounted(i) ==
    \/ \E a \in answered : a.id = msgs[i]
    \/ \E w \in Worker : Holds(work[w]) /\ work[w].id = msgs[i]

\* Who is between the id and the insertion is a member or has left, so that only a
\* call that fails keeps the message of one who stayed from being stored; each such
\* call is paid for by one lost answer, given or on its way.
AnswersInv ==
    /\ IsFiniteSet(answered)
    /\ \A w \in Worker :
        /\ work[w].pc = "hdel" => work[w].user \in left
        /\ work[w].pc \in {"id", "isInAgain", "insert"} => work[w].user \in member \cup left
    /\ \A i \in DOMAIN msgs : msgs[i] # NoId /\ Accounted(i)
    /\ Cardinality(Lost) + Cardinality(LostHeld) <= faults

\* No two requests about a user nobody clashed about.
ClashInv ==
    \A w \in Worker : \A v \in Worker \ {w} :
        /\ work[v].op \notin {"none", "create"} /\ work[v].user \notin clashed
        => /\ work[w].op \notin {"none", "create"} => work[w].user # work[v].user
           /\ work[w].op = "create" => work[v].user \notin Founder

\* A copy on its way is no older than the counter it will replace.
ReadInv ==
    \A w \in Worker : work[w].pc = "set" =>
        work[w].user \in clashed \/ cnt[work[w].user] <= work[w].seen

\* Steps that leave alone what each of these speaks of.
LEMMA VersionFrame ==
    ASSUME Types, VersionInv, NEW w \in Worker, work' = [work EXCEPT ![w] = work'[w]],
           UNCHANGED <<version, member, cache>>, faults' = 0 => faults = 0,
           work'[w].op = "create" => work[w].op = "create", work[w].pc # "version"
    PROVE  VersionInv'
BY DEF Types, VersionInv

LEMMA LossType ==
    ASSUME IsFiniteSet(answered)
    PROVE  /\ IsFiniteSet(Lost) /\ Cardinality(Lost) \in Nat
           /\ IsFiniteSet(LostHeld) /\ Cardinality(LostHeld) \in Nat
<1>1. Lost \subseteq answered /\ LostHeld \subseteq Worker
    BY DEF Lost, LostHeld
<1>. QED BY <1>1, WorkerAssumption, FS_Subset, FS_CardinalityType

\* A step that loses nothing.
LEMMA NothingLost ==
    ASSUME Types, Types', AnswersInv, Lost' \subseteq Lost, LostHeld' \subseteq LostHeld,
           faults <= faults'
    PROVE  Cardinality(Lost') + Cardinality(LostHeld') <= faults'
<1>1. faults \in Nat /\ faults' \in Nat
    BY BoundAssumption DEF Types, RestTypes
<1>2. /\ IsFiniteSet(Lost) /\ Cardinality(Lost) \in Nat
      /\ IsFiniteSet(LostHeld) /\ Cardinality(LostHeld) \in Nat
    BY LossType DEF AnswersInv
<1>3. /\ IsFiniteSet(Lost') /\ Cardinality(Lost') <= Cardinality(Lost)
      /\ IsFiniteSet(LostHeld') /\ Cardinality(LostHeld') <= Cardinality(LostHeld)
    BY <1>2, FS_Subset
<1>4. Cardinality(Lost') \in Nat /\ Cardinality(LostHeld') \in Nat
    BY <1>3, FS_CardinalityType
<1>. QED BY <1>1, <1>2, <1>3, <1>4 DEF AnswersInv

\* A call that fails: the message of worker w will not be stored.
LEMMA OneLost ==
    ASSUME Types, Types', AnswersInv, NEW w, Lost' \subseteq Lost,
           LostHeld' \subseteq LostHeld \cup {w}, faults' = faults + 1
    PROVE  Cardinality(Lost') + Cardinality(LostHeld') <= faults'
<1>1. faults \in Nat
    BY BoundAssumption DEF Types, RestTypes
<1>2. /\ IsFiniteSet(Lost) /\ Cardinality(Lost) \in Nat
      /\ IsFiniteSet(LostHeld) /\ Cardinality(LostHeld) \in Nat
    BY LossType DEF AnswersInv
<1>3. /\ IsFiniteSet(LostHeld \cup {w})
      /\ Cardinality(LostHeld \cup {w}) \in Nat
      /\ Cardinality(LostHeld \cup {w}) <= Cardinality(LostHeld) + 1
  <2>1. /\ IsFiniteSet(LostHeld \cup {w})
        /\ Cardinality(LostHeld \cup {w}) =
            IF w \in LostHeld THEN Cardinality(LostHeld) ELSE Cardinality(LostHeld) + 1
      BY <1>2, FS_AddElement
  <2>. QED BY <1>2, <2>1
<1>4. /\ IsFiniteSet(Lost') /\ Cardinality(Lost') <= Cardinality(Lost)
      /\ IsFiniteSet(LostHeld')
      /\ Cardinality(LostHeld') <= Cardinality(LostHeld \cup {w})
    BY <1>2, <1>3, FS_Subset
<1>5. Cardinality(Lost') \in Nat /\ Cardinality(LostHeld') \in Nat
    BY <1>4, FS_CardinalityType
<1>. QED BY <1>1, <1>2, <1>3, <1>4, <1>5 DEF AnswersInv

\* The answer to come of worker w is given.
LEMMA LossAnswered ==
    ASSUME Types, Types', AnswersInv, NEW a, NEW w \in LostHeld, Lost' \subseteq Lost \cup {a},
           LostHeld' \subseteq LostHeld \ {w}, faults' = faults
    PROVE  Cardinality(Lost') + Cardinality(LostHeld') <= faults'
<1>1. faults \in Nat
    BY BoundAssumption DEF Types, RestTypes
<1>2. /\ IsFiniteSet(Lost) /\ Cardinality(Lost) \in Nat
      /\ IsFiniteSet(LostHeld) /\ Cardinality(LostHeld) \in Nat
    BY LossType DEF AnswersInv
<1>3. /\ IsFiniteSet(Lost \cup {a})
      /\ Cardinality(Lost \cup {a}) \in Nat
      /\ Cardinality(Lost \cup {a}) <= Cardinality(Lost) + 1
  <2>1. /\ IsFiniteSet(Lost \cup {a})
        /\ Cardinality(Lost \cup {a}) =
            IF a \in Lost THEN Cardinality(Lost) ELSE Cardinality(Lost) + 1
      BY <1>2, FS_AddElement
  <2>. QED BY <1>2, <2>1
<1>4. /\ IsFiniteSet(LostHeld \ {w})
      /\ Cardinality(LostHeld \ {w}) = Cardinality(LostHeld) - 1
    BY <1>2, FS_RemoveElement
<1>5. /\ IsFiniteSet(Lost') /\ Cardinality(Lost') <= Cardinality(Lost \cup {a})
      /\ IsFiniteSet(LostHeld') /\ Cardinality(LostHeld') <= Cardinality(LostHeld \ {w})
    BY <1>3, <1>4, FS_Subset
<1>6. Cardinality(Lost') \in Nat /\ Cardinality(LostHeld') \in Nat
    BY <1>5, FS_CardinalityType
<1>. QED BY <1>1, <1>2, <1>3, <1>4, <1>5, <1>6 DEF AnswersInv

\* Worker w stores nothing, answers nothing and gives nothing up.
Steady(w) ==
    /\ work' = [work EXCEPT ![w] = work'[w]]
    /\ UNCHANGED <<msgs, answered>> /\ left \subseteq left' /\ faults <= faults'
    /\ member \subseteq member' \cup left'
    /\ work'[w].pc = "hdel" => work'[w].user \in left'
    /\ work'[w].pc \in {"id", "isInAgain", "insert"} => work'[w].user \in member' \cup left'
    /\ Holds(work[w]) => Holds(work'[w]) /\ work'[w].id = work[w].id
    /\ Holds(work'[w]) /\ work'[w].id # NoId =>
        Holds(work[w]) /\ work'[w].id = work[w].id /\ work'[w].user = work[w].user

LEMMA AnswersFrame ==
    ASSUME Types, Types', AnswersInv, NEW w \in Worker, Steady(w)
    PROVE  AnswersInv'
<1>1. /\ \A v \in Worker \ {w} : work'[v] = work[v]
      /\ msgs' = msgs /\ answered' = answered
    BY DEF Types, Steady
<1>2. \A v \in Worker :
        /\ work'[v].pc = "hdel" => work'[v].user \in left'
        /\ work'[v].pc \in {"id", "isInAgain", "insert"} => work'[v].user \in member' \cup left'
    BY <1>1 DEF AnswersInv, Steady
<1>3. \A v \in Worker : Holds(work[v]) => Holds(work'[v]) /\ work'[v].id = work[v].id
    BY <1>1 DEF Steady
<1>4. \A i \in DOMAIN msgs' : msgs'[i] # NoId /\ Accounted(i)'
    BY <1>1, <1>3 DEF AnswersInv, Accounted
<1>5. \A id : IsStored(id)' <=> IsStored(id)
    BY <1>1 DEF IsStored
<1>6. Lost' \subseteq Lost
    BY <1>1, <1>5 DEF Lost, Steady
<1>7. LostHeld' \subseteq LostHeld
  <2>. SUFFICES ASSUME NEW v \in LostHeld' PROVE v \in LostHeld
      OBVIOUS
  <2>1. /\ v \in Worker /\ Holds(work'[v]) /\ work'[v].id # NoId
        /\ work'[v].user \notin left'
        /\ ~\E i \in DOMAIN msgs' : msgs'[i] = work'[v].id
      BY DEF LostHeld, IsStored
  <2>2. Holds(work[v]) /\ work'[v].id = work[v].id /\ work'[v].user = work[v].user
      BY <1>1, <2>1 DEF Steady
  <2>. QED BY <1>1, <2>1, <2>2 DEF LostHeld, IsStored, Steady
<1>8. Cardinality(Lost') + Cardinality(LostHeld') <= faults'
    BY <1>6, <1>7, NothingLost DEF Steady
<1>. QED BY <1>1, <1>2, <1>4, <1>8 DEF AnswersInv

LEMMA ClashFrame ==
    ASSUME Types, ClashInv, NEW w \in Worker, work' = [work EXCEPT ![w] = work'[w]],
           clashed' = clashed,
           \/ work'[w].op = "none"
           \/ work'[w].op = work[w].op /\ work'[w].user = work[w].user
    PROVE  ClashInv'
<1>1. \A v \in Worker :
        work'[v].op # "none" => work'[v].op = work[v].op /\ work'[v].user = work[v].user
    BY DEF Types
<1>. QED BY <1>1 DEF ClashInv

LEMMA VersionStep ==
    ASSUME Base, Base', VersionInv, [Next]_vars
    PROVE  VersionInv'
<1>. USE DEF Go, Done, At, Call, Idle, mysql, redis, out, hist
<1>0. /\ work \in [Worker -> WorkType] /\ work' \in [Worker -> WorkType]
      /\ RestTypes /\ RestTypes' /\ Alone /\ \A w \in Worker : Place(work[w])
    BY DEF Base, Types, Alone, Place
<1>1. ASSUME NEW w \in Worker, InsertNewGroup(w)
      PROVE  VersionInv'
    BY <1>0, <1>1 DEF InsertNewGroup, Start, VersionInv, WorkType, RestTypes, Place, Route,
       Party
<1>2. ASSUME NEW w \in Worker, AddResponsePdu(w)
      PROVE  VersionInv'
    BY <1>0, <1>2 DEF AddResponsePdu, VersionInv, WorkType, RestTypes, Place, Route, Party
<1>3. ASSUME NEW w \in Worker, NEW u \in User, ReadAck(w, u)
      PROVE  VersionInv'
    <2>1. /\ work' = [work EXCEPT ![w] = work'[w]]
          /\ UNCHANGED <<version, member, cache>> /\ (faults' = 0 => faults = 0)
          /\ (work'[w].op = "create" => work[w].op = "create") /\ work[w].pc # "version"
        BY <1>0, <1>3 DEF ReadAck, Start, WorkType, RestTypes, Busy, Place, Route
    <2>. QED BY <2>1, VersionFrame DEF Base
<1>4. ASSUME NEW w \in Worker, NEW op \in DOMAIN First, NEW u \in User, Request(w, op, u)
      PROVE  VersionInv'
    <2>1. /\ work' = [work EXCEPT ![w] = work'[w]]
          /\ UNCHANGED <<version, member, cache>> /\ (faults' = 0 => faults = 0)
          /\ (work'[w].op = "create" => work[w].op = "create") /\ work[w].pc # "version"
        BY <1>0, <1>4, FirstCalls DEF Request, Start, IsValidate, WorkType, RestTypes, Busy,
           Place, Route
    <2>. QED BY <2>1, VersionFrame DEF Base
<1>5. ASSUME NEW w \in Worker, NEW ok \in BOOLEAN, ResetMsgId(w, ok)
      PROVE  VersionInv'
    BY <1>0, <1>5 DEF ResetMsgId, VersionInv, WorkType, RestTypes, Place, Route, Party
<1>6. ASSUME NEW w \in Worker, NEW ok \in BOOLEAN, ClearRows(w, ok)
      PROVE  VersionInv'
    BY <1>0, <1>6 DEF ClearRows, VersionInv, WorkType, RestTypes, Place, Route, Party
<1>7. ASSUME NEW w \in Worker, NEW ok \in BOOLEAN, ClearHash(w, ok)
      PROVE  VersionInv'
    BY <1>0, <1>7 DEF ClearHash, VersionInv, WorkType, RestTypes, Place, Route, Party
<1>8. ASSUME NEW w \in Worker, NEW ok \in BOOLEAN, RemoveRepeatUser(w, ok)
      PROVE  VersionInv'
    <2>1. /\ work' = [work EXCEPT ![w] = work'[w]]
          /\ UNCHANGED <<version, member, cache>> /\ (faults' = 0 => faults = 0)
          /\ (work'[w].op = "create" => work[w].op = "create") /\ work[w].pc # "version"
        BY <1>0, <1>8 DEF RemoveRepeatUser, WorkType, RestTypes
    <2>. QED BY <2>1, VersionFrame DEF Base
<1>9. ASSUME NEW w \in Worker, NEW ok \in BOOLEAN, SelectHas(w, ok)
      PROVE  VersionInv'
    <2>1. /\ work' = [work EXCEPT ![w] = work'[w]]
          /\ UNCHANGED <<version, member, cache>> /\ (faults' = 0 => faults = 0)
          /\ (work'[w].op = "create" => work[w].op = "create") /\ work[w].pc # "version"
        BY <1>0, <1>9 DEF SelectHas, WorkType, RestTypes
    <2>. QED BY <2>1, VersionFrame DEF Base
<1>10. ASSUME NEW w \in Worker, NEW ok \in BOOLEAN, WriteRows(w, ok)
      PROVE  VersionInv'
    <2>1. /\ work' = [work EXCEPT ![w] = work'[w]]
          /\ UNCHANGED <<version, member, cache>> /\ (faults' = 0 => faults = 0)
          /\ (work'[w].op = "create" => work[w].op = "create") /\ work[w].pc # "version"
        BY <1>0, <1>10 DEF WriteRows, WorkType, RestTypes
    <2>. QED BY <2>1, VersionFrame DEF Base
<1>11. ASSUME NEW w \in Worker, NEW ok \in BOOLEAN, HSet(w, ok)
      PROVE  VersionInv'
    BY <1>0, <1>11 DEF HSet, VersionInv, WorkType, RestTypes, Place, Route, Party
<1>12. ASSUME NEW w \in Worker, NEW ok \in BOOLEAN, RowOut(w, ok)
      PROVE  VersionInv'
    <2>1. /\ work' = [work EXCEPT ![w] = work'[w]]
          /\ UNCHANGED <<version, member, cache>> /\ (faults' = 0 => faults = 0)
          /\ (work'[w].op = "create" => work[w].op = "create") /\ work[w].pc # "version"
        BY <1>0, <1>12 DEF RowOut, WorkType, RestTypes
    <2>. QED BY <2>1, VersionFrame DEF Base
<1>13. ASSUME NEW w \in Worker, NEW ok \in BOOLEAN, HDel(w, ok)
      PROVE  VersionInv'
    BY <1>0, <1>13 DEF HDel, VersionInv, WorkType, RestTypes, Place, Route, Party
<1>14. ASSUME NEW w \in Worker, NEW ok \in BOOLEAN, IncGroupVersion(w, ok)
      PROVE  VersionInv'
    BY <1>0, <1>14 DEF IncGroupVersion, VersionInv, WorkType, RestTypes, Place, Route, Party
<1>15. ASSUME NEW w \in Worker, NEW ok \in BOOLEAN, IsInGroup(w, ok)
      PROVE  VersionInv'
    <2>1. /\ work' = [work EXCEPT ![w] = work'[w]]
          /\ UNCHANGED <<version, member, cache>> /\ (faults' = 0 => faults = 0)
          /\ (work'[w].op = "create" => work[w].op = "create") /\ work[w].pc # "version"
        BY <1>0, <1>15 DEF IsInGroup, WorkType, RestTypes
    <2>. QED BY <2>1, VersionFrame DEF Base
<1>16. ASSUME NEW w \in Worker, NEW ok \in BOOLEAN, GetMsgId(w, ok)
      PROVE  VersionInv'
    BY <1>0, <1>16 DEF GetMsgId, NextId, VersionInv, WorkType, RestTypes, Place, Route, Party
<1>17. ASSUME NEW w \in Worker, NEW ok \in BOOLEAN, IsInGroupStill(w, ok)
      PROVE  VersionInv'
    BY <1>0, <1>17 DEF IsInGroupStill, VersionInv, WorkType, RestTypes, Place, Route, Party
<1>18. ASSUME NEW w \in Worker, NEW ok \in BOOLEAN, InsertMessage(w, ok)
      PROVE  VersionInv'
    BY <1>0, <1>18 DEF InsertMessage, AfterInsert, VersionInv, WorkType, RestTypes, Place,
       Route, Party
<1>19. ASSUME NEW w \in Worker, NEW ok \in BOOLEAN, IncMessageCount(w, ok)
      PROVE  VersionInv'
    <2>1. /\ work' = [work EXCEPT ![w].pc = "read", ![w].again = TRUE] /\ work[w].pc = "inc"
          /\ UNCHANGED <<version, member, cache>> /\ (faults' = 0 => faults = 0)
        BY <1>0, <1>19 DEF IncMessageCount, RestTypes
    <2>2. work' = [work EXCEPT ![w] = work'[w]] /\ work'[w].op = work[w].op
        BY <1>0, <2>1 DEF WorkType
    <2>. QED BY <2>1, <2>2, VersionFrame DEF Base
<1>20. ASSUME NEW w \in Worker, NEW ok \in BOOLEAN, ReadTotal(w, ok)
      PROVE  VersionInv'
    <2>1. /\ work' = [work EXCEPT ![w] = work'[w]]
          /\ UNCHANGED <<version, member, cache>> /\ (faults' = 0 => faults = 0)
          /\ (work'[w].op = "create" => work[w].op = "create") /\ work[w].pc # "version"
        BY <1>0, <1>20 DEF ReadTotal, AfterCopy, WorkType, RestTypes
    <2>. QED BY <2>1, VersionFrame DEF Base
<1>21. ASSUME NEW w \in Worker, NEW ok \in BOOLEAN, SetCount(w, ok)
      PROVE  VersionInv'
    <2>1. /\ work' = [work EXCEPT ![w] = work'[w]]
          /\ UNCHANGED <<version, member, cache>> /\ (faults' = 0 => faults = 0)
          /\ (work'[w].op = "create" => work[w].op = "create") /\ work[w].pc # "version"
        BY <1>0, <1>21 DEF SetCount, Copy, AfterCopy, WorkType, RestTypes
    <2>. QED BY <2>1, VersionFrame DEF Base
<1>22. ASSUME NEW w \in Worker, NEW ok \in BOOLEAN, GetGroupVersion(w, ok)
      PROVE  VersionInv'
    <2>1. /\ work' = [work EXCEPT ![w] = work'[w]]
          /\ UNCHANGED <<version, member, cache>> /\ (faults' = 0 => faults = 0)
          /\ (work'[w].op = "create" => work[w].op = "create") /\ work[w].pc # "version"
        BY <1>0, <1>22 DEF GetGroupVersion, WorkType, RestTypes
    <2>. QED BY <2>1, VersionFrame DEF Base
<1>23. ASSUME NEW w \in Worker, NEW ok \in BOOLEAN, FillGroupMember(w, ok)
      PROVE  VersionInv'
    BY <1>0, <1>23 DEF FillGroupMember, Creating, VersionInv, WorkType, RestTypes, Place,
       Route, Party
<1>24. CASE UNCHANGED vars
    BY <1>24 DEF VersionInv, vars
<1>. QED
    BY <1>1, <1>2, <1>3, <1>4, <1>5, <1>6, <1>7, <1>8, <1>9, <1>10, <1>11, <1>12, <1>13,
       <1>14, <1>15, <1>16, <1>17, <1>18, <1>19, <1>20, <1>21, <1>22, <1>23, <1>24
    DEF Next, CreateStep, InsertNewMember, RemoveMember, SendStep, CounterStep, InfoStep

LEMMA AnswersStep ==
    ASSUME Base, Base', IdsInv, AnswersInv, [Next]_vars
    PROVE  AnswersInv'
<1>. USE DEF Go, Done, At, Call, Idle, mysql, redis, out, hist
<1>0. /\ work \in [Worker -> WorkType] /\ work' \in [Worker -> WorkType]
      /\ RestTypes /\ RestTypes' /\ Alone /\ \A w \in Worker : Place(work[w])
      /\ faults \in Nat /\ Types /\ Types'
    BY BoundAssumption DEF Base, Types, RestTypes, Alone, Place
<1>1. ASSUME NEW w \in Worker, InsertNewGroup(w)
      PROVE  AnswersInv'
    <2>1. Steady(w)
        BY SMTT(30), <1>0, <1>1
        DEF InsertNewGroup, Start, Busy, Steady, Holds, NoId, WorkType, RestTypes, Place, Route, AnswersInv
    <2>. QED BY <1>0, <2>1, AnswersFrame
<1>2. ASSUME NEW w \in Worker, AddResponsePdu(w)
      PROVE  AnswersInv'
    <2>. DEFINE a == [id |-> work[w].id, from |-> work[w].user]
    <2>1. /\ UNCHANGED <<msgs, member, left>> /\ faults' = faults
          /\ answered' = IF work[w].id = NoId THEN answered ELSE answered \cup {a}
          /\ Holds(work[w]) /\ work'[w].op = "none" /\ work'[w].pc = "start"
          /\ \A v \in Worker \ {w} : work'[v] = work[v]
        BY <1>0, <1>2 DEF AddResponsePdu, WorkType, Place, Route, Holds
    <2>2. IsFiniteSet(answered')
        BY <2>1, FS_AddElement DEF AnswersInv
    <2>3. \A v \in Worker :
            /\ work'[v].pc = "hdel" => work'[v].user \in left'
            /\ work'[v].pc \in {"id", "isInAgain", "insert"} =>
                work'[v].user \in member' \cup left'
        BY <2>1 DEF AnswersInv
    <2>4. \A i \in DOMAIN msgs' : msgs'[i] # NoId /\ Accounted(i)'
      <3>. SUFFICES ASSUME NEW i \in DOMAIN msgs PROVE msgs[i] # NoId /\ Accounted(i)'
          BY <2>1
      <3>1. msgs[i] # NoId /\ Accounted(i)
          BY DEF AnswersInv
      <3>2. CASE \E b \in answered : b.id = msgs[i]
          BY <2>1, <3>1, <3>2 DEF Accounted
      <3>3. CASE \E v \in Worker : Holds(work[v]) /\ work[v].id = msgs[i]
        <4>1. PICK v \in Worker : Holds(work[v]) /\ work[v].id = msgs[i]
            BY <3>3
        <4>2. CASE v = w
          <5>1. a \in answered' /\ a.id = msgs[i]
              BY <2>1, <3>1, <4>1, <4>2
          <5>. HIDE DEF a
          <5>. QED BY <2>1, <3>1, <5>1 DEF Accounted
        <4>3. CASE v # w
            BY <2>1, <3>1, <4>1, <4>3 DEF Accounted
        <4>. QED BY <4>2, <4>3
      <3>. QED BY <3>1, <3>2, <3>3 DEF Accounted
    <2>5. \A id : IsStored(id)' <=> IsStored(id)
        BY <2>1 DEF IsStored
    <2>6. LostHeld' \subseteq LostHeld \ {w}
        BY <2>1, <2>5 DEF LostHeld, Holds
    <2>7. CASE w \in LostHeld
      <3>1. Lost' \subseteq Lost \cup {a}
          BY <2>1, <2>5 DEF Lost
      <3>2. Cardinality(Lost') + Cardinality(LostHeld') <= faults'
          BY <1>0, <2>1, <2>6, <2>7, <3>1, LossAnswered
      <3>. QED BY <2>1, <2>2, <2>3, <2>4, <3>2 DEF AnswersInv
    <2>8. CASE w \notin LostHeld
      <3>1. Lost' \subseteq Lost
          BY <2>1, <2>5, <2>8 DEF Lost, LostHeld
      <3>2. Cardinality(Lost') + Cardinality(LostHeld') <= faults'
          BY <1>0, <2>1, <2>6, <3>1, NothingLost
      <3>. QED BY <2>1, <2>2, <2>3, <2>4, <3>2 DEF AnswersInv
    <2>. QED BY <2>7, <2>8
<1>3. ASSUME NEW w \in Worker, NEW u \in User, ReadAck(w, u)
      PROVE  AnswersInv'
    <2>1. Steady(w)
        BY SMTT(30), <1>0, <1>3
        DEF ReadAck, Start, Busy, Steady, Holds, NoId, WorkType, RestTypes, Place, Route, AnswersInv
    <2>. QED BY <1>0, <2>1, AnswersFrame
<1>4. ASSUME NEW w \in Worker, NEW op \in DOMAIN First, NEW u \in User, Request(w, op, u)
      PROVE  AnswersInv'
    <2>1. Steady(w)
        BY SMTT(30), <1>0, FirstCalls, <1>4
        DEF Request, Start, Busy, Steady, Holds, NoId, WorkType, RestTypes, Place, Route, AnswersInv
    <2>. QED BY <1>0, <2>1, AnswersFrame
<1>5. ASSUME NEW w \in Worker, NEW ok \in BOOLEAN, ResetMsgId(w, ok)
      PROVE  AnswersInv'
    <2>1. Steady(w)
        BY SMTT(30), <1>0, <1>5
        DEF ResetMsgId, Steady, Holds, NoId, WorkType, RestTypes, Place, Route, AnswersInv
    <2>. QED BY <1>0, <2>1, AnswersFrame
<1>6. ASSUME NEW w \in Worker, NEW ok \in BOOLEAN, ClearRows(w, ok)
      PROVE  AnswersInv'
    <2>1. Steady(w)
        BY SMTT(30), <1>0, <1>6
        DEF ClearRows, Steady, Holds, NoId, WorkType, RestTypes, Place, Route, AnswersInv
    <2>. QED BY <1>0, <2>1, AnswersFrame
<1>7. ASSUME NEW w \in Worker, NEW ok \in BOOLEAN, ClearHash(w, ok)
      PROVE  AnswersInv'
    <2>1. Quiet
        BY <1>0, <1>7 DEF ClearHash, Base, Fresh, Place, Route
    <2>2. /\ work' = [work EXCEPT ![w] = work'[w]]
          /\ work[w].op = "create" /\ work'[w].op = "create" /\ work'[w].pc = "select"
        BY <1>0, <1>7 DEF ClearHash, WorkType, Place, Route
    <2>3. /\ UNCHANGED <<msgs, answered, left>> /\ faults <= faults'
          /\ member' = member
        BY <1>0, <1>7, <2>1 DEF ClearHash, Quiet, Empty
    <2>4. Steady(w)
        BY <2>2, <2>3 DEF Steady, Holds
    <2>. QED BY <1>0, <2>4, AnswersFrame
<1>8. ASSUME NEW w \in Worker, NEW ok \in BOOLEAN, RemoveRepeatUser(w, ok)
      PROVE  AnswersInv'
    <2>1. Steady(w)
        BY SMTT(30), <1>0, <1>8
        DEF RemoveRepeatUser, Steady, Holds, NoId, WorkType, RestTypes, Place, Route, AnswersInv
    <2>. QED BY <1>0, <2>1, AnswersFrame
<1>9. ASSUME NEW w \in Worker, NEW ok \in BOOLEAN, SelectHas(w, ok)
      PROVE  AnswersInv'
    <2>1. Steady(w)
        BY SMTT(30), <1>0, <1>9
        DEF SelectHas, Steady, Holds, NoId, WorkType, RestTypes, Place, Route, AnswersInv
    <2>. QED BY <1>0, <2>1, AnswersFrame
<1>10. ASSUME NEW w \in Worker, NEW ok \in BOOLEAN, WriteRows(w, ok)
      PROVE  AnswersInv'
    <2>1. Steady(w)
        BY SMTT(30), <1>0, <1>10
        DEF WriteRows, Steady, Holds, NoId, WorkType, RestTypes, Place, Route, AnswersInv
    <2>. QED BY <1>0, <2>1, AnswersFrame
<1>11. ASSUME NEW w \in Worker, NEW ok \in BOOLEAN, HSet(w, ok)
      PROVE  AnswersInv'
    <2>1. Steady(w)
        BY SMTT(30), <1>0, <1>11
        DEF HSet, Steady, Holds, NoId, WorkType, RestTypes, Place, Route, AnswersInv
    <2>. QED BY <1>0, <2>1, AnswersFrame
<1>12. ASSUME NEW w \in Worker, NEW ok \in BOOLEAN, RowOut(w, ok)
      PROVE  AnswersInv'
    <2>1. Steady(w)
        BY SMTT(30), <1>0, <1>12
        DEF RowOut, Steady, Holds, NoId, WorkType, RestTypes, Place, Route, AnswersInv
    <2>. QED BY <1>0, <2>1, AnswersFrame
<1>13. ASSUME NEW w \in Worker, NEW ok \in BOOLEAN, HDel(w, ok)
      PROVE  AnswersInv'
    <2>1. Steady(w)
        BY SMTT(30), <1>0, <1>13
        DEF HDel, Steady, Holds, NoId, WorkType, RestTypes, Place, Route, AnswersInv
    <2>. QED BY <1>0, <2>1, AnswersFrame
<1>14. ASSUME NEW w \in Worker, NEW ok \in BOOLEAN, IncGroupVersion(w, ok)
      PROVE  AnswersInv'
    <2>1. Steady(w)
        BY SMTT(30), <1>0, <1>14
        DEF IncGroupVersion, Steady, Holds, NoId, WorkType, RestTypes, Place, Route, AnswersInv
    <2>. QED BY <1>0, <2>1, AnswersFrame
<1>15. ASSUME NEW w \in Worker, NEW ok \in BOOLEAN, IsInGroup(w, ok)
      PROVE  AnswersInv'
    <2>1. Steady(w)
        BY SMTT(30), <1>0, <1>15
        DEF IsInGroup, Steady, Holds, NoId, WorkType, RestTypes, Place, Route, AnswersInv
    <2>. QED BY <1>0, <2>1, AnswersFrame
<1>16. ASSUME NEW w \in Worker, NEW ok \in BOOLEAN, GetMsgId(w, ok)
      PROVE  AnswersInv'
    <2>1. Steady(w)
        BY SMTT(30), <1>0, <1>16
        DEF GetMsgId, NextId, Steady, Holds, NoId, WorkType, RestTypes, Place, Route, AnswersInv
    <2>. QED BY <1>0, <2>1, AnswersFrame
<1>17. ASSUME NEW w \in Worker, NEW ok \in BOOLEAN, IsInGroupStill(w, ok)
      PROVE  AnswersInv'
    <2>1. /\ UNCHANGED <<msgs, answered, member, left>>
          /\ work'[w].id = work[w].id /\ work'[w].user = work[w].user
          /\ work'[w].pc \in {"insert", "answer"} /\ work[w].pc = "isInAgain"
          /\ \A v \in Worker \ {w} : work'[v] = work[v]
          /\ work'[w].pc = "answer" /\ ok => work[w].user \notin member
          /\ ok => faults' = faults
          /\ ~ok => faults' = faults + 1
        BY <1>0, <1>17 DEF IsInGroupStill, WorkType
    <2>2. \A v \in Worker :
            /\ work'[v].pc = "hdel" => work'[v].user \in left'
            /\ work'[v].pc \in {"id", "isInAgain", "insert"} =>
                work'[v].user \in member' \cup left'
        BY <2>1 DEF AnswersInv
    <2>3. ~Holds(work[w])
        BY <2>1 DEF Holds
    <2>4. \A i \in DOMAIN msgs' : msgs'[i] # NoId /\ Accounted(i)'
        BY <2>1, <2>3 DEF AnswersInv, Accounted
    <2>5. \A id : IsStored(id)' <=> IsStored(id)
        BY <2>1 DEF IsStored
    <2>6. Lost' \subseteq Lost /\ LostHeld' \subseteq LostHeld \cup {w}
        BY <2>1, <2>5 DEF Lost, LostHeld
    <2>7. Cardinality(Lost') + Cardinality(LostHeld') <= faults'
      <3>1. CASE ok
        <4>1. w \notin LostHeld'
            BY <2>1, <3>1 DEF AnswersInv, LostHeld, Holds
        <4>2. LostHeld' \subseteq LostHeld
            BY <2>6, <4>1
        <4>. QED BY <1>0, <2>1, <2>6, <3>1, <4>2, NothingLost
      <3>2. CASE ~ok
          BY <1>0, <2>1, <2>6, <3>2, OneLost
      <3>. QED BY <3>1, <3>2
    <2>. QED BY <2>1, <2>2, <2>4, <2>7 DEF AnswersInv
<1>18. ASSUME NEW w \in Worker, NEW ok \in BOOLEAN, InsertMessage(w, ok)
      PROVE  AnswersInv'
    <2>1. /\ UNCHANGED <<answered, member, left>>
          /\ work'[w].id = work[w].id /\ work'[w].user = work[w].user /\ work'[w].op = "send"
          /\ work'[w].pc = AfterInsert(ok) /\ work[w].pc = "insert"
          /\ \A v \in Worker \ {w} : work'[v] = work[v]
          /\ msgs' = IF ok THEN Append(msgs, work[w].id) ELSE msgs
          /\ ok => faults' = faults
          /\ ~ok => faults' = faults + 1
        BY <1>0, <1>18 DEF InsertMessage, WorkType, Place, Route
    <2>2. /\ Holds(work'[w]) /\ ~Holds(work[w])
          /\ work'[w].pc \in {"inc", "answer"}
        BY <2>1 DEF Holds, AfterInsert
    <2>3. \A v \in Worker :
            /\ work'[v].pc = "hdel" => work'[v].user \in left'
            /\ work'[v].pc \in {"id", "isInAgain", "insert"} =>
                work'[v].user \in member' \cup left'
        BY <2>1, <2>2 DEF AnswersInv
    <2>4. msgs \in Seq(Ids)
        BY DEF IdsInv
    <2>5. ASSUME NEW i \in DOMAIN msgs'
          PROVE  msgs'[i] # NoId /\ Accounted(i)'
      <3>1. \/ i \in DOMAIN msgs /\ msgs'[i] = msgs[i]
            \/ msgs'[i] = work[w].id
          BY <2>1, <2>4
      <3>2. CASE msgs'[i] = work[w].id
          BY <1>0, <2>1, <2>2, <3>2 DEF Alone, Accounted
      <3>3. CASE i \in DOMAIN msgs /\ msgs'[i] = msgs[i]
        <4>1. \A v \in Worker : Holds(work[v]) => Holds(work'[v]) /\ work'[v].id = work[v].id
            BY <2>1, <2>2
        <4>. QED BY <2>1, <3>3, <4>1 DEF AnswersInv, Accounted
      <3>. QED BY <3>1, <3>2, <3>3
    <2>6. (ok => IsStored(work[w].id)') /\ \A id : IsStored(id) => IsStored(id)'
        BY <2>1, <2>4 DEF IsStored
    <2>7. Lost' \subseteq Lost /\ LostHeld' \subseteq LostHeld \cup {w}
        BY <2>1, <2>6 DEF Lost, LostHeld
    <2>8. Cardinality(Lost') + Cardinality(LostHeld') <= faults'
      <3>1. CASE ok
        <4>1. w \notin LostHeld'
            BY <2>1, <2>6, <3>1 DEF LostHeld
        <4>2. LostHeld' \subseteq LostHeld
            BY <2>7, <4>1
        <4>. QED BY <1>0, <2>1, <2>7, <3>1, <4>2, NothingLost
      <3>2. CASE ~ok
          BY <1>0, <2>1, <2>7, <3>2, OneLost
      <3>. QED BY <3>1, <3>2
    <2>. QED BY <2>1, <2>3, <2>5, <2>8 DEF AnswersInv
<1>19. ASSUME NEW w \in Worker, NEW ok \in BOOLEAN, IncMessageCount(w, ok)
      PROVE  AnswersInv'
    <2>0. /\ work' = [work EXCEPT ![w] = work'[w]]
          /\ work[w].op = "send" /\ work'[w].op = "send"
          /\ work[w].pc = "inc" /\ work'[w].pc = "read"
          /\ work'[w].id = work[w].id /\ work'[w].user = work[w].user
        BY <1>0, <1>19 DEF IncMessageCount, WorkType, Place, Route
    <2>1. Steady(w)
        BY <1>0, <1>19, <2>0 DEF IncMessageCount, Steady, Holds
    <2>. QED BY <1>0, <2>1, AnswersFrame
<1>20. ASSUME NEW w \in Worker, NEW ok \in BOOLEAN, ReadTotal(w, ok)
      PROVE  AnswersInv'
    <2>1. Steady(w)
        BY SMTT(30), <1>0, <1>20
        DEF ReadTotal, AfterCopy, Steady, Holds, NoId, WorkType, RestTypes, Place, Route, AnswersInv
    <2>. QED BY <1>0, <2>1, AnswersFrame
<1>21. ASSUME NEW w \in Worker, NEW ok \in BOOLEAN, SetCount(w, ok)
      PROVE  AnswersInv'
    <2>1. Steady(w)
        BY SMTT(30), <1>0, <1>21
        DEF SetCount, AfterCopy, Steady, Holds, NoId, WorkType, RestTypes, Place, Route, AnswersInv
    <2>. QED BY <1>0, <2>1, AnswersFrame
<1>22. ASSUME NEW w \in Worker, NEW ok \in BOOLEAN, GetGroupVersion(w, ok)
      PROVE  AnswersInv'
    <2>1. Steady(w)
        BY SMTT(30), <1>0, <1>22
        DEF GetGroupVersion, Steady, Holds, NoId, WorkType, RestTypes, Place, Route, AnswersInv
    <2>. QED BY <1>0, <2>1, AnswersFrame
<1>23. ASSUME NEW w \in Worker, NEW ok \in BOOLEAN, FillGroupMember(w, ok)
      PROVE  AnswersInv'
    <2>1. Steady(w)
        BY SMTT(30), <1>0, <1>23
        DEF FillGroupMember, Steady, Holds, NoId, WorkType, RestTypes, Place, Route, AnswersInv
    <2>. QED BY <1>0, <2>1, AnswersFrame
<1>24. CASE UNCHANGED vars
  <2>1. UNCHANGED <<msgs, answered, member, left, faults, work>>
      BY <1>24 DEF vars
  <2>2. /\ \A id : IsStored(id)' <=> IsStored(id)
        /\ \A w \in Worker : Holds(work'[w]) <=> Holds(work[w])
      BY <2>1 DEF IsStored
  <2>3. Lost' = Lost /\ LostHeld' = LostHeld
      BY <2>1, <2>2 DEF Lost, LostHeld
  <2>. QED BY <2>1, <2>2, <2>3 DEF AnswersInv, Accounted
<1>. QED
    BY <1>1, <1>2, <1>3, <1>4, <1>5, <1>6, <1>7, <1>8, <1>9, <1>10, <1>11, <1>12, <1>13,
       <1>14, <1>15, <1>16, <1>17, <1>18, <1>19, <1>20, <1>21, <1>22, <1>23, <1>24
    DEF Next, CreateStep, InsertNewMember, RemoveMember, SendStep, CounterStep, InfoStep

LEMMA ClashStep ==
    ASSUME Base, Base', ClashInv, [Next]_vars
    PROVE  ClashInv'
<1>. USE DEF Go, Done, At, Call, Idle, mysql, redis, out, hist
<1>0. /\ work \in [Worker -> WorkType] /\ work' \in [Worker -> WorkType]
      /\ RestTypes /\ RestTypes' /\ Alone /\ \A w \in Worker : Place(work[w])
    BY DEF Base, Types, Alone, Place
<1>1. ASSUME NEW w \in Worker, InsertNewGroup(w)
      PROVE  ClashInv'
    BY <1>0, <1>1 DEF InsertNewGroup, Start, ClashInv, About, Busy, WorkType, RestTypes,
       Place, Route, Party
<1>2. ASSUME NEW w \in Worker, AddResponsePdu(w)
      PROVE  ClashInv'
    BY <1>0, <1>2 DEF AddResponsePdu, ClashInv, About, Busy, WorkType, RestTypes, Place,
       Route, Party
<1>3. ASSUME NEW w \in Worker, NEW u \in User, ReadAck(w, u)
      PROVE  ClashInv'
    BY <1>0, <1>3 DEF ReadAck, Start, ClashInv, About, Busy, WorkType, RestTypes, Place,
       Route, Party
<1>4. ASSUME NEW w \in Worker, NEW op \in DOMAIN First, NEW u \in User, Request(w, op, u)
      PROVE  ClashInv'
    BY <1>0, <1>4, FirstCalls DEF Request, Start, IsValidate, ClashInv, About, Busy, WorkType,
       RestTypes, Place, Route, Party
<1>5. ASSUME NEW w \in Worker, NEW ok \in BOOLEAN, ResetMsgId(w, ok)
      PROVE  ClashInv'
    BY <1>0, <1>5 DEF ResetMsgId, ClashInv, About, Busy, WorkType, RestTypes, Place, Route,
       Party
<1>6. ASSUME NEW w \in Worker, NEW ok \in BOOLEAN, ClearRows(w, ok)
      PROVE  ClashInv'
    BY <1>0, <1>6 DEF ClearRows, ClashInv, About, Busy, WorkType, RestTypes, Place, Route, Party
<1>7. ASSUME NEW w \in Worker, NEW ok \in BOOLEAN, ClearHash(w, ok)
      PROVE  ClashInv'
    BY <1>0, <1>7 DEF ClearHash, ClashInv, About, Busy, WorkType, RestTypes, Place, Route, Party
<1>8. ASSUME NEW w \in Worker, NEW ok \in BOOLEAN, RemoveRepeatUser(w, ok)
      PROVE  ClashInv'
    BY <1>0, <1>8 DEF RemoveRepeatUser, ClashInv, About, Busy, WorkType, RestTypes, Place,
       Route, Party
<1>9. ASSUME NEW w \in Worker, NEW ok \in BOOLEAN, SelectHas(w, ok)
      PROVE  ClashInv'
    <2>1. /\ work' = [work EXCEPT ![w] = work'[w]] /\ clashed' = clashed
          /\ \/ work'[w].op = "none"
             \/ work'[w].op = work[w].op /\ work'[w].user = work[w].user
        BY <1>0, <1>9 DEF SelectHas, WorkType
    <2>. QED BY <2>1, ClashFrame DEF Base
<1>10. ASSUME NEW w \in Worker, NEW ok \in BOOLEAN, WriteRows(w, ok)
      PROVE  ClashInv'
    BY <1>0, <1>10 DEF WriteRows, ClashInv, About, Busy, WorkType, RestTypes, Place, Route,
       Party
<1>11. ASSUME NEW w \in Worker, NEW ok \in BOOLEAN, HSet(w, ok)
      PROVE  ClashInv'
    BY <1>0, <1>11 DEF HSet, ClashInv, About, Busy, WorkType, RestTypes, Place, Route, Party
<1>12. ASSUME NEW w \in Worker, NEW ok \in BOOLEAN, RowOut(w, ok)
      PROVE  ClashInv'
    <2>1. /\ work' = [work EXCEPT ![w] = work'[w]] /\ clashed' = clashed
          /\ \/ work'[w].op = "none"
             \/ work'[w].op = work[w].op /\ work'[w].user = work[w].user
        BY <1>0, <1>12 DEF RowOut, WorkType
    <2>. QED BY <2>1, ClashFrame DEF Base
<1>13. ASSUME NEW w \in Worker, NEW ok \in BOOLEAN, HDel(w, ok)
      PROVE  ClashInv'
    BY <1>0, <1>13 DEF HDel, ClashInv, About, Busy, WorkType, RestTypes, Place, Route, Party
<1>14. ASSUME NEW w \in Worker, NEW ok \in BOOLEAN, IncGroupVersion(w, ok)
      PROVE  ClashInv'
    BY <1>0, <1>14 DEF IncGroupVersion, ClashInv, About, Busy, WorkType, RestTypes, Place,
       Route, Party
<1>15. ASSUME NEW w \in Worker, NEW ok \in BOOLEAN, IsInGroup(w, ok)
      PROVE  ClashInv'
    BY <1>0, <1>15 DEF IsInGroup, ClashInv, About, Busy, WorkType, RestTypes, Place, Route,
       Party
<1>16. ASSUME NEW w \in Worker, NEW ok \in BOOLEAN, GetMsgId(w, ok)
      PROVE  ClashInv'
    BY <1>0, <1>16 DEF GetMsgId, NextId, ClashInv, About, Busy, WorkType, RestTypes, Place,
       Route, Party
<1>17. ASSUME NEW w \in Worker, NEW ok \in BOOLEAN, IsInGroupStill(w, ok)
      PROVE  ClashInv'
    BY <1>0, <1>17 DEF IsInGroupStill, ClashInv, About, Busy, WorkType, RestTypes, Place,
       Route, Party
<1>18. ASSUME NEW w \in Worker, NEW ok \in BOOLEAN, InsertMessage(w, ok)
      PROVE  ClashInv'
    BY <1>0, <1>18 DEF InsertMessage, AfterInsert, ClashInv, About, Busy, WorkType, RestTypes,
       Place, Route, Party
<1>19. ASSUME NEW w \in Worker, NEW ok \in BOOLEAN, IncMessageCount(w, ok)
      PROVE  ClashInv'
    BY <1>0, <1>19 DEF IncMessageCount, ClashInv, About, Busy, WorkType, RestTypes, Place,
       Route, Party
<1>20. ASSUME NEW w \in Worker, NEW ok \in BOOLEAN, ReadTotal(w, ok)
      PROVE  ClashInv'
    BY <1>0, <1>20 DEF ReadTotal, AfterCopy, ClashInv, About, Busy, WorkType, RestTypes,
       Place, Route, Party
<1>21. ASSUME NEW w \in Worker, NEW ok \in BOOLEAN, SetCount(w, ok)
      PROVE  ClashInv'
    BY <1>0, <1>21 DEF SetCount, Copy, AfterCopy, ClashInv, About, Busy, WorkType, RestTypes,
       Place, Route, Party
<1>22. ASSUME NEW w \in Worker, NEW ok \in BOOLEAN, GetGroupVersion(w, ok)
      PROVE  ClashInv'
    BY <1>0, <1>22 DEF GetGroupVersion, ClashInv, About, Busy, WorkType, RestTypes, Place,
       Route, Party
<1>23. ASSUME NEW w \in Worker, NEW ok \in BOOLEAN, FillGroupMember(w, ok)
      PROVE  ClashInv'
    BY <1>0, <1>23 DEF FillGroupMember, Creating, ClashInv, About, Busy, WorkType, RestTypes,
       Place, Route, Party
<1>24. CASE UNCHANGED vars
    BY <1>24 DEF ClashInv, About, Busy, vars
<1>. QED
    BY <1>1, <1>2, <1>3, <1>4, <1>5, <1>6, <1>7, <1>8, <1>9, <1>10, <1>11, <1>12, <1>13,
       <1>14, <1>15, <1>16, <1>17, <1>18, <1>19, <1>20, <1>21, <1>22, <1>23, <1>24
    DEF Next, CreateStep, InsertNewMember, RemoveMember, SendStep, CounterStep, InfoStep

LEMMA ReadStep ==
    ASSUME Base, Base', CountInv, ClashInv, ReadInv, [Next]_vars
    PROVE  ReadInv'
<1>. USE DEF Go, Done, At, Call, Idle, mysql, redis, out, hist
<1>0. /\ work \in [Worker -> WorkType] /\ work' \in [Worker -> WorkType]
      /\ RestTypes /\ RestTypes' /\ Alone /\ \A w \in Worker : Place(work[w])
    BY DEF Base, Types, Alone, Place
<1>1. ASSUME NEW w \in Worker, InsertNewGroup(w)
      PROVE  ReadInv'
    BY <1>0, <1>1 DEF InsertNewGroup, Start, ReadInv, ClashInv, CountInv, CountNeverAhead,
       WorkType, RestTypes, Place, Route, Party
<1>2. ASSUME NEW w \in Worker, AddResponsePdu(w)
      PROVE  ReadInv'
    BY <1>0, <1>2 DEF AddResponsePdu, ReadInv, ClashInv, CountInv, CountNeverAhead, WorkType,
       RestTypes, Place, Route, Party
<1>3. ASSUME NEW w \in Worker, NEW u \in User, ReadAck(w, u)
      PROVE  ReadInv'
    BY <1>0, <1>3 DEF ReadAck, Start, ReadInv, ClashInv, CountInv, CountNeverAhead, WorkType,
       RestTypes, Place, Route, Party
<1>4. ASSUME NEW w \in Worker, NEW op \in DOMAIN First, NEW u \in User, Request(w, op, u)
      PROVE  ReadInv'
    BY <1>0, <1>4, FirstCalls DEF Request, Start, IsValidate, ReadInv, ClashInv, CountInv,
       CountNeverAhead, WorkType, RestTypes, Place, Route, Party
<1>5. ASSUME NEW w \in Worker, NEW ok \in BOOLEAN, ResetMsgId(w, ok)
      PROVE  ReadInv'
    BY <1>0, <1>5 DEF ResetMsgId, ReadInv, ClashInv, CountInv, CountNeverAhead, WorkType,
       RestTypes, Place, Route, Party
<1>6. ASSUME NEW w \in Worker, NEW ok \in BOOLEAN, ClearRows(w, ok)
      PROVE  ReadInv'
    BY <1>0, <1>6 DEF ClearRows, ReadInv, ClashInv, CountInv, CountNeverAhead, WorkType,
       RestTypes, Place, Route, Party
<1>7. ASSUME NEW w \in Worker, NEW ok \in BOOLEAN, ClearHash(w, ok)
      PROVE  ReadInv'
    BY <1>0, <1>7 DEF ClearHash, ReadInv, ClashInv, CountInv, CountNeverAhead, WorkType,
       RestTypes, Place, Route, Party
<1>8. ASSUME NEW w \in Worker, NEW ok \in BOOLEAN, RemoveRepeatUser(w, ok)
      PROVE  ReadInv'
    BY <1>0, <1>8 DEF RemoveRepeatUser, ReadInv, ClashInv, CountInv, CountNeverAhead,
       WorkType, RestTypes, Place, Route, Party
<1>9. ASSUME NEW w \in Worker, NEW ok \in BOOLEAN, SelectHas(w, ok)
      PROVE  ReadInv'
    BY <1>0, <1>9 DEF SelectHas, ReadInv, ClashInv, CountInv, CountNeverAhead, WorkType,
       RestTypes, Place, Route, Party
<1>10. ASSUME NEW w \in Worker, NEW ok \in BOOLEAN, WriteRows(w, ok)
      PROVE  ReadInv'
    BY <1>0, <1>10 DEF WriteRows, ReadInv, ClashInv, CountInv, CountNeverAhead, WorkType,
       RestTypes, Place, Route, Party
<1>11. ASSUME NEW w \in Worker, NEW ok \in BOOLEAN, HSet(w, ok)
      PROVE  ReadInv'
    BY <1>0, <1>11 DEF HSet, ReadInv, ClashInv, CountInv, CountNeverAhead, WorkType,
       RestTypes, Place, Route, Party
<1>12. ASSUME NEW w \in Worker, NEW ok \in BOOLEAN, RowOut(w, ok)
      PROVE  ReadInv'
    <2>1. /\ work' = [work EXCEPT ![w] = work'[w]] /\ work'[w].pc # "set"
          /\ UNCHANGED <<cnt, clashed>>
        BY <1>0, <1>12 DEF RowOut, WorkType
    <2>. QED BY <1>0, <2>1 DEF ReadInv
<1>13. ASSUME NEW w \in Worker, NEW ok \in BOOLEAN, HDel(w, ok)
      PROVE  ReadInv'
    BY <1>0, <1>13 DEF HDel, ReadInv, ClashInv, CountInv, CountNeverAhead, WorkType,
       RestTypes, Place, Route, Party
<1>14. ASSUME NEW w \in Worker, NEW ok \in BOOLEAN, IncGroupVersion(w, ok)
      PROVE  ReadInv'
    BY <1>0, <1>14 DEF IncGroupVersion, ReadInv, ClashInv, CountInv, CountNeverAhead,
       WorkType, RestTypes, Place, Route, Party
<1>15. ASSUME NEW w \in Worker, NEW ok \in BOOLEAN, IsInGroup(w, ok)
      PROVE  ReadInv'
    BY <1>0, <1>15 DEF IsInGroup, ReadInv, ClashInv, CountInv, CountNeverAhead, WorkType,
       RestTypes, Place, Route, Party
<1>16. ASSUME NEW w \in Worker, NEW ok \in BOOLEAN, GetMsgId(w, ok)
      PROVE  ReadInv'
    BY <1>0, <1>16 DEF GetMsgId, NextId, ReadInv, ClashInv, CountInv, CountNeverAhead,
       WorkType, RestTypes, Place, Route, Party
<1>17. ASSUME NEW w \in Worker, NEW ok \in BOOLEAN, IsInGroupStill(w, ok)
      PROVE  ReadInv'
    BY <1>0, <1>17 DEF IsInGroupStill, ReadInv, ClashInv, CountInv, CountNeverAhead, WorkType,
       RestTypes, Place, Route, Party
<1>18. ASSUME NEW w \in Worker, NEW ok \in BOOLEAN, InsertMessage(w, ok)
      PROVE  ReadInv'
    BY <1>0, <1>18 DEF InsertMessage, AfterInsert, ReadInv, ClashInv, CountInv,
       CountNeverAhead, WorkType, RestTypes, Place, Route, Party
<1>19. ASSUME NEW w \in Worker, NEW ok \in BOOLEAN, IncMessageCount(w, ok)
      PROVE  ReadInv'
    BY <1>0, <1>19 DEF IncMessageCount, ReadInv, ClashInv, CountInv, CountNeverAhead,
       WorkType, RestTypes, Place, Route, Party
<1>20. ASSUME NEW w \in Worker, NEW ok \in BOOLEAN, ReadTotal(w, ok)
      PROVE  ReadInv'
    BY SMTT(30), <1>0, <1>20 DEF ReadTotal, AfterCopy, ReadInv, ClashInv, CountInv, CountNeverAhead,
       WorkType, RestTypes, Place, Route, Party
<1>21. ASSUME NEW w \in Worker, NEW ok \in BOOLEAN, SetCount(w, ok)
      PROVE  ReadInv'
    BY SMTT(30), <1>0, <1>21 DEF SetCount, Copy, AfterCopy, ReadInv, ClashInv, CountInv,
       CountNeverAhead, WorkType, RestTypes, Place, Route, Party
<1>22. ASSUME NEW w \in Worker, NEW ok \in BOOLEAN, GetGroupVersion(w, ok)
      PROVE  ReadInv'
    BY <1>0, <1>22 DEF GetGroupVersion, ReadInv, ClashInv, CountInv, CountNeverAhead,
       WorkType, RestTypes, Place, Route, Party
<1>23. ASSUME NEW w \in Worker, NEW ok \in BOOLEAN, FillGroupMember(w, ok)
      PROVE  ReadInv'
    BY <1>0, <1>23 DEF FillGroupMember, Creating, ReadInv, ClashInv, CountInv,
       CountNeverAhead, WorkType, RestTypes, Place, Route, Party
<1>24. CASE UNCHANGED vars
    BY <1>24 DEF ReadInv, ClashInv, CountInv, CountNeverAhead, vars
<1>. QED
    BY <1>1, <1>2, <1>3, <1>4, <1>5, <1>6, <1>7, <1>8, <1>9, <1>10, <1>11, <1>12, <1>13,
       <1>14, <1>15, <1>16, <1>17, <1>18, <1>19, <1>20, <1>21, <1>22, <1>23, <1>24
    DEF Next, CreateStep, InsertNewMember, RemoveMember, SendStep, CounterStep, InfoStep

Storers == {w \in Worker : Storing(w)}

\* The messages not yet counted are those of the workers at "inc".
TotalInv ==
    /\ total + Cardinality(Storers) <= Len(msgs)
    /\ faults = 0 => total + Cardinality(Storers) = Len(msgs)

LEMMA StorersType == IsFiniteSet(Storers) /\ Cardinality(Storers) \in Nat
BY WorkerAssumption, FS_Subset, FS_CardinalityType DEF Storers

LEMMA TotalFrame ==
    ASSUME Types, TotalInv, NEW w \in Worker, work' = [work EXCEPT ![w] = work'[w]],
           UNCHANGED <<msgs, total>>, faults' = 0 => faults = 0,
           work[w].pc # "inc", work'[w].pc # "inc"
    PROVE  TotalInv'
<1>1. Storers' = Storers
    BY DEF Types, Storers, Storing
<1>. QED BY <1>1 DEF TotalInv

LEMMA TotalStep ==
    ASSUME Base, Base', IdsInv, TotalInv, [Next]_vars
    PROVE  TotalInv'
<1>. USE DEF Go, Done, At, Call, Idle, mysql, redis, out, hist
<1>0. /\ work \in [Worker -> WorkType] /\ work' \in [Worker -> WorkType]
      /\ RestTypes /\ RestTypes' /\ Alone /\ \A w \in Worker : Place(work[w])
    BY DEF Base, Types, Alone, Place
<1>1. ASSUME NEW w \in Worker, InsertNewGroup(w)
      PROVE  TotalInv'
    <2>1. /\ work' = [work EXCEPT ![w] = work'[w]]
          /\ UNCHANGED <<msgs, total>> /\ (faults' = 0 => faults = 0)
          /\ work[w].pc # "inc" /\ work'[w].pc # "inc"
        BY <1>0, <1>1 DEF InsertNewGroup, Start, WorkType, RestTypes, Busy, Place, Route
    <2>. QED BY <2>1, TotalFrame DEF Base
<1>2. ASSUME NEW w \in Worker, AddResponsePdu(w)
      PROVE  TotalInv'
    <2>1. /\ work' = [work EXCEPT ![w] = work'[w]]
          /\ UNCHANGED <<msgs, total>> /\ (faults' = 0 => faults = 0)
          /\ work[w].pc # "inc" /\ work'[w].pc # "inc"
        BY <1>0, <1>2 DEF AddResponsePdu, WorkType, RestTypes
    <2>. QED BY <2>1, TotalFrame DEF Base
<1>3. ASSUME NEW w \in Worker, NEW u \in User, ReadAck(w, u)
      PROVE  TotalInv'
    <2>1. /\ work' = [work EXCEPT ![w] = work'[w]]
          /\ UNCHANGED <<msgs, total>> /\ (faults' = 0 => faults = 0)
          /\ work[w].pc # "inc" /\ work'[w].pc # "inc"
        BY <1>0, <1>3 DEF ReadAck, Start, WorkType, RestTypes, Busy, Place, Route
    <2>. QED BY <2>1, TotalFrame DEF Base
<1>4. ASSUME NEW w \in Worker, NEW op \in DOMAIN First, NEW u \in User, Request(w, op, u)
      PROVE  TotalInv'
    <2>1. /\ work' = [work EXCEPT ![w] = work'[w]]
          /\ UNCHANGED <<msgs, total>> /\ (faults' = 0 => faults = 0)
          /\ work[w].pc # "inc" /\ work'[w].pc # "inc"
        BY <1>0, <1>4, FirstCalls DEF Request, Start, IsValidate, WorkType, RestTypes, Busy,
           Place, Route
    <2>. QED BY <2>1, TotalFrame DEF Base
<1>5. ASSUME NEW w \in Worker, NEW ok \in BOOLEAN, ResetMsgId(w, ok)
      PROVE  TotalInv'
    <2>1. /\ work' = [work EXCEPT ![w] = work'[w]]
          /\ UNCHANGED <<msgs, total>> /\ (faults' = 0 => faults = 0)
          /\ work[w].pc # "inc" /\ work'[w].pc # "inc"
        BY <1>0, <1>5 DEF ResetMsgId, WorkType, RestTypes
    <2>. QED BY <2>1, TotalFrame DEF Base
<1>6. ASSUME NEW w \in Worker, NEW ok \in BOOLEAN, ClearRows(w, ok)
      PROVE  TotalInv'
    <2>1. /\ work' = [work EXCEPT ![w] = work'[w]]
          /\ UNCHANGED <<msgs, total>> /\ (faults' = 0 => faults = 0)
          /\ work[w].pc # "inc" /\ work'[w].pc # "inc"
        BY <1>0, <1>6 DEF ClearRows, WorkType, RestTypes
    <2>. QED BY <2>1, TotalFrame DEF Base
<1>7. ASSUME NEW w \in Worker, NEW ok \in BOOLEAN, ClearHash(w, ok)
      PROVE  TotalInv'
    <2>1. /\ work' = [work EXCEPT ![w] = work'[w]]
          /\ UNCHANGED <<msgs, total>> /\ (faults' = 0 => faults = 0)
          /\ work[w].pc # "inc" /\ work'[w].pc # "inc"
        BY <1>0, <1>7 DEF ClearHash, WorkType, RestTypes
    <2>. QED BY <2>1, TotalFrame DEF Base
<1>8. ASSUME NEW w \in Worker, NEW ok \in BOOLEAN, RemoveRepeatUser(w, ok)
      PROVE  TotalInv'
    <2>1. /\ work' = [work EXCEPT ![w] = work'[w]]
          /\ UNCHANGED <<msgs, total>> /\ (faults' = 0 => faults = 0)
          /\ work[w].pc # "inc" /\ work'[w].pc # "inc"
        BY <1>0, <1>8 DEF RemoveRepeatUser, WorkType, RestTypes
    <2>. QED BY <2>1, TotalFrame DEF Base
<1>9. ASSUME NEW w \in Worker, NEW ok \in BOOLEAN, SelectHas(w, ok)
      PROVE  TotalInv'
    <2>1. /\ work' = [work EXCEPT ![w] = work'[w]]
          /\ UNCHANGED <<msgs, total>> /\ (faults' = 0 => faults = 0)
          /\ work[w].pc # "inc" /\ work'[w].pc # "inc"
        BY <1>0, <1>9 DEF SelectHas, WorkType, RestTypes
    <2>. QED BY <2>1, TotalFrame DEF Base
<1>10. ASSUME NEW w \in Worker, NEW ok \in BOOLEAN, WriteRows(w, ok)
      PROVE  TotalInv'
    <2>1. /\ work' = [work EXCEPT ![w] = work'[w]]
          /\ UNCHANGED <<msgs, total>> /\ (faults' = 0 => faults = 0)
          /\ work[w].pc # "inc" /\ work'[w].pc # "inc"
        BY <1>0, <1>10 DEF WriteRows, WorkType, RestTypes
    <2>. QED BY <2>1, TotalFrame DEF Base
<1>11. ASSUME NEW w \in Worker, NEW ok \in BOOLEAN, HSet(w, ok)
      PROVE  TotalInv'
    <2>1. /\ work' = [work EXCEPT ![w] = work'[w]]
          /\ UNCHANGED <<msgs, total>> /\ (faults' = 0 => faults = 0)
          /\ work[w].pc # "inc" /\ work'[w].pc # "inc"
        BY <1>0, <1>11 DEF HSet, WorkType, RestTypes
    <2>. QED BY <2>1, TotalFrame DEF Base
<1>12. ASSUME NEW w \in Worker, NEW ok \in BOOLEAN, RowOut(w, ok)
      PROVE  TotalInv'
    <2>1. /\ work' = [work EXCEPT ![w] = work'[w]]
          /\ UNCHANGED <<msgs, total>> /\ (faults' = 0 => faults = 0)
          /\ work[w].pc # "inc" /\ work'[w].pc # "inc"
        BY <1>0, <1>12 DEF RowOut, WorkType, RestTypes
    <2>. QED BY <2>1, TotalFrame DEF Base
<1>13. ASSUME NEW w \in Worker, NEW ok \in BOOLEAN, HDel(w, ok)
      PROVE  TotalInv'
    <2>1. /\ work' = [work EXCEPT ![w] = work'[w]]
          /\ UNCHANGED <<msgs, total>> /\ (faults' = 0 => faults = 0)
          /\ work[w].pc # "inc" /\ work'[w].pc # "inc"
        BY <1>0, <1>13 DEF HDel, WorkType, RestTypes
    <2>. QED BY <2>1, TotalFrame DEF Base
<1>14. ASSUME NEW w \in Worker, NEW ok \in BOOLEAN, IncGroupVersion(w, ok)
      PROVE  TotalInv'
    <2>1. /\ work' = [work EXCEPT ![w] = work'[w]]
          /\ UNCHANGED <<msgs, total>> /\ (faults' = 0 => faults = 0)
          /\ work[w].pc # "inc" /\ work'[w].pc # "inc"
        BY <1>0, <1>14 DEF IncGroupVersion, WorkType, RestTypes
    <2>. QED BY <2>1, TotalFrame DEF Base
<1>15. ASSUME NEW w \in Worker, NEW ok \in BOOLEAN, IsInGroup(w, ok)
      PROVE  TotalInv'
    <2>1. /\ work' = [work EXCEPT ![w] = work'[w]]
          /\ UNCHANGED <<msgs, total>> /\ (faults' = 0 => faults = 0)
          /\ work[w].pc # "inc" /\ work'[w].pc # "inc"
        BY <1>0, <1>15 DEF IsInGroup, WorkType, RestTypes
    <2>. QED BY <2>1, TotalFrame DEF Base
<1>16. ASSUME NEW w \in Worker, NEW ok \in BOOLEAN, GetMsgId(w, ok)
      PROVE  TotalInv'
    <2>1. /\ work' = [work EXCEPT ![w] = work'[w]]
          /\ UNCHANGED <<msgs, total>> /\ (faults' = 0 => faults = 0)
          /\ work[w].pc # "inc" /\ work'[w].pc # "inc"
        BY <1>0, <1>16 DEF GetMsgId, NextId, WorkType, RestTypes
    <2>. QED BY <2>1, TotalFrame DEF Base
<1>17. ASSUME NEW w \in Worker, NEW ok \in BOOLEAN, IsInGroupStill(w, ok)
      PROVE  TotalInv'
    <2>1. /\ work' = [work EXCEPT ![w] = work'[w]]
          /\ UNCHANGED <<msgs, total>> /\ (faults' = 0 => faults = 0)
          /\ work[w].pc # "inc" /\ work'[w].pc # "inc"
        BY <1>0, <1>17 DEF IsInGroupStill, WorkType, RestTypes
    <2>. QED BY <2>1, TotalFrame DEF Base
<1>18. ASSUME NEW w \in Worker, NEW ok \in BOOLEAN, InsertMessage(w, ok)
      PROVE  TotalInv'
    <2>1. work[w].pc = "insert" /\ work[w].op = "send"
        BY <1>0, <1>18 DEF InsertMessage, Place, Route
    <2>2. total' = total /\ work' = [work EXCEPT ![w].pc = AfterInsert(ok)]
        BY <1>18 DEF InsertMessage
    <2>3. faults' = 0 => faults = 0
        BY <1>0, <1>18 DEF InsertMessage, RestTypes
    <2>4. CASE ~ok
      <3>1. msgs' = msgs /\ work' = [work EXCEPT ![w].pc = "answer"]
          BY <1>18, <2>2, <2>4 DEF InsertMessage, AfterInsert
      <3>2. work'[w].pc = "answer" /\ work' = [work EXCEPT ![w] = work'[w]]
          BY <1>0, <3>1 DEF WorkType
      <3>. QED BY <2>1, <2>2, <2>3, <3>1, <3>2, TotalFrame DEF Base
    <2>5. CASE ok
      <3>1. msgs' = Append(msgs, work[w].id) /\ work' = [work EXCEPT ![w].pc = "inc"]
          BY <1>18, <2>2, <2>5 DEF InsertMessage, AfterInsert
      <3>2. /\ work'[w].pc = "inc" /\ work'[w].op = "send"
            /\ \A v \in Worker \ {w} : work'[v] = work[v]
          BY <1>0, <2>1, <3>1 DEF WorkType
      <3>3. Storers' = Storers \cup {w} /\ w \notin Storers
          BY <2>1, <3>2 DEF Storers, Storing
      <3>4. Cardinality(Storers') = Cardinality(Storers) + 1
          BY <3>3, StorersType, FS_AddElement
      <3>5. Len(msgs') = Len(msgs) + 1 /\ Len(msgs) \in Nat
          BY <3>1 DEF IdsInv
      <3>6. total \in Nat
          BY <1>0 DEF RestTypes
      <3>. QED BY <2>2, <2>3, <3>4, <3>5, <3>6, StorersType DEF TotalInv
    <2>. QED BY <2>4, <2>5
<1>19. ASSUME NEW w \in Worker, NEW ok \in BOOLEAN, IncMessageCount(w, ok)
      PROVE  TotalInv'
    <2>1. work[w].pc = "inc" /\ work[w].op = "send"
        BY <1>0, <1>19 DEF IncMessageCount, Place, Route
    <2>2. /\ msgs' = msgs /\ work' = [work EXCEPT ![w].pc = "read", ![w].again = TRUE]
          /\ total' = IF ok THEN total + 1 ELSE total
        BY <1>19 DEF IncMessageCount
    <2>3. faults' = 0 => faults = 0 /\ ok
        BY <1>0, <1>19 DEF IncMessageCount, RestTypes
    <2>4. work'[w].pc = "read" /\ \A v \in Worker \ {w} : work'[v] = work[v]
        BY <1>0, <2>2 DEF WorkType
    <2>5. Storers' = Storers \ {w} /\ w \in Storers
        BY <2>1, <2>4 DEF Storers, Storing
    <2>6. Cardinality(Storers') = Cardinality(Storers) - 1
        BY <2>5, StorersType, FS_RemoveElement
    <2>7. Len(msgs) \in Nat /\ Len(msgs') = Len(msgs)
        BY <2>2 DEF IdsInv
    <2>8. total \in Nat /\ total' <= total + 1 /\ (ok => total' = total + 1)
        BY <1>0, <2>2 DEF RestTypes
    <2>9. total' \in Nat
        BY <1>0 DEF RestTypes
    <2>. QED BY <2>3, <2>6, <2>7, <2>8, <2>9, StorersType DEF TotalInv
<1>20. ASSUME NEW w \in Worker, NEW ok \in BOOLEAN, ReadTotal(w, ok)
      PROVE  TotalInv'
    <2>1. /\ work' = [work EXCEPT ![w] = work'[w]]
          /\ UNCHANGED <<msgs, total>> /\ (faults' = 0 => faults = 0)
          /\ work[w].pc # "inc" /\ work'[w].pc # "inc"
        BY <1>0, <1>20 DEF ReadTotal, AfterCopy, WorkType, RestTypes
    <2>. QED BY <2>1, TotalFrame DEF Base
<1>21. ASSUME NEW w \in Worker, NEW ok \in BOOLEAN, SetCount(w, ok)
      PROVE  TotalInv'
    <2>1. /\ work' = [work EXCEPT ![w] = work'[w]]
          /\ UNCHANGED <<msgs, total>> /\ (faults' = 0 => faults = 0)
          /\ work[w].pc # "inc" /\ work'[w].pc # "inc"
        BY <1>0, <1>21 DEF SetCount, Copy, AfterCopy, WorkType, RestTypes
    <2>. QED BY <2>1, TotalFrame DEF Base
<1>22. ASSUME NEW w \in Worker, NEW ok \in BOOLEAN, GetGroupVersion(w, ok)
      PROVE  TotalInv'
    <2>1. /\ work' = [work EXCEPT ![w] = work'[w]]
          /\ UNCHANGED <<msgs, total>> /\ (faults' = 0 => faults = 0)
          /\ work[w].pc # "inc" /\ work'[w].pc # "inc"
        BY <1>0, <1>22 DEF GetGroupVersion, WorkType, RestTypes
    <2>. QED BY <2>1, TotalFrame DEF Base
<1>23. ASSUME NEW w \in Worker, NEW ok \in BOOLEAN, FillGroupMember(w, ok)
      PROVE  TotalInv'
    <2>1. /\ work' = [work EXCEPT ![w] = work'[w]]
          /\ UNCHANGED <<msgs, total>> /\ (faults' = 0 => faults = 0)
          /\ work[w].pc # "inc" /\ work'[w].pc # "inc"
        BY <1>0, <1>23 DEF FillGroupMember, Creating, WorkType, RestTypes
    <2>. QED BY <2>1, TotalFrame DEF Base
<1>24. CASE UNCHANGED vars
    BY <1>24 DEF TotalInv, Storers, Storing, vars
<1>. QED
    BY <1>1, <1>2, <1>3, <1>4, <1>5, <1>6, <1>7, <1>8, <1>9, <1>10, <1>11, <1>12, <1>13,
       <1>14, <1>15, <1>16, <1>17, <1>18, <1>19, <1>20, <1>21, <1>22, <1>23, <1>24
    DEF Next, CreateStep, InsertNewMember, RemoveMember, SendStep, CounterStep, InfoStep


\* A change of u that is in the table and not yet in the hash.
Halfway(w, u) ==
    \/ work[w].pc = "hset" /\ u \in work[w].todo
    \/ work[w].pc = "hdel" /\ work[w].user = u

\* Worker w changes what is stored of u.
Concerns(w, u) ==
    \/ work[w].pc \in {"select", "write", "hset"} /\ u \in work[w].todo
    \/ work[w].pc \in {"rowOut", "hdel"} /\ work[w].user = u

\* What a worker at u knows of the row.
CopyAt(w, u) ==
    /\ work[w].pc = "write" /\ u \in work[w].todo => (u \in work[w].has <=> rows[u].n > 0)
    /\ work[w].pc = "hset" /\ u \in work[w].todo => rows[u].in > 0
    /\ work[w].pc = "hdel" /\ work[w].user = u => rows[u].in = 0

CopyOf(u) ==
    /\ rows[u].n <= 1
    /\ (\A w \in Worker : ~Halfway(w, u)) => (u \in member <=> rows[u].in > 0)
    /\ \A w \in Worker : CopyAt(w, u)

\* Table and hash agree where no worker is halfway through a change.
CopyInv == \A u \in User \ clashed : faults = 0 => CopyOf(u)

\* A step that has nothing to do with u.
LEMMA CopyUnconcerned ==
    ASSUME NEW u \in User, CopyOf(u), NEW w \in Worker,
           \A v \in Worker \ {w} : work'[v] = work[v],
           rows'[u].n = rows[u].n, rows'[u].in = rows[u].in, u \in member' <=> u \in member,
           ~Halfway(w, u), ~Halfway(w, u)', ~(work'[w].pc = "write" /\ u \in work'[w].todo)
    PROVE  CopyOf(u)'
<1>1. \A v \in Worker : Halfway(v, u)' <=> Halfway(v, u)
    BY DEF Halfway
<1>2. CopyAt(w, u)'
    BY DEF CopyAt, Halfway
<1>3. \A v \in Worker \ {w} : CopyAt(v, u)'
    BY DEF CopyAt, CopyOf
<1>. QED BY <1>1, <1>2, <1>3 DEF CopyOf

\* No two workers change what is stored of a user nobody clashed about.
LEMMA NoRival ==
    ASSUME Base, ClashInv, NEW u \in User \ clashed, NEW w \in Worker, NEW v \in Worker \ {w},
           Concerns(w, u), Concerns(v, u)
    PROVE  FALSE
<1>1. \A x \in {w, v} :
        \/ work[x].op = "create" /\ u \in Founder
        \/ work[x].op \in {"add", "remove"} /\ work[x].user = u
    BY DEF Base, Alone, Place, Route, Party, Concerns
<1>2. work[w].op = "create" => work[v].op # "create"
    BY DEF Base, Alone
<1>3. ASSUME NEW x \in Worker, NEW y \in Worker \ {x},
             work[x].op \in {"add", "remove"}, work[x].user = u
      PROVE  /\ work[y].op \in {"add", "remove"} => work[y].user # u
             /\ work[y].op = "create" => u \notin Founder
    BY <1>3 DEF ClashInv
<1>. QED BY <1>1, <1>2, <1>3

\* A step of the only worker that changes what is stored of u.
LEMMA CopyConcerned ==
    ASSUME Base, ClashInv, NEW u \in User \ clashed, NEW w \in Worker, Concerns(w, u),
           \A v \in Worker \ {w} : work'[v] = work[v],
           rows'[u].n <= 1, CopyAt(w, u)',
           ~Halfway(w, u)' => (u \in member' <=> rows'[u].in > 0)
    PROVE  CopyOf(u)'
<1>1. \A v \in Worker \ {w} : ~Concerns(v, u)
    BY NoRival
<1>2. \A v \in Worker \ {w} : ~Halfway(v, u)' /\ CopyAt(v, u)'
    BY <1>1 DEF Concerns, Halfway, CopyAt
<1>. QED BY <1>2 DEF CopyOf

\* Before its first write, the only worker at u finds table and hash equal.
LEMMA CopyMine ==
    ASSUME Base, ClashInv, NEW u \in User \ clashed, CopyOf(u), NEW w \in Worker,
           Concerns(w, u), ~Halfway(w, u)
    PROVE  u \in member <=> rows[u].in > 0
<1>1. \A v \in Worker \ {w} : ~Halfway(v, u)
    BY NoRival DEF Concerns, Halfway
<1>. QED BY <1>1 DEF CopyOf

\* A step that leaves table and hash alone.
LEMMA CopyFrame ==
    ASSUME Types, CopyInv, NEW w \in Worker, \A v \in Worker \ {w} : work'[v] = work[v],
           UNCHANGED <<rows, member>>, faults' = 0 => faults = 0, clashed \subseteq clashed',
           work[w].pc \notin {"write", "hset", "hdel"}, work'[w].pc \notin {"write", "hset", "hdel"}
    PROVE  CopyInv'
<1>. SUFFICES ASSUME NEW u \in User \ clashed', faults' = 0
              PROVE  CopyOf(u)'
    BY DEF CopyInv
<1>1. CopyOf(u)
    BY DEF CopyInv
<1>. QED BY <1>1, CopyUnconcerned DEF Halfway

LEMMA CopyStep ==
    ASSUME Base, Base', ClashInv, CopyInv, [Next]_vars
    PROVE  CopyInv'
<1>. USE DEF Go, Done, At, Call, Idle, mysql, redis, out, hist
<1>0. /\ work \in [Worker -> WorkType] /\ work' \in [Worker -> WorkType]
      /\ RestTypes /\ RestTypes' /\ Alone /\ \A w \in Worker : Place(work[w])
    BY DEF Base, Types, Alone, Place
<1>1. ASSUME NEW w \in Worker, InsertNewGroup(w)
      PROVE  CopyInv'
    <2>1. /\ \A v \in Worker \ {w} : work'[v] = work[v]
          /\ UNCHANGED <<rows, member>> /\ (faults' = 0 => faults = 0) /\ clashed \subseteq clashed'
          /\ work[w].pc \notin {"write", "hset", "hdel"} /\ work'[w].pc \notin {"write", "hset", "hdel"}
        BY <1>0, <1>1 DEF InsertNewGroup, Start, WorkType, RestTypes, Busy, Place, Route
    <2>. QED BY <2>1, CopyFrame DEF Base
<1>2. ASSUME NEW w \in Worker, AddResponsePdu(w)
      PROVE  CopyInv'
    <2>1. /\ \A v \in Worker \ {w} : work'[v] = work[v]
          /\ UNCHANGED <<rows, member>> /\ (faults' = 0 => faults = 0) /\ clashed \subseteq clashed'
          /\ work[w].pc \notin {"write", "hset", "hdel"} /\ work'[w].pc \notin {"write", "hset", "hdel"}
        BY <1>0, <1>2 DEF AddResponsePdu, WorkType, RestTypes
    <2>. QED BY <2>1, CopyFrame DEF Base
<1>3. ASSUME NEW w \in Worker, NEW u \in User, ReadAck(w, u)
      PROVE  CopyInv'
    <2>1. /\ \A v \in Worker \ {w} : work'[v] = work[v]
          /\ UNCHANGED <<rows, member>> /\ (faults' = 0 => faults = 0) /\ clashed \subseteq clashed'
          /\ work[w].pc \notin {"write", "hset", "hdel"} /\ work'[w].pc \notin {"write", "hset", "hdel"}
        BY <1>0, <1>3 DEF ReadAck, Start, WorkType, RestTypes, Busy, Place, Route
    <2>. QED BY <2>1, CopyFrame DEF Base
<1>4. ASSUME NEW w \in Worker, NEW op \in DOMAIN First, NEW u \in User, Request(w, op, u)
      PROVE  CopyInv'
    <2>1. /\ \A v \in Worker \ {w} : work'[v] = work[v]
          /\ UNCHANGED <<rows, member>> /\ (faults' = 0 => faults = 0) /\ clashed \subseteq clashed'
          /\ work[w].pc \notin {"write", "hset", "hdel"} /\ work'[w].pc \notin {"write", "hset", "hdel"}
        BY <1>0, <1>4, FirstCalls DEF Request, Start, IsValidate, WorkType, RestTypes, Busy,
           Place, Route
    <2>. QED BY <2>1, CopyFrame DEF Base
<1>5. ASSUME NEW w \in Worker, NEW ok \in BOOLEAN, ResetMsgId(w, ok)
      PROVE  CopyInv'
    <2>1. /\ \A v \in Worker \ {w} : work'[v] = work[v]
          /\ UNCHANGED <<rows, member>> /\ (faults' = 0 => faults = 0) /\ clashed \subseteq clashed'
          /\ work[w].pc \notin {"write", "hset", "hdel"} /\ work'[w].pc \notin {"write", "hset", "hdel"}
        BY <1>0, <1>5 DEF ResetMsgId, WorkType, RestTypes
    <2>. QED BY <2>1, CopyFrame DEF Base
<1>6. ASSUME NEW w \in Worker, NEW ok \in BOOLEAN, ClearRows(w, ok)
      PROVE  CopyInv'
    <2>. SUFFICES ASSUME NEW u \in User \ clashed', faults' = 0
                  PROVE  CopyOf(u)'
        BY DEF CopyInv
    <2>1. faults = 0 /\ ok /\ clashed' = clashed
        BY <1>0, <1>6 DEF ClearRows, RestTypes
    <2>2. CopyOf(u)
        BY <2>1 DEF CopyInv
    <2>3. work[w].pc = "clearRows" /\ work' = [work EXCEPT ![w].pc = "clearHash"]
        BY <1>6 DEF ClearRows
    <2>4. work'[w].pc = "clearHash" /\ \A v \in Worker \ {w} : work'[v] = work[v]
        BY <1>0, <2>3 DEF WorkType
    <2>5. member = {} /\ rows[u].n = 0 /\ rows[u].in = 0
        BY <1>0, <2>3 DEF Base, Place, Route, Fresh, Quiet, Empty
    <2>6. member' = {} /\ rows'[u].n = 0 /\ rows'[u].in = 0
        BY <1>6, <2>1, <2>5 DEF ClearRows
    <2>. QED BY <2>1, <2>2, <2>3, <2>4, <2>5, <2>6, CopyUnconcerned DEF Halfway
<1>7. ASSUME NEW w \in Worker, NEW ok \in BOOLEAN, ClearHash(w, ok)
      PROVE  CopyInv'
    <2>. SUFFICES ASSUME NEW u \in User \ clashed', faults' = 0
                  PROVE  CopyOf(u)'
        BY DEF CopyInv
    <2>1. faults = 0 /\ ok /\ clashed' = clashed
        BY <1>0, <1>7 DEF ClearHash, RestTypes
    <2>2. CopyOf(u)
        BY <2>1 DEF CopyInv
    <2>3. work[w].pc = "clearHash" /\ work' = [work EXCEPT ![w].pc = "select"]
        BY <1>7 DEF ClearHash
    <2>4. work'[w].pc = "select" /\ \A v \in Worker \ {w} : work'[v] = work[v]
        BY <1>0, <2>3 DEF WorkType
    <2>5. member = {} /\ rows[u].n = 0 /\ rows[u].in = 0
        BY <1>0, <2>3 DEF Base, Place, Route, Fresh, Quiet, Empty
    <2>6. member' = {} /\ rows'[u].n = 0 /\ rows'[u].in = 0
        BY <1>7, <2>1, <2>5 DEF ClearHash
    <2>. QED BY <2>1, <2>2, <2>3, <2>4, <2>5, <2>6, CopyUnconcerned DEF Halfway
<1>8. ASSUME NEW w \in Worker, NEW ok \in BOOLEAN, RemoveRepeatUser(w, ok)
      PROVE  CopyInv'
    <2>1. /\ \A v \in Worker \ {w} : work'[v] = work[v]
          /\ UNCHANGED <<rows, member>> /\ (faults' = 0 => faults = 0) /\ clashed \subseteq clashed'
          /\ work[w].pc \notin {"write", "hset", "hdel"} /\ work'[w].pc \notin {"write", "hset", "hdel"}
        BY <1>0, <1>8 DEF RemoveRepeatUser, WorkType, RestTypes
    <2>. QED BY <2>1, CopyFrame DEF Base
<1>9. ASSUME NEW w \in Worker, NEW ok \in BOOLEAN, SelectHas(w, ok)
      PROVE  CopyInv'
    <2>. SUFFICES ASSUME NEW u \in User \ clashed', faults' = 0
                  PROVE  CopyOf(u)'
        BY DEF CopyInv
    <2>1. faults = 0 /\ ok /\ clashed' = clashed
        BY <1>0, <1>9 DEF SelectHas, RestTypes
    <2>2. CopyOf(u)
        BY <2>1 DEF CopyInv
    <2>3. /\ work[w].pc = "select"
          /\ work' = [work EXCEPT ![w].pc = "write", ![w].has = {x \in work[w].todo : rows[x].n > 0}]
          /\ UNCHANGED <<rows, member>>
        BY <1>9, <2>1 DEF SelectHas
    <2>4. \A v \in Worker \ {w} : work'[v] = work[v]
        BY <1>0, <2>3 DEF WorkType
    <2>5. /\ work'[w].pc = "write" /\ work'[w].todo = work[w].todo
          /\ work'[w].has = {x \in work[w].todo : rows[x].n > 0}
        BY <1>0, <2>3 DEF WorkType
    <2>6. CASE u \notin work[w].todo
        BY <2>2, <2>3, <2>4, <2>5, <2>6, CopyUnconcerned DEF Halfway
    <2>7. CASE u \in work[w].todo
      <3>1. Concerns(w, u) /\ ~Halfway(w, u)
          BY <2>3, <2>7 DEF Concerns, Halfway
      <3>2. u \in member <=> rows[u].in > 0
          BY <2>1, <2>2, <3>1, CopyMine
      <3>3. rows'[u].n <= 1 /\ CopyAt(w, u)'
          BY <2>2, <2>3, <2>5 DEF CopyAt, CopyOf
      <3>. QED BY <2>1, <2>3, <2>4, <3>1, <3>2, <3>3, CopyConcerned
    <2>. QED BY <2>6, <2>7
<1>10. ASSUME NEW w \in Worker, NEW ok \in BOOLEAN, WriteRows(w, ok)
      PROVE  CopyInv'
    <2>. SUFFICES ASSUME NEW u \in User \ clashed', faults' = 0
                  PROVE  CopyOf(u)'
        BY DEF CopyInv
    <2>1. faults = 0 /\ ok /\ clashed' = clashed
        BY <1>0, <1>10 DEF WriteRows, RestTypes
    <2>2. CopyOf(u)
        BY <2>1 DEF CopyInv
    <2>3. /\ work[w].pc = "write" /\ work' = [work EXCEPT ![w].pc = "hset"]
          /\ rows' = RowsWith(work[w].todo, work[w].has) /\ member' = member
        BY <1>10, <2>1 DEF WriteRows
    <2>4. \A v \in Worker \ {w} : work'[v] = work[v]
        BY <1>0, <2>3 DEF WorkType
    <2>5. work'[w].pc = "hset" /\ work'[w].todo = work[w].todo
        BY <1>0, <2>3 DEF WorkType
    <2>6. CASE u \notin work[w].todo
      <3>1. rows'[u] = rows[u]
          BY <2>3, <2>6 DEF RowsWith
      <3>. QED BY <2>2, <2>3, <2>4, <2>5, <2>6, <3>1, CopyUnconcerned DEF Halfway
    <2>7. CASE u \in work[w].todo
      <3>1. Concerns(w, u) /\ CopyAt(w, u) /\ rows[u].n <= 1
          BY <2>2, <2>3, <2>7 DEF Concerns, CopyOf
      <3>2. (u \in work[w].has <=> rows[u].n > 0) /\ rows[u].n \in Nat /\ rows[u].in \in 0..rows[u].n
          BY <1>0, <2>3, <2>7, <3>1 DEF CopyAt, RestTypes
      <3>3. rows'[u].n = 1 /\ rows'[u].in = 1
        <4>1. CASE u \in work[w].has
            BY <2>3, <2>7, <3>1, <3>2, <4>1 DEF RowsWith
        <4>2. CASE u \notin work[w].has
            BY <2>3, <2>7, <3>2, <4>2 DEF RowsWith
        <4>. QED BY <4>1, <4>2
      <3>4. CopyAt(w, u)' /\ Halfway(w, u)'
          BY <2>5, <2>7, <3>3 DEF CopyAt, Halfway
      <3>. QED BY <2>1, <2>4, <3>1, <3>3, <3>4, CopyConcerned
    <2>. QED BY <2>6, <2>7
<1>11. ASSUME NEW w \in Worker, NEW ok \in BOOLEAN, HSet(w, ok)
      PROVE  CopyInv'
    <2>. SUFFICES ASSUME NEW u \in User \ clashed', faults' = 0
                  PROVE  CopyOf(u)'
        BY DEF CopyInv
    <2>1. faults = 0 /\ ok /\ clashed' = clashed
        BY <1>0, <1>11 DEF HSet, RestTypes
    <2>2. CopyOf(u)
        BY <2>1 DEF CopyInv
    <2>3. PICK x \in work[w].todo :
            /\ member' = member \cup {x} /\ UNCHANGED rows /\ work[w].pc = "hset"
            /\ IF work[w].todo # {x} THEN work' = [work EXCEPT ![w].todo = @ \ {x}]
               ELSE IF work[w].op = "create" THEN Done(w) ELSE Go(w, "version")
        BY <1>11, <2>1 DEF HSet
    <2>4. \A v \in Worker \ {w} : work'[v] = work[v]
        BY <1>0, <2>3 DEF WorkType
    <2>5. \/ work'[w].pc = "hset" /\ work'[w].todo = work[w].todo \ {x}
          \/ work'[w].pc \in {"start", "version"} /\ work[w].todo = {x}
        BY <1>0, <2>3 DEF WorkType
    <2>6. CASE u \notin work[w].todo
        BY <2>2, <2>3, <2>4, <2>5, <2>6, CopyUnconcerned DEF Halfway
    <2>7. CASE u \in work[w].todo
      <3>1. Concerns(w, u) /\ rows'[u].n <= 1 /\ rows'[u].in > 0
          BY <2>2, <2>3, <2>7 DEF Concerns, CopyOf, CopyAt
      <3>2. CopyAt(w, u)'
          BY <2>5, <3>1 DEF CopyAt
      <3>3. ~Halfway(w, u)' => u \in member'
          BY <2>3, <2>5, <2>7 DEF Halfway
      <3>. QED BY <2>1, <2>4, <3>1, <3>2, <3>3, CopyConcerned
    <2>. QED BY <2>6, <2>7
<1>12. ASSUME NEW w \in Worker, NEW ok \in BOOLEAN, RowOut(w, ok)
      PROVE  CopyInv'
    <2>. SUFFICES ASSUME NEW u \in User \ clashed', faults' = 0
                  PROVE  CopyOf(u)'
        BY DEF CopyInv
    <2>1. faults = 0 /\ ok /\ clashed' = clashed
        BY <1>0, <1>12 DEF RowOut, RestTypes
    <2>2. CopyOf(u)
        BY <2>1 DEF CopyInv
    <2>3. /\ work[w].pc = "rowOut" /\ work' = [work EXCEPT ![w].pc = "hdel"]
          /\ rows' = [rows EXCEPT ![work[w].user].in = 0] /\ member' = member
        BY <1>12, <2>1 DEF RowOut
    <2>4. \A v \in Worker \ {w} : work'[v] = work[v]
        BY <1>0, <2>3 DEF WorkType
    <2>5. work'[w].pc = "hdel" /\ work'[w].user = work[w].user
        BY <1>0, <2>3 DEF WorkType
    <2>6. rows'[u].n = rows[u].n /\ (u # work[w].user => rows'[u].in = rows[u].in)
        BY <1>0, <2>3 DEF RestTypes
    <2>7. CASE u # work[w].user
        BY <2>2, <2>3, <2>4, <2>5, <2>6, <2>7, CopyUnconcerned DEF Halfway
    <2>8. CASE u = work[w].user
      <3>1. Concerns(w, u) /\ rows'[u].n <= 1
          BY <2>2, <2>3, <2>6, <2>8 DEF Concerns, CopyOf
      <3>2. rows'[u].in = 0
          BY <1>0, <2>3, <2>8 DEF RestTypes
      <3>3. CopyAt(w, u)' /\ Halfway(w, u)'
          BY <2>5, <2>8, <3>2 DEF CopyAt, Halfway
      <3>. QED BY <2>1, <2>4, <3>1, <3>3, CopyConcerned
    <2>. QED BY <2>7, <2>8
<1>13. ASSUME NEW w \in Worker, NEW ok \in BOOLEAN, HDel(w, ok)
      PROVE  CopyInv'
    <2>. SUFFICES ASSUME NEW u \in User \ clashed', faults' = 0
                  PROVE  CopyOf(u)'
        BY DEF CopyInv
    <2>1. faults = 0 /\ ok /\ clashed' = clashed
        BY <1>0, <1>13 DEF HDel, RestTypes
    <2>2. CopyOf(u)
        BY <2>1 DEF CopyInv
    <2>3. /\ work[w].pc = "hdel" /\ work' = [work EXCEPT ![w].pc = "version"]
          /\ rows' = rows /\ member' = member \ {work[w].user}
        BY <1>13, <2>1 DEF HDel
    <2>4. \A v \in Worker \ {w} : work'[v] = work[v]
        BY <1>0, <2>3 DEF WorkType
    <2>5. work'[w].pc = "version"
        BY <1>0, <2>3 DEF WorkType
    <2>6. CASE u # work[w].user
        BY <2>2, <2>3, <2>4, <2>5, <2>6, CopyUnconcerned DEF Halfway
    <2>7. CASE u = work[w].user
      <3>1. Concerns(w, u) /\ rows[u].n <= 1 /\ rows[u].in = 0
          BY <2>2, <2>3, <2>7 DEF Concerns, CopyOf, CopyAt
      <3>2. CopyAt(w, u)' /\ u \notin member' /\ rows' = rows
          BY <2>3, <2>5, <2>7 DEF CopyAt
      <3>. QED BY <2>1, <2>4, <3>1, <3>2, CopyConcerned
    <2>. QED BY <2>6, <2>7
<1>14. ASSUME NEW w \in Worker, NEW ok \in BOOLEAN, IncGroupVersion(w, ok)
      PROVE  CopyInv'
    <2>1. /\ \A v \in Worker \ {w} : work'[v] = work[v]
          /\ UNCHANGED <<rows, member>> /\ (faults' = 0 => faults = 0) /\ clashed \subseteq clashed'
          /\ work[w].pc \notin {"write", "hset", "hdel"} /\ work'[w].pc \notin {"write", "hset", "hdel"}
        BY <1>0, <1>14 DEF IncGroupVersion, WorkType, RestTypes
    <2>. QED BY <2>1, CopyFrame DEF Base
<1>15. ASSUME NEW w \in Worker, NEW ok \in BOOLEAN, IsInGroup(w, ok)
      PROVE  CopyInv'
    <2>1. /\ \A v \in Worker \ {w} : work'[v] = work[v]
          /\ UNCHANGED <<rows, member>> /\ (faults' = 0 => faults = 0) /\ clashed \subseteq clashed'
          /\ work[w].pc \notin {"write", "hset", "hdel"} /\ work'[w].pc \notin {"write", "hset", "hdel"}
        BY <1>0, <1>15 DEF IsInGroup, WorkType, RestTypes
    <2>. QED BY <2>1, CopyFrame DEF Base
<1>16. ASSUME NEW w \in Worker, NEW ok \in BOOLEAN, GetMsgId(w, ok)
      PROVE  CopyInv'
    <2>1. /\ \A v \in Worker \ {w} : work'[v] = work[v]
          /\ UNCHANGED <<rows, member>> /\ (faults' = 0 => faults = 0) /\ clashed \subseteq clashed'
          /\ work[w].pc \notin {"write", "hset", "hdel"} /\ work'[w].pc \notin {"write", "hset", "hdel"}
        BY <1>0, <1>16 DEF GetMsgId, NextId, WorkType, RestTypes
    <2>. QED BY <2>1, CopyFrame DEF Base
<1>17. ASSUME NEW w \in Worker, NEW ok \in BOOLEAN, IsInGroupStill(w, ok)
      PROVE  CopyInv'
    <2>1. /\ \A v \in Worker \ {w} : work'[v] = work[v]
          /\ UNCHANGED <<rows, member>> /\ (faults' = 0 => faults = 0) /\ clashed \subseteq clashed'
          /\ work[w].pc \notin {"write", "hset", "hdel"} /\ work'[w].pc \notin {"write", "hset", "hdel"}
        BY <1>0, <1>17 DEF IsInGroupStill, WorkType, RestTypes
    <2>. QED BY <2>1, CopyFrame DEF Base
<1>18. ASSUME NEW w \in Worker, NEW ok \in BOOLEAN, InsertMessage(w, ok)
      PROVE  CopyInv'
    <2>1. /\ \A v \in Worker \ {w} : work'[v] = work[v]
          /\ UNCHANGED <<rows, member>> /\ (faults' = 0 => faults = 0) /\ clashed \subseteq clashed'
          /\ work[w].pc \notin {"write", "hset", "hdel"} /\ work'[w].pc \notin {"write", "hset", "hdel"}
        BY <1>0, <1>18 DEF InsertMessage, AfterInsert, WorkType, RestTypes
    <2>. QED BY <2>1, CopyFrame DEF Base
<1>19. ASSUME NEW w \in Worker, NEW ok \in BOOLEAN, IncMessageCount(w, ok)
      PROVE  CopyInv'
    <2>1. work' = [work EXCEPT ![w].pc = "read", ![w].again = TRUE] /\ work[w].pc = "inc"
        BY <1>19 DEF IncMessageCount
    <2>2. work'[w].pc = "read" /\ \A v \in Worker \ {w} : work'[v] = work[v]
        BY <1>0, <2>1 DEF WorkType
    <2>3. UNCHANGED <<rows, member>> /\ (faults' = 0 => faults = 0) /\ clashed \subseteq clashed'
        BY <1>0, <1>19 DEF IncMessageCount, RestTypes
    <2>. QED BY <2>1, <2>2, <2>3, CopyFrame DEF Base
<1>20. ASSUME NEW w \in Worker, NEW ok \in BOOLEAN, ReadTotal(w, ok)
      PROVE  CopyInv'
    <2>1. /\ \A v \in Worker \ {w} : work'[v] = work[v]
          /\ UNCHANGED <<rows, member>> /\ (faults' = 0 => faults = 0) /\ clashed \subseteq clashed'
          /\ work[w].pc \notin {"write", "hset", "hdel"} /\ work'[w].pc \notin {"write", "hset", "hdel"}
        BY <1>0, <1>20 DEF ReadTotal, AfterCopy, WorkType, RestTypes
    <2>. QED BY <2>1, CopyFrame DEF Base
<1>21. ASSUME NEW w \in Worker, NEW ok \in BOOLEAN, SetCount(w, ok)
      PROVE  CopyInv'
    <2>1. /\ \A v \in Worker \ {w} : work'[v] = work[v]
          /\ UNCHANGED <<rows, member>> /\ (faults' = 0 => faults = 0) /\ clashed \subseteq clashed'
          /\ work[w].pc \notin {"write", "hset", "hdel"} /\ work'[w].pc \notin {"write", "hset", "hdel"}
        BY <1>0, <1>21 DEF SetCount, Copy, AfterCopy, WorkType, RestTypes
    <2>. QED BY <2>1, CopyFrame DEF Base
<1>22. ASSUME NEW w \in Worker, NEW ok \in BOOLEAN, GetGroupVersion(w, ok)
      PROVE  CopyInv'
    <2>1. /\ \A v \in Worker \ {w} : work'[v] = work[v]
          /\ UNCHANGED <<rows, member>> /\ (faults' = 0 => faults = 0) /\ clashed \subseteq clashed'
          /\ work[w].pc \notin {"write", "hset", "hdel"} /\ work'[w].pc \notin {"write", "hset", "hdel"}
        BY <1>0, <1>22 DEF GetGroupVersion, WorkType, RestTypes
    <2>. QED BY <2>1, CopyFrame DEF Base
<1>23. ASSUME NEW w \in Worker, NEW ok \in BOOLEAN, FillGroupMember(w, ok)
      PROVE  CopyInv'
    <2>1. /\ \A v \in Worker \ {w} : work'[v] = work[v]
          /\ UNCHANGED <<rows, member>> /\ (faults' = 0 => faults = 0) /\ clashed \subseteq clashed'
          /\ work[w].pc \notin {"write", "hset", "hdel"} /\ work'[w].pc \notin {"write", "hset", "hdel"}
        BY <1>0, <1>23 DEF FillGroupMember, Creating, WorkType, RestTypes
    <2>. QED BY <2>1, CopyFrame DEF Base
<1>24. CASE UNCHANGED vars
    BY <1>24 DEF CopyInv, CopyOf, CopyAt, Halfway, vars
<1>. QED
    BY <1>1, <1>2, <1>3, <1>4, <1>5, <1>6, <1>7, <1>8, <1>9, <1>10, <1>11, <1>12, <1>13,
       <1>14, <1>15, <1>16, <1>17, <1>18, <1>19, <1>20, <1>21, <1>22, <1>23, <1>24
    DEF Next, CreateStep, InsertNewMember, RemoveMember, SendStep, CounterStep, InfoStep

-----------------------------------------------------------------------------
(***************************************************************************)
(* Together.                                                               *)
(***************************************************************************)
\* The conjunction of all of them.
GroupInv ==
    /\ Base /\ CountInv /\ IdsInv /\ ClashInv
    /\ VersionInv /\ AnswersInv /\ ReadInv /\ TotalInv /\ CopyInv

LEMMA GroupInit == Init => GroupInv
<1>. SUFFICES ASSUME Init PROVE GroupInv
    OBVIOUS
<1>. USE DEF Init, Idle
<1>1. Base
    BY InitBase
<1>2. CountInv /\ ClashInv /\ ReadInv
    BY DEF CountInv, CountNeverAhead, ClashInv, ReadInv
<1>3. IdsInv
    BY DEF IdsInv, MessageIdsUnique, Ids, NoId
<1>4. VersionInv
    BY DEF VersionInv
<1>5. AnswersInv
  <2>1. Lost = {} /\ LostHeld = {}
      BY DEF Lost, LostHeld, Holds
  <2>. QED BY <2>1, FS_EmptySet DEF AnswersInv
<1>6. TotalInv
  <2>1. Storers = {}
      BY DEF Storers, Storing
  <2>. QED BY <2>1, FS_EmptySet DEF TotalInv
<1>7. CopyInv
    BY DEF CopyInv, CopyOf, CopyAt
<1>. QED BY <1>1, <1>2, <1>3, <1>4, <1>5, <1>6, <1>7 DEF GroupInv

LEMMA GroupStep == GroupInv /\ [Next]_vars => GroupInv'
<1>. SUFFICES ASSUME GroupInv, [Next]_vars PROVE GroupInv'
    OBVIOUS
<1>. USE DEF GroupInv
<1>1. Base'
    BY BaseStep
<1>2. CountInv' /\ IdsInv' /\ ClashInv'
    BY <1>1, CountStep, IdsStep, ClashStep
<1>3. VersionInv' /\ AnswersInv'
    BY <1>1, VersionStep, AnswersStep
<1>4. ReadInv' /\ TotalInv' /\ CopyInv'
    BY <1>1, ReadStep, TotalStep, CopyStep
<1>. QED BY <1>1, <1>2, <1>3, <1>4

\* The inductive invariant: what holds of a group whatever the workers do, in
\* which order they do it, and whichever calls fail.
THEOREM GroupCorrect == Spec => []GroupInv
<1>. QED BY GroupInit, GroupStep, PTL DEF Spec

\* Every variable keeps its type, and no user has more active rows than rows.
THEOREM TypeCorrect == Spec => []TypeOK
<1>1. GroupInv => TypeOK
    BY DEF GroupInv, Base, Types, RestTypes, WorkType, IdsInv, TypeOK
<1>. QED BY <1>1, GroupCorrect, PTL

\* The subtraction of getUnreadMsgCount never goes below zero: a counter is a
\* copy of the total, and the total only grows.
THEOREM CountCorrect == Spec => []CountNeverAhead
<1>1. GroupInv => CountNeverAhead
    BY DEF GroupInv, CountInv
<1>. QED BY <1>1, GroupCorrect, PTL

\* No two stored messages have one id: an id that is fetched is above all ids
\* stored or on their way, since only createGroup resets the counter, before
\* there is anyone to send.
THEOREM IdsCorrect == Spec => []MessageIdsUnique
<1>1. GroupInv => MessageIdsUnique
    BY DEF GroupInv, IdsInv
<1>. QED BY <1>1, GroupCorrect, PTL

\* The total is the number of stored messages, but for those whose sender has
\* yet to count them.
THEOREM TotalCorrect == Spec => []TotalIsStored
<1>1. GroupInv => TotalIsStored
  <2>. SUFFICES ASSUME GroupInv PROVE TotalIsStored
      OBVIOUS
  <2>1. total \in Nat /\ Len(msgs) \in Nat
      BY DEF GroupInv, Base, Types, RestTypes, IdsInv
  <2>2. Storers = {w \in Worker : Storing(w)}
      BY DEF Storers
  <2>. QED BY <2>1, <2>2, StorersType DEF GroupInv, TotalInv, TotalIsStored
<1>. QED BY <1>1, GroupCorrect, PTL

\* Table and hash agree on every user that no two requests were about at once,
\* when none is about it.
THEOREM CopyCorrect == Spec => []CopyIsExact
<1>1. GroupInv => CopyIsExact
  <2>. SUFFICES ASSUME GroupInv, NEW u \in User \ clashed, faults = 0,
                       \A w \in Worker : u \notin About(w)
                PROVE  (u \in member <=> rows[u].in > 0) /\ rows[u].n <= 1
      BY DEF CopyIsExact
  <2>1. \A w \in Worker : ~Halfway(w, u)
      BY DEF GroupInv, Base, Alone, Place, Route, Party, Halfway, About
  <2>. QED BY <2>1 DEF GroupInv, CopyInv, CopyOf
<1>. QED BY <1>1, GroupCorrect, PTL

\* A client that holds the current version holds the current members, as long as no
\* call failed and unless it asked while the group was being created.
THEOREM VersionCorrect == Spec => []VersionCoversMembers
<1>1. GroupInv => VersionCoversMembers
    BY DEF GroupInv, Base, Alone, Place, Route, VersionInv, VersionCoversMembers, Changing
<1>. QED BY <1>1, GroupCorrect, PTL

\* A stored message is answered, and a failing call costs at most one acknowledged
\* message of a sender who stays: such a message is given up only at the second look
\* at the group or at the insertion, by a call that fails there.
THEOREM AnswersCorrect == Spec => []AnswersFitTable
<1>1. GroupInv => AnswersFitTable
  <2>. SUFFICES ASSUME GroupInv PROVE AnswersFitTable
      OBVIOUS
  <2>1. /\ Cardinality(Lost) \in Nat /\ Cardinality(LostHeld) \in Nat
        /\ faults \in Nat
      BY LossType, BoundAssumption DEF GroupInv, AnswersInv, Base, Types, RestTypes
  <2>. QED BY <2>1 DEF GroupInv, AnswersInv, Accounted, AnswersFitTable
<1>. QED BY <1>1, GroupCorrect, PTL

\* What a user has read stays read, unless two requests of that user overlapped.
THEOREM ReadCorrect == Spec => ReadStaysRead
<1>1. GroupInv /\ [Next]_vars => [\A u \in User : cnt'[u] < cnt[u] => u \in clashed]_vars
  <2>. SUFFICES ASSUME GroupInv, Next, NEW u \in User, cnt'[u] < cnt[u]
                PROVE  u \in clashed
      OBVIOUS
  <2>1. cnt \in [User -> Nat] /\ total \in Nat
      BY DEF GroupInv, Base, Types, RestTypes
  <2>2. PICK w \in Worker, ok \in BOOLEAN : SetCount(w, ok)
    <3>. USE DEF redis, out
    <3>1. cnt' # cnt
        BY <2>1
    <3>2. \A w \in Worker :
            /\ ~InsertNewGroup(w) /\ ~AddResponsePdu(w)
            /\ \A u0 \in User : ~ReadAck(w, u0) /\ \A op \in DOMAIN First : ~Request(w, op, u0)
        BY <3>1 DEF InsertNewGroup, AddResponsePdu, ReadAck, Request
    <3>3. \A w \in Worker, ok \in BOOLEAN :
            ~CreateStep(w, ok) /\ ~RemoveRepeatUser(w, ok) /\ ~InsertNewMember(w, ok)
        BY <3>1 DEF CreateStep, ResetMsgId, ClearRows, ClearHash, RemoveRepeatUser,
           InsertNewMember, SelectHas, WriteRows, HSet
    <3>4. \A w \in Worker, ok \in BOOLEAN :
            ~RemoveMember(w, ok) /\ ~IncGroupVersion(w, ok) /\ ~SendStep(w, ok)
        BY <3>1 DEF RemoveMember, RowOut, HDel, IncGroupVersion, SendStep, IsInGroup,
           GetMsgId, IsInGroupStill, InsertMessage, IncMessageCount
    <3>5. \A w \in Worker, ok \in BOOLEAN : ~ReadTotal(w, ok) /\ ~InfoStep(w, ok)
        BY <3>1 DEF ReadTotal, InfoStep, GetGroupVersion, FillGroupMember
    <3>. QED BY <3>2, <3>3, <3>4, <3>5 DEF Next, CounterStep
  <2>3. work[w].pc = "set" /\ work[w].seen \in Nat
      BY <2>2 DEF SetCount, At, GroupInv, Base, Types, WorkType
  <2>4. cnt' = [cnt EXCEPT ![work[w].user] = work[w].seen] \/ cnt' = cnt
      BY <2>2 DEF SetCount, Copy
  <2>5. u = work[w].user /\ work[w].seen < cnt[u]
      BY <2>1, <2>3, <2>4
  <2>. QED BY <2>1, <2>3, <2>5 DEF GroupInv, ReadInv
<1>. QED BY <1>1, GroupCorrect, PTL DEF Spec, ReadStaysRead
=============================================================================
