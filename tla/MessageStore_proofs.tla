------------------------- MODULE MessageStore_proofs -------------------------
(***************************************************************************)
(* Proofs about MessageStore, for any finite number of workers, any users, *)
(* and any number of requests and of calls that fail.                      *)
(***************************************************************************)
EXTENDS MessageStore, SequenceTheorems, FiniteSetTheorems, TLAPS

-----------------------------------------------------------------------------
(***************************************************************************)
(* The base of the other invariants: types, and what the fields of a       *)
(* worker mean where it is.                                                *)
(***************************************************************************)
\* Which calls a request of each kind makes, and for whom.
Route(x) ==
    /\ x.op = "none" => x.pc = "start"
    /\ x.op # "none" => x.from \in User /\ x.to \in User
    /\ x.op = "send" => x.pc \notin {"start", "hide", "clear"}
    /\ x.op = "remove" => x.pc \in {"find", "hide", "clear"} /\ x.side = "own"
    /\ x.op = "ack" => x.pc = "clear" /\ x.side = "own"

\* The rows a worker is about to use are those of its users.
Rows(w) ==
    /\ At(w, "addSession") => work[w].found = None \/ work[w].found \in Sessions(Of(w))
    /\ At(w, "hide") => work[w].found \in Sessions(Of(w))
    /\ At(w, "addRelation") =>
        work[w].found = None \/ work[w].found \in Relations(work[w].from, work[w].to)
    /\ work[w].pc \in {"reset", "id", "insert"} =>
        work[w].rel \in Relations(work[w].from, work[w].to)

\* So are those of the messages.
MessageRows ==
    \A i \in DOMAIN msgs : msgs[i].rel \in Relations(msgs[i].from, msgs[i].to)

Base == TypeOK /\ (\A w \in Worker : Route(work[w]) /\ Rows(w)) /\ MessageRows

\* No row is deleted or changes owner.
RowsStay ==
    /\ \A r \in DOMAIN rels : r \in DOMAIN rels' /\ rels'[r] = rels[r]
    /\ \A s \in DOMAIN ses : s \in DOMAIN ses' /\ ses'[s].of = ses[s].of

\* Only worker w changes, to something it may be.
Moves(w) ==
    /\ work' = [work EXCEPT ![w] = work'[w]]
    /\ work'[w] \in WorkType /\ Route(work'[w]) /\ Rows(w)'

LEMMA OpsAre == Ops = {"send", "remove", "ack"}
BY DEF Ops

LEMMA InitBase == Init => Base
<1>. SUFFICES ASSUME Init PROVE Base
    OBVIOUS
<1>. USE DEF Init
<1>1. DataOK
    BY BoundAssumption DEF DataOK
<1>2. work \in [Worker -> WorkType]
    BY DEF WorkType, Idle, Pcs, None
<1>3. \A w \in Worker : Route(work[w]) /\ Rows(w)
    BY DEF Route, Rows, At, Idle
<1>4. MessageRows
    BY DEF MessageRows
<1>. QED BY <1>1, <1>2, <1>3, <1>4 DEF Base, TypeOK

\* A worker that moves leaves the others where they are.
LEMMA OthersStay ==
    ASSUME Base, NEW w \in Worker, Moves(w)
    PROVE  /\ \A v \in Worker \ {w} : work'[v] = work[v]
           /\ work' \in [Worker -> WorkType]
BY DEF Base, TypeOK, Moves

LEMMA MoveKeepsBase ==
    ASSUME Base, NEW w \in Worker, Moves(w), RowsStay, DataOK', MessageRows'
    PROVE  Base'
<1>1. \A v \in Worker \ {w} : work'[v] = work[v]
    BY OthersStay
<1>2. \A o : Sessions(o) \subseteq Sessions(o)'
    BY DEF RowsStay, Sessions
<1>3. \A u, v : Relations(u, v) \subseteq Relations(u, v)'
    BY DEF RowsStay, Relations
<1>4. ASSUME NEW v \in Worker PROVE Route(work'[v]) /\ Rows(v)'
    <2>1. CASE v = w
        BY <2>1 DEF Moves
    <2>2. CASE v # w
        <3>1. work'[v] = work[v] /\ Rows(v) /\ Route(work[v])
            BY <1>1, <2>2 DEF Base
        <3>2. Of(v)' = Of(v)
            BY <3>1 DEF Of
        <3>. QED BY <1>2, <1>3, <3>1, <3>2 DEF Rows, At
    <2>. QED BY <2>1, <2>2
<1>. QED BY <1>4, OthersStay DEF Base, TypeOK

-----------------------------------------------------------------------------
(***************************************************************************)
(* Every step keeps the base.                                              *)
(***************************************************************************)
Keeps(w) == Moves(w) /\ RowsStay /\ DataOK' /\ MessageRows'

\* The data without the history, which no other data depends on.
SameData == rels' = rels /\ ses' = ses /\ msgs' = msgs /\ redis' = redis

LEMMA SameDataKeeps ==
    ASSUME Base, SameData, asked' \in 0..MaxRequest, faults' \in 0..MaxFault,
           doubled' \in [rels : SUBSET SUBSET User, ses : SUBSET (User \X User)],
           early' \subseteq Nat, missed' \subseteq User \X User
    PROVE  /\ RowsStay /\ DataOK' /\ MessageRows'
           /\ \A o : Sessions(o)' = Sessions(o) /\ Shown(o)' = Shown(o)
           /\ \A u, v : Relations(u, v)' = Relations(u, v)
<1>1. DataOK'
    BY DEF Base, TypeOK, DataOK, SameData, redis
<1>2. /\ \A o : Sessions(o)' = Sessions(o) /\ Shown(o)' = Shown(o)
      /\ \A u, v : Relations(u, v)' = Relations(u, v)
    BY DEF SameData, Sessions, Shown, Relations
<1>. QED BY <1>1, <1>2 DEF Base, RowsStay, MessageRows, SameData

LEMMA CallTypes ==
    ASSUME Base, NEW ok \in BOOLEAN, Call(ok)
    PROVE  faults' \in 0..MaxFault /\ (ok => faults' = faults) /\ (~ok => faults' = faults + 1)
BY BoundAssumption DEF Base, TypeOK, DataOK, Call

LEMMA RequestKeeps ==
    ASSUME Base, NEW w \in Worker, NEW op \in Ops, NEW u \in User, NEW v \in User,
           Request(w, op, u, v)
    PROVE  /\ Keeps(w) /\ SameData /\ hist' = hist
           /\ ~Busy(w) /\ work'[w].pc \in {"find", "clear"}
           /\ work'[w].pc = "find" <=> op # "ack"
           /\ work'[w].op = op
<1>1. SameData /\ UNCHANGED <<faults, doubled, early, missed>>
    BY DEF Request, SameData, mysql, redis, hist
<1>2. asked' \in 0..MaxRequest
    BY BoundAssumption DEF Request, Base, TypeOK, DataOK
<1>3. RowsStay /\ DataOK' /\ MessageRows'
    BY <1>1, <1>2, SameDataKeeps DEF Base, TypeOK, DataOK
<1>4. work'[w] = [Idle EXCEPT !.op = op, !.from = u, !.to = v,
                              !.pc = IF op = "ack" THEN "clear" ELSE "find"]
    BY DEF Request, Base, TypeOK
<1>5. work' = [work EXCEPT ![w] = work'[w]]
    BY <1>4 DEF Request, Base, TypeOK
<1>6. work'[w] \in WorkType /\ Route(work'[w])
    <2>1. work'[w] = [op |-> op, from |-> u, to |-> v,
                      pc |-> IF op = "ack" THEN "clear" ELSE "find", side |-> "own",
                      found |-> 0, session |-> 0, rel |-> 0, id |-> 0]
        BY <1>4 DEF Idle, None
    <2>2. work'[w] \in WorkType
        BY <2>1 DEF WorkType, Pcs
    <2>3. Route(work'[w])
        BY <2>1, OpsAre DEF Route
    <2>. QED BY <2>2, <2>3
<1>7. Rows(w)'
    BY <1>4 DEF Rows, At, Idle
<1>8. ~Busy(w)
    BY DEF Request
<1>9. work'[w].op = op /\ work'[w].pc = (IF op = "ack" THEN "clear" ELSE "find")
    <2>1. work'[w] = [op |-> op, from |-> u, to |-> v,
                      pc |-> IF op = "ack" THEN "clear" ELSE "find", side |-> "own",
                      found |-> 0, session |-> 0, rel |-> 0, id |-> 0]
        BY <1>4 DEF Idle, None
    <2>. QED BY <2>1
<1>. QED BY <1>1, <1>3, <1>5, <1>6, <1>7, <1>8, <1>9 DEF Keeps, Moves, hist

\* What worker w may go on with when a step is done.
LEMMA DoneMoves ==
    ASSUME Base, NEW w \in Worker, Done(w)
    PROVE  Moves(w) /\ work'[w] = Idle
BY DEF Base, TypeOK, Done, Moves, WorkType, Idle, Pcs, None, Route, Rows, At

LEMMA NextSideMoves ==
    ASSUME Base, NEW w \in Worker, NEW s \in Nat, work[w].op = "send", NextSide(w, s)
    PROVE  /\ Moves(w) /\ work'[w].pc \in {"find", "rel"} /\ work'[w].op = "send"
           /\ work'[w].from = work[w].from /\ work'[w].to = work[w].to
           /\ work'[w].pc = "rel" <=> work[w].side = "peer"
<1>. DEFINE x == work[w]
<1>1. x \in WorkType /\ Route(x)
    BY DEF Base, TypeOK
<1>2. work'[w] = IF x.side = "own"
                 THEN [x EXCEPT !.side = "peer", !.pc = "find", !.found = None, !.session = s]
                 ELSE [x EXCEPT !.pc = "rel", !.found = None, !.session = s]
    BY DEF NextSide, Base, TypeOK
<1>3. work' = [work EXCEPT ![w] = work'[w]]
    BY DEF NextSide, Base, TypeOK
<1>4. work'[w] \in WorkType /\ Route(work'[w])
    <2>1. CASE x.side = "own"
        <3>1. work'[w] = [op |-> x.op, from |-> x.from, to |-> x.to, pc |-> "find",
                          side |-> "peer", found |-> 0, session |-> s, rel |-> x.rel, id |-> x.id]
            BY <1>1, <1>2, <2>1 DEF None, WorkType
        <3>2. work'[w] \in WorkType
            BY <1>1, <3>1 DEF WorkType, Pcs
        <3>. QED BY <1>1, <3>1, <3>2 DEF WorkType, Route
    <2>2. CASE x.side # "own"
        <3>1. work'[w] = [op |-> x.op, from |-> x.from, to |-> x.to, pc |-> "rel",
                          side |-> x.side, found |-> 0, session |-> s, rel |-> x.rel, id |-> x.id]
            BY <1>1, <1>2, <2>2 DEF None, WorkType
        <3>2. work'[w] \in WorkType
            BY <1>1, <3>1 DEF WorkType, Pcs
        <3>. QED BY <1>1, <3>1, <3>2 DEF WorkType, Route
    <2>. QED BY <2>1, <2>2
<1>5. work'[w].pc \in {"find", "rel"}
    BY <1>1, <1>2 DEF WorkType
<1>6. Rows(w)'
    BY <1>5 DEF Rows, At
<1>. QED BY <1>1, <1>2, <1>3, <1>4, <1>5, <1>6 DEF Moves, WorkType

LEMMA GoMoves ==
    ASSUME Base, NEW w \in Worker, NEW p, Go(w, p),
           \/ work[w].op = "send" /\ p \in {"known", "look", "inc"}
           \/ work[w].op = "remove" /\ p = "clear"
    PROVE  /\ Moves(w) /\ work'[w] = [work[w] EXCEPT !.pc = p]
           /\ work'[w].pc = p /\ work'[w].op = work[w].op /\ work'[w].side = work[w].side
           /\ work'[w].from = work[w].from /\ work'[w].to = work[w].to
           /\ work'[w].rel = work[w].rel /\ work'[w].id = work[w].id
<1>. DEFINE x == work[w]
<1>1. x \in WorkType /\ Route(x) /\ p \in {"known", "look", "clear", "inc"}
    BY DEF Base, TypeOK
<1>2. work'[w] = [x EXCEPT !.pc = p] /\ work' = [work EXCEPT ![w] = work'[w]]
    BY DEF Go, Base, TypeOK
<1>3. work'[w] = [op |-> x.op, from |-> x.from, to |-> x.to, pc |-> p, side |-> x.side,
                  found |-> x.found, session |-> x.session, rel |-> x.rel, id |-> x.id]
    BY <1>1, <1>2 DEF WorkType
<1>4. work'[w] \in WorkType
    BY <1>1, <1>3 DEF WorkType, Pcs
<1>5. Route(work'[w])
    BY <1>1, <1>3 DEF Route
<1>6. Rows(w)'
    BY <1>1, <1>3 DEF Rows, At
<1>. QED BY <1>2, <1>3, <1>4, <1>5, <1>6 DEF Moves

\* Which calls only a message makes.
LEMMA SendOnly ==
    ASSUME Base, NEW w \in Worker,
           work[w].pc \in {"known", "addSession", "rel", "look", "addRelation", "reset", "id",
                           "insert", "inc"}
    PROVE  work[w].op = "send" /\ work[w].from \in User /\ work[w].to \in User
<1>1. work[w] \in WorkType /\ Route(work[w])
    BY DEF Base, TypeOK
<1>. QED BY <1>1, OpsAre DEF WorkType, Route

LEMMA OfUsers ==
    ASSUME Base, NEW w \in Worker, Busy(w)
    PROVE  Of(w) \in User \X User
BY DEF Base, Busy, Route, Of

\* A busy worker is not at the start.
LEMMA AtIsBusy ==
    ASSUME Base, NEW w \in Worker, work[w].pc # "start"
    PROVE  Busy(w)
BY DEF Base, Route, Busy

LEMMA SessionsAreRows ==
    ASSUME Base
    PROVE  \A o : Sessions(o) \subseteq 1..Len(ses) /\ Shown(o) \subseteq 1..Len(ses)
BY DEF Base, TypeOK, DataOK, Sessions, Shown

LEMMA RelationsAreRows ==
    ASSUME Base
    PROVE  \A u, v : Relations(u, v) \subseteq 1..Len(rels)
BY DEF Base, TypeOK, DataOK, Relations

LEMMA FindSessionKeeps ==
    ASSUME Base, NEW w \in Worker, NEW ok \in BOOLEAN, FindSession(w, ok)
    PROVE  /\ Keeps(w) /\ SameData /\ hist' = hist /\ work[w].op = "send"
           /\ work'[w].op = "send" /\ work'[w].pc \in {"known", "find", "rel"}
           /\ work'[w].from = work[w].from /\ work'[w].to = work[w].to
           /\ work'[w].pc = "rel" =>
                work[w].side = "peer" /\ (ok => Shown(Of(w)) # {})
<1>1. SameData /\ UNCHANGED <<asked, doubled, early, missed>>
    BY DEF FindSession, SameData, mysql, redis, hist
<1>2. RowsStay /\ DataOK' /\ MessageRows'
    BY <1>1, SameDataKeeps, CallTypes DEF FindSession, Base, TypeOK, DataOK
<1>3. PICK s \in Pick(ok, Found(w)) :
        IF s = None THEN Go(w, "known")
        ELSE NextSide(w, IF work[w].side = "own" THEN s ELSE work[w].session)
    BY DEF FindSession
<1>4. s \in Nat
    <2>1. Found(w) \subseteq 1..Len(ses) /\ Len(ses) \in Nat
        BY SessionsAreRows DEF Found, Base, TypeOK, DataOK
    <2>. QED BY <2>1 DEF Pick, None
<1>5. work[w].session \in Nat /\ work[w].op = "send"
    BY DEF FindSession, Base, TypeOK, WorkType
<1>6. /\ Moves(w) /\ work'[w].op = "send" /\ work'[w].pc \in {"known", "find", "rel"}
      /\ work'[w].from = work[w].from /\ work'[w].to = work[w].to
      /\ work'[w].pc = "rel" => work[w].side = "peer" /\ Shown(Of(w)) # {}
    <2>1. CASE s = None
        <3>1. Go(w, "known")
            BY <1>3, <2>1
        <3>2. /\ Moves(w) /\ work'[w].pc = "known" /\ work'[w].op = work[w].op
              /\ work'[w].from = work[w].from /\ work'[w].to = work[w].to
            BY <1>5, <3>1, GoMoves
        <3>. QED BY <1>5, <3>2
    <2>2. CASE s # None
        <3>1. s \in Shown(Of(w))
            BY <2>2 DEF Pick, Found
        <3>. QED BY <1>3, <1>4, <1>5, <2>2, <3>1, NextSideMoves
    <2>. QED BY <2>1, <2>2
<1>. QED BY <1>1, <1>2, <1>5, <1>6 DEF Keeps, hist

LEMMA KnowSessionKeeps ==
    ASSUME Base, NEW w \in Worker, NEW ok \in BOOLEAN, KnowSession(w, ok)
    PROVE  /\ Keeps(w) /\ SameData /\ Of(w)' = Of(w)
           /\ work'[w].pc = "addSession" /\ work'[w].op = "send"
           /\ (work'[w].found = None /\ ok => Sessions(Of(w)) = {})
<1>. DEFINE x == work[w]
<1>1. SameData /\ UNCHANGED <<asked, early, missed>>
    BY DEF KnowSession, SameData, mysql, redis
<1>2. x \in WorkType /\ x.op = "send" /\ Of(w) \in User \X User
    BY SendOnly, OfUsers, AtIsBusy DEF KnowSession, At, Base, TypeOK
<1>3. doubled' \in [rels : SUBSET SUBSET User, ses : SUBSET (User \X User)]
    BY <1>2 DEF KnowSession, Base, TypeOK, DataOK
<1>4. /\ RowsStay /\ DataOK' /\ MessageRows'
      /\ \A o : Sessions(o)' = Sessions(o)
    BY <1>1, <1>3, SameDataKeeps, CallTypes DEF KnowSession, Base, TypeOK, DataOK
<1>5. PICK s \in Pick(ok, Known(w)) :
        work' = [work EXCEPT ![w].pc = "addSession", ![w].found = s]
    BY DEF KnowSession
<1>6. s \in Nat /\ (s = None \/ s \in Sessions(Of(w))) /\ (s = None /\ ok => Sessions(Of(w)) = {})
    BY SessionsAreRows DEF Pick, Known, None, Base, TypeOK, DataOK
<1>7. work'[w] = [op |-> x.op, from |-> x.from, to |-> x.to, pc |-> "addSession",
                  side |-> x.side, found |-> s, session |-> x.session, rel |-> x.rel, id |-> x.id]
    BY <1>2, <1>5 DEF WorkType, Base, TypeOK
<1>8. work' = [work EXCEPT ![w] = work'[w]]
    BY <1>5 DEF Base, TypeOK
<1>9. work'[w] \in WorkType /\ Route(work'[w])
    <2>1. work'[w] \in WorkType
        BY <1>2, <1>6, <1>7 DEF WorkType, Pcs
    <2>2. Route(work'[w])
        BY <1>2, <1>7, SendOnly DEF Route, KnowSession, At
    <2>. QED BY <2>1, <2>2
<1>10. Of(w)' = Of(w)
    BY <1>7 DEF Of
<1>11. Rows(w)'
    BY <1>4, <1>6, <1>7, <1>10 DEF Rows, At
<1>. QED BY <1>1, <1>2, <1>4, <1>6, <1>7, <1>8, <1>9, <1>10, <1>11 DEF Keeps, Moves

\* A session is shown or removed.
LEMMA SetShown ==
    ASSUME Base, NEW s \in DOMAIN ses, NEW b \in BOOLEAN, ses' = [ses EXCEPT ![s].on = b]
    PROVE  /\ ses' \in Seq([of : User \X User, on : BOOLEAN])
           /\ DOMAIN ses' = DOMAIN ses
           /\ \A t \in DOMAIN ses : /\ ses'[t].of = ses[t].of
                                    /\ ses'[t].on = IF t = s THEN b ELSE ses[t].on
<1>. DEFINE T == [of : User \X User, on : BOOLEAN]
            e == [ses[s] EXCEPT !.on = b]
<1>1. ses \in Seq(T) /\ s \in 1..Len(ses)
    BY DEF Base, TypeOK, DataOK
<1>2. ses[s] \in T
    <2>. HIDE DEF T
    <2>. QED BY <1>1, ElementOfSeq
<1>3. e \in T /\ e.of = ses[s].of /\ e.on = b
    BY <1>2
<1>4. ses' = [ses EXCEPT ![s] = e]
    OBVIOUS
<1>. HIDE DEF e, T
<1>5. /\ ses' \in Seq(T) /\ Len(ses') = Len(ses)
      /\ \A t \in 1..Len(ses) : ses'[t] = IF t = s THEN e ELSE ses[t]
    BY <1>1, <1>3, <1>4, ExceptSeq
<1>6. DOMAIN ses' = DOMAIN ses /\ DOMAIN ses = 1..Len(ses)
    BY <1>1, <1>5
<1>. QED BY <1>3, <1>5, <1>6 DEF T

LEMMA NewSession ==
    ASSUME Base, NEW o \in User \X User, ses' = Append(ses, [of |-> o, on |-> TRUE])
    PROVE  /\ ses' \in Seq([of : User \X User, on : BOOLEAN])
           /\ DOMAIN ses' = DOMAIN ses \cup {Len(ses) + 1} /\ Len(ses) + 1 \notin DOMAIN ses
           /\ \A t \in DOMAIN ses : ses'[t] = ses[t]
           /\ ses'[Len(ses) + 1] = [of |-> o, on |-> TRUE]
BY DEF Base, TypeOK, DataOK

\* What AddSession does to the sessions.
SessionAdded(w, ok) ==
    /\ \A s \in DOMAIN ses : s \in DOMAIN ses' /\ ses'[s].of = ses[s].of
    /\ \A s \in DOMAIN ses : ses[s].on => ses'[s].on
    /\ \A s \in DOMAIN ses' \ DOMAIN ses :
        s = Len(ses) + 1 /\ ses'[s].of = Of(w) /\ work[w].found = None
    /\ ok => \E s \in DOMAIN ses' : ses'[s].of = Of(w) /\ ses'[s].on

LEMMA AddSessionKeeps ==
    ASSUME Base, NEW w \in Worker, NEW ok \in BOOLEAN, AddSession(w, ok)
    PROVE  Keeps(w) /\ SessionAdded(w, ok) /\ work'[w].pc \in {"find", "rel"}
           /\ work'[w].op = "send"
           /\ work'[w].from = work[w].from /\ work'[w].to = work[w].to
           /\ (work'[w].pc = "rel" <=> work[w].side = "peer")
<1>. DEFINE f == work[w].found
<1>1. /\ work[w].op = "send" /\ Of(w) \in User \X User /\ f \in Nat
      /\ f = None \/ f \in Sessions(Of(w))
    BY SendOnly, OfUsers, AtIsBusy DEF AddSession, At, Base, TypeOK, WorkType, Rows
<1>2. Len(ses) \in Nat /\ DOMAIN ses = 1..Len(ses)
    BY DEF Base, TypeOK, DataOK
<1>3. PICK n \in Nat : NextSide(w, n)
    BY <1>1, <1>2 DEF AddSession, None
<1>4. /\ ses' \in Seq([of : User \X User, on : BOOLEAN])
      /\ SessionAdded(w, ok)
    <2>1. CASE ~ok
        BY <2>1 DEF AddSession, SessionAdded, Base, TypeOK, DataOK
    <2>2. CASE ok /\ f # None
        <3>1. ses' = [ses EXCEPT ![f].on = TRUE] /\ f \in DOMAIN ses /\ ses[f].of = Of(w)
            BY <1>1, <2>2 DEF AddSession, Sessions
        <3>. QED BY <3>1, SetShown DEF SessionAdded
    <2>3. CASE ok /\ f = None
        <3>1. ses' = Append(ses, [of |-> Of(w), on |-> TRUE])
            BY <2>3 DEF AddSession
        <3>2. /\ ses' \in Seq([of : User \X User, on : BOOLEAN])
              /\ DOMAIN ses' = DOMAIN ses \cup {Len(ses) + 1}
              /\ \A t \in DOMAIN ses : ses'[t] = ses[t]
              /\ ses'[Len(ses) + 1] = [of |-> Of(w), on |-> TRUE]
            BY <1>1, <3>1, NewSession
        <3>. QED BY <2>3, <3>2 DEF SessionAdded
    <2>. QED BY <2>1, <2>2, <2>3
<1>5. rels' = rels /\ msgs' = msgs /\ lastId' = lastId /\ unread' = unread
      /\ UNCHANGED <<asked, hist>> /\ faults' \in 0..MaxFault
    BY CallTypes DEF AddSession, redis
<1>6. DataOK'
    BY <1>4, <1>5 DEF Base, TypeOK, DataOK, hist
<1>7. RowsStay /\ MessageRows'
    BY <1>4, <1>5 DEF RowsStay, SessionAdded, MessageRows, Base, Relations
<1>. QED BY <1>1, <1>3, <1>4, <1>6, <1>7, NextSideMoves DEF Keeps

LEMMA FindRemovedKeeps ==
    ASSUME Base, NEW w \in Worker, NEW ok \in BOOLEAN, FindRemoved(w, ok)
    PROVE  /\ Keeps(w) /\ SameData /\ hist' = hist
           /\ work[w].op = "remove" /\ work[w].pc = "find"
           /\ work'[w] = Idle \/ (work'[w].op = "remove" /\ work'[w].pc = "hide")
<1>. DEFINE x == work[w]
<1>1. SameData /\ UNCHANGED <<asked, doubled, early, missed>>
    BY DEF FindRemoved, SameData, mysql, redis, hist
<1>2. /\ RowsStay /\ DataOK' /\ MessageRows'
      /\ \A o : Sessions(o)' = Sessions(o)
    BY <1>1, SameDataKeeps, CallTypes DEF FindRemoved, Base, TypeOK, DataOK
<1>3. PICK s \in Pick(ok, Found(w)) :
        IF s = None THEN Done(w)
        ELSE work' = [work EXCEPT ![w].pc = "hide", ![w].found = s]
    BY DEF FindRemoved
<1>4. s \in Nat /\ (s = None \/ s \in Sessions(Of(w)))
    <2>1. Sessions(Of(w)) \subseteq 1..Len(ses) /\ Len(ses) \in Nat
        BY SessionsAreRows DEF Base, TypeOK, DataOK
    <2>2. Found(w) \subseteq Sessions(Of(w))
        BY DEF Found, Shown
    <2>. QED BY <2>1, <2>2 DEF Pick, None
<1>5. CASE s = None
    <2>1. Moves(w) /\ work'[w] = Idle
        BY <1>3, <1>5, DoneMoves
    <2>. QED BY <1>1, <1>2, <2>1 DEF Keeps, hist, FindRemoved, At
<1>6. CASE s # None
    <2>1. x \in WorkType /\ x.op = "remove" /\ Route(x)
        BY DEF FindRemoved, Base, TypeOK
    <2>2. work'[w] = [op |-> x.op, from |-> x.from, to |-> x.to, pc |-> "hide",
                      side |-> x.side, found |-> s, session |-> x.session, rel |-> x.rel,
                      id |-> x.id]
        BY <1>3, <1>6, <2>1 DEF WorkType, Base, TypeOK
    <2>3. work' = [work EXCEPT ![w] = work'[w]]
        BY <1>3, <1>6 DEF Base, TypeOK
    <2>4. work'[w] \in WorkType
        BY <1>4, <2>1, <2>2 DEF WorkType, Pcs
    <2>5. Route(work'[w])
        BY <2>1, <2>2 DEF Route
    <2>6. Of(w)' = Of(w)
        BY <2>2 DEF Of
    <2>7. Rows(w)'
        BY <1>2, <1>4, <1>6, <2>2, <2>6 DEF Rows, At
    <2>. QED BY <1>1, <1>2, <2>1, <2>2, <2>3, <2>4, <2>5, <2>7
             DEF Keeps, Moves, hist, FindRemoved, At
<1>. QED BY <1>5, <1>6

\* What RemoveSession does to the sessions.
SessionHidden(w, ok) ==
    /\ DOMAIN ses' = DOMAIN ses
    /\ \A s \in DOMAIN ses : ses'[s].of = ses[s].of
    /\ \A s \in DOMAIN ses : ses[s].of # Of(w) => ses'[s].on = ses[s].on
    /\ ~ok => ses' = ses

LEMMA RemoveSessionKeeps ==
    ASSUME Base, NEW w \in Worker, NEW ok \in BOOLEAN, RemoveSession(w, ok)
    PROVE  /\ Keeps(w) /\ SessionHidden(w, ok)
           /\ work[w].op = "remove"
           /\ work[w].pc = "hide" /\ doubled' = doubled /\ early' = early
           /\ IF ok THEN work'[w].op = "remove" /\ work'[w].pc = "clear" /\ Of(w)' = Of(w)
              ELSE work'[w] = Idle
           /\ missed' \in SUBSET (User \X User)
<1>. DEFINE f == work[w].found
<1>1. work[w].op = "remove" /\ Of(w) \in User \X User /\ f \in Sessions(Of(w))
    <2>1. work[w] \in WorkType /\ Route(work[w]) /\ Rows(w) /\ work[w].pc = "hide"
        BY DEF RemoveSession, At, Base, TypeOK
    <2>2. work[w].op = "remove"
        BY <2>1, OpsAre DEF WorkType, Route
    <2>. QED BY <2>1, <2>2, OfUsers, AtIsBusy DEF Rows, At
<1>2. f \in DOMAIN ses /\ ses[f].of = Of(w)
    BY <1>1 DEF Sessions
<1>3. ses' \in Seq([of : User \X User, on : BOOLEAN]) /\ SessionHidden(w, ok)
    <2>1. CASE ~ok
        BY <2>1 DEF RemoveSession, SessionHidden, Base, TypeOK, DataOK
    <2>2. CASE ok
        <3>1. ses' = [ses EXCEPT ![f].on = FALSE]
            BY <2>2 DEF RemoveSession
        <3>. QED BY <1>2, <2>2, <3>1, SetShown DEF SessionHidden
    <2>. QED BY <2>1, <2>2
<1>4. missed' \subseteq User \X User
    BY <1>1 DEF RemoveSession, Base, TypeOK, DataOK
<1>5. rels' = rels /\ msgs' = msgs /\ lastId' = lastId /\ unread' = unread
      /\ UNCHANGED <<asked, doubled, early>> /\ faults' \in 0..MaxFault
    BY CallTypes DEF RemoveSession, redis
<1>6. DataOK'
    BY <1>3, <1>4, <1>5 DEF Base, TypeOK, DataOK
<1>7. RowsStay /\ MessageRows'
    BY <1>3, <1>5 DEF RowsStay, SessionHidden, MessageRows, Base, Relations
<1>8. /\ Moves(w)
      /\ IF ok THEN work'[w].op = "remove" /\ work'[w].pc = "clear" /\ Of(w)' = Of(w)
         ELSE work'[w] = Idle
    <2>1. CASE ok
        <3>1. Go(w, "clear")
            BY <2>1 DEF RemoveSession
        <3>. QED BY <1>1, <2>1, <3>1, GoMoves DEF Of
    <2>2. CASE ~ok
        BY <2>2, DoneMoves DEF RemoveSession
    <2>. QED BY <2>1, <2>2
<1>. QED BY <1>1, <1>3, <1>4, <1>5, <1>6, <1>7, <1>8 DEF Keeps, RemoveSession, At

LEMMA ClearUserCounterKeeps ==
    ASSUME Base, NEW w \in Worker, NEW ok \in BOOLEAN, ClearUserCounter(w, ok)
    PROVE  /\ Keeps(w) /\ work'[w] = Idle
           /\ Of(w) \in User \X User
           /\ unread' = IF ok THEN [unread EXCEPT ![Of(w)] = 0] ELSE unread
<1>1. Of(w) \in User \X User
    BY OfUsers, AtIsBusy DEF ClearUserCounter, At
<1>2. unread' = IF ok THEN [unread EXCEPT ![Of(w)] = 0] ELSE unread
    BY DEF ClearUserCounter
<1>3. unread' \in [User \X User -> Nat]
    BY <1>1, <1>2 DEF Base, TypeOK, DataOK
<1>4. rels' = rels /\ ses' = ses /\ msgs' = msgs /\ lastId' = lastId
      /\ UNCHANGED <<asked, hist>> /\ faults' \in 0..MaxFault
    BY CallTypes DEF ClearUserCounter, mysql
<1>5. DataOK'
    BY <1>3, <1>4 DEF Base, TypeOK, DataOK, hist
<1>6. RowsStay /\ MessageRows'
    BY <1>4 DEF RowsStay, MessageRows, Base, Relations
<1>7. Moves(w) /\ work'[w] = Idle
    BY DoneMoves DEF ClearUserCounter
<1>. QED BY <1>1, <1>2, <1>5, <1>6, <1>7 DEF Keeps

\* With a relation, a message is given an id, or goes nowhere for want of a session.
LEMMA ProceedMoves ==
    ASSUME Base, NEW w \in Worker, NEW r \in Nat, work[w].op = "send", Proceed(w, r),
           r \in DOMAIN rels', rels'[r] = Key(work[w].from, work[w].to)
    PROVE  /\ Moves(w)
           /\ \/ work'[w] = Idle
              \/ /\ work'[w].pc = "id" /\ work'[w].op = "send" /\ work'[w].rel = r
                 /\ work'[w].from = work[w].from /\ work'[w].to = work[w].to
<1>. DEFINE x == work[w]
<1>1. x \in WorkType /\ Route(x)
    BY DEF Base, TypeOK
<1>2. CASE x.session = None
    BY <1>2, DoneMoves DEF Proceed
<1>3. CASE x.session # None
    <2>1. work'[w] = [op |-> x.op, from |-> x.from, to |-> x.to, pc |-> "id", side |-> x.side,
                      found |-> 0, session |-> x.session, rel |-> r, id |-> x.id]
        BY <1>1, <1>3 DEF Proceed, None, WorkType, Base, TypeOK
    <2>2. work' = [work EXCEPT ![w] = work'[w]]
        BY <1>3 DEF Proceed, Base, TypeOK
    <2>3. work'[w] \in WorkType
        BY <1>1, <2>1 DEF WorkType, Pcs
    <2>4. Route(work'[w])
        BY <1>1, <2>1 DEF Route
    <2>5. Rows(w)'
        BY <2>1 DEF Rows, At, Relations
    <2>. QED BY <2>1, <2>2, <2>3, <2>4, <2>5 DEF Moves
<1>. QED BY <1>2, <1>3

LEMMA GetRelationIdKeeps ==
    ASSUME Base, NEW w \in Worker, NEW ok \in BOOLEAN, GetRelationId(w, ok)
    PROVE  /\ Keeps(w) /\ SameData /\ hist' = hist
           /\ work'[w].pc \in {"look", "id", "start"}
<1>1. SameData /\ UNCHANGED <<asked, doubled, early, missed>>
    BY DEF GetRelationId, SameData, mysql, redis, hist
<1>2. /\ RowsStay /\ DataOK' /\ MessageRows'
      /\ \A u, v : Relations(u, v)' = Relations(u, v)
    BY <1>1, SameDataKeeps, CallTypes DEF GetRelationId, Base, TypeOK, DataOK
<1>3. work[w].op = "send" /\ work[w] \in WorkType
    BY SendOnly DEF GetRelationId, At, Base, TypeOK
<1>4. CASE Done(w)
    BY <1>1, <1>2, <1>4, DoneMoves DEF Keeps, hist, Idle
<1>5. ASSUME NEW r \in Pick(ok, Relations(work[w].from, work[w].to)),
             IF r = None THEN Go(w, "look") ELSE Proceed(w, r)
      PROVE  Moves(w) /\ work'[w].pc \in {"look", "id", "start"}
    <2>1. CASE r = None
        BY <1>3, <1>5, <2>1, GoMoves
    <2>2. CASE r # None
        <3>1. r \in Relations(work[w].from, work[w].to)
            BY <2>2 DEF Pick
        <3>2. r \in Nat
            BY <3>1, RelationsAreRows DEF Base, TypeOK, DataOK
        <3>3. r \in DOMAIN rels' /\ rels'[r] = Key(work[w].from, work[w].to)
            BY <1>1, <3>1 DEF SameData, Relations
        <3>. QED BY <1>3, <1>5, <2>2, <3>2, <3>3, ProceedMoves DEF Idle
    <2>. QED BY <2>1, <2>2
<1>. QED BY <1>1, <1>2, <1>4, <1>5 DEF Keeps, hist, GetRelationId

LEMMA LookOnMasterKeeps ==
    ASSUME Base, NEW w \in Worker, NEW ok \in BOOLEAN, LookOnMaster(w, ok)
    PROVE  /\ Keeps(w) /\ SameData
           /\ \/ work'[w] = Idle
              \/ /\ work'[w].pc = "addRelation" /\ Users(w)' = Users(w)
                 /\ work'[w].op = "send"
                 /\ (work'[w].found = None /\ ok => Relations(work[w].from, work[w].to) = {})
<1>. DEFINE x == work[w]
<1>1. SameData /\ UNCHANGED <<asked, early, missed>>
    BY DEF LookOnMaster, SameData, mysql, redis
<1>2. x \in WorkType /\ x.op = "send" /\ x.from \in User /\ x.to \in User
    BY SendOnly DEF LookOnMaster, At, Base, TypeOK
<1>3. doubled' \in [rels : SUBSET SUBSET User, ses : SUBSET (User \X User)]
    BY <1>2 DEF LookOnMaster, Base, TypeOK, DataOK, Users
<1>4. /\ RowsStay /\ DataOK' /\ MessageRows'
      /\ \A u, v : Relations(u, v)' = Relations(u, v)
    BY <1>1, <1>3, SameDataKeeps, CallTypes DEF LookOnMaster, Base, TypeOK, DataOK
<1>5. CASE Done(w)
    BY <1>1, <1>4, <1>5, DoneMoves DEF Keeps
<1>6. ASSUME NEW r \in Pick(ok, Relations(x.from, x.to)),
             work' = [work EXCEPT ![w].pc = "addRelation", ![w].found = r]
      PROVE  /\ Moves(w) /\ work'[w].pc = "addRelation" /\ Users(w)' = Users(w)
             /\ work'[w].op = "send"
             /\ (work'[w].found = None /\ ok => Relations(x.from, x.to) = {})
    <2>1. /\ r = None \/ r \in Relations(x.from, x.to)
          /\ r \in Nat
          /\ (r = None /\ ok => Relations(x.from, x.to) = {})
        BY RelationsAreRows DEF Pick, None, Base, TypeOK, DataOK
    <2>2. work'[w] = [op |-> x.op, from |-> x.from, to |-> x.to, pc |-> "addRelation",
                      side |-> x.side, found |-> r, session |-> x.session, rel |-> x.rel,
                      id |-> x.id]
        BY <1>2, <1>6 DEF WorkType, Base, TypeOK
    <2>3. work' = [work EXCEPT ![w] = work'[w]]
        BY <1>6 DEF Base, TypeOK
    <2>4. work'[w] \in WorkType
        BY <1>2, <2>1, <2>2 DEF WorkType, Pcs
    <2>5. Route(work'[w])
        BY <1>2, <2>2 DEF Route
    <2>6. x.from = work'[w].from /\ x.to = work'[w].to
        BY <2>2
    <2>7. Rows(w)'
        BY <1>1, <2>1, <2>2, <2>6 DEF Rows, At, Relations, SameData
    <2>. QED BY <1>2, <2>1, <2>2, <2>3, <2>4, <2>5, <2>7 DEF Moves, Users
<1>. QED BY <1>1, <1>4, <1>5, <1>6 DEF Keeps, LookOnMaster

\* What AddRelation does to the relations.
RelationAdded(w) ==
    /\ work[w].found = None /\ Users(w) \in SUBSET User
    /\ DOMAIN rels' = DOMAIN rels \cup {Len(rels) + 1} /\ Len(rels) + 1 \notin DOMAIN rels
    /\ \A r \in DOMAIN rels : rels'[r] = rels[r] /\ lastId'[r] = lastId[r]
    /\ rels'[Len(rels) + 1] = Users(w) /\ lastId'[Len(rels) + 1] = 0
    /\ work'[w].pc = "reset" /\ work'[w].rel = Len(rels) + 1

LEMMA AddRelationKeeps ==
    ASSUME Base, NEW w \in Worker, NEW ok \in BOOLEAN, AddRelation(w, ok)
    PROVE  /\ Keeps(w) /\ ses' = ses /\ msgs' = msgs /\ unread' = unread /\ hist' = hist
           /\ \/ /\ rels' = rels /\ lastId' = lastId
                 /\ work'[w] = Idle \/ work'[w].pc = "id"
              \/ RelationAdded(w) /\ work'[w].op = "send"
<1>. DEFINE x == work[w]
            n == Len(rels) + 1
<1>1. /\ x \in WorkType /\ x.op = "send" /\ x.from \in User /\ x.to \in User
      /\ x.found = None \/ x.found \in Relations(x.from, x.to)
    BY SendOnly DEF AddRelation, At, Base, TypeOK, Rows
<1>2. /\ ses' = ses /\ msgs' = msgs /\ unread' = unread /\ UNCHANGED <<asked, hist>>
      /\ faults' \in 0..MaxFault
    BY CallTypes DEF AddRelation
<1>3. Users(w) = Key(x.from, x.to) /\ Users(w) \in SUBSET User
    BY <1>1 DEF Users, Key
<1>4. /\ Len(rels) \in Nat /\ DOMAIN rels = 1..Len(rels) /\ Len(lastId) = Len(rels)
      /\ rels \in Seq(SUBSET User) /\ lastId \in Seq(Nat)
    BY DEF Base, TypeOK, DataOK
<1>5. ASSUME rels' = rels, lastId' = lastId, Moves(w), work'[w] = Idle \/ work'[w].pc = "id"
      PROVE  /\ Keeps(w) /\ hist' = hist
             /\ work'[w] = Idle \/ work'[w].pc = "id"
    <2>1. DataOK'
        BY <1>2, <1>5 DEF Base, TypeOK, DataOK, hist
    <2>2. RowsStay /\ MessageRows'
        BY <1>2, <1>5 DEF RowsStay, MessageRows, Base, Relations
    <2>. QED BY <1>2, <1>5, <2>1, <2>2 DEF Keeps, hist
<1>6. CASE ~ok
    <2>1. rels' = rels /\ lastId' = lastId /\ Done(w)
        BY <1>6 DEF AddRelation
    <2>. QED BY <1>2, <1>5, <2>1, DoneMoves
<1>7. CASE ok /\ x.found # None
    <2>1. rels' = rels /\ lastId' = lastId /\ Proceed(w, x.found)
        BY <1>7 DEF AddRelation, AfterUpdate
    <2>2. x.found \in DOMAIN rels' /\ rels'[x.found] = Key(x.from, x.to) /\ x.found \in Nat
        BY <1>1, <1>4, <1>7, <2>1 DEF Relations
    <2>3. Moves(w) /\ (work'[w] = Idle \/ work'[w].pc = "id")
        BY <1>1, <2>1, <2>2, ProceedMoves
    <2>. QED BY <1>2, <1>5, <2>1, <2>3
<1>8. CASE ok /\ x.found = None
    <2>1. /\ rels' = Append(rels, Users(w)) /\ lastId' = Append(lastId, 0)
          /\ work' = [work EXCEPT ![w].pc = "reset", ![w].rel = n]
        BY <1>3, <1>8 DEF AddRelation
    <2>2. /\ rels' \in Seq(SUBSET User) /\ Len(rels') = n
          /\ DOMAIN rels' = DOMAIN rels \cup {n} /\ n \notin DOMAIN rels
          /\ \A r \in DOMAIN rels : rels'[r] = rels[r]
          /\ rels'[n] = Users(w)
        BY <1>3, <1>4, <2>1
    <2>3. /\ lastId' \in Seq(Nat) /\ Len(lastId') = n
          /\ \A r \in DOMAIN rels : lastId'[r] = lastId[r]
          /\ lastId'[n] = 0
        BY <1>4, <2>1
    <2>4. DataOK'
        BY <1>2, <2>2, <2>3 DEF Base, TypeOK, DataOK, hist
    <2>5. RowsStay /\ MessageRows'
        BY <1>2, <2>2 DEF RowsStay, MessageRows, Base, Relations
    <2>6. work'[w] = [op |-> x.op, from |-> x.from, to |-> x.to, pc |-> "reset",
                      side |-> x.side, found |-> x.found, session |-> x.session, rel |-> n,
                      id |-> x.id]
        BY <1>1, <2>1 DEF WorkType, Base, TypeOK
    <2>7. work' = [work EXCEPT ![w] = work'[w]]
        BY <2>1 DEF Base, TypeOK
    <2>8. work'[w] \in WorkType
        BY <1>1, <1>4, <2>6 DEF WorkType, Pcs
    <2>9. Route(work'[w])
        BY <1>1, <2>6 DEF Route
    <2>10. Rows(w)'
        BY <1>3, <2>2, <2>6 DEF Rows, At, Relations
    <2>11. RelationAdded(w)
        BY <1>3, <1>8, <2>2, <2>3, <2>6 DEF RelationAdded
    <2>. QED BY <1>1, <1>2, <2>4, <2>5, <2>6, <2>7, <2>8, <2>9, <2>10, <2>11
             DEF Keeps, Moves, hist
<1>. QED BY <1>6, <1>7, <1>8

LEMMA LastIdIsSeq ==
    ASSUME Base
    PROVE  lastId \in Seq(Nat) /\ Len(lastId) = Len(rels) /\ DOMAIN rels = 1..Len(rels)
           /\ DOMAIN rels \subseteq Nat
BY DEF Base, TypeOK, DataOK

LEMMA ResetMsgIdKeeps ==
    ASSUME Base, NEW w \in Worker, NEW ok \in BOOLEAN, ResetMsgId(w, ok)
    PROVE  /\ Keeps(w) /\ rels' = rels /\ ses' = ses /\ msgs' = msgs /\ unread' = unread
           /\ hist' = hist
           /\ work[w].pc = "reset" /\ work[w].rel \in DOMAIN rels
           /\ \A s \in DOMAIN rels :
                lastId'[s] = lastId[s] \/ (s = work[w].rel /\ lastId'[s] = 0)
           /\ work'[w] = Idle \/ work'[w].pc = "id"
<1>. DEFINE x == work[w]
<1>1. x.op = "send" /\ x.pc = "reset" /\ x.rel \in Relations(x.from, x.to)
    BY SendOnly DEF ResetMsgId, At, Base, Rows
<1>2. /\ rels' = rels /\ ses' = ses /\ msgs' = msgs /\ unread' = unread
      /\ UNCHANGED <<asked, hist>> /\ faults' \in 0..MaxFault
    BY CallTypes DEF ResetMsgId, mysql
<1>3. x.rel \in DOMAIN rels /\ x.rel \in Nat /\ rels[x.rel] = Key(x.from, x.to)
    BY <1>1 DEF Relations, Base, TypeOK, DataOK
<1>4. /\ lastId' \in Seq(Nat) /\ Len(lastId') = Len(rels)
      /\ \A s \in DOMAIN rels : lastId'[s] = lastId[s] \/ (s = x.rel /\ lastId'[s] = 0)
    <2>1. CASE ok
        <3>1. lastId' = [lastId EXCEPT ![x.rel] = 0]
            BY <2>1 DEF ResetMsgId
        <3>. QED BY <1>3, <3>1, LastIdIsSeq, ExceptSeq
    <2>2. CASE ~ok
        BY <2>2 DEF ResetMsgId, Base, TypeOK, DataOK
    <2>. QED BY <2>1, <2>2
<1>5. DataOK'
    BY <1>2, <1>4 DEF Base, TypeOK, DataOK, hist
<1>6. RowsStay /\ MessageRows'
    BY <1>2 DEF RowsStay, MessageRows, Base, Relations
<1>7. Moves(w) /\ (work'[w] = Idle \/ work'[w].pc = "id")
    BY <1>1, <1>2, <1>3, ProceedMoves DEF ResetMsgId
<1>. QED BY <1>1, <1>2, <1>3, <1>4, <1>5, <1>6, <1>7 DEF Keeps

LEMMA GetMsgIdKeeps ==
    ASSUME Base, NEW w \in Worker, NEW ok \in BOOLEAN, GetMsgId(w, ok)
    PROVE  /\ Keeps(w) /\ rels' = rels /\ ses' = ses /\ msgs' = msgs /\ unread' = unread
           /\ missed' = missed /\ doubled' = doubled
           /\ work[w].pc = "id" /\ work[w].rel \in DOMAIN rels /\ work[w].op = "send"
           /\ \A s \in DOMAIN rels :
                lastId'[s] = lastId[s] \/ (s = work[w].rel /\ ok /\ lastId'[s] = lastId[s] + 1)
           /\ \/ work'[w] = Idle
              \/ /\ work'[w].pc = "insert" /\ work'[w].rel = work[w].rel
                 /\ work'[w].op = "send"
                 /\ work'[w].from = work[w].from /\ work'[w].to = work[w].to
                 /\ \/ work'[w].id = BadId
                    \/ work'[w].id = lastId[work[w].rel] + 1 /\ lastId'[work[w].rel] = work'[w].id
<1>. DEFINE x == work[w]
            r == work[w].rel
<1>1. x \in WorkType /\ x.op = "send" /\ x.pc = "id" /\ r \in Relations(x.from, x.to)
    BY SendOnly DEF GetMsgId, At, Base, TypeOK, Rows
<1>2. /\ rels' = rels /\ ses' = ses /\ msgs' = msgs /\ unread' = unread
      /\ UNCHANGED <<asked, doubled, missed>> /\ faults' \in 0..MaxFault
    BY CallTypes DEF GetMsgId, mysql
<1>3. /\ r \in DOMAIN rels /\ r \in Nat /\ rels[r] = Key(x.from, x.to)
      /\ \A s \in DOMAIN rels : lastId[s] \in Nat
    BY <1>1, LastIdIsSeq DEF Relations
<1>4. early' \subseteq Nat
    BY <1>3 DEF GetMsgId, Base, TypeOK, DataOK
<1>5. /\ lastId' \in Seq(Nat) /\ Len(lastId') = Len(rels)
      /\ \A s \in DOMAIN rels :
            lastId'[s] = lastId[s] \/ (s = r /\ ok /\ lastId'[s] = lastId[s] + 1)
      /\ ok => lastId'[r] = lastId[r] + 1
    <2>1. CASE ok
        <3>1. lastId' = [lastId EXCEPT ![r] = lastId[r] + 1]
            BY <2>1 DEF GetMsgId
        <3>2. lastId[r] + 1 \in Nat
            BY <1>3
        <3>. QED BY <1>3, <2>1, <3>1, <3>2, LastIdIsSeq, ExceptSeq
    <2>2. CASE ~ok
        BY <2>2, LastIdIsSeq DEF GetMsgId
    <2>. QED BY <2>1, <2>2
<1>6. DataOK'
    BY <1>2, <1>4, <1>5 DEF Base, TypeOK, DataOK
<1>7. RowsStay /\ MessageRows'
    BY <1>2 DEF RowsStay, MessageRows, Base, Relations
<1>8. CASE Done(w)
    BY <1>1, <1>2, <1>3, <1>5, <1>6, <1>7, <1>8, DoneMoves DEF Keeps
<1>9. ASSUME NEW n \in Nat, work' = [work EXCEPT ![w].pc = "insert", ![w].id = n],
             n = BadId \/ (ok /\ n = lastId[r] + 1)
      PROVE  /\ Moves(w) /\ work'[w].pc = "insert" /\ work'[w].rel = r /\ work'[w].op = "send"
             /\ work'[w].from = x.from /\ work'[w].to = x.to /\ work'[w].id = n
    <2>1. work'[w] = [op |-> x.op, from |-> x.from, to |-> x.to, pc |-> "insert",
                      side |-> x.side, found |-> x.found, session |-> x.session, rel |-> r,
                      id |-> n]
        BY <1>1, <1>9 DEF WorkType, Base, TypeOK
    <2>2. work' = [work EXCEPT ![w] = work'[w]]
        BY <1>9 DEF Base, TypeOK
    <2>3. work'[w] \in WorkType
        BY <1>1, <2>1 DEF WorkType, Pcs
    <2>4. Route(work'[w])
        <3>1. x.from \in User /\ x.to \in User
            BY <1>1, SendOnly
        <3>. QED BY <1>1, <2>1, <3>1 DEF Route
    <2>5. Rows(w)'
        BY <1>2, <1>3, <2>1 DEF Rows, At, Relations
    <2>. QED BY <1>1, <2>1, <2>2, <2>3, <2>4, <2>5 DEF Moves
<1>10. CASE ok /\ work' = [work EXCEPT ![w].pc = "insert", ![w].id = lastId[r] + 1]
    <2>1. lastId[r] + 1 \in Nat
        BY <1>3
    <2>. QED BY <1>1, <1>2, <1>3, <1>5, <1>6, <1>7, <1>9, <1>10, <2>1 DEF Keeps
<1>11. CASE ~ok /\ work' = [work EXCEPT ![w].pc = "insert", ![w].id = BadId]
    BY <1>1, <1>2, <1>3, <1>5, <1>6, <1>7, <1>9, <1>11, IdAssumption DEF Keeps
<1>. QED BY <1>8, <1>10, <1>11 DEF GetMsgId

LEMMA InsertMessageKeeps ==
    ASSUME Base, NEW w \in Worker, NEW ok \in BOOLEAN, InsertMessage(w, ok)
    PROVE  /\ Keeps(w) /\ rels' = rels /\ ses' = ses /\ redis' = redis /\ hist' = hist
           /\ work[w].pc = "insert" /\ work[w].rel \in DOMAIN rels /\ work[w].op = "send"
           /\ \/ work'[w] = Idle /\ msgs' = msgs
              \/ /\ work'[w].pc = "inc" /\ work'[w].op = "send"
                 /\ work'[w].from = work[w].from /\ work'[w].to = work[w].to
                 /\ DOMAIN msgs' = DOMAIN msgs \cup {Len(msgs) + 1}
                 /\ \A i \in DOMAIN msgs : msgs'[i] = msgs[i]
                 /\ msgs'[Len(msgs) + 1].rel = work[w].rel
                 /\ msgs'[Len(msgs) + 1].id = work[w].id
<1>. DEFINE x == work[w]
            m == [rel |-> x.rel, id |-> x.id, from |-> x.from, to |-> x.to]
<1>1. /\ x \in WorkType /\ x.op = "send" /\ x.pc = "insert" /\ x.from \in User /\ x.to \in User
      /\ x.rel \in Relations(x.from, x.to)
    BY SendOnly DEF InsertMessage, At, Base, TypeOK, Rows
<1>2. /\ rels' = rels /\ ses' = ses /\ redis' = redis
      /\ UNCHANGED <<asked, hist>> /\ faults' \in 0..MaxFault
    BY CallTypes DEF InsertMessage
<1>3. x.rel \in DOMAIN rels /\ m \in [rel : Nat, id : Nat, from : User, to : User]
    BY <1>1 DEF Relations, WorkType
<1>4. CASE ~ok
    <2>1. msgs' = msgs /\ Done(w)
        BY <1>4 DEF InsertMessage
    <2>2. DataOK' /\ RowsStay /\ MessageRows'
        BY <1>2, <2>1 DEF Base, TypeOK, DataOK, hist, redis, RowsStay, MessageRows, Relations
    <2>. QED BY <1>1, <1>2, <1>3, <2>1, <2>2, DoneMoves DEF Keeps
<1>5. CASE ok
    <2>1. msgs' = Append(msgs, m) /\ Go(w, "inc")
        BY <1>5 DEF InsertMessage
    <2>2. Moves(w) /\ work'[w].pc = "inc" /\ work'[w].op = "send"
          /\ work'[w].from = x.from /\ work'[w].to = x.to
        BY <1>1, <2>1, GoMoves
    <2>. HIDE DEF m
    <2>3. /\ msgs' \in Seq([rel : Nat, id : Nat, from : User, to : User])
          /\ DOMAIN msgs' = DOMAIN msgs \cup {Len(msgs) + 1}
          /\ \A i \in DOMAIN msgs : msgs'[i] = msgs[i]
          /\ msgs'[Len(msgs) + 1] = m
        BY <1>3, <2>1 DEF Base, TypeOK, DataOK
    <2>4. DataOK'
        BY <1>2, <2>3 DEF Base, TypeOK, DataOK, hist, redis
    <2>5. RowsStay /\ MessageRows'
        BY <1>1, <1>2, <2>3 DEF RowsStay, MessageRows, Base, Relations, m
    <2>. QED BY <1>1, <1>2, <1>3, <2>2, <2>3, <2>4, <2>5 DEF Keeps, m
<1>. QED BY <1>4, <1>5

LEMMA IncMsgCountKeeps ==
    ASSUME Base, NEW w \in Worker, NEW ok \in BOOLEAN, IncMsgCount(w, ok)
    PROVE  /\ Keeps(w) /\ mysql' = mysql /\ lastId' = lastId /\ hist' = hist
           /\ work'[w] = Idle /\ work[w].op = "send" /\ work[w].pc = "inc"
           /\ \A o \in User \X User :
                unread'[o] = unread[o] \/ o = <<work[w].to, work[w].from>>
<1>. DEFINE o == <<work[w].to, work[w].from>>
<1>1. work[w].op = "send" /\ work[w].pc = "inc" /\ o \in User \X User
    BY SendOnly DEF IncMsgCount, At
<1>2. unread' = IF ok THEN [unread EXCEPT ![o] = @ + 1] ELSE unread
    BY DEF IncMsgCount
<1>. HIDE DEF o
<1>3. unread' \in [User \X User -> Nat] /\ \A p \in User \X User : unread'[p] = unread[p] \/ p = o
    BY <1>1, <1>2 DEF Base, TypeOK, DataOK
<1>4. mysql' = mysql /\ lastId' = lastId /\ UNCHANGED <<asked, hist>> /\ faults' \in 0..MaxFault
    BY CallTypes DEF IncMsgCount
<1>5. DataOK'
    BY <1>3, <1>4 DEF Base, TypeOK, DataOK, hist, mysql
<1>6. RowsStay /\ MessageRows'
    BY <1>4 DEF RowsStay, MessageRows, Base, Relations, mysql
<1>7. Moves(w) /\ work'[w] = Idle
    BY DoneMoves DEF IncMsgCount
<1>. QED BY <1>1, <1>3, <1>4, <1>5, <1>6, <1>7 DEF Keeps, o, hist

\* One call of worker w.
CallStep(w, ok) ==
    \/ FindSession(w, ok) \/ KnowSession(w, ok) \/ AddSession(w, ok)
    \/ FindRemoved(w, ok) \/ RemoveSession(w, ok) \/ ClearUserCounter(w, ok)
    \/ GetRelationId(w, ok) \/ LookOnMaster(w, ok) \/ AddRelation(w, ok) \/ ResetMsgId(w, ok)
    \/ GetMsgId(w, ok) \/ InsertMessage(w, ok) \/ IncMsgCount(w, ok)

RequestStep(w) == \E op \in Ops, u, v \in User : Request(w, op, u, v)

LEMMA NextSteps ==
    Next <=> \E w \in Worker : RequestStep(w) \/ \E ok \in BOOLEAN : CallStep(w, ok)
BY DEF Next, RequestStep, CallStep, SessionStep, RemoveStep, RelationStep, MessageStep

LEMMA StepKeeps ==
    ASSUME Base, NEW w \in Worker, RequestStep(w) \/ \E ok \in BOOLEAN : CallStep(w, ok)
    PROVE  Keeps(w)
<1>1. CASE RequestStep(w)
    BY <1>1, RequestKeeps DEF RequestStep
<1>2. CASE \E ok \in BOOLEAN : CallStep(w, ok)
    <2>1. PICK ok \in BOOLEAN : CallStep(w, ok)
        BY <1>2
    <2>2. CASE FindSession(w, ok)
        BY <2>2, FindSessionKeeps
    <2>3. CASE KnowSession(w, ok)
        BY <2>3, KnowSessionKeeps
    <2>4. CASE AddSession(w, ok)
        BY <2>4, AddSessionKeeps
    <2>5. CASE FindRemoved(w, ok)
        BY <2>5, FindRemovedKeeps
    <2>6. CASE RemoveSession(w, ok)
        BY <2>6, RemoveSessionKeeps
    <2>7. CASE ClearUserCounter(w, ok)
        BY <2>7, ClearUserCounterKeeps
    <2>8. CASE GetRelationId(w, ok)
        BY <2>8, GetRelationIdKeeps
    <2>9. CASE LookOnMaster(w, ok)
        BY <2>9, LookOnMasterKeeps
    <2>10. CASE AddRelation(w, ok)
        BY <2>10, AddRelationKeeps
    <2>11. CASE ResetMsgId(w, ok)
        BY <2>11, ResetMsgIdKeeps
    <2>12. CASE GetMsgId(w, ok)
        BY <2>12, GetMsgIdKeeps
    <2>13. CASE InsertMessage(w, ok)
        BY <2>13, InsertMessageKeeps
    <2>14. CASE IncMsgCount(w, ok)
        BY <2>14, IncMsgCountKeeps
    <2>. QED BY <2>1, <2>2, <2>3, <2>4, <2>5, <2>6, <2>7, <2>8, <2>9, <2>10,
                <2>11, <2>12, <2>13, <2>14 DEF CallStep
<1>. QED BY <1>1, <1>2

LEMMA NextBase == Base /\ [Next]_vars => Base'
<1>. SUFFICES ASSUME Base, [Next]_vars PROVE Base'
    OBVIOUS
<1>1. CASE UNCHANGED vars
    <2>1. TypeOK'
        BY <1>1 DEF vars, mysql, redis, hist, Base, TypeOK, DataOK
    <2>2. \A w \in Worker : Route(work'[w]) /\ Rows(w)'
        BY <1>1 DEF vars, mysql, Base, Rows, At, Sessions, Relations, Of
    <2>3. MessageRows'
        BY <1>1 DEF vars, mysql, Base, MessageRows, Relations
    <2>. QED BY <2>1, <2>2, <2>3 DEF Base
<1>2. CASE Next
    <2>1. PICK w \in Worker : RequestStep(w) \/ \E ok \in BOOLEAN : CallStep(w, ok)
        BY <1>2, NextSteps
    <2>. QED BY <2>1, StepKeeps, MoveKeepsBase DEF Keeps
<1>. QED BY <1>1, <1>2

LEMMA SpecBase == Spec => []Base
BY InitBase, NextBase, PTL DEF Spec

\* Every variable keeps its type.
THEOREM TypeCorrect == Spec => []TypeOK
<1>1. Base => TypeOK
    BY DEF Base
<1>. QED BY <1>1, SpecBase, PTL

-----------------------------------------------------------------------------
(***************************************************************************)
(* Counting rows: those there are, rows, and the workers about to add one, *)
(* adders.  Once there is one, only a look that fails makes another adder. *)
(***************************************************************************)
Few(rows, adders, n) ==
    rows # {} => Cardinality(rows) + Cardinality(adders) <= Cardinality(Worker) + n

LEMMA WorkersCount ==
    ASSUME NEW A \in SUBSET Worker
    PROVE  /\ IsFiniteSet(A) /\ Cardinality(A) \in Nat /\ Cardinality(Worker) \in Nat
           /\ Cardinality(A) <= Cardinality(Worker)
BY WorkerAssumption, FS_Subset, FS_CardinalityType

\* Nobody new is about to add.
LEMMA FewKept ==
    ASSUME NEW S, IsFiniteSet(S), NEW A \in SUBSET Worker, NEW B \in SUBSET A,
           NEW m \in Nat, NEW n \in Nat, m <= n, Few(S, A, m)
    PROVE  Few(S, B, n)
<1>1. Cardinality(S) \in Nat
    BY FS_CardinalityType
<1>2. /\ Cardinality(A) \in Nat /\ Cardinality(B) \in Nat
      /\ Cardinality(Worker) \in Nat /\ Cardinality(B) <= Cardinality(A)
    BY WorkersCount, FS_Subset
<1>. QED BY <1>1, <1>2 DEF Few

\* A look that fails makes an adder.
LEMMA FewFailed ==
    ASSUME NEW S, IsFiniteSet(S), NEW A \in SUBSET Worker, NEW w \in Worker,
           NEW B \in SUBSET (A \cup {w}), NEW m \in Nat, Few(S, A, m)
    PROVE  Few(S, B, m + 1)
<1>1. Cardinality(S) \in Nat
    BY FS_CardinalityType
<1>2. /\ IsFiniteSet(A) /\ Cardinality(A) \in Nat /\ Cardinality(B) \in Nat
      /\ Cardinality(Worker) \in Nat
      /\ IsFiniteSet(A \cup {w}) /\ Cardinality(A \cup {w}) \in Nat
    <2>1. A \cup {w} \in SUBSET Worker /\ B \in SUBSET Worker
        OBVIOUS
    <2>. QED BY <2>1, WorkersCount
<1>3. Cardinality(A \cup {w}) <= Cardinality(A) + 1
    <2>1. Cardinality(A \cup {w}) =
            IF w \in A THEN Cardinality(A) ELSE Cardinality(A) + 1
        BY <1>2, FS_AddElement
    <2>. QED BY <1>2, <2>1
<1>4. Cardinality(B) <= Cardinality(A \cup {w})
    BY <1>2, FS_Subset
<1>. QED BY <1>1, <1>2, <1>3, <1>4 DEF Few

\* Adder w adds row x.
LEMMA FewAdded ==
    ASSUME NEW S, IsFiniteSet(S), NEW A \in SUBSET Worker, NEW w \in A,
           NEW B \in SUBSET (A \ {w}), NEW x, NEW m \in Nat, Few(S, A, m)
    PROVE  Few(S \cup {x}, B, m)
<1>1. Cardinality(S) \in Nat
    BY FS_CardinalityType
<1>2. /\ IsFiniteSet(A) /\ Cardinality(A) \in Nat /\ Cardinality(B) \in Nat
      /\ Cardinality(Worker) \in Nat /\ Cardinality(A) <= Cardinality(Worker)
    <2>1. B \in SUBSET Worker
        OBVIOUS
    <2>. QED BY <2>1, WorkersCount
<1>3. IsFiniteSet(A \ {w}) /\ Cardinality(A \ {w}) = Cardinality(A) - 1
    BY <1>2, FS_RemoveElement
<1>4. Cardinality(B) <= Cardinality(A) - 1
    <2>1. Cardinality(B) <= Cardinality(A \ {w})
        BY <1>3, FS_Subset
    <2>. QED BY <1>3, <2>1
<1>5. Cardinality(S \cup {x}) \in Nat /\ Cardinality(S \cup {x}) <= Cardinality(S) + 1
    <2>1. Cardinality(S \cup {x}) = IF x \in S THEN Cardinality(S) ELSE Cardinality(S) + 1
        BY FS_AddElement
    <2>. QED BY <1>1, <2>1
<1>6. S = {} => Cardinality(S) = 0
    BY FS_EmptySet
<1>. QED BY <1>1, <1>2, <1>4, <1>5, <1>6 DEF Few

\* Few rows and adders make few rows.
LEMMA FewAreFew ==
    ASSUME NEW S, IsFiniteSet(S), NEW A \in SUBSET Worker, faults \in Nat, Few(S, A, faults)
    PROVE  AreFew(S)
<1>1. Cardinality(S) \in Nat /\ Cardinality(A) \in Nat /\ Cardinality(Worker) \in Nat
    BY WorkersCount, FS_CardinalityType
<1>2. S = {} => Cardinality(S) = 0
    BY FS_EmptySet
<1>. QED BY <1>1, <1>2 DEF Few, AreFew

\* No step takes back a failure.
LEMMA FaultsGrow ==
    ASSUME Base, NEW w \in Worker, RequestStep(w) \/ \E ok \in BOOLEAN : CallStep(w, ok)
    PROVE  faults \in Nat /\ faults' \in Nat /\ faults <= faults'
<1>1. faults \in Nat
    BY BoundAssumption DEF Base, TypeOK, DataOK
<1>2. CASE RequestStep(w)
    <2>1. PICK op \in Ops, u \in User, v \in User : Request(w, op, u, v)
        BY <1>2 DEF RequestStep
    <2>2. faults' = faults
        BY <2>1 DEF Request
    <2>. QED BY <1>1, <2>2
<1>3. ASSUME NEW ok \in BOOLEAN, CallStep(w, ok) PROVE faults' \in Nat /\ faults <= faults'
    <2>1. Call(ok)
        BY <1>3 DEF CallStep, FindSession, KnowSession, AddSession, FindRemoved, RemoveSession,
                    ClearUserCounter, GetRelationId, LookOnMaster, AddRelation, ResetMsgId,
                    GetMsgId, InsertMessage, IncMsgCount
    <2>. QED BY <1>1, <2>1, CallTypes, BoundAssumption
<1>. QED BY <1>1, <1>2, <1>3

-----------------------------------------------------------------------------
(***************************************************************************)
(* One session.                                                            *)
(***************************************************************************)
SessionsOnce ==
    \A s, t \in DOMAIN ses : ses[s].of = ses[t].of => s = t \/ ses[s].of \in doubled.ses

\* Of two workers that are about to add the same session each is known, and one
\* that found none may add one.
SessionInv ==
    /\ SessionsOnce
    /\ \A w \in Worker : At(w, "addSession") =>
        /\ work[w].found = None => Sessions(Of(w)) = {} \/ Of(w) \in doubled.ses
        /\ \A v \in Worker \ {w} :
            At(v, "addSession") /\ Of(v) = Of(w) => Of(w) \in doubled.ses

\* Worker w adds no session and is not about to.
SessionQuiet(w) ==
    /\ DOMAIN ses' = DOMAIN ses /\ \A s \in DOMAIN ses : ses'[s].of = ses[s].of
    /\ doubled.ses \subseteq doubled'.ses /\ work'[w].pc # "addSession"

LEMMA SessionsStay ==
    ASSUME Base, SessionInv, NEW w \in Worker, Moves(w), SessionQuiet(w)
    PROVE  SessionInv'
<1>1. \A v \in Worker \ {w} : work'[v] = work[v] /\ Of(v)' = Of(v)
    BY OthersStay DEF Of
<1>2. \A o : Sessions(o)' = Sessions(o)
    BY DEF Sessions, SessionQuiet
<1>3. SessionsOnce'
    BY DEF SessionInv, SessionsOnce, SessionQuiet
<1>. QED BY <1>1, <1>2, <1>3 DEF SessionInv, At, SessionQuiet

LEMMA KnowSessionOne ==
    ASSUME Base, SessionInv, NEW w \in Worker, NEW ok \in BOOLEAN, KnowSession(w, ok)
    PROVE  SessionInv'
<1>1. /\ Moves(w) /\ SameData /\ Of(w)' = Of(w) /\ work'[w].pc = "addSession"
      /\ (work'[w].found = None /\ ok => Sessions(Of(w)) = {})
      /\ At(w, "known")
    BY KnowSessionKeeps DEF Keeps, KnowSession
<1>2. /\ doubled.ses \subseteq doubled'.ses
      /\ ~ok => Of(w) \in doubled'.ses
      /\ \A v \in Worker \ {w} : At(v, "addSession") /\ Of(v) = Of(w) => Of(w) \in doubled'.ses
    BY DEF KnowSession, Base, TypeOK, DataOK
<1>3. \A v \in Worker \ {w} : work'[v] = work[v] /\ Of(v)' = Of(v)
    BY <1>1, OthersStay DEF Of
<1>4. \A o : Sessions(o)' = Sessions(o)
    BY <1>1 DEF Sessions, SameData
<1>5. SessionsOnce'
    BY <1>1, <1>2 DEF SessionInv, SessionsOnce, SameData
<1>6. ASSUME NEW v \in Worker, At(v, "addSession")'
      PROVE  /\ work'[v].found = None => Sessions(Of(v))' = {} \/ Of(v)' \in doubled'.ses
             /\ \A x \in Worker \ {v} :
                    At(x, "addSession")' /\ Of(x)' = Of(v)' => Of(v)' \in doubled'.ses
    <2>1. CASE v = w
        BY <1>1, <1>2, <1>3, <1>4, <1>6, <2>1 DEF At
    <2>2. CASE v # w
        BY <1>1, <1>2, <1>3, <1>4, <1>6, <2>2 DEF At, SessionInv
    <2>. QED BY <2>1, <2>2
<1>. QED BY <1>5, <1>6 DEF SessionInv

LEMMA AddSessionOne ==
    ASSUME Base, SessionInv, NEW w \in Worker, NEW ok \in BOOLEAN, AddSession(w, ok)
    PROVE  SessionInv'
<1>1. /\ Moves(w) /\ SessionAdded(w, ok) /\ work'[w].pc # "addSession"
      /\ doubled' = doubled /\ At(w, "addSession")
    BY AddSessionKeeps DEF Keeps, AddSession, hist
<1>2. \A v \in Worker \ {w} : work'[v] = work[v] /\ Of(v)' = Of(v)
    BY <1>1, OthersStay DEF Of
<1>3. CASE DOMAIN ses' = DOMAIN ses
    BY <1>1, <1>3, SessionsStay DEF SessionAdded, SessionQuiet
<1>4. CASE DOMAIN ses' # DOMAIN ses
    <2>. DEFINE n == Len(ses) + 1
    <2>1. n \in DOMAIN ses' /\ ses'[n].of = Of(w) /\ work[w].found = None
          /\ \A s \in DOMAIN ses' : s = n \/ s \in DOMAIN ses
        <3>1. DOMAIN ses \subseteq DOMAIN ses'
            BY <1>1 DEF SessionAdded
        <3>2. PICK s \in DOMAIN ses' : s \notin DOMAIN ses
            BY <1>4, <3>1
        <3>. QED BY <1>1, <3>2 DEF SessionAdded
    <2>2. Sessions(Of(w)) = {} \/ Of(w) \in doubled.ses
        BY <1>1, <2>1 DEF SessionInv
    <2>3. SessionsOnce'
        <3>. SUFFICES ASSUME NEW s \in DOMAIN ses', NEW t \in DOMAIN ses', s # t,
                             ses'[s].of = ses'[t].of
             PROVE ses'[s].of \in doubled.ses
            BY <1>1 DEF SessionsOnce
        <3>1. CASE s \in DOMAIN ses /\ t \in DOMAIN ses
            BY <1>1, <3>1 DEF SessionAdded, SessionInv, SessionsOnce
        <3>2. CASE s = n \/ t = n
            <4>1. PICK r \in DOMAIN ses : ses[r].of = Of(w)
                BY <1>1, <2>1, <3>2 DEF SessionAdded
            <4>. QED BY <2>1, <2>2, <3>2, <4>1 DEF Sessions
        <3>. QED BY <2>1, <3>1, <3>2
    <2>4. \A o : o # Of(w) => Sessions(o)' = Sessions(o)
        BY <1>1, <2>1 DEF Sessions, SessionAdded
    <2>. QED BY <1>1, <1>2, <2>3, <2>4 DEF SessionInv, At
<1>. QED BY <1>3, <1>4

\* All other steps add none.
LEMMA SessionFrame ==
    ASSUME Base, NEW w \in Worker, NEW ok \in BOOLEAN, CallStep(w, ok),
           ~KnowSession(w, ok), ~AddSession(w, ok)
    PROVE  Moves(w) /\ SessionQuiet(w)
<1>1. CASE FindSession(w, ok)
    BY <1>1, FindSessionKeeps DEF Keeps, SameData, hist, SessionQuiet
<1>4. CASE FindRemoved(w, ok)
    BY <1>4, FindRemovedKeeps DEF Keeps, SameData, hist, Idle, SessionQuiet
<1>5. CASE RemoveSession(w, ok)
    BY <1>5, RemoveSessionKeeps DEF Keeps, SessionHidden, Idle, SessionQuiet
<1>6. CASE ClearUserCounter(w, ok)
    BY <1>6, ClearUserCounterKeeps
       DEF Keeps, ClearUserCounter, mysql, hist, Idle, SessionQuiet
<1>7. CASE GetRelationId(w, ok)
    BY <1>7, GetRelationIdKeeps DEF Keeps, SameData, hist, SessionQuiet
<1>8. CASE LookOnMaster(w, ok)
    <2>1. doubled.ses \subseteq doubled'.ses
        BY <1>8 DEF LookOnMaster, Base, TypeOK, DataOK
    <2>. QED BY <1>8, <2>1, LookOnMasterKeeps DEF Keeps, SameData, Idle, SessionQuiet
<1>9. CASE AddRelation(w, ok)
    BY <1>9, AddRelationKeeps DEF Keeps, RelationAdded, hist, Idle, SessionQuiet
<1>10. CASE ResetMsgId(w, ok)
    BY <1>10, ResetMsgIdKeeps DEF Keeps, hist, Idle, SessionQuiet
<1>11. CASE GetMsgId(w, ok)
    BY <1>11, GetMsgIdKeeps DEF Keeps, Idle, SessionQuiet
<1>12. CASE InsertMessage(w, ok)
    BY <1>12, InsertMessageKeeps DEF Keeps, hist, Idle, SessionQuiet
<1>13. CASE IncMsgCount(w, ok)
    BY <1>13, IncMsgCountKeeps DEF Keeps, mysql, hist, Idle, SessionQuiet
<1>. QED BY <1>1, <1>4, <1>5, <1>6, <1>7, <1>8, <1>9, <1>10, <1>11, <1>12, <1>13
         DEF CallStep

LEMMA RequestQuiet ==
    ASSUME Base, NEW w \in Worker, RequestStep(w)
    PROVE  Moves(w) /\ SessionQuiet(w)
<1>1. PICK op \in Ops, u \in User, v \in User : Request(w, op, u, v)
    BY DEF RequestStep
<1>. QED BY <1>1, RequestKeeps DEF Keeps, SameData, hist, SessionQuiet

LEMMA SessionNext == Base /\ SessionInv /\ [Next]_vars => SessionInv'
<1>. SUFFICES ASSUME Base, SessionInv, [Next]_vars PROVE SessionInv'
    OBVIOUS
<1>1. CASE UNCHANGED vars
    BY <1>1 DEF vars, mysql, hist, SessionInv, SessionsOnce, At, Sessions, Of
<1>2. ASSUME NEW w \in Worker, RequestStep(w) PROVE SessionInv'
    BY <1>2, RequestQuiet, SessionsStay
<1>3. ASSUME NEW w \in Worker, NEW ok \in BOOLEAN, CallStep(w, ok) PROVE SessionInv'
    BY <1>3, KnowSessionOne, AddSessionOne, SessionFrame, SessionsStay
<1>. QED BY <1>1, <1>2, <1>3, NextSteps

\* Who is about to insert session o.
SessionAdders(o) ==
    {v \in Worker : At(v, "addSession") /\ Of(v) = o /\ work[v].found = None}

SessionsFew == \A o : Few(Sessions(o), SessionAdders(o), faults)

LEMMA SessionsFinite ==
    ASSUME Base PROVE \A o : IsFiniteSet(Sessions(o))
<1>1. DOMAIN ses = 1..Len(ses) /\ Len(ses) \in Nat
    BY DEF Base, TypeOK, DataOK
<1>2. IsFiniteSet(DOMAIN ses)
    BY <1>1, FS_Interval
<1>. QED BY <1>2, FS_Subset DEF Sessions

LEMMA SessionsFewStay ==
    ASSUME Base, SessionsFew, NEW w \in Worker, Moves(w), SessionQuiet(w),
           faults \in Nat, faults' \in Nat, faults <= faults'
    PROVE  SessionsFew'
<1>1. \A v \in Worker \ {w} : work'[v] = work[v] /\ Of(v)' = Of(v)
    BY OthersStay DEF Of
<1>. SUFFICES ASSUME NEW o PROVE Few(Sessions(o), SessionAdders(o), faults)'
    BY DEF SessionsFew
<1>2. Sessions(o)' = Sessions(o) /\ IsFiniteSet(Sessions(o))
    BY SessionsFinite DEF Sessions, SessionQuiet
<1>3. SessionAdders(o)' \subseteq SessionAdders(o) /\ SessionAdders(o) \subseteq Worker
    BY <1>1 DEF SessionAdders, SessionQuiet, At
<1>4. Few(Sessions(o), SessionAdders(o), faults)
    BY DEF SessionsFew
<1>5. Few(Sessions(o), SessionAdders(o)', faults')
    BY <1>2, <1>3, <1>4, FewKept
<1>. QED BY <1>2, <1>5 DEF Few

LEMMA KnowSessionFew ==
    ASSUME Base, SessionsFew, NEW w \in Worker, NEW ok \in BOOLEAN, KnowSession(w, ok)
    PROVE  SessionsFew'
<1>1. /\ Moves(w) /\ SameData /\ Of(w)' = Of(w)
      /\ (work'[w].found = None /\ ok => Sessions(Of(w)) = {})
    BY KnowSessionKeeps DEF Keeps
<1>2. faults \in Nat /\ (ok => faults' = faults) /\ (~ok => faults' = faults + 1)
    <2>1. Call(ok)
        BY DEF KnowSession
    <2>. QED BY <2>1, CallTypes, BoundAssumption DEF Base, TypeOK, DataOK
<1>3. \A v \in Worker \ {w} : work'[v] = work[v] /\ Of(v)' = Of(v)
    BY <1>1, OthersStay DEF Of
<1>. SUFFICES ASSUME NEW o PROVE Few(Sessions(o), SessionAdders(o), faults)'
    BY DEF SessionsFew
<1>4. Sessions(o)' = Sessions(o) /\ IsFiniteSet(Sessions(o))
    BY <1>1, SessionsFinite DEF Sessions, SameData
<1>5. /\ SessionAdders(o) \in SUBSET Worker
      /\ SessionAdders(o)' \in SUBSET (SessionAdders(o) \cup {w})
      /\ ok /\ Sessions(o) # {} => SessionAdders(o)' \in SUBSET SessionAdders(o)
    BY <1>1, <1>3 DEF SessionAdders, At
<1>6. Few(Sessions(o), SessionAdders(o), faults)
    BY DEF SessionsFew
<1>7. Few(Sessions(o), SessionAdders(o)', faults')
    <2>1. CASE ~ok
        BY <1>2, <1>4, <1>5, <1>6, <2>1, FewFailed
    <2>2. CASE ok /\ Sessions(o) # {}
        BY <1>2, <1>4, <1>5, <1>6, <2>2, FewKept
    <2>3. CASE Sessions(o) = {}
        BY <2>3 DEF Few
    <2>. QED BY <2>1, <2>2, <2>3
<1>. QED BY <1>4, <1>7 DEF Few

LEMMA AddSessionFew ==
    ASSUME Base, SessionsFew, NEW w \in Worker, NEW ok \in BOOLEAN, AddSession(w, ok),
           faults \in Nat, faults' \in Nat, faults <= faults'
    PROVE  SessionsFew'
<1>1. /\ Moves(w) /\ SessionAdded(w, ok) /\ work'[w].pc # "addSession"
      /\ doubled' = doubled /\ At(w, "addSession")
    BY AddSessionKeeps DEF Keeps, AddSession, hist
<1>2. CASE DOMAIN ses' = DOMAIN ses
    BY <1>1, <1>2, SessionsFewStay DEF SessionAdded, SessionQuiet
<1>3. CASE DOMAIN ses' # DOMAIN ses
    <2>. DEFINE n == Len(ses) + 1
    <2>1. /\ DOMAIN ses' = DOMAIN ses \cup {n} /\ n \notin DOMAIN ses
          /\ ses'[n].of = Of(w) /\ work[w].found = None
        BY <1>1, <1>3 DEF SessionAdded
    <2>. HIDE DEF n
    <2>2. \A v \in Worker \ {w} : work'[v] = work[v] /\ Of(v)' = Of(v)
        BY <1>1, OthersStay DEF Of
    <2>. SUFFICES ASSUME NEW o PROVE Few(Sessions(o), SessionAdders(o), faults)'
        BY DEF SessionsFew
    <2>3. /\ SessionAdders(o) \in SUBSET Worker
          /\ SessionAdders(o)' \in SUBSET (SessionAdders(o) \ {w})
        BY <1>1, <2>2 DEF SessionAdders, At
    <2>4. /\ Few(Sessions(o), SessionAdders(o), faults) /\ IsFiniteSet(Sessions(o))
        BY SessionsFinite DEF SessionsFew
    <2>5. CASE o = Of(w)
        <3>1. Sessions(o)' = Sessions(o) \cup {n} /\ w \in SessionAdders(o)
            BY <1>1, <2>1, <2>5 DEF Sessions, SessionAdders, SessionAdded
        <3>2. Few(Sessions(o) \cup {n}, SessionAdders(o)', faults)
            BY <2>3, <2>4, <3>1, FewAdded
        <3>3. faults' = faults
            BY <1>3 DEF AddSession, Call
        <3>. QED BY <3>1, <3>2, <3>3 DEF Few
    <2>6. CASE o # Of(w)
        <3>1. Sessions(o)' = Sessions(o)
            BY <1>1, <2>1, <2>6 DEF Sessions, SessionAdded
        <3>2. SessionAdders(o)' \in SUBSET SessionAdders(o)
            BY <2>3
        <3>3. Few(Sessions(o), SessionAdders(o)', faults')
            BY <2>3, <2>4, <3>2, FewKept
        <3>. QED BY <3>1, <3>3 DEF Few
    <2>. QED BY <2>5, <2>6
<1>. QED BY <1>2, <1>3

LEMMA SessionsFewNext == Base /\ SessionsFew /\ [Next]_vars => SessionsFew'
<1>. SUFFICES ASSUME Base, SessionsFew, [Next]_vars PROVE SessionsFew'
    OBVIOUS
<1>1. CASE UNCHANGED vars
    <2>1. /\ \A o : Sessions(o)' = Sessions(o) /\ SessionAdders(o)' = SessionAdders(o)
          /\ faults' = faults
        BY <1>1 DEF vars, mysql, Sessions, SessionAdders, At, Of
    <2>. QED BY <2>1 DEF SessionsFew, Few
<1>2. ASSUME NEW w \in Worker, RequestStep(w) PROVE SessionsFew'
    BY <1>2, RequestQuiet, SessionsFewStay, FaultsGrow
<1>3. ASSUME NEW w \in Worker, NEW ok \in BOOLEAN, CallStep(w, ok) PROVE SessionsFew'
    <2>1. faults \in Nat /\ faults' \in Nat /\ faults <= faults'
        BY <1>3, FaultsGrow
    <2>. QED BY <1>3, <2>1, KnowSessionFew, AddSessionFew, SessionFrame, SessionsFewStay
<1>. QED BY <1>1, <1>2, <1>3, NextSteps

\* OneSession, for every number of workers, requests and failures.
THEOREM OneSessionCorrect == Spec => []OneSession
<1>1. Init => SessionInv /\ SessionsFew
    <2>. SUFFICES ASSUME Init PROVE SessionInv /\ SessionsFew
        OBVIOUS
    <2>1. SessionInv
        BY DEF Init, SessionInv, SessionsOnce, At, Idle
    <2>2. \A o : Sessions(o) = {}
        BY DEF Init, Sessions
    <2>. QED BY <2>1, <2>2 DEF SessionsFew, Few
<1>2. Base /\ SessionInv /\ SessionsFew => OneSession
    <2>. SUFFICES ASSUME Base, SessionInv, SessionsFew PROVE OneSession
        OBVIOUS
    <2>1. faults \in Nat
        BY BoundAssumption DEF Base, TypeOK, DataOK
    <2>2. ASSUME NEW o PROVE AreFew(Sessions(o))
        <3>1. SessionAdders(o) \in SUBSET Worker
            BY DEF SessionAdders
        <3>. QED BY <2>1, <3>1, SessionsFinite, FewAreFew DEF SessionsFew
    <2>. QED BY <2>2 DEF OneSession, SessionInv, SessionsOnce
<1>. QED BY <1>1, <1>2, SpecBase, SessionNext, SessionsFewNext, PTL DEF Spec

-----------------------------------------------------------------------------
(***************************************************************************)
(* One relation, and with it the messages that are found again.            *)
(***************************************************************************)
\* Of two workers that are about to add the same relation each is known, and one
\* that found none may add one.
RelationInv ==
    /\ \A r, s \in DOMAIN rels : rels[r] = rels[s] => r = s \/ rels[r] \in doubled.rels
    /\ \A w \in Worker : At(w, "addRelation") =>
        /\ work[w].found = None =>
            Users(w) \in doubled.rels \/ \A r \in DOMAIN rels : rels[r] # Users(w)
        /\ \A v \in Worker \ {w} :
            At(v, "addRelation") /\ Users(v) = Users(w) => Users(w) \in doubled.rels

\* Worker w adds no relation and is not about to.
RelationQuiet(w) ==
    rels' = rels /\ doubled.rels \subseteq doubled'.rels /\ work'[w].pc # "addRelation"

LEMMA RelationsStay ==
    ASSUME Base, RelationInv, NEW w \in Worker, Moves(w), RelationQuiet(w)
    PROVE  RelationInv'
<1>1. \A v \in Worker \ {w} : work'[v] = work[v] /\ Users(v)' = Users(v)
    BY OthersStay DEF Users
<1>. QED BY <1>1 DEF RelationInv, RelationQuiet, At

LEMMA LookOnMasterOne ==
    ASSUME Base, RelationInv, NEW w \in Worker, NEW ok \in BOOLEAN, LookOnMaster(w, ok)
    PROVE  RelationInv'
<1>1. Moves(w) /\ rels' = rels
    BY LookOnMasterKeeps DEF Keeps, SameData
<1>2. /\ doubled.rels \subseteq doubled'.rels
      /\ ~ok => Users(w) \in doubled'.rels
      /\ \A v \in Worker \ {w} :
            At(v, "addRelation") /\ Users(v) = Users(w) => Users(w) \in doubled'.rels
    BY DEF LookOnMaster, Base, TypeOK, DataOK
<1>3. CASE work'[w].pc # "addRelation"
    BY <1>1, <1>2, <1>3, RelationsStay DEF RelationQuiet
<1>4. CASE work'[w].pc = "addRelation"
    <2>1. /\ Users(w)' = Users(w)
          /\ (work'[w].found = None /\ ok => \A r \in DOMAIN rels : rels[r] # Users(w))
        BY <1>4, LookOnMasterKeeps DEF Idle, Relations, Users, Key
    <2>2. \A v \in Worker \ {w} : work'[v] = work[v] /\ Users(v)' = Users(v)
        BY <1>1, OthersStay DEF Users
    <2>3. ASSUME NEW v \in Worker, At(v, "addRelation")'
          PROVE  /\ work'[v].found = None =>
                    Users(v)' \in doubled'.rels \/ \A r \in DOMAIN rels' : rels'[r] # Users(v)'
                 /\ \A x \in Worker \ {v} :
                    At(x, "addRelation")' /\ Users(x)' = Users(v)' => Users(v)' \in doubled'.rels
        <3>1. CASE v = w
            BY <1>1, <1>2, <2>1, <2>2, <2>3, <3>1 DEF At
        <3>2. CASE v # w
            BY <1>1, <1>2, <2>1, <2>2, <2>3, <3>2 DEF At, RelationInv
        <3>. QED BY <3>1, <3>2
    <2>. QED BY <1>1, <1>2, <2>3 DEF RelationInv
<1>. QED BY <1>3, <1>4

LEMMA AddRelationOne ==
    ASSUME Base, RelationInv, NEW w \in Worker, NEW ok \in BOOLEAN, AddRelation(w, ok)
    PROVE  RelationInv'
<1>1. Moves(w) /\ doubled' = doubled /\ At(w, "addRelation")
    BY AddRelationKeeps DEF Keeps, AddRelation, hist
<1>2. CASE rels' = rels /\ work'[w].pc # "addRelation"
    BY <1>1, <1>2, RelationsStay DEF RelationQuiet
<1>3. CASE RelationAdded(w)
    <2>1. \A v \in Worker \ {w} : work'[v] = work[v] /\ Users(v)' = Users(v)
        BY <1>1, OthersStay DEF Users
    <2>2. Users(w) \in doubled.rels \/ \A r \in DOMAIN rels : rels[r] # Users(w)
        BY <1>1, <1>3 DEF RelationAdded, RelationInv
    <2>3. /\ work'[w].pc # "addRelation"
          /\ \A r \in DOMAIN rels' :
                \/ r = Len(rels) + 1 /\ rels'[r] = Users(w)
                \/ r \in DOMAIN rels /\ rels'[r] = rels[r]
        BY <1>3 DEF RelationAdded
    <2>4. \A r, s \in DOMAIN rels' : rels'[r] = rels'[s] => r = s \/ rels'[r] \in doubled'.rels
        BY <1>1, <2>2, <2>3 DEF RelationInv
    <2>5. ASSUME NEW v \in Worker, At(v, "addRelation")'
          PROVE  /\ v # w /\ At(v, "addRelation") /\ Users(v)' = Users(v)
                 /\ work'[v].found = work[v].found
        BY <2>1, <2>3, <2>5 DEF At
    <2>6. ASSUME NEW v \in Worker, At(v, "addRelation")', Users(v) \notin doubled.rels
          PROVE  Users(v) # Users(w)
        BY <1>1, <2>5, <2>6 DEF RelationInv
    <2>. QED BY <1>1, <2>3, <2>4, <2>5, <2>6 DEF RelationInv
<1>. QED BY <1>2, <1>3, AddRelationKeeps DEF Idle

\* All steps but LookOnMaster and AddRelation.
LEMMA RelationFrame ==
    ASSUME Base, NEW w \in Worker, NEW ok \in BOOLEAN, CallStep(w, ok),
           ~LookOnMaster(w, ok), ~AddRelation(w, ok)
    PROVE  Moves(w) /\ RelationQuiet(w)
<1>1. CASE FindSession(w, ok)
    BY <1>1, FindSessionKeeps DEF Keeps, SameData, hist, RelationQuiet
<1>2. CASE KnowSession(w, ok)
    <2>1. doubled.rels \subseteq doubled'.rels
        BY <1>2 DEF KnowSession, Base, TypeOK, DataOK
    <2>. QED BY <1>2, <2>1, KnowSessionKeeps DEF Keeps, SameData, RelationQuiet
<1>3. CASE AddSession(w, ok)
    BY <1>3, AddSessionKeeps DEF Keeps, AddSession, hist, RelationQuiet
<1>4. CASE FindRemoved(w, ok)
    BY <1>4, FindRemovedKeeps DEF Keeps, SameData, hist, Idle, RelationQuiet
<1>5. CASE RemoveSession(w, ok)
    <2>1. rels' = rels /\ doubled' = doubled
        BY <1>5 DEF RemoveSession
    <2>. QED BY <1>5, <2>1, RemoveSessionKeeps DEF Keeps, Idle, RelationQuiet
<1>6. CASE ClearUserCounter(w, ok)
    BY <1>6, ClearUserCounterKeeps
       DEF Keeps, ClearUserCounter, mysql, hist, Idle, RelationQuiet
<1>7. CASE GetRelationId(w, ok)
    BY <1>7, GetRelationIdKeeps DEF Keeps, SameData, hist, RelationQuiet
<1>10. CASE ResetMsgId(w, ok)
    BY <1>10, ResetMsgIdKeeps DEF Keeps, hist, Idle, RelationQuiet
<1>11. CASE GetMsgId(w, ok)
    BY <1>11, GetMsgIdKeeps DEF Keeps, Idle, RelationQuiet
<1>12. CASE InsertMessage(w, ok)
    BY <1>12, InsertMessageKeeps DEF Keeps, hist, Idle, RelationQuiet
<1>13. CASE IncMsgCount(w, ok)
    BY <1>13, IncMsgCountKeeps DEF Keeps, mysql, hist, Idle, RelationQuiet
<1>. QED BY <1>1, <1>2, <1>3, <1>4, <1>5, <1>6, <1>7, <1>10, <1>11, <1>12, <1>13
         DEF CallStep

LEMMA RequestAddsNone ==
    ASSUME Base, NEW w \in Worker, RequestStep(w)
    PROVE  Moves(w) /\ RelationQuiet(w)
<1>1. PICK op \in Ops, u \in User, v \in User : Request(w, op, u, v)
    BY DEF RequestStep
<1>. QED BY <1>1, RequestKeeps DEF Keeps, SameData, hist, RelationQuiet

LEMMA RelationNext == Base /\ RelationInv /\ [Next]_vars => RelationInv'
<1>. SUFFICES ASSUME Base, RelationInv, [Next]_vars PROVE RelationInv'
    OBVIOUS
<1>1. CASE UNCHANGED vars
    BY <1>1 DEF vars, mysql, hist, RelationInv, At, Users
<1>2. ASSUME NEW w \in Worker, RequestStep(w) PROVE RelationInv'
    BY <1>2, RequestAddsNone, RelationsStay
<1>3. ASSUME NEW w \in Worker, NEW ok \in BOOLEAN, CallStep(w, ok) PROVE RelationInv'
    BY <1>3, LookOnMasterOne, AddRelationOne, RelationFrame, RelationsStay
<1>. QED BY <1>1, <1>2, <1>3, NextSteps

\* The rows of a pair of users, and who is about to insert one.
RelationsOf(k) == {r \in DOMAIN rels : rels[r] = k}
RelationAdders(k) ==
    {v \in Worker : At(v, "addRelation") /\ Users(v) = k /\ work[v].found = None}

RelationsFew == \A k : Few(RelationsOf(k), RelationAdders(k), faults)

LEMMA RelationsFinite ==
    ASSUME Base PROVE \A k : IsFiniteSet(RelationsOf(k))
<1>1. DOMAIN rels = 1..Len(rels) /\ Len(rels) \in Nat
    BY DEF Base, TypeOK, DataOK
<1>2. IsFiniteSet(DOMAIN rels)
    BY <1>1, FS_Interval
<1>. QED BY <1>2, FS_Subset DEF RelationsOf

LEMMA RelationsFewStay ==
    ASSUME Base, RelationsFew, NEW w \in Worker, Moves(w), RelationQuiet(w),
           faults \in Nat, faults' \in Nat, faults <= faults'
    PROVE  RelationsFew'
<1>1. \A v \in Worker \ {w} : work'[v] = work[v] /\ Users(v)' = Users(v)
    BY OthersStay DEF Users
<1>. SUFFICES ASSUME NEW k PROVE Few(RelationsOf(k), RelationAdders(k), faults)'
    BY DEF RelationsFew
<1>2. RelationsOf(k)' = RelationsOf(k) /\ IsFiniteSet(RelationsOf(k))
    BY RelationsFinite DEF RelationsOf, RelationQuiet
<1>3. RelationAdders(k)' \subseteq RelationAdders(k) /\ RelationAdders(k) \subseteq Worker
    BY <1>1 DEF RelationAdders, RelationQuiet, At
<1>4. Few(RelationsOf(k), RelationAdders(k), faults)
    BY DEF RelationsFew
<1>5. Few(RelationsOf(k), RelationAdders(k)', faults')
    BY <1>2, <1>3, <1>4, FewKept
<1>. QED BY <1>2, <1>5 DEF Few

LEMMA LookOnMasterFew ==
    ASSUME Base, RelationsFew, NEW w \in Worker, NEW ok \in BOOLEAN, LookOnMaster(w, ok)
    PROVE  RelationsFew'
<1>1. /\ Moves(w) /\ SameData
      /\ At(w, "addRelation")' /\ work'[w].found = None =>
            Users(w)' = Users(w) /\ (ok => RelationsOf(Users(w)) = {})
    BY LookOnMasterKeeps DEF Keeps, Idle, At, Relations, RelationsOf, Users, Key
<1>2. faults \in Nat /\ (ok => faults' = faults) /\ (~ok => faults' = faults + 1)
    <2>1. Call(ok)
        BY DEF LookOnMaster
    <2>. QED BY <2>1, CallTypes, BoundAssumption DEF Base, TypeOK, DataOK
<1>3. \A v \in Worker \ {w} : work'[v] = work[v] /\ Users(v)' = Users(v)
    BY <1>1, OthersStay DEF Users
<1>. SUFFICES ASSUME NEW k PROVE Few(RelationsOf(k), RelationAdders(k), faults)'
    BY DEF RelationsFew
<1>4. RelationsOf(k)' = RelationsOf(k) /\ IsFiniteSet(RelationsOf(k))
    BY <1>1, RelationsFinite DEF RelationsOf, SameData
<1>5. /\ RelationAdders(k) \in SUBSET Worker
      /\ RelationAdders(k)' \in SUBSET (RelationAdders(k) \cup {w})
      /\ ok /\ RelationsOf(k) # {} => RelationAdders(k)' \in SUBSET RelationAdders(k)
    BY <1>1, <1>3 DEF RelationAdders, At
<1>6. Few(RelationsOf(k), RelationAdders(k), faults)
    BY DEF RelationsFew
<1>7. Few(RelationsOf(k), RelationAdders(k)', faults')
    <2>1. CASE ~ok
        BY <1>2, <1>4, <1>5, <1>6, <2>1, FewFailed
    <2>2. CASE ok /\ RelationsOf(k) # {}
        BY <1>2, <1>4, <1>5, <1>6, <2>2, FewKept
    <2>3. CASE RelationsOf(k) = {}
        BY <2>3 DEF Few
    <2>. QED BY <2>1, <2>2, <2>3
<1>. QED BY <1>4, <1>7 DEF Few

LEMMA AddRelationFew ==
    ASSUME Base, RelationsFew, NEW w \in Worker, NEW ok \in BOOLEAN, AddRelation(w, ok),
           faults \in Nat, faults' \in Nat, faults <= faults'
    PROVE  RelationsFew'
<1>1. Moves(w) /\ doubled' = doubled /\ At(w, "addRelation")
    BY AddRelationKeeps DEF Keeps, AddRelation, hist
<1>2. CASE rels' = rels /\ work'[w].pc # "addRelation"
    BY <1>1, <1>2, RelationsFewStay DEF RelationQuiet
<1>3. CASE RelationAdded(w)
    <2>. DEFINE n == Len(rels) + 1
    <2>1. /\ DOMAIN rels' = DOMAIN rels \cup {n} /\ n \notin DOMAIN rels
          /\ rels'[n] = Users(w) /\ work[w].found = None /\ work'[w].pc # "addRelation"
          /\ \A r \in DOMAIN rels : rels'[r] = rels[r]
        BY <1>3 DEF RelationAdded
    <2>. HIDE DEF n
    <2>2. \A v \in Worker \ {w} : work'[v] = work[v] /\ Users(v)' = Users(v)
        BY <1>1, OthersStay DEF Users
    <2>. SUFFICES ASSUME NEW k PROVE Few(RelationsOf(k), RelationAdders(k), faults)'
        BY DEF RelationsFew
    <2>3. /\ RelationAdders(k) \in SUBSET Worker
          /\ RelationAdders(k)' \in SUBSET (RelationAdders(k) \ {w})
        BY <2>1, <2>2 DEF RelationAdders, At
    <2>4. /\ Few(RelationsOf(k), RelationAdders(k), faults) /\ IsFiniteSet(RelationsOf(k))
        BY RelationsFinite DEF RelationsFew
    <2>5. CASE k = Users(w)
        <3>1. RelationsOf(k)' = RelationsOf(k) \cup {n} /\ w \in RelationAdders(k)
            BY <1>1, <2>1, <2>5 DEF RelationsOf, RelationAdders
        <3>2. Few(RelationsOf(k) \cup {n}, RelationAdders(k)', faults')
            <4>1. Few(RelationsOf(k) \cup {n}, RelationAdders(k)', faults)
                BY <2>3, <2>4, <3>1, FewAdded
            <4>2. faults' = faults
                BY <2>1 DEF AddRelation, Call
            <4>. QED BY <4>1, <4>2
        <3>. QED BY <3>1, <3>2 DEF Few
    <2>6. CASE k # Users(w)
        <3>1. RelationsOf(k)' = RelationsOf(k)
            BY <2>1, <2>6 DEF RelationsOf
        <3>2. RelationAdders(k)' \in SUBSET RelationAdders(k)
            BY <2>3
        <3>3. Few(RelationsOf(k), RelationAdders(k)', faults')
            BY <2>3, <2>4, <3>2, FewKept
        <3>. QED BY <3>1, <3>3 DEF Few
    <2>. QED BY <2>5, <2>6
<1>. QED BY <1>2, <1>3, AddRelationKeeps DEF Idle

LEMMA RelationsFewNext == Base /\ RelationsFew /\ [Next]_vars => RelationsFew'
<1>. SUFFICES ASSUME Base, RelationsFew, [Next]_vars PROVE RelationsFew'
    OBVIOUS
<1>1. CASE UNCHANGED vars
    <2>1. /\ \A k : RelationsOf(k)' = RelationsOf(k) /\ RelationAdders(k)' = RelationAdders(k)
          /\ faults' = faults
        BY <1>1 DEF vars, mysql, RelationsOf, RelationAdders, At, Users
    <2>. QED BY <2>1 DEF RelationsFew, Few
<1>2. ASSUME NEW w \in Worker, RequestStep(w) PROVE RelationsFew'
    BY <1>2, RequestAddsNone, RelationsFewStay, FaultsGrow
<1>3. ASSUME NEW w \in Worker, NEW ok \in BOOLEAN, CallStep(w, ok) PROVE RelationsFew'
    <2>1. faults \in Nat /\ faults' \in Nat /\ faults <= faults'
        BY <1>3, FaultsGrow
    <2>. QED BY <1>3, <2>1, LookOnMasterFew, AddRelationFew, RelationFrame, RelationsFewStay
<1>. QED BY <1>1, <1>2, <1>3, NextSteps

\* StoredIsFound, for every number of workers, requests and failures.
THEOREM StoredIsFoundCorrect == Spec => []StoredIsFound
<1>1. Init => RelationInv /\ RelationsFew
    <2>. SUFFICES ASSUME Init PROVE RelationInv /\ RelationsFew
        OBVIOUS
    <2>1. RelationInv
        BY DEF Init, RelationInv, At, Idle
    <2>2. \A k : RelationsOf(k) = {}
        BY DEF Init, RelationsOf
    <2>. QED BY <2>1, <2>2 DEF RelationsFew, Few
<1>2. Base /\ RelationInv /\ RelationsFew => StoredIsFound
    <2>. SUFFICES ASSUME Base, RelationInv, RelationsFew PROVE StoredIsFound
        OBVIOUS
    <2>1. ASSUME NEW i \in DOMAIN msgs, {msgs[i].from, msgs[i].to} \notin doubled.rels
          PROVE  /\ Relations(msgs[i].from, msgs[i].to) = {msgs[i].rel}
                 /\ Relations(msgs[i].to, msgs[i].from) = {msgs[i].rel}
        <3>1. msgs[i].rel \in DOMAIN rels /\ rels[msgs[i].rel] = {msgs[i].from, msgs[i].to}
            BY DEF Base, MessageRows, Relations, Key
        <3>2. \A r \in DOMAIN rels : rels[r] = {msgs[i].from, msgs[i].to} => r = msgs[i].rel
            BY <2>1, <3>1 DEF RelationInv
        <3>. QED BY <3>1, <3>2 DEF Relations, Key
    <2>2. faults \in Nat
        BY BoundAssumption DEF Base, TypeOK, DataOK
    <2>3. ASSUME NEW u \in User, NEW v \in User PROVE AreFew(Relations(u, v))
        <3>1. RelationAdders({u, v}) \in SUBSET Worker
            BY DEF RelationAdders
        <3>2. AreFew(RelationsOf({u, v}))
            BY <2>2, <3>1, RelationsFinite, FewAreFew DEF RelationsFew
        <3>. QED BY <3>2 DEF Relations, RelationsOf, Key
    <2>. QED BY <2>1, <2>3 DEF StoredIsFound
<1>. QED BY <1>1, <1>2, SpecBase, RelationNext, RelationsFewNext, PTL DEF Spec

-----------------------------------------------------------------------------
(***************************************************************************)
(* Message ids.                                                            *)
(***************************************************************************)
\* A worker holds an id it has not stored a message under yet.
Holds(w, r) == At(w, "insert") /\ work[w].rel = r

\* An id that tells nothing: incrBy's -1, or one taken from relation r too early.
Void(r, n) == n = BadId \/ r \in early

\* The ids of relation r in messages and in workers' hands come from its counter,
\* no two of them are the same, and before the counter is reset there are none.
IdInv ==
    /\ MessageIdsUnique
    /\ \A i \in DOMAIN msgs :
        Void(msgs[i].rel, msgs[i].id) \/ msgs[i].id <= lastId[msgs[i].rel]
    /\ \A w \in Worker : At(w, "insert") =>
        \/ Void(work[w].rel, work[w].id)
        \/ /\ work[w].id <= lastId[work[w].rel]
           /\ \A i \in DOMAIN msgs : msgs[i].rel = work[w].rel => msgs[i].id # work[w].id
           /\ \A v \in Worker \ {w} : Holds(v, work[w].rel) => work[v].id # work[w].id
    /\ \A w \in Worker : At(w, "reset") =>
        \/ work[w].rel \in early
        \/ /\ \A i \in DOMAIN msgs : msgs[i].rel # work[w].rel
           /\ \A v \in Worker : ~Holds(v, work[w].rel)

\* The relations of messages and of workers that hold ids are there.
LEMMA IdRows ==
    ASSUME Base
    PROVE  /\ \A i \in DOMAIN msgs : msgs[i].rel \in DOMAIN rels /\ msgs[i].id \in Nat
           /\ \A w \in Worker : work[w].pc \in {"insert", "reset", "id"} =>
                work[w].rel \in DOMAIN rels /\ work[w].id \in Nat
           /\ \A r \in DOMAIN rels : lastId[r] \in Nat
<1>1. \A i \in DOMAIN msgs : msgs[i].rel \in DOMAIN rels /\ msgs[i].id \in Nat
    <2>. DEFINE T == [rel : Nat, id : Nat, from : User, to : User]
    <2>1. msgs \in Seq(T) /\ DOMAIN msgs = 1..Len(msgs)
        BY DEF Base, TypeOK, DataOK
    <2>2. \A i \in DOMAIN msgs : msgs[i] \in T
        <3>. HIDE DEF T
        <3>. QED BY <2>1, ElementOfSeq
    <2>. QED BY <2>2 DEF Base, MessageRows, Relations
<1>2. \A w \in Worker : work[w].pc \in {"insert", "reset", "id"} =>
        work[w].rel \in DOMAIN rels /\ work[w].id \in Nat
    BY DEF Base, Rows, Relations, TypeOK, WorkType
<1>3. \A r \in DOMAIN rels : lastId[r] \in Nat
    BY LastIdIsSeq
<1>. QED BY <1>1, <1>2, <1>3

\* A step that stores nothing, and leaves the counters of the relations there were.
LEMMA IdsStay ==
    ASSUME Base, IdInv, NEW w \in Worker, Moves(w), msgs' = msgs,
           \A r \in DOMAIN rels : lastId'[r] = lastId[r], early' = early,
           work'[w].pc \notin {"insert", "reset"}
    PROVE  IdInv'
<1>1. \A v \in Worker \ {w} : work'[v] = work[v]
    BY OthersStay
<1>2. \A v \in Worker : \A r : Holds(v, r)' => Holds(v, r) /\ v # w /\ work'[v] = work[v]
    BY <1>1 DEF Holds, At
<1>3. MessageIdsUnique'
    BY DEF IdInv, MessageIdsUnique
<1>4. \A i \in DOMAIN msgs : Void(msgs[i].rel, msgs[i].id) \/ msgs[i].id <= lastId'[msgs[i].rel]
    BY IdRows DEF IdInv
<1>5. ASSUME NEW v \in Worker, At(v, "insert")'
      PROVE  \/ Void(work[v].rel, work[v].id)
             \/ /\ work[v].id <= lastId'[work[v].rel]
                /\ \A i \in DOMAIN msgs : msgs[i].rel = work[v].rel => msgs[i].id # work[v].id
                /\ \A x \in Worker \ {v} : Holds(x, work[v].rel) => work[x].id # work[v].id
    BY <1>1, <1>5, IdRows DEF IdInv, At
<1>6. ASSUME NEW v \in Worker, At(v, "reset")'
      PROVE  \/ work[v].rel \in early
             \/ /\ \A i \in DOMAIN msgs : msgs[i].rel # work[v].rel
                /\ \A x \in Worker : ~Holds(x, work[v].rel)
    BY <1>1, <1>6 DEF IdInv, At
<1>7. \A v \in Worker : At(v, "insert")' \/ At(v, "reset")' => v # w /\ work'[v] = work[v]
    BY <1>1 DEF At
<1>. QED BY <1>2, <1>3, <1>4, <1>5, <1>6, <1>7 DEF IdInv, Void, Holds


LEMMA NewRelationId ==
    ASSUME Base, IdInv, NEW w \in Worker, Moves(w), RelationAdded(w), msgs' = msgs,
           early' = early
    PROVE  IdInv'
<1>. DEFINE n == Len(rels) + 1
<1>1. \A v \in Worker \ {w} : work'[v] = work[v]
    BY OthersStay
<1>2. /\ work'[w].pc = "reset" /\ work'[w].rel = n /\ n \notin DOMAIN rels
      /\ \A r \in DOMAIN rels : lastId'[r] = lastId[r]
    BY DEF RelationAdded
<1>3. \A v \in Worker : \A r : Holds(v, r)' => Holds(v, r) /\ v # w /\ work'[v] = work[v]
    BY <1>1, <1>2 DEF Holds, At
<1>4. /\ \A i \in DOMAIN msgs : msgs[i].rel # n
      /\ \A v \in Worker : ~Holds(v, n)
    BY <1>2, IdRows DEF Holds, At
<1>5. MessageIdsUnique'
    BY DEF IdInv, MessageIdsUnique
<1>6. \A i \in DOMAIN msgs : Void(msgs[i].rel, msgs[i].id) \/ msgs[i].id <= lastId'[msgs[i].rel]
    BY <1>2, IdRows DEF IdInv
<1>7. ASSUME NEW v \in Worker, At(v, "insert")'
      PROVE  \/ Void(work'[v].rel, work'[v].id)
             \/ /\ work'[v].id <= lastId'[work'[v].rel]
                /\ \A i \in DOMAIN msgs : msgs[i].rel = work'[v].rel => msgs[i].id # work'[v].id
                /\ \A x \in Worker \ {v} : Holds(x, work'[v].rel) => work[x].id # work'[v].id
    <2>1. v # w /\ work'[v] = work[v]
        BY <1>1, <1>2, <1>7 DEF At
    <2>. QED BY <1>2, <1>7, <2>1, IdRows DEF IdInv, At
<1>8. ASSUME NEW v \in Worker, At(v, "reset")'
      PROVE  \/ work'[v].rel \in early
             \/ /\ \A i \in DOMAIN msgs : msgs[i].rel # work'[v].rel
                /\ \A x \in Worker : ~Holds(x, work'[v].rel)
    <2>1. CASE v = w
        BY <1>2, <1>4, <2>1
    <2>2. CASE v # w
        BY <1>1, <1>8, <2>2 DEF IdInv, At
    <2>. QED BY <2>1, <2>2
<1>. QED BY <1>3, <1>5, <1>6, <1>7, <1>8 DEF IdInv, Void, Holds

LEMMA ResetMsgIdUnique ==
    ASSUME Base, IdInv, NEW w \in Worker, NEW ok \in BOOLEAN, ResetMsgId(w, ok)
    PROVE  IdInv'
<1>. DEFINE r == work[w].rel
<1>1. /\ Moves(w) /\ msgs' = msgs /\ early' = early /\ At(w, "reset") /\ r \in DOMAIN rels
      /\ \A s \in DOMAIN rels : lastId'[s] = lastId[s] \/ s = r
      /\ work'[w].pc \notin {"insert", "reset"}
    BY ResetMsgIdKeeps DEF Keeps, At, hist, Idle
<1>2. \/ r \in early
      \/ /\ \A i \in DOMAIN msgs : msgs[i].rel # r
         /\ \A v \in Worker : ~Holds(v, r)
    BY <1>1 DEF IdInv
<1>3. \A v \in Worker \ {w} : work'[v] = work[v]
    BY <1>1, OthersStay
<1>4. \A v \in Worker : \A s : Holds(v, s)' => Holds(v, s) /\ v # w /\ work'[v] = work[v]
    BY <1>1, <1>3 DEF Holds, At
<1>5. MessageIdsUnique'
    BY <1>1 DEF IdInv, MessageIdsUnique
<1>6. \A i \in DOMAIN msgs : Void(msgs[i].rel, msgs[i].id) \/ msgs[i].id <= lastId'[msgs[i].rel]
    BY <1>1, <1>2, IdRows DEF IdInv, Void
<1>7. ASSUME NEW v \in Worker, At(v, "insert")'
      PROVE  \/ Void(work'[v].rel, work'[v].id)
             \/ /\ work'[v].id <= lastId'[work'[v].rel]
                /\ \A i \in DOMAIN msgs : msgs[i].rel = work'[v].rel => msgs[i].id # work'[v].id
                /\ \A x \in Worker \ {v} : Holds(x, work'[v].rel) => work[x].id # work'[v].id
    <2>1. v # w /\ work'[v] = work[v] /\ At(v, "insert")
        BY <1>1, <1>3, <1>7 DEF At
    <2>2. work[v].rel \in DOMAIN rels
        BY <2>1, IdRows DEF At
    <2>3. work[v].rel \in early \/ lastId'[work[v].rel] = lastId[work[v].rel]
        BY <1>1, <1>2, <2>1, <2>2 DEF Holds
    <2>. QED BY <2>1, <2>3 DEF IdInv, Void
<1>8. ASSUME NEW v \in Worker, At(v, "reset")'
      PROVE  \/ work'[v].rel \in early
             \/ /\ \A i \in DOMAIN msgs : msgs[i].rel # work'[v].rel
                /\ \A x \in Worker : ~Holds(x, work'[v].rel)
    BY <1>1, <1>3, <1>8 DEF IdInv, At
<1>. QED BY <1>1, <1>4, <1>5, <1>6, <1>7, <1>8 DEF IdInv, Void, Holds

LEMMA GetMsgIdUnique ==
    ASSUME Base, IdInv, NEW w \in Worker, NEW ok \in BOOLEAN, GetMsgId(w, ok)
    PROVE  IdInv'
<1>. DEFINE r == work[w].rel
<1>1. /\ Moves(w) /\ msgs' = msgs /\ r \in DOMAIN rels /\ lastId[r] \in Nat
      /\ \A s \in DOMAIN rels :
            lastId'[s] = lastId[s] \/ (s = r /\ lastId'[s] = lastId[s] + 1)
      /\ work'[w].pc # "reset"
    BY GetMsgIdKeeps, IdRows DEF Keeps, Idle
<1>2. /\ early \subseteq early'
      /\ \A v \in Worker : At(v, "reset") /\ work[v].rel = r => r \in early'
    BY DEF GetMsgId
<1>3. \A v \in Worker \ {w} : work'[v] = work[v]
    BY <1>1, OthersStay
<1>4. At(w, "insert")' =>
        /\ work'[w].rel = r
        /\ \/ work'[w].id = BadId
           \/ work'[w].id = lastId[r] + 1 /\ lastId'[r] = work'[w].id
    BY GetMsgIdKeeps DEF At, Idle
<1>5. \A i \in DOMAIN msgs : /\ msgs[i].rel \in DOMAIN rels /\ msgs[i].id \in Nat
                              /\ lastId[msgs[i].rel] \in Nat
    BY IdRows
<1>6. MessageIdsUnique'
    BY <1>1, <1>2 DEF IdInv, MessageIdsUnique
<1>7. \A i \in DOMAIN msgs :
        Void(msgs[i].rel, msgs[i].id)' \/ msgs[i].id <= lastId'[msgs[i].rel]
    BY <1>1, <1>2, <1>5 DEF IdInv, Void
<1>8. ASSUME NEW v \in Worker \ {w}, At(v, "insert")
      PROVE  /\ work[v].rel \in DOMAIN rels /\ work[v].id \in Nat
             /\ lastId[work[v].rel] \in Nat
             /\ Void(work[v].rel, work[v].id) \/ work[v].id <= lastId[work[v].rel]
    BY <1>8, IdRows DEF IdInv, At
<1>9. ASSUME NEW v \in Worker, At(v, "insert")', ~Void(work[v].rel, work[v].id)', v # w
      PROVE  /\ work'[v].id <= lastId'[work'[v].rel]
             /\ \A i \in DOMAIN msgs : msgs[i].rel = work'[v].rel => msgs[i].id # work'[v].id
             /\ \A x \in Worker \ {v} : Holds(x, work[v].rel)' => work'[x].id # work'[v].id
    <2>1. work'[v] = work[v] /\ At(v, "insert") /\ ~Void(work[v].rel, work[v].id)
        BY <1>2, <1>3, <1>9 DEF At, Void
    <2>2. /\ work[v].id <= lastId[work[v].rel]
          /\ \A i \in DOMAIN msgs : msgs[i].rel = work[v].rel => msgs[i].id # work[v].id
          /\ \A x \in Worker \ {v} : Holds(x, work[v].rel) => work[x].id # work[v].id
        BY <2>1 DEF IdInv
    <2>3. work[v].id <= lastId'[work[v].rel]
        BY <1>1, <1>8, <1>9, <2>1, <2>2
    <2>4. ASSUME NEW x \in Worker \ {v}, Holds(x, work[v].rel)' PROVE work'[x].id # work[v].id
        <3>1. CASE x = w
            BY <1>1, <1>4, <1>8, <1>9, <2>1, <2>2, <2>4, <3>1 DEF Holds, Void
        <3>2. CASE x # w
            BY <1>3, <2>1, <2>2, <2>4, <3>2 DEF Holds, At
        <3>. QED BY <3>1, <3>2
    <2>. QED BY <2>1, <2>2, <2>3, <2>4
<1>10. ASSUME At(w, "insert")', ~Void(work[w].rel, work[w].id)'
       PROVE  /\ work'[w].id <= lastId'[work'[w].rel]
              /\ \A i \in DOMAIN msgs : msgs[i].rel = work'[w].rel => msgs[i].id # work'[w].id
              /\ \A x \in Worker \ {w} : Holds(x, work[w].rel)' => work'[x].id # work'[w].id
    <2>1. work'[w].rel = r /\ work'[w].id = lastId[r] + 1 /\ lastId'[r] = work'[w].id
          /\ work'[w].id # BadId /\ r \notin early
        BY <1>2, <1>4, <1>10 DEF Void
    <2>2. ASSUME NEW i \in DOMAIN msgs, msgs[i].rel = r PROVE msgs[i].id # work'[w].id
        BY <1>1, <1>5, <2>1, <2>2 DEF IdInv, Void
    <2>3. ASSUME NEW x \in Worker \ {w}, Holds(x, work[w].rel)' PROVE work'[x].id # work'[w].id
        <3>1. work'[x] = work[x] /\ At(x, "insert") /\ work[x].rel = r
            BY <1>3, <2>1, <2>3 DEF Holds, At
        <3>. QED BY <1>1, <1>8, <2>1, <3>1 DEF Void
    <2>. QED BY <1>1, <2>1, <2>2, <2>3
<1>11. ASSUME NEW v \in Worker, At(v, "reset")', work'[v].rel \notin early'
       PROVE  /\ \A i \in DOMAIN msgs : msgs[i].rel # work'[v].rel
              /\ \A x \in Worker : ~Holds(x, work[v].rel)'
    <2>1. v # w /\ work'[v] = work[v] /\ At(v, "reset")
        BY <1>1, <1>3, <1>11 DEF At
    <2>2. /\ \A i \in DOMAIN msgs : msgs[i].rel # work[v].rel
          /\ \A x \in Worker : ~Holds(x, work[v].rel)
          /\ work[v].rel # r
        BY <1>2, <1>11, <2>1 DEF IdInv
    <2>3. ASSUME NEW x \in Worker PROVE ~Holds(x, work[v].rel)'
        <3>1. CASE x = w
            BY <1>4, <2>1, <2>2, <3>1 DEF Holds
        <3>2. CASE x # w
            BY <1>3, <2>1, <2>2, <3>2 DEF Holds, At
        <3>. QED BY <3>1, <3>2
    <2>. QED BY <2>1, <2>2, <2>3
<1>. QED BY <1>1, <1>6, <1>7, <1>9, <1>10, <1>11 DEF IdInv


LEMMA InsertMessageUnique ==
    ASSUME Base, IdInv, NEW w \in Worker, NEW ok \in BOOLEAN, InsertMessage(w, ok)
    PROVE  IdInv'
<1>. DEFINE r == work[w].rel
            n == work[w].id
            k == Len(msgs) + 1
<1>1. /\ Moves(w) /\ lastId' = lastId /\ early' = early /\ Holds(w, r) /\ At(w, "insert")
      /\ work'[w].pc \notin {"insert", "reset"}
      /\ \/ msgs' = msgs
         \/ /\ DOMAIN msgs' = DOMAIN msgs \cup {k}
            /\ \A i \in DOMAIN msgs : msgs'[i] = msgs[i]
            /\ msgs'[k].rel = r /\ msgs'[k].id = n
    <2>1. /\ Moves(w) /\ lastId' = lastId /\ early' = early /\ Holds(w, r) /\ At(w, "insert")
        BY InsertMessageKeeps DEF Keeps, redis, hist, Holds, At
    <2>2. \/ work'[w] = Idle /\ msgs' = msgs
          \/ /\ work'[w].pc = "inc"
             /\ DOMAIN msgs' = DOMAIN msgs \cup {k}
             /\ \A i \in DOMAIN msgs : msgs'[i] = msgs[i]
             /\ msgs'[k].rel = r /\ msgs'[k].id = n
        BY InsertMessageKeeps
    <2>. QED BY <2>1, <2>2 DEF Idle
<1>2. CASE msgs' = msgs
    BY <1>1, <1>2, IdsStay
<1>3. CASE msgs' # msgs
    <2>1. \A i \in DOMAIN msgs' : /\ i = k => msgs'[i].rel = r /\ msgs'[i].id = n
                                  /\ i # k => i \in DOMAIN msgs /\ msgs'[i] = msgs[i]
        BY <1>1, <1>3
    <2>2. \A v \in Worker \ {w} : work'[v] = work[v]
        BY <1>1, OthersStay
    <2>3. \/ Void(r, n)
          \/ /\ n <= lastId[r]
             /\ \A i \in DOMAIN msgs : msgs[i].rel = r => msgs[i].id # n
             /\ \A v \in Worker \ {w} : Holds(v, r) => work[v].id # n
        BY <1>1 DEF IdInv
    <2>4. \A v \in Worker : \A s : Holds(v, s)' => Holds(v, s) /\ v # w /\ work'[v] = work[v]
        BY <1>1, <2>2 DEF Holds, At
    <2>5. MessageIdsUnique'
        BY <1>1, <2>1, <2>3 DEF IdInv, MessageIdsUnique, Void
    <2>6. \A i \in DOMAIN msgs' :
            Void(msgs'[i].rel, msgs'[i].id) \/ msgs'[i].id <= lastId[msgs'[i].rel]
        BY <2>1, <2>3 DEF IdInv
    <2>7. ASSUME NEW v \in Worker, At(v, "insert")', ~Void(work[v].rel, work[v].id)'
          PROVE  /\ work'[v].id <= lastId[work'[v].rel]
                 /\ \A i \in DOMAIN msgs' :
                        msgs'[i].rel = work'[v].rel => msgs'[i].id # work'[v].id
                 /\ \A x \in Worker \ {v} : Holds(x, work[v].rel)' => work'[x].id # work'[v].id
        <3>1. v # w /\ work'[v] = work[v] /\ At(v, "insert") /\ ~Void(work[v].rel, work[v].id)
            BY <1>1, <2>2, <2>7 DEF At, Void
        <3>2. /\ work[v].id <= lastId[work[v].rel]
              /\ \A i \in DOMAIN msgs : msgs[i].rel = work[v].rel => msgs[i].id # work[v].id
              /\ \A x \in Worker \ {v} : Holds(x, work[v].rel) => work[x].id # work[v].id
            BY <3>1 DEF IdInv
        <3>3. r = work[v].rel => n # work[v].id
            BY <1>1, <3>1, <3>2
        <3>. QED BY <2>1, <2>4, <3>1, <3>2, <3>3
    <2>8. ASSUME NEW v \in Worker, At(v, "reset")', work'[v].rel \notin early
          PROVE  /\ \A i \in DOMAIN msgs' : msgs'[i].rel # work'[v].rel
                 /\ \A x \in Worker : ~Holds(x, work[v].rel)'
        <3>1. v # w /\ work'[v] = work[v] /\ At(v, "reset")
            BY <1>1, <2>2, <2>8 DEF At
        <3>2. /\ \A i \in DOMAIN msgs : msgs[i].rel # work[v].rel
              /\ \A x \in Worker : ~Holds(x, work[v].rel)
            BY <2>8, <3>1 DEF IdInv
        <3>3. r # work[v].rel
            BY <1>1, <3>2
        <3>. QED BY <2>1, <2>4, <3>1, <3>2, <3>3
    <2>. QED BY <1>1, <2>5, <2>6, <2>7, <2>8 DEF IdInv, Void
<1>. QED BY <1>2, <1>3

LEMMA IdNext == Base /\ IdInv /\ [Next]_vars => IdInv'
<1>. SUFFICES ASSUME Base, IdInv, [Next]_vars PROVE IdInv'
    OBVIOUS
<1>1. CASE UNCHANGED vars
    BY <1>1 DEF vars, mysql, redis, hist, IdInv, MessageIdsUnique, Void, Holds, At
<1>2. ASSUME NEW w \in Worker, RequestStep(w) PROVE IdInv'
    <2>1. PICK op \in Ops, u \in User, v \in User : Request(w, op, u, v)
        BY <1>2 DEF RequestStep
    <2>. QED BY <2>1, RequestKeeps, IdsStay DEF Keeps, SameData, redis, hist
<1>3. ASSUME NEW w \in Worker, NEW ok \in BOOLEAN, CallStep(w, ok) PROVE IdInv'
    <2>1. CASE FindSession(w, ok)
        BY <2>1, FindSessionKeeps, IdsStay DEF Keeps, SameData, redis, hist
    <2>2. CASE KnowSession(w, ok)
        BY <2>2, KnowSessionKeeps, IdsStay DEF Keeps, SameData, redis, KnowSession
    <2>3. CASE AddSession(w, ok)
        BY <2>3, AddSessionKeeps, IdsStay DEF Keeps, AddSession, redis, hist
    <2>4. CASE FindRemoved(w, ok)
        BY <2>4, FindRemovedKeeps, IdsStay DEF Keeps, SameData, redis, hist, Idle
    <2>5. CASE RemoveSession(w, ok)
        BY <2>5, RemoveSessionKeeps, IdsStay DEF Keeps, RemoveSession, redis, Idle
    <2>6. CASE ClearUserCounter(w, ok)
        BY <2>6, ClearUserCounterKeeps, IdsStay
           DEF Keeps, ClearUserCounter, mysql, hist, Idle
    <2>7. CASE GetRelationId(w, ok)
        BY <2>7, GetRelationIdKeeps, IdsStay DEF Keeps, SameData, redis, hist
    <2>8. CASE LookOnMaster(w, ok)
        BY <2>8, LookOnMasterKeeps, IdsStay DEF Keeps, SameData, redis, LookOnMaster, Idle
    <2>9. CASE AddRelation(w, ok)
        <3>1. CASE RelationAdded(w)
            BY <2>9, <3>1, AddRelationKeeps, NewRelationId DEF Keeps, hist
        <3>2. CASE lastId' = lastId /\ work'[w].pc \notin {"insert", "reset"}
            BY <2>9, <3>2, AddRelationKeeps, IdsStay DEF Keeps, hist
        <3>. QED BY <2>9, <3>1, <3>2, AddRelationKeeps DEF Idle
    <2>10. CASE ResetMsgId(w, ok)
        BY <2>10, ResetMsgIdUnique
    <2>11. CASE GetMsgId(w, ok)
        BY <2>11, GetMsgIdUnique
    <2>12. CASE InsertMessage(w, ok)
        BY <2>12, InsertMessageUnique
    <2>13. CASE IncMsgCount(w, ok)
        BY <2>13, IncMsgCountKeeps, IdsStay DEF Keeps, mysql, hist, Idle
    <2>. QED BY <1>3, <2>1, <2>2, <2>3, <2>4, <2>5, <2>6, <2>7, <2>8, <2>9, <2>10, <2>11,
                <2>12, <2>13 DEF CallStep
<1>. QED BY <1>1, <1>2, <1>3, NextSteps

\* MessageIdsUnique, for every number of workers, requests and failures.
THEOREM MessageIdsUniqueCorrect == Spec => []MessageIdsUnique
<1>1. Init => IdInv
    BY DEF Init, IdInv, MessageIdsUnique, At, Idle
<1>2. IdInv => MessageIdsUnique
    BY DEF IdInv
<1>. QED BY <1>1, <1>2, SpecBase, IdNext, PTL DEF Spec

-----------------------------------------------------------------------------
(***************************************************************************)
(* Unread messages.                                                        *)
(***************************************************************************)
\* A worker that removed session o is about to clear its counter.
Clears(w, o) == work[w].op = "remove" /\ At(w, "clear") /\ Of(w) = o

\* While no call fails, a counter that is not zero is listed, and one that is about
\* to be increased will be.
UnreadInv ==
    faults = 0 =>
        /\ \A o \in User \X User :
            unread[o] = 0 \/ Shown(o) # {} \/ o \in missed \/ \E w \in Worker : Clears(w, o)
        /\ \A w \in Worker : \A o \in User \X User :
            OnItsWay(w, o) => Shown(o) # {} \/ o \in missed

\* A call of worker w that succeeds, as all before it, hides no session and
\* increases no counter.
LEMMA ListedStays ==
    ASSUME Base, UnreadInv, NEW w \in Worker, Moves(w), faults' = 0 => faults = 0,
           \A o : Shown(o) # {} => Shown(o)' # {},
           missed' = missed, unread' = unread,
           ~(work[w].op = "remove" /\ work[w].pc = "clear"),
           faults' = 0 => \A o : OnItsWay(w, o)' => OnItsWay(w, o) \/ Shown(o)' # {}
    PROVE  UnreadInv'
<1>. SUFFICES ASSUME faults' = 0
     PROVE  /\ \A o \in User \X User :
                \/ unread'[o] = 0 \/ Shown(o)' # {} \/ o \in missed'
                \/ \E x \in Worker : Clears(x, o)'
            /\ \A x \in Worker : \A o \in User \X User :
                OnItsWay(x, o)' => Shown(o)' # {} \/ o \in missed'
    BY DEF UnreadInv
<1>1. \A v \in Worker \ {w} : work'[v] = work[v]
    BY OthersStay
<1>2. ASSUME NEW o \in User \X User
      PROVE  \/ unread'[o] = 0 \/ Shown(o)' # {} \/ o \in missed'
             \/ \E x \in Worker : Clears(x, o)'
    <2>1. CASE \E x \in Worker : Clears(x, o)
        <3>1. PICK x \in Worker : Clears(x, o)
            BY <2>1
        <3>2. x # w /\ work'[x] = work[x]
            BY <1>1, <3>1 DEF Clears, At
        <3>. QED BY <3>1, <3>2 DEF Clears, At, Of
    <2>2. CASE unread[o] = 0 \/ Shown(o) # {} \/ o \in missed
        BY <2>2
    <2>. QED BY <2>1, <2>2 DEF UnreadInv
<1>3. ASSUME NEW x \in Worker, NEW o \in User \X User, OnItsWay(x, o)'
      PROVE  Shown(o)' # {} \/ o \in missed'
    <2>1. OnItsWay(x, o) \/ Shown(o)' # {}
        BY <1>1, <1>3 DEF OnItsWay
    <2>. QED BY <2>1 DEF UnreadInv
<1>. QED BY <1>2, <1>3

LEMMA ShownStays ==
    ASSUME ses' = ses
    PROVE  \A o : Shown(o)' = Shown(o)
BY DEF Shown, Sessions

\* Past the sessions a message keeps its users.
LEMMA SameUsers ==
    ASSUME Base, NEW w \in Worker, NEW ok \in BOOLEAN,
           \/ GetRelationId(w, ok) \/ LookOnMaster(w, ok) \/ AddRelation(w, ok)
           \/ ResetMsgId(w, ok) \/ GetMsgId(w, ok) \/ InsertMessage(w, ok)
    PROVE  /\ work[w].op = "send" /\ work[w].pc \notin {"find", "known", "addSession", "clear"}
           /\ \/ work'[w] = Idle
              \/ work'[w].from = work[w].from /\ work'[w].to = work[w].to
<1>1. work[w].op = "send" /\ work[w].pc \notin {"find", "known", "addSession", "clear"}
    BY SendOnly
       DEF At, GetRelationId, LookOnMaster, AddRelation, ResetMsgId, GetMsgId, InsertMessage
<1>2. work \in [Worker -> WorkType]
    BY DEF Base, TypeOK
<1>3. ASSUME NEW r, Proceed(w, r)
      PROVE  \/ work'[w] = Idle
             \/ work'[w].from = work[w].from /\ work'[w].to = work[w].to
    BY <1>2, <1>3 DEF Proceed, Done, WorkType
<1>4. CASE GetRelationId(w, ok)
    BY <1>1, <1>2, <1>3, <1>4 DEF GetRelationId, Go, Done, WorkType
<1>5. CASE LookOnMaster(w, ok)
    BY <1>1, <1>2, <1>5 DEF LookOnMaster, Done, WorkType
<1>6. CASE AddRelation(w, ok)
    BY <1>1, <1>2, <1>3, <1>6 DEF AddRelation, AfterUpdate, Done, WorkType
<1>7. CASE ResetMsgId(w, ok)
    BY <1>1, <1>3, <1>7 DEF ResetMsgId
<1>8. CASE GetMsgId(w, ok)
    BY <1>1, <1>2, <1>8 DEF GetMsgId, Done, WorkType
<1>9. CASE InsertMessage(w, ok)
    BY <1>1, <1>2, <1>9 DEF InsertMessage, Go, Done, WorkType
<1>. QED BY <1>1, <1>4, <1>5, <1>6, <1>7, <1>8, <1>9

\* Which leaves a message that was on its way there.
LEMMA StaysOnItsWay ==
    ASSUME NEW w \in Worker, work[w].op = "send",
           work[w].pc \notin {"find", "known", "addSession"},
           \/ work'[w] = Idle
           \/ work'[w].from = work[w].from /\ work'[w].to = work[w].to
    PROVE  \A o : OnItsWay(w, o)' => OnItsWay(w, o)
BY DEF OnItsWay, Idle

\* A call that fails is counted.
LEMMA NoFault ==
    ASSUME Base, NEW ok \in BOOLEAN, Call(ok), faults' = 0
    PROVE  faults = 0 /\ ok
<1>1. faults \in Nat
    BY BoundAssumption DEF Base, TypeOK, DataOK
<1>. QED BY <1>1, CallTypes

LEMMA AddSessionListed ==
    ASSUME Base, UnreadInv, NEW w \in Worker, NEW ok \in BOOLEAN, AddSession(w, ok)
    PROVE  UnreadInv'
<1>1. /\ Moves(w) /\ SessionAdded(w, ok) /\ work[w].pc = "addSession" /\ Call(ok)
      /\ unread' = unread /\ missed' = missed
      /\ work'[w].pc \in {"find", "rel"}
      /\ work'[w].from = work[w].from /\ work'[w].to = work[w].to
      /\ (work'[w].pc = "rel" <=> work[w].side = "peer")
    BY AddSessionKeeps DEF Keeps, AddSession, redis, hist, At
<1>2. \A o : Shown(o) # {} => Shown(o)' # {}
    BY <1>1 DEF SessionAdded, Shown, Sessions
<1>3. ASSUME faults' = 0 PROVE \A o : OnItsWay(w, o)' => Shown(o)' # {}
    <2>1. PICK s \in DOMAIN ses' : ses'[s].of = Of(w) /\ ses'[s].on
        BY <1>1, <1>3, NoFault DEF SessionAdded
    <2>2. \A o : OnItsWay(w, o)' => o = Of(w)
        BY <1>1 DEF OnItsWay, Of
    <2>. QED BY <2>1, <2>2 DEF Shown, Sessions
<1>. QED BY <1>1, <1>2, <1>3, NoFault, ListedStays

LEMMA RemoveSessionListed ==
    ASSUME Base, UnreadInv, NEW w \in Worker, NEW ok \in BOOLEAN, RemoveSession(w, ok)
    PROVE  UnreadInv'
<1>. SUFFICES ASSUME faults' = 0
     PROVE  /\ \A o \in User \X User :
                \/ unread'[o] = 0 \/ Shown(o)' # {} \/ o \in missed'
                \/ \E x \in Worker : Clears(x, o)'
            /\ \A x \in Worker : \A o \in User \X User :
                OnItsWay(x, o)' => Shown(o)' # {} \/ o \in missed'
    BY DEF UnreadInv
<1>1. faults = 0 /\ ok
    BY NoFault DEF RemoveSession
<1>2. /\ Moves(w) /\ SessionHidden(w, ok) /\ work[w].op = "remove" /\ work[w].pc = "hide"
      /\ work'[w].op = "remove" /\ work'[w].pc = "clear" /\ Of(w)' = Of(w)
    BY <1>1, RemoveSessionKeeps DEF Keeps
<1>3. /\ unread' = unread /\ missed \subseteq missed'
      /\ (\E v \in Worker : OnItsWay(v, Of(w))) => Of(w) \in missed'
    BY <1>1 DEF RemoveSession, redis
<1>4. \A v \in Worker \ {w} : work'[v] = work[v] /\ Of(v)' = Of(v)
    BY <1>2, OthersStay DEF Of
<1>5. \A o : o # Of(w) => Shown(o)' = Shown(o)
    BY <1>2 DEF SessionHidden, Shown, Sessions
<1>6. ASSUME NEW o \in User \X User
      PROVE  \/ unread'[o] = 0 \/ Shown(o)' # {} \/ o \in missed'
             \/ \E x \in Worker : Clears(x, o)'
    <2>1. CASE o = Of(w)
        BY <1>2, <2>1 DEF Clears, At
    <2>2. CASE o # Of(w) /\ \E x \in Worker : Clears(x, o)
        <3>1. PICK x \in Worker : Clears(x, o)
            BY <2>2
        <3>. QED BY <1>2, <1>4, <3>1 DEF Clears, At
    <2>3. CASE o # Of(w) /\ (unread[o] = 0 \/ Shown(o) # {} \/ o \in missed)
        BY <1>3, <1>5, <2>3
    <2>. QED BY <1>1, <2>1, <2>2, <2>3 DEF UnreadInv
<1>7. ASSUME NEW x \in Worker, NEW o \in User \X User, OnItsWay(x, o)'
      PROVE  Shown(o)' # {} \/ o \in missed'
    <2>1. OnItsWay(x, o)
        BY <1>2, <1>4, <1>7 DEF OnItsWay
    <2>2. Shown(o) # {} \/ o \in missed
        BY <1>1, <2>1 DEF UnreadInv
    <2>. QED BY <1>3, <1>5, <2>1, <2>2
<1>. QED BY <1>6, <1>7


LEMMA ClearUserCounterListed ==
    ASSUME Base, UnreadInv, NEW w \in Worker, NEW ok \in BOOLEAN, ClearUserCounter(w, ok)
    PROVE  UnreadInv'
<1>. SUFFICES ASSUME faults' = 0
     PROVE  /\ \A o \in User \X User :
                \/ unread'[o] = 0 \/ Shown(o)' # {} \/ o \in missed'
                \/ \E x \in Worker : Clears(x, o)'
            /\ \A x \in Worker : \A o \in User \X User :
                OnItsWay(x, o)' => Shown(o)' # {} \/ o \in missed'
    BY DEF UnreadInv
<1>1. faults = 0 /\ ok
    BY NoFault DEF ClearUserCounter
<1>2. Moves(w) /\ work'[w] = Idle /\ ses' = ses /\ missed' = missed
    BY ClearUserCounterKeeps DEF Keeps, ClearUserCounter, mysql, hist
<1>3. \A o \in User \X User : unread'[o] = IF o = Of(w) THEN 0 ELSE unread[o]
    BY <1>1, ClearUserCounterKeeps DEF Base, TypeOK, DataOK
<1>4. \A v \in Worker \ {w} : work'[v] = work[v] /\ Of(v)' = Of(v)
    BY <1>2, OthersStay DEF Of
<1>5. \A o : Shown(o)' = Shown(o)
    BY <1>2, ShownStays
<1>6. ASSUME NEW o \in User \X User
      PROVE  \/ unread'[o] = 0 \/ Shown(o)' # {} \/ o \in missed'
             \/ \E x \in Worker : Clears(x, o)'
    <2>1. CASE o = Of(w)
        BY <1>3, <2>1
    <2>2. CASE o # Of(w) /\ \E x \in Worker : Clears(x, o)
        <3>1. PICK x \in Worker : Clears(x, o)
            BY <2>2
        <3>. QED BY <1>4, <2>2, <3>1 DEF Clears, At
    <2>3. CASE o # Of(w) /\ (unread[o] = 0 \/ Shown(o) # {} \/ o \in missed)
        BY <1>2, <1>3, <1>5, <2>3
    <2>. QED BY <1>1, <2>1, <2>2, <2>3 DEF UnreadInv
<1>7. ASSUME NEW x \in Worker, NEW o \in User \X User, OnItsWay(x, o)'
      PROVE  Shown(o)' # {} \/ o \in missed'
    <2>1. OnItsWay(x, o)
        BY <1>2, <1>4, <1>7 DEF OnItsWay, Idle
    <2>. QED BY <1>1, <1>2, <1>5, <2>1 DEF UnreadInv
<1>. QED BY <1>6, <1>7

LEMMA IncMsgCountListed ==
    ASSUME Base, UnreadInv, NEW w \in Worker, NEW ok \in BOOLEAN, IncMsgCount(w, ok)
    PROVE  UnreadInv'
<1>. DEFINE p == <<work[w].to, work[w].from>>
<1>. SUFFICES ASSUME faults' = 0
     PROVE  /\ \A o \in User \X User :
                \/ unread'[o] = 0 \/ Shown(o)' # {} \/ o \in missed'
                \/ \E x \in Worker : Clears(x, o)'
            /\ \A x \in Worker : \A o \in User \X User :
                OnItsWay(x, o)' => Shown(o)' # {} \/ o \in missed'
    BY DEF UnreadInv
<1>1. faults = 0 /\ ok
    BY NoFault DEF IncMsgCount
<1>2. /\ Moves(w) /\ work'[w] = Idle /\ work[w].op = "send" /\ work[w].pc = "inc"
      /\ ses' = ses /\ missed' = missed
      /\ \A o \in User \X User : unread'[o] = unread[o] \/ o = p
    BY IncMsgCountKeeps DEF Keeps, mysql, hist
<1>3. \A v \in Worker \ {w} : work'[v] = work[v] /\ Of(v)' = Of(v)
    BY <1>2, OthersStay DEF Of
<1>4. \A o : Shown(o)' = Shown(o)
    BY <1>2, ShownStays
<1>5. \A o \in User \X User : o = p => Shown(o) # {} \/ o \in missed
    BY <1>1, <1>2 DEF UnreadInv, OnItsWay
<1>6. ASSUME NEW o \in User \X User
      PROVE  \/ unread'[o] = 0 \/ Shown(o)' # {} \/ o \in missed'
             \/ \E x \in Worker : Clears(x, o)'
    <2>1. CASE o = p
        BY <1>2, <1>4, <1>5, <2>1
    <2>2. CASE o # p /\ \E x \in Worker : Clears(x, o)
        <3>1. PICK x \in Worker : Clears(x, o)
            BY <2>2
        <3>2. x # w
            BY <1>2, <3>1 DEF Clears
        <3>. QED BY <1>3, <3>1, <3>2 DEF Clears, At
    <2>3. CASE o # p /\ (unread[o] = 0 \/ Shown(o) # {} \/ o \in missed)
        BY <1>2, <1>4, <2>3
    <2>. QED BY <1>1, <2>1, <2>2, <2>3 DEF UnreadInv
<1>7. ASSUME NEW x \in Worker, NEW o \in User \X User, OnItsWay(x, o)'
      PROVE  Shown(o)' # {} \/ o \in missed'
    <2>1. OnItsWay(x, o)
        BY <1>2, <1>3, <1>7 DEF OnItsWay, Idle
    <2>. QED BY <1>1, <1>2, <1>4, <2>1 DEF UnreadInv
<1>. QED BY <1>6, <1>7

LEMMA UnreadNext == Base /\ UnreadInv /\ [Next]_vars => UnreadInv'
<1>. SUFFICES ASSUME Base, UnreadInv, [Next]_vars PROVE UnreadInv'
    OBVIOUS
<1>1. CASE UNCHANGED vars
    BY <1>1 DEF vars, mysql, redis, hist, UnreadInv, Shown, Sessions, OnItsWay, Clears, At, Of
<1>2. ASSUME NEW w \in Worker, RequestStep(w) PROVE UnreadInv'
    <2>1. PICK op \in Ops, u \in User, v \in User : Request(w, op, u, v)
        BY <1>2 DEF RequestStep
    <2>2. /\ Moves(w) /\ SameData /\ hist' = hist /\ ~Busy(w) /\ faults' = faults
          /\ work'[w].op = op
          /\ work'[w].pc = "find" <=> op # "ack"
        BY <2>1, RequestKeeps DEF Keeps, Request
    <2>3. \A o : ~OnItsWay(w, o)'
        BY <2>2 DEF OnItsWay
    <2>4. work[w].op # "remove" /\ \A o : Shown(o)' = Shown(o)
        BY <2>2, ShownStays DEF Busy, SameData
    <2>. QED BY <2>2, <2>3, <2>4, ListedStays DEF SameData, redis, hist
<1>3. ASSUME NEW w \in Worker, NEW ok \in BOOLEAN, CallStep(w, ok) PROVE UnreadInv'
    <2>1. CASE FindSession(w, ok)
        <3>1. /\ Moves(w) /\ SameData /\ hist' = hist /\ work[w].op = "send" /\ Call(ok)
              /\ work'[w].pc \in {"known", "find", "rel"}
              /\ work'[w].from = work[w].from /\ work'[w].to = work[w].to
              /\ work'[w].pc = "rel" => work[w].side = "peer" /\ (ok => Shown(Of(w)) # {})
            BY <2>1, FindSessionKeeps DEF Keeps, FindSession
        <3>2. \A o : Shown(o)' = Shown(o)
            BY <3>1, ShownStays DEF SameData
        <3>3. ok => \A o : OnItsWay(w, o)' => Shown(o) # {}
            BY <3>1 DEF OnItsWay, Of
        <3>. QED BY <3>1, <3>2, <3>3, NoFault, ListedStays DEF SameData, redis, hist
    <2>2. CASE KnowSession(w, ok)
        <3>1. /\ Moves(w) /\ SameData /\ missed' = missed /\ work[w].pc = "known" /\ Call(ok)
              /\ \A o : ~OnItsWay(w, o)'
            BY <2>2, KnowSessionKeeps DEF Keeps, KnowSession, At, OnItsWay
        <3>. QED BY <3>1, NoFault, ShownStays, ListedStays DEF SameData, redis
    <2>3. CASE AddSession(w, ok)
        BY <2>3, AddSessionListed
    <2>4. CASE FindRemoved(w, ok)
        <3>1. /\ Moves(w) /\ SameData /\ hist' = hist /\ work[w].pc = "find" /\ Call(ok)
              /\ \A o : ~OnItsWay(w, o)'
            BY <2>4, FindRemovedKeeps DEF Keeps, FindRemoved, OnItsWay, Idle
        <3>. QED BY <3>1, NoFault, ShownStays, ListedStays DEF SameData, redis, hist
    <2>5. CASE RemoveSession(w, ok)
        BY <2>5, RemoveSessionListed
    <2>6. CASE ClearUserCounter(w, ok)
        BY <2>6, ClearUserCounterListed
    <2>7. CASE \/ GetRelationId(w, ok) \/ LookOnMaster(w, ok) \/ AddRelation(w, ok)
               \/ ResetMsgId(w, ok) \/ GetMsgId(w, ok) \/ InsertMessage(w, ok)
        <3>1. work[w].op = "send" /\ \A o : OnItsWay(w, o)' => OnItsWay(w, o)
            BY <2>7, SameUsers, StaysOnItsWay
        <3>2. ses' = ses /\ unread' = unread /\ missed' = missed /\ Call(ok)
            BY <2>7 DEF GetRelationId, LookOnMaster, AddRelation, ResetMsgId, GetMsgId,
                        InsertMessage, mysql, redis, hist
        <3>3. Moves(w)
            BY <2>7, StepKeeps DEF Keeps, CallStep
        <3>. QED BY <3>1, <3>2, <3>3, NoFault, ShownStays, ListedStays
    <2>8. CASE IncMsgCount(w, ok)
        BY <2>8, IncMsgCountListed
    <2>. QED BY <1>3, <2>1, <2>2, <2>3, <2>4, <2>5, <2>6, <2>7, <2>8 DEF CallStep
<1>. QED BY <1>1, <1>2, <1>3, NextSteps

\* UnreadIsListed, for every number of workers, requests and failures.
THEOREM UnreadIsListedCorrect == Spec => []UnreadIsListed
<1>1. Init => UnreadInv
    BY DEF Init, UnreadInv, OnItsWay, Idle
<1>2. UnreadInv => UnreadIsListed
    BY DEF UnreadInv, UnreadIsListed, Clears
<1>. QED BY <1>1, <1>2, SpecBase, UnreadNext, PTL DEF Spec
=============================================================================
