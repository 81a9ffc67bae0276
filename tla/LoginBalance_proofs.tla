------------------------- MODULE LoginBalance_proofs -------------------------
(***************************************************************************)
(* Proofs about LoginBalance, for any finite set of msg_servers and any    *)
(* limits: the counts are exact, and a client is sent where the fewest are. *)
(***************************************************************************)
EXTENDS LoginBalance, FiniteSetTheorems, TLAPS

Count == 0..MaxClients

\* cur_conn_cnt of a connection, 0 when there is none.
ValueOf(n) == IF n = NoInfo THEN 0 ELSE n

-----------------------------------------------------------------------------
(***************************************************************************)
(* The total.                                                              *)
(***************************************************************************)
\* Counted, of counts g.
CountedIn(g) ==
    {c \in Server \X (1..MaxClients) : g[c[1]] # NoInfo /\ c[2] <= g[c[1]]}

LEMMA CountedIsFinite ==
    ASSUME NEW g
    PROVE  IsFiniteSet(CountedIn(g)) /\ Cardinality(CountedIn(g)) \in Nat
<1>1. IsFiniteSet(1..MaxClients)
    BY BoundAssumption, FS_Interval
<1>2. IsFiniteSet(Server \X (1..MaxClients))
    BY <1>1, ServerAssumption, FS_Product
<1>3. CountedIn(g) \subseteq Server \X (1..MaxClients)
    BY DEF CountedIn
<1>. QED BY <1>2, <1>3, FS_Subset, FS_CardinalityType

\* One msg_server's clients and those of the others.
LEMMA CountedSplits ==
    ASSUME NEW g \in [Server -> Count \cup {NoInfo}], NEW s \in Server
    PROVE  LET others == {c \in CountedIn(g) : c[1] # s}
           IN  Cardinality(CountedIn(g)) = Cardinality(others) + ValueOf(g[s])
<1>. DEFINE others == {c \in CountedIn(g) : c[1] # s}
            n == ValueOf(g[s])
            mine == {s} \X (1..n)
<1>1. n \in Count /\ n \in Nat /\ MaxClients \in Nat
    BY BoundAssumption DEF ValueOf, Count
<1>2. IsFiniteSet(mine) /\ Cardinality(mine) = n
    <2>1. IsFiniteSet(1..n) /\ Cardinality(1..n) = n
        BY <1>1, FS_Interval
    <2>2. IsFiniteSet({s}) /\ Cardinality({s}) = 1
        BY FS_Singleton
    <2>. HIDE DEF n
    <2>. QED BY <1>1, <2>1, <2>2, FS_Product
<1>3. IsFiniteSet(others) /\ others \subseteq CountedIn(g)
    BY CountedIsFinite, FS_Subset
<1>4. CountedIn(g) = others \cup mine
    <2>1. \A c \in Server \X (1..MaxClients) : c[1] = s => (c \in CountedIn(g) <=> c \in mine)
        BY <1>1, NullAssumption DEF CountedIn, ValueOf, Count
    <2>2. mine \subseteq Server \X (1..MaxClients)
        BY <1>1 DEF Count
    <2>3. CountedIn(g) \subseteq Server \X (1..MaxClients) /\ \A c \in mine : c[1] = s
        BY DEF CountedIn
    <2>. HIDE DEF mine
    <2>. QED BY <2>1, <2>2, <2>3
<1>5. others \cap mine = {}
    OBVIOUS
<1>6. Cardinality(others) \in Nat /\ Cardinality({}) = 0
    BY <1>3, FS_CardinalityType, FS_EmptySet
<1>. HIDE DEF others, mine, n
<1>7. Cardinality(others \cup mine) = Cardinality(others) + n
    BY <1>1, <1>2, <1>3, <1>5, <1>6, FS_Union
<1>. QED BY <1>4, <1>7 DEF others, n

\* A new count for one msg_server changes the total by the difference.
LEMMA CountedChanges ==
    ASSUME NEW g \in [Server -> Count \cup {NoInfo}], NEW s \in Server,
           NEW v \in Count \cup {NoInfo}
    PROVE  Cardinality(CountedIn([g EXCEPT ![s] = v]))
                = Cardinality(CountedIn(g)) - ValueOf(g[s]) + ValueOf(v)
<1>. DEFINE h == [g EXCEPT ![s] = v]
            othersOf(x) == {c \in CountedIn(x) : c[1] # s}
<1>1. h \in [Server -> Count \cup {NoInfo}] /\ h[s] = v
    OBVIOUS
<1>2. othersOf(h) = othersOf(g)
    BY DEF CountedIn
<1>3. IsFiniteSet(othersOf(g))
    BY CountedIsFinite, FS_Subset
<1>4. Cardinality(othersOf(g)) \in Nat
    BY <1>3, FS_CardinalityType
<1>5. ValueOf(v) \in Nat /\ ValueOf(g[s]) \in Nat
    BY BoundAssumption DEF ValueOf, Count
<1>6. Cardinality(CountedIn(g)) = Cardinality(othersOf(g)) + ValueOf(g[s])
    BY CountedSplits
<1>. HIDE DEF h
<1>7. Cardinality(CountedIn(h)) = Cardinality(othersOf(h)) + ValueOf(v)
    BY <1>1, CountedSplits
<1>. HIDE DEF othersOf
<1>8. Cardinality(CountedIn(h)) = Cardinality(CountedIn(g)) - ValueOf(g[s]) + ValueOf(v)
    BY <1>2, <1>4, <1>5, <1>6, <1>7
<1>. QED BY <1>8 DEF h

-----------------------------------------------------------------------------
(***************************************************************************)
(* The messages under way.  A path through a queue gives the count the     *)
(* login_server has after each of its messages.                            *)
(***************************************************************************)
Message == [kind : {"info"}, cur : Count] \cup [kind : {"count"}, delta : {-1, 1}]

\* The message m takes the count of its connection from a to b; the first one
\* of a connection is the only one with a count.
Follows(m, a, b) ==
    IF m.kind = "info" THEN a = NoInfo /\ b = m.cur ELSE a \in Count /\ b = a + m.delta

IsPath(f, q, a, b) ==
    /\ f \in [0..Len(q) -> Count \cup {NoInfo}]
    /\ f[0] = a /\ f[Len(q)] = b
    /\ \A i \in 1..Len(q) : Follows(q[i], f[i - 1], f[i])

Path(q, a, b) == \E f : IsPath(f, q, a, b)

LEMMA PathEmpty ==
    ASSUME NEW a \in Count \cup {NoInfo}
    PROVE  Path(<<>>, a, a)
<1>. DEFINE f == [i \in 0..0 |-> a]
<1>1. IsPath(f, <<>>, a, a)
    BY DEF IsPath
<1>. QED BY <1>1 DEF Path

LEMMA PathOfEmpty ==
    ASSUME NEW a, NEW b, Path(<<>>, a, b)
    PROVE  a = b
BY DEF Path, IsPath

LEMMA PathAppend ==
    ASSUME NEW q \in Seq(Message), NEW a, NEW b, Path(q, a, b), NEW m \in Message,
           NEW c \in Count, Follows(m, b, c)
    PROVE  Path(Append(q, m), a, c)
<1>1. PICK f : IsPath(f, q, a, b)
    BY DEF Path
<1>. DEFINE n == Len(q)
            p == Append(q, m)
            g == [i \in 0..(n + 1) |-> IF i = n + 1 THEN c ELSE f[i]]
<1>2. n \in Nat /\ Len(p) = n + 1 /\ p[n + 1] = m /\ \A i \in 1..n : p[i] = q[i]
    OBVIOUS
<1>3. \A i \in 0..n : g[i] = f[i] /\ f[i] \in Count \cup {NoInfo}
    BY <1>1, <1>2 DEF IsPath
<1>4. g[0] = a /\ g[n] = b /\ g[n + 1] = c
    BY <1>1, <1>2, <1>3 DEF IsPath
<1>5. g \in [0..(n + 1) -> Count \cup {NoInfo}]
    <2>1. \A i \in 0..(n + 1) : i = n + 1 \/ i \in 0..n
        BY <1>2
    <2>2. \A i \in 0..(n + 1) : g[i] \in Count \cup {NoInfo}
        BY <1>3, <1>4, <2>1
    <2>. QED BY <2>2
<1>6. ASSUME NEW i \in 1..(n + 1) PROVE Follows(p[i], g[i - 1], g[i])
    <2>1. CASE i = n + 1
        <3>1. g[i - 1] = b /\ g[i] = c /\ p[i] = m
            BY <1>2, <1>4, <2>1
        <3>. HIDE DEF g, p
        <3>. QED BY <3>1
    <2>2. CASE i # n + 1
        <3>1. i \in 1..n /\ i - 1 \in 0..n /\ i \in 0..n
            BY <1>2, <2>2
        <3>2. g[i - 1] = f[i - 1] /\ g[i] = f[i] /\ p[i] = q[i]
            BY <1>2, <1>3, <3>1
        <3>3. Follows(q[i], f[i - 1], f[i])
            BY <1>1, <3>1 DEF IsPath
        <3>. HIDE DEF g, p
        <3>. QED BY <3>2, <3>3
    <2>. QED BY <2>1, <2>2
<1>. HIDE DEF g, p, n
<1>7. IsPath(g, p, a, c)
    BY <1>2, <1>4, <1>5, <1>6 DEF IsPath
<1>. QED BY <1>7 DEF Path, p

LEMMA PathTail ==
    ASSUME NEW q \in Seq(Message), q # <<>>, NEW a, NEW b, Path(q, a, b)
    PROVE  \E c \in Count : Follows(Head(q), a, c) /\ Path(Tail(q), c, b)
<1>1. PICK f : IsPath(f, q, a, b)
    BY DEF Path
<1>. DEFINE n == Len(q)
            p == Tail(q)
            g == [i \in 0..(n - 1) |-> f[i + 1]]
<1>2. /\ n \in Nat /\ n >= 1 /\ Len(p) = n - 1 /\ Head(q) = q[1] /\ q[1] \in Message
      /\ \A i \in 1..(n - 1) : p[i] = q[i + 1]
    OBVIOUS
<1>3. Follows(q[1], a, f[1]) /\ f[1] \in Count \cup {NoInfo}
    BY <1>1, <1>2 DEF IsPath
<1>4. f[1] \in Count
    BY <1>2, <1>3, BoundAssumption, NullAssumption DEF Follows, Message, Count
<1>5. g[0] = f[1] /\ g[n - 1] = b /\ g \in [0..(n - 1) -> Count \cup {NoInfo}]
    BY <1>1, <1>2 DEF IsPath
<1>6. ASSUME NEW i \in 1..(n - 1) PROVE Follows(p[i], g[i - 1], g[i])
    <2>1. i + 1 \in 1..n /\ i - 1 \in 0..(n - 1) /\ i \in 0..(n - 1)
        BY <1>2
    <2>2. g[i - 1] = f[i] /\ g[i] = f[i + 1] /\ p[i] = q[i + 1]
        BY <1>2, <2>1
    <2>3. Follows(q[i + 1], f[(i + 1) - 1], f[i + 1])
        BY <1>1, <2>1 DEF IsPath
    <2>4. (i + 1) - 1 = i
        OBVIOUS
    <2>. HIDE DEF g, p
    <2>. QED BY <2>2, <2>3, <2>4
<1>. HIDE DEF g, p, n
<1>7. IsPath(g, p, f[1], b)
    BY <1>2, <1>5, <1>6 DEF IsPath
<1>. QED BY <1>2, <1>3, <1>4, <1>7 DEF Path, p

LEMMA PathCut ==
    ASSUME NEW q \in Seq(Message), NEW a, NEW b, Path(q, a, b), NEW n \in 0..Len(q)
    PROVE  \E c : Path(SubSeq(q, 1, n), a, c)
<1>1. PICK f : IsPath(f, q, a, b)
    BY DEF Path
<1>. DEFINE p == SubSeq(q, 1, n)
            g == [i \in 0..n |-> f[i]]
<1>2. Len(p) = n /\ \A i \in 1..n : p[i] = q[i]
    OBVIOUS
<1>3. \A i \in 0..n : g[i] = f[i] /\ f[i] \in Count \cup {NoInfo}
    BY <1>1 DEF IsPath
<1>4. ASSUME NEW i \in 1..n PROVE Follows(p[i], g[i - 1], g[i])
    <2>1. i \in 1..Len(q) /\ i - 1 \in 0..n /\ i \in 0..n
        OBVIOUS
    <2>2. g[i - 1] = f[i - 1] /\ g[i] = f[i] /\ p[i] = q[i]
        BY <1>2, <1>3, <2>1
    <2>3. Follows(q[i], f[i - 1], f[i])
        BY <1>1, <2>1 DEF IsPath
    <2>. HIDE DEF g, p
    <2>. QED BY <2>2, <2>3
<1>5. g \in [0..n -> Count \cup {NoInfo}] /\ g[0] = a
    BY <1>1, <1>3 DEF IsPath
<1>. HIDE DEF g, p
<1>6. IsPath(g, p, a, g[n])
    BY <1>2, <1>4, <1>5 DEF IsPath
<1>. QED BY <1>6 DEF Path, p

-----------------------------------------------------------------------------
\* The connection of s: what the login_server has counted of it leads through the
\* messages under way, to the number of open clients unless it was closed; with no
\* connection nothing is counted.
LinkOK(s) ==
    IF link[s] \in {"up", "closing"}
    THEN \E b : Path(queue[s], info[s], b) /\ (link[s] = "up" => b = online[s])
    ELSE queue[s] = <<>> /\ info[s] = NoInfo

LoginTypeOK ==
    /\ online \in [Server -> Count]
    /\ link \in [Server -> {"down", "up", "closing", "lost"}]
    /\ queue \in [Server -> Seq(Message)]
    /\ info \in [Server -> Count \cup {NoInfo}]

LoginInv ==
    /\ LoginTypeOK
    /\ \A s \in Server : LinkOK(s)
    /\ total = Cardinality(CountedIn(info))

LEMMA LoginInit == Init => LoginInv
<1>. SUFFICES ASSUME Init PROVE LoginInv
    OBVIOUS
<1>1. LoginTypeOK
    BY BoundAssumption DEF Init, LoginTypeOK, Count
<1>2. \A s \in Server : LinkOK(s)
    BY DEF Init, LinkOK
<1>3. CountedIn(info) = {}
    BY DEF Init, CountedIn
<1>. QED BY <1>1, <1>2, <1>3, FS_EmptySet DEF LoginInv, Init

\* The connections of other msg_servers are left alone.
OnlyOf(s) ==
    \A x \in Server \ {s} : /\ link'[x] = link[x] /\ queue'[x] = queue[x]
                            /\ info'[x] = info[x] /\ online'[x] = online[x]

LEMMA OthersStay ==
    ASSUME LoginInv, NEW s \in Server, OnlyOf(s), LinkOK(s)'
    PROVE  \A x \in Server : LinkOK(x)'
BY DEF LoginInv, LinkOK, OnlyOf

LEMMA UserChangeKeeps ==
    ASSUME LoginInv, NEW s \in Server, NEW d \in {-1, 1}, UserChange(s, d)
    PROVE  LoginInv'
<1>. DEFINE m == UserCnt(d)
<1>1. /\ online[s] \in Count /\ online[s] + d \in Count /\ queue[s] \in Seq(Message)
      /\ MaxClients \in Nat /\ m \in Message
    BY BoundAssumption DEF LoginInv, LoginTypeOK, UserChange, Count, UserCnt, Message
<1>2. /\ online' = [online EXCEPT ![s] = online[s] + d]
      /\ UNCHANGED <<link, info, total>> /\ Send(s, m)
    BY DEF UserChange
<1>3. Follows(m, online[s], online[s] + d)
    BY <1>1 DEF Follows, UserCnt
<1>4. CASE link[s] = "up"
    <2>1. queue' = [queue EXCEPT ![s] = Append(queue[s], m)]
        BY <1>2, <1>4 DEF Send
    <2>2. Path(queue[s], info[s], online[s])
        BY <1>4 DEF LoginInv, LinkOK
    <2>. HIDE DEF m
    <2>3. Path(Append(queue[s], m), info[s], online[s] + d)
        BY <1>1, <1>3, <2>2, PathAppend
    <2>4. LoginTypeOK'
        BY <1>1, <1>2, <2>1 DEF LoginInv, LoginTypeOK
    <2>5. LinkOK(s)'
        BY <1>2, <1>4, <2>1, <2>3 DEF LinkOK, LoginInv, LoginTypeOK
    <2>6. OnlyOf(s)
        BY <1>2, <2>1 DEF OnlyOf, LoginInv, LoginTypeOK
    <2>. QED BY <1>2, <2>4, <2>5, <2>6, OthersStay DEF LoginInv
<1>5. CASE link[s] # "up"
    <2>1. queue' = queue
        BY <1>2, <1>5 DEF Send
    <2>2. LoginTypeOK'
        BY <1>1, <1>2, <2>1 DEF LoginInv, LoginTypeOK
    <2>3. LinkOK(s)'
        BY <1>2, <1>5, <2>1 DEF LinkOK, LoginInv
    <2>4. OnlyOf(s)
        BY <1>2, <2>1 DEF OnlyOf, LoginInv, LoginTypeOK
    <2>. QED BY <1>2, <2>2, <2>3, <2>4, OthersStay DEF LoginInv
<1>. QED BY <1>4, <1>5

LEMMA ConnectKeeps ==
    ASSUME LoginInv, NEW s \in Server, Connect(s)
    PROVE  LoginInv'
<1>. DEFINE m == MsgServInfo(online[s])
<1>1. /\ online[s] \in Count /\ m \in Message /\ info[s] = NoInfo
    BY DEF LoginInv, LoginTypeOK, Connect, LinkOK, MsgServInfo, Message
<1>2. /\ link' = [link EXCEPT ![s] = "up"] /\ queue' = [queue EXCEPT ![s] = <<m>>]
      /\ UNCHANGED <<online, info, total>>
    BY DEF Connect
<1>3. Path(<<m>>, NoInfo, online[s])
    <2>1. Path(<<>>, NoInfo, NoInfo)
        BY PathEmpty
    <2>2. Follows(m, NoInfo, online[s])
        BY DEF Follows, MsgServInfo
    <2>. HIDE DEF m
    <2>3. <<>> \in Seq(Message) /\ <<m>> = Append(<<>>, m)
        OBVIOUS
    <2>. QED BY <1>1, <2>1, <2>2, <2>3, PathAppend
<1>. HIDE DEF m
<1>4. LoginTypeOK'
    <2>1. <<m>> \in Seq(Message)
        BY <1>1
    <2>. QED BY <1>2, <2>1 DEF LoginInv, LoginTypeOK
<1>5. LinkOK(s)'
    BY <1>1, <1>2, <1>3 DEF LinkOK, LoginInv, LoginTypeOK
<1>6. OnlyOf(s)
    BY <1>2 DEF OnlyOf, LoginInv, LoginTypeOK
<1>. QED BY <1>2, <1>4, <1>5, <1>6, OthersStay DEF LoginInv

\* A message at the head of a queue: it takes the count of its connection one step
\* along the path.
LEMMA HandledOnPath ==
    ASSUME LoginInv, NEW s \in Server, queue[s] # <<>>
    PROVE  /\ Head(queue[s]) \in Message /\ Tail(queue[s]) \in Seq(Message)
           /\ link[s] \in {"up", "closing"}
           /\ \E b : \E c \in Count :
                /\ Follows(Head(queue[s]), info[s], c) /\ Path(Tail(queue[s]), c, b)
                /\ (link[s] = "up" => b = online[s])
<1>1. queue[s] \in Seq(Message)
    BY DEF LoginInv, LoginTypeOK
<1>2. PICK b : Path(queue[s], info[s], b) /\ (link[s] = "up" => b = online[s])
    BY DEF LoginInv, LinkOK
<1>3. link[s] \in {"up", "closing"}
    BY DEF LoginInv, LinkOK
<1>4. \E c \in Count : Follows(Head(queue[s]), info[s], c) /\ Path(Tail(queue[s]), c, b)
    BY <1>1, <1>2, PathTail
<1>. QED BY <1>1, <1>2, <1>3, <1>4

LEMMA HandlingKeeps ==
    ASSUME LoginInv, NEW s \in Server, HandleMsgServInfo(s) \/ HandleUserCntUpdate(s)
    PROVE  LoginInv'
<1>1. /\ queue[s] # <<>> /\ queue' = [queue EXCEPT ![s] = Tail(queue[s])]
      /\ UNCHANGED <<online, link>>
    BY DEF HandleMsgServInfo, HandleUserCntUpdate
<1>2. PICK b, c :
        /\ c \in Count /\ Follows(Head(queue[s]), info[s], c) /\ Path(Tail(queue[s]), c, b)
        /\ (link[s] = "up" => b = online[s])
    BY <1>1, HandledOnPath
<1>. DEFINE m == Head(queue[s])
<1>3. m \in Message /\ Tail(queue[s]) \in Seq(Message) /\ link[s] \in {"up", "closing"}
    BY <1>1, HandledOnPath
<1>4. /\ info \in [Server -> Count \cup {NoInfo}] /\ info' = [info EXCEPT ![s] = c]
      /\ total' = total - ValueOf(info[s]) + ValueOf(c)
    <2>0. info \in [Server -> Count \cup {NoInfo}] /\ Count \subseteq Int /\ total \in Int
        BY BoundAssumption, CountedIsFinite DEF LoginInv, LoginTypeOK, Count
    <2>1. CASE HandleMsgServInfo(s)
        <3>1. info[s] = NoInfo /\ c = m.cur
            BY <1>2, <2>1 DEF HandleMsgServInfo, Follows
        <3>2. info' = [info EXCEPT ![s] = m.cur] /\ total' = total + m.cur
            BY <2>1, <3>1 DEF HandleMsgServInfo
        <3>3. c \in Int /\ c # NoInfo
            BY <1>2, <2>0, NullAssumption
        <3>. HIDE DEF m
        <3>. QED BY <2>0, <3>1, <3>2, <3>3 DEF ValueOf
    <2>2. CASE HandleUserCntUpdate(s)
        <3>1. info[s] \in Count /\ c = info[s] + m.delta /\ m.delta \in {-1, 1}
            BY <1>2, <1>3, <2>2 DEF HandleUserCntUpdate, Follows, Message
        <3>2. info[s] # NoInfo /\ c # NoInfo
            BY <1>2, <2>0, <3>1, NullAssumption
        <3>3. info' = [info EXCEPT ![s] = info[s] + m.delta] /\ total' = total + m.delta
            BY <2>2, <3>2 DEF HandleUserCntUpdate
        <3>4. ValueOf(info[s]) = info[s] /\ ValueOf(c) = c
            BY <3>2 DEF ValueOf
        <3>5. info[s] \in Int /\ m.delta \in Int
            <4>1. info[s] \in Int
                BY <2>0, <3>1
            <4>2. -1 \in Int /\ 1 \in Int
                OBVIOUS
            <4>. HIDE DEF m
            <4>. QED BY <3>1, <4>1, <4>2
        <3>. HIDE DEF m
        <3>6. total' = total - info[s] + c
            BY <2>0, <3>1, <3>3, <3>5
        <3>. QED BY <2>0, <3>1, <3>3, <3>4, <3>6
    <2>. QED BY <2>1, <2>2
<1>5. total' = Cardinality(CountedIn(info'))
    BY <1>2, <1>4, CountedChanges DEF LoginInv
<1>6. LoginTypeOK'
    BY <1>1, <1>2, <1>3, <1>4 DEF LoginInv, LoginTypeOK
<1>7. LinkOK(s)'
    BY <1>1, <1>2, <1>3, <1>4 DEF LinkOK, LoginInv, LoginTypeOK
<1>8. OnlyOf(s)
    BY <1>1, <1>4 DEF OnlyOf, LoginInv, LoginTypeOK
<1>. QED BY <1>5, <1>6, <1>7, <1>8, OthersStay DEF LoginInv

LEMMA MsgServerClosesKeeps ==
    ASSUME LoginInv, NEW s \in Server, MsgServerCloses(s)
    PROVE  LoginInv'
<1>1. PICK n \in 0..Len(queue[s]) : queue' = [queue EXCEPT ![s] = SubSeq(queue[s], 1, n)]
    BY DEF MsgServerCloses
<1>2. /\ link[s] = "up" /\ link' = [link EXCEPT ![s] = "closing"]
      /\ UNCHANGED <<online, info, total>>
    BY DEF MsgServerCloses
<1>3. queue[s] \in Seq(Message) /\ Path(queue[s], info[s], online[s])
    BY <1>2 DEF LoginInv, LoginTypeOK, LinkOK
<1>4. PICK c : Path(SubSeq(queue[s], 1, n), info[s], c)
    BY <1>3, PathCut
<1>5. LoginTypeOK'
    <2>1. SubSeq(queue[s], 1, n) \in Seq(Message)
        BY <1>3
    <2>. QED BY <1>1, <1>2, <2>1 DEF LoginInv, LoginTypeOK
<1>6. LinkOK(s)'
    BY <1>1, <1>2, <1>4 DEF LinkOK, LoginInv, LoginTypeOK
<1>7. OnlyOf(s)
    BY <1>1, <1>2 DEF OnlyOf, LoginInv, LoginTypeOK
<1>. QED BY <1>2, <1>5, <1>6, <1>7, OthersStay DEF LoginInv

LEMMA CloseLoginConnKeeps ==
    ASSUME LoginInv, NEW s \in Server, NEW next \in {"down", "lost"}, CloseLoginConn(s, next)
    PROVE  LoginInv'
<1>1. /\ link' = [link EXCEPT ![s] = next] /\ queue' = [queue EXCEPT ![s] = <<>>]
      /\ info' = [info EXCEPT ![s] = NoInfo] /\ UNCHANGED online
      /\ total' = IF info[s] = NoInfo THEN total ELSE total - info[s]
    BY DEF CloseLoginConn
<1>2. info \in [Server -> Count \cup {NoInfo}] /\ Count \subseteq Int /\ total \in Int
    BY BoundAssumption, CountedIsFinite DEF LoginInv, LoginTypeOK, Count
<1>3. total' = total - ValueOf(info[s]) + ValueOf(NoInfo)
    BY <1>1, <1>2 DEF ValueOf
<1>4. total' = Cardinality(CountedIn(info'))
    BY <1>1, <1>2, <1>3, CountedChanges DEF LoginInv
<1>5. LoginTypeOK'
    <2>1. <<>> \in Seq(Message)
        OBVIOUS
    <2>. QED BY <1>1, <2>1 DEF LoginInv, LoginTypeOK
<1>6. LinkOK(s)'
    BY <1>1 DEF LinkOK, LoginInv, LoginTypeOK
<1>7. OnlyOf(s)
    BY <1>1 DEF OnlyOf, LoginInv, LoginTypeOK
<1>. QED BY <1>4, <1>5, <1>6, <1>7, OthersStay DEF LoginInv

LEMMA LoginStep == LoginInv /\ [Next]_vars => LoginInv'
<1>. SUFFICES ASSUME LoginInv, [Next]_vars PROVE LoginInv'
    OBVIOUS
<1>1. ASSUME NEW s \in Server, UserChange(s, 1) \/ UserChange(s, -1) PROVE LoginInv'
    BY <1>1, UserChangeKeeps
<1>2. ASSUME NEW s \in Server, Connect(s) PROVE LoginInv'
    BY <1>2, ConnectKeeps
<1>3. ASSUME NEW s \in Server, HandleMsgServInfo(s) \/ HandleUserCntUpdate(s) PROVE LoginInv'
    BY <1>3, HandlingKeeps
<1>4. ASSUME NEW s \in Server, MsgServerCloses(s) PROVE LoginInv'
    BY <1>4, MsgServerClosesKeeps
<1>5. ASSUME NEW s \in Server, LoginServerCloses(s) \/ LoginServerNotices(s) PROVE LoginInv'
    BY <1>5, CloseLoginConnKeeps DEF LoginServerCloses, LoginServerNotices
<1>6. ASSUME NEW s \in Server, MsgServerNotices(s) PROVE LoginInv'
    <2>1. /\ link[s] = "lost" /\ link' = [link EXCEPT ![s] = "down"]
          /\ UNCHANGED <<online, queue, info, total>>
        BY <1>6 DEF MsgServerNotices
    <2>2. LoginTypeOK' /\ LinkOK(s)' /\ OnlyOf(s)
        BY <2>1 DEF LoginInv, LoginTypeOK, LinkOK, OnlyOf
    <2>. QED BY <2>1, <2>2, OthersStay DEF LoginInv
<1>7. CASE HandleMsgServRequest \/ UNCHANGED vars
    BY <1>7 DEF HandleMsgServRequest, vars, LoginInv, LoginTypeOK, LinkOK
<1>. QED BY <1>1, <1>2, <1>3, <1>4, <1>5, <1>6, <1>7 DEF Next

LEMMA SpecLoginInv == Spec => []LoginInv
BY LoginInit, LoginStep, PTL DEF Spec

\* The login_server's counts are those of the msg_servers once their messages are
\* delivered, and the total is theirs together: no count is lost, kept or taken twice
\* over any number of closed and reopened connections.
THEOREM CountIsExactCorrect == Spec => []CountIsExact
<1>1. LoginInv => CountIsExact
    <2>. SUFFICES ASSUME LoginInv PROVE CountIsExact
        OBVIOUS
    <2>1. \A s \in Registered : info[s] \in 0..MaxClients
        BY DEF LoginInv, LoginTypeOK, Registered, Count
    <2>2. Counted = CountedIn(info)
        BY DEF Counted, CountedIn, Registered
    <2>3. ASSUME NEW s \in Server, link[s] = "up", queue[s] = <<>>
          PROVE  info[s] = online[s]
        BY <2>3, PathOfEmpty DEF LoginInv, LinkOK
    <2>4. ASSUME NEW s \in Server, link[s] \in {"down", "lost"} PROVE info[s] = NoInfo
        BY <2>4 DEF LoginInv, LinkOK
    <2>. QED BY <2>1, <2>2, <2>3, <2>4 DEF LoginInv, CountIsExact
<1>. QED BY <1>1, SpecLoginInv, PTL

\* A client is sent to a connected msg_server with room, and with all messages
\* delivered to one that has the fewest clients.
THEOREM AnswerIsLeastLoadedCorrect == Spec => AnswerIsLeastLoaded
<1>. DEFINE room == {s \in Server : link[s] = "up" /\ online[s] < MaxConn[s]}
            Least == HandleMsgServRequest /\ Settled =>
                        IF room = {} THEN answer' = NoServer
                        ELSE answer' \in room /\ \A t \in room : online[answer'] <= online[t]
<1>1. LoginInv /\ [Next]_vars => [Least]_vars
    <2>. SUFFICES ASSUME LoginInv, HandleMsgServRequest, Settled
         PROVE IF room = {} THEN answer' = NoServer
               ELSE answer' \in room /\ \A t \in room : online[answer'] <= online[t]
        OBVIOUS
    <2>1. \A s \in Server : info[s] = IF link[s] = "up" THEN online[s] ELSE NoInfo
        BY PathOfEmpty DEF LoginInv, LinkOK, Settled
    <2>2. \A s \in Server : online[s] # NoInfo
        BY NullAssumption, BoundAssumption DEF LoginInv, LoginTypeOK, Count
    <2>3. NotFull = room
        BY <2>1, <2>2 DEF NotFull, Registered
    <2>4. \A s \in room : info[s] = online[s]
        BY <2>1
    <2>. HIDE DEF room
    <2>. QED BY <2>3, <2>4 DEF HandleMsgServRequest
<1>. QED BY <1>1, SpecLoginInv, PTL DEF Spec, AnswerIsLeastLoaded
=============================================================================
