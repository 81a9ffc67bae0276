------------------------- MODULE RouteStatus_proofs -------------------------
(***************************************************************************)
(* Proofs about RouteStatus and PcLoginStatus, for any msg_servers, users  *)
(* and client types, and any bounds.                                       *)
(***************************************************************************)
EXTENDS PcLoginStatus, FiniteSetTheorems, TLAPS

-----------------------------------------------------------------------------
(***************************************************************************)
(* The route table.                                                        *)
(***************************************************************************)
\* Entries have their type, and one without a connection is empty.
EntryOK(e) == e \in EntryType /\ (e.conns = {} => e = Absent)

\* Messages wait only at a connection the route_server holds, so that who handles
\* one may be put into an entry.
RouteInv ==
    /\ online \in [Server -> [Clients -> 0..MaxClients]]
    /\ link \in [Server -> {"down", "up", "closing", "lost"}]
    /\ queue \in [Server -> Seq(Message)]
    /\ \A s \in Server : queue[s] # <<>> => s \in Connected
    /\ table = [u \in Uid |-> table[u]] /\ \A u \in Uid : EntryOK(table[u])
    /\ OnlyOpenRouteConns
    /\ told \in [Uid -> BOOLEAN]
    /\ breaks \in 0..MaxBreaks

LEMMA AbsentOK == EntryOK(Absent) /\ Absent.conns = {}
BY DEF EntryOK, EntryType, Absent, NoTypes

\* The operations on an entry keep it well formed, and bring in no connection but s.
LEMMA GoOnlineOK ==
    ASSUME NEW e \in EntryType, NEW s \in Server, NEW k \in Type
    PROVE  EntryOK(GoOnline(e, s, k)) /\ GoOnline(e, s, k).conns = e.conns \cup {s}
<1>1. GoOnline(e, s, k) = [conns |-> e.conns \cup {s}, types |-> [e.types EXCEPT ![k] = @ + 1]]
    BY DEF GoOnline
<1>2. [e.types EXCEPT ![k] = @ + 1] \in [Type -> Nat]
    BY DEF EntryType
<1>3. e.conns \cup {s} \in SUBSET Server
    BY DEF EntryType
<1>. QED BY <1>1, <1>2, <1>3 DEF EntryOK, EntryType

LEMMA RemoveOK ==
    ASSUME NEW e \in EntryType, NEW s \in Server
    PROVE  EntryOK(RemoveRouteConn(e, s)) /\ RemoveRouteConn(e, s).conns \subseteq e.conns \ {s}
<1>1. CASE e.conns \subseteq {s}
    BY <1>1, AbsentOK DEF RemoveRouteConn
<1>2. CASE ~(e.conns \subseteq {s})
  <2>1. RemoveRouteConn(e, s) = [conns |-> e.conns \ {s}, types |-> e.types]
      BY <1>2 DEF RemoveRouteConn, EntryType
  <2>2. e.conns \ {s} \in SUBSET Server /\ e.conns \ {s} # {} /\ e.types \in [Type -> Nat]
      BY <1>2 DEF EntryType
  <2>. QED BY <2>1, <2>2 DEF EntryOK, EntryType
<1>. QED BY <1>1, <1>2

LEMMA GoOfflineOK ==
    ASSUME NEW e, EntryOK(e), NEW s \in Server, NEW k \in Type
    PROVE  EntryOK(GoOffline(e, s, k)) /\ GoOffline(e, s, k).conns \subseteq e.conns
<1>1. /\ e.conns \in SUBSET Server /\ e.types \in [Type -> Nat] /\ e \in EntryType
      /\ e = [conns |-> e.conns, types |-> e.types]
    BY DEF EntryOK, EntryType
<1>. DEFINE fewer == [e.types EXCEPT ![k] = IF @ > 0 THEN @ - 1 ELSE 0]
<1>2. RemoveClientType(e, k) = [conns |-> e.conns, types |-> fewer]
    BY <1>1 DEF RemoveClientType
<1>3. fewer \in [Type -> Nat]
    BY <1>1
<1>4. RemoveClientType(e, k) \in EntryType /\ RemoveClientType(e, k).conns = e.conns
    BY <1>1, <1>2, <1>3 DEF EntryType
<1>5. CASE s \notin e.conns
    BY <1>5 DEF GoOffline
<1>6. CASE s \in e.conns /\ RemoveClientType(e, k).types = NoTypes
    BY <1>4, <1>6, RemoveOK DEF GoOffline
<1>7. CASE s \in e.conns /\ RemoveClientType(e, k).types # NoTypes
    BY <1>4, <1>7 DEF GoOffline, EntryOK
<1>. QED BY <1>5, <1>6, <1>7

LEMMA RouteInit == Init => RouteInv
<1>. SUFFICES ASSUME Init PROVE RouteInv
    OBVIOUS
<1>1. \A u \in Uid : EntryOK(table[u]) /\ table[u].conns = {}
    BY AbsentOK DEF Init
<1>. QED BY <1>1, BoundAssumption DEF Init, RouteInv, OnlyOpenRouteConns

LEMMA RouteStep == RouteInv /\ [Next]_vars => RouteInv'
<1>. SUFFICES ASSUME RouteInv, [Next]_vars PROVE RouteInv'
    OBVIOUS
<1>0. /\ MaxClients \in Nat /\ MaxBreaks \in Nat
      /\ online \in [Server -> [Clients -> 0..MaxClients]]
      /\ link \in [Server -> {"down", "up", "closing", "lost"}]
      /\ queue \in [Server -> Seq(Message)]
      /\ \A s \in Server : queue[s] # <<>> => s \in Connected
      /\ table = [u \in Uid |-> table[u]]
      /\ \A u \in Uid : EntryOK(table[u]) /\ table[u].conns \subseteq Connected
      /\ told \in [Uid -> BOOLEAN] /\ breaks \in 0..MaxBreaks
    BY BoundAssumption DEF RouteInv, OnlyOpenRouteConns
\* What a step of msg_server s that leaves the table alone has to show.
<1>1. ASSUME NEW s \in Server, UNCHANGED <<table, told>>,
             online' \in [Server -> [Clients -> 0..MaxClients]],
             link' \in [Server -> {"down", "up", "closing", "lost"}],
             queue' \in [Server -> Seq(Message)], breaks' \in 0..MaxBreaks,
             \A x \in Server : queue'[x] # <<>> => x \in Connected',
             Connected \subseteq Connected'
      PROVE  RouteInv'
    BY <1>0, <1>1 DEF RouteInv, OnlyOpenRouteConns
<1>2. ASSUME NEW s \in Server, NEW m \in Message, Send(s, m), UNCHANGED link
      PROVE  /\ queue' \in [Server -> Seq(Message)]
             /\ \A x \in Server : queue'[x] # <<>> => x \in Connected'
             /\ Connected' = Connected
  <2>1. Connected' = Connected
      BY <1>2 DEF Connected
  <2>2. CASE link[s] = "up"
    <3>1. queue' = [queue EXCEPT ![s] = Append(queue[s], m)]
        BY <1>2, <2>2 DEF Send
    <3>2. Append(queue[s], m) \in Seq(Message)
        BY <1>0
    <3>3. s \in Connected
        BY <2>2 DEF Connected
    <3>. QED BY <1>0, <2>1, <3>1, <3>2, <3>3
  <2>3. CASE link[s] # "up"
      BY <1>0, <1>2, <2>1, <2>3 DEF Send
  <2>. QED BY <2>2, <2>3, <2>1
<1>3. ASSUME NEW s \in Server, NEW u \in Uid, NEW k \in Type, Login(s, u, k)
      PROVE  RouteInv'
  <2>1. Status(u, k, TRUE) \in Message
      BY DEF Status, Message
  <2>2. <<u, k>> \in Clients
      BY DEF Clients
  <2>3. online' = [online EXCEPT ![s] = [online[s] EXCEPT ![<<u, k>>] = @ + 1]]
      BY <1>3 DEF Login
  <2>4. [online[s] EXCEPT ![<<u, k>>] = @ + 1] \in [Clients -> 0..MaxClients]
      BY <1>0, <1>3, <2>2 DEF Login
  <2>5. online' \in [Server -> [Clients -> 0..MaxClients]]
      BY <1>0, <2>3, <2>4
  <2>. QED BY <1>0, <1>1, <1>2, <1>3, <2>1, <2>5 DEF Login
<1>4. ASSUME NEW s \in Server, NEW u \in Uid, NEW k \in Type, Logout(s, u, k)
      PROVE  RouteInv'
  <2>1. Status(u, k, FALSE) \in Message
      BY DEF Status, Message
  <2>2. <<u, k>> \in Clients
      BY DEF Clients
  <2>3. online' = [online EXCEPT ![s] = [online[s] EXCEPT ![<<u, k>>] = @ - 1]]
      BY <1>4 DEF Logout
  <2>4. [online[s] EXCEPT ![<<u, k>>] = @ - 1] \in [Clients -> 0..MaxClients]
      BY <1>0, <1>4, <2>2 DEF Logout
  <2>5. online' \in [Server -> [Clients -> 0..MaxClients]]
      BY <1>0, <2>3, <2>4
  <2>. QED BY <1>0, <1>1, <1>2, <1>4, <2>1, <2>5 DEF Logout
<1>5. ASSUME NEW s \in Server, Connect(s)
      PROVE  RouteInv'
  <2>1. online[s] \in [Clients -> Nat]
      BY <1>0
  <2>2. <<Users(online[s])>> \in Seq(Message)
      BY <2>1 DEF Users, Message
  <2>3. Connected' = Connected \cup {s}
      BY <1>0, <1>5 DEF Connect, Connected
  <2>4. /\ queue' \in [Server -> Seq(Message)]
        /\ link' \in [Server -> {"down", "up", "closing", "lost"}]
        /\ \A x \in Server : queue'[x] # <<>> => x \in Connected'
      BY <1>0, <1>5, <2>2, <2>3 DEF Connect
  <2>. QED BY <1>0, <1>1, <1>5, <2>3, <2>4 DEF Connect
\* Who handles a message takes it from the queue of a connection that is held.
<1>6. ASSUME NEW s \in Server, queue[s] # <<>>, queue' = [queue EXCEPT ![s] = Tail(@)],
             UNCHANGED <<online, link, breaks>>, told' \in [Uid -> BOOLEAN],
             table' = [u \in Uid |-> table'[u]],
             \A u \in Uid : EntryOK(table'[u]) /\ table'[u].conns \subseteq Connected
      PROVE  RouteInv'
  <2>1. Tail(queue[s]) \in Seq(Message) /\ s \in Connected
      BY <1>0, <1>6
  <2>2. queue' \in [Server -> Seq(Message)] /\ Connected' = Connected
      BY <1>0, <1>6, <2>1 DEF Connected
  <2>3. \A x \in Server : queue'[x] # <<>> => x \in Connected'
      BY <1>0, <1>6, <2>1, <2>2
  <2>. QED BY <1>0, <1>6, <2>2, <2>3 DEF RouteInv, OnlyOpenRouteConns
<1>7. ASSUME NEW s \in Server, HandleOnlineUserInfo(s)
      PROVE  RouteInv'
  <2>. DEFINE count == Head(queue[s]).count
              Listed(u) == IF \A k \in Type : count[<<u, k>>] = 0 THEN table[u]
                           ELSE [conns |-> table[u].conns \cup {s},
                                 types |-> [k \in Type |-> table[u].types[k] + count[<<u, k>>]]]
  <2>1. queue[s] # <<>> /\ Head(queue[s]).kind = "users"
      BY <1>7 DEF HandleOnlineUserInfo
  <2>2. queue' = [queue EXCEPT ![s] = Tail(@)] /\ UNCHANGED <<online, link, told, breaks>>
      BY <1>7 DEF HandleOnlineUserInfo
  <2>3. table' = [u \in Uid |-> Listed(u)]
      BY <1>7, Zenon DEF HandleOnlineUserInfo
  <2>4. Head(queue[s]) \in Message /\ s \in Connected
      BY <1>0, <2>1
  <2>5. count \in [Clients -> Nat]
      BY <2>1, <2>4 DEF Message
  <2>6. ASSUME NEW u \in Uid
        PROVE  EntryOK(Listed(u)) /\ Listed(u).conns \subseteq Connected
    <3>1. CASE \A k \in Type : count[<<u, k>>] = 0
      <4>1. Listed(u) = table[u]
          BY <3>1
      <4>. HIDE DEF Listed
      <4>. QED BY <1>0, <4>1
    <3>2. CASE ~(\A k \in Type : count[<<u, k>>] = 0)
      <4>. HIDE DEF count
      <4>1. \A k \in Type : count[<<u, k>>] \in Nat
          BY <2>5 DEF Clients
      <4>2. table[u] \in EntryType /\ table[u].conns \subseteq Connected
          BY <1>0 DEF EntryOK
      <4>3. [k \in Type |-> table[u].types[k] + count[<<u, k>>]] \in [Type -> Nat]
          BY <4>1, <4>2 DEF EntryType
      <4>4. table[u].conns \cup {s} \in SUBSET Server
          BY <4>2 DEF EntryType
      <4>5. Listed(u) = [conns |-> table[u].conns \cup {s},
                         types |-> [k \in Type |-> table[u].types[k] + count[<<u, k>>]]]
          BY <3>2
      <4>. HIDE DEF Listed
      <4>. QED BY <2>4, <4>2, <4>3, <4>4, <4>5 DEF EntryOK, EntryType
    <3>. QED BY <3>1, <3>2
  <2>. HIDE DEF Listed
  <2>. QED BY <1>0, <1>6, <2>1, <2>2, <2>3, <2>6
<1>8. ASSUME NEW s \in Server, HandleUserStatusUpdate(s)
      PROVE  RouteInv'
  <2>. DEFINE m == Head(queue[s])
  <2>1. queue[s] # <<>> /\ m.kind = "status"
      BY <1>8 DEF HandleUserStatusUpdate
  <2>2. /\ queue' = [queue EXCEPT ![s] = Tail(@)] /\ UNCHANGED <<online, link, breaks>>
        /\ table' = [table EXCEPT ![m.uid] = IF m.on THEN GoOnline(@, s, m.type)
                                                    ELSE GoOffline(@, s, m.type)]
        /\ told' = told \/ told' = [told EXCEPT ![m.uid] = m.on]
      BY <1>8 DEF HandleUserStatusUpdate
  <2>3. m \in Message /\ s \in Connected
      BY <1>0, <2>1
  <2>4. m.uid \in Uid /\ m.type \in Type /\ m.on \in BOOLEAN
      BY <2>1, <2>3 DEF Message
  <2>. HIDE DEF m
  <2>5. table'[m.uid] \in {GoOnline(table[m.uid], s, m.type), GoOffline(table[m.uid], s, m.type)}
      BY <1>0, <2>2, <2>4
  <2>6. EntryOK(table'[m.uid]) /\ table'[m.uid].conns \subseteq Connected
    <3>1. /\ EntryOK(table[m.uid]) /\ table[m.uid] \in EntryType
          /\ table[m.uid].conns \subseteq Connected
        BY <1>0, <2>4 DEF EntryOK
    <3>. QED BY <2>3, <2>4, <2>5, <3>1, GoOnlineOK, GoOfflineOK
  <2>7. \A u \in Uid : EntryOK(table'[u]) /\ table'[u].conns \subseteq Connected
      BY <1>0, <2>2, <2>4, <2>6
  <2>8. table' = [u \in Uid |-> table'[u]] /\ told' \in [Uid -> BOOLEAN]
      BY <1>0, <2>2, <2>4
  <2>. QED BY <1>6, <2>1, <2>2, <2>7, <2>8
<1>9. ASSUME NEW s \in Server, MsgServerCloses(s)
      PROVE  RouteInv'
  <2>1. PICK n \in 0..Len(queue[s]) : queue' = [queue EXCEPT ![s] = SubSeq(queue[s], 1, n)]
      BY <1>9 DEF MsgServerCloses
  <2>2. SubSeq(queue[s], 1, n) \in Seq(Message)
      BY <1>0
  <2>3. /\ link[s] = "up" /\ link' = [link EXCEPT ![s] = "closing"]
        /\ breaks' \in 0..MaxBreaks /\ UNCHANGED <<online, table, told>>
      BY <1>0, <1>9 DEF MsgServerCloses
  <2>4. Connected' = Connected /\ s \in Connected
      BY <1>0, <2>3 DEF Connected
  <2>5. /\ queue' \in [Server -> Seq(Message)]
        /\ \A x \in Server : queue'[x] # <<>> => x \in Connected'
      BY <1>0, <2>1, <2>2, <2>4
  <2>6. link' \in [Server -> {"down", "up", "closing", "lost"}]
      BY <1>0, <2>3
  <2>. QED BY <1>0, <1>1, <2>3, <2>4, <2>5, <2>6
<1>10. ASSUME NEW s \in Server, NEW next \in {"down", "lost"}, CloseRouteConn(s, next),
              breaks' \in 0..MaxBreaks
       PROVE  RouteInv'
  <2>1. /\ link' = [link EXCEPT ![s] = next] /\ queue' = [queue EXCEPT ![s] = <<>>]
        /\ table' = [u \in Uid |-> RemoveRouteConn(table[u], s)] /\ UNCHANGED <<online, told>>
      BY <1>10 DEF CloseRouteConn
  <2>2. /\ link' \in [Server -> {"down", "up", "closing", "lost"}]
        /\ Connected \ {s} \subseteq Connected'
      BY <1>0, <2>1 DEF Connected
  <2>3. <<>> \in Seq(Message)
      OBVIOUS
  <2>4. /\ queue' \in [Server -> Seq(Message)]
        /\ \A x \in Server : queue'[x] # <<>> => x \in Connected'
      BY <1>0, <2>1, <2>2, <2>3
  <2>5. ASSUME NEW u \in Uid
        PROVE  EntryOK(table'[u]) /\ table'[u].conns \subseteq Connected'
    <3>1. table[u] \in EntryType /\ table[u].conns \subseteq Connected
        BY <1>0 DEF EntryOK
    <3>2. table'[u] = RemoveRouteConn(table[u], s)
        BY <2>1
    <3>. QED BY <2>2, <3>1, <3>2, RemoveOK
  <2>6. table' = [u \in Uid |-> table'[u]]
      BY <2>1
  <2>. QED BY <1>0, <1>10, <2>1, <2>2, <2>4, <2>5, <2>6 DEF RouteInv, OnlyOpenRouteConns
<1>11. ASSUME NEW s \in Server, RouteServerCloses(s) \/ RouteServerNotices(s)
       PROVE  RouteInv'
    BY <1>0, <1>10, <1>11 DEF RouteServerCloses, RouteServerNotices
<1>12. ASSUME NEW s \in Server, MsgServerNotices(s)
       PROVE  RouteInv'
  <2>1. link' \in [Server -> {"down", "up", "closing", "lost"}] /\ Connected' = Connected
      BY <1>0, <1>12 DEF MsgServerNotices, Connected
  <2>. QED BY <1>0, <1>1, <1>12, <2>1 DEF MsgServerNotices
<1>13. CASE UNCHANGED vars
    BY <1>13 DEF vars, RouteInv, OnlyOpenRouteConns, Connected
<1>. QED BY <1>3, <1>4, <1>5, <1>7, <1>8, <1>9, <1>11, <1>12, <1>13 DEF Next

\* The inductive invariant of the route table.
THEOREM RouteCorrect == Spec => []RouteInv
<1>. QED BY RouteInit, RouteStep, PTL DEF Spec

\* Every variable of RouteStatus keeps its type, and an entry that has lost its
\* last connection is empty.
THEOREM TypeCorrect == Spec => []TypeOK
<1>1. RouteInv => TypeOK
  <2>. SUFFICES ASSUME RouteInv PROVE TypeOK
      OBVIOUS
  <2>1. table \in [Uid -> EntryType]
      BY DEF RouteInv, EntryOK
  <2>. QED BY <2>1 DEF RouteInv, EntryOK, TypeOK
<1>. QED BY <1>1, RouteCorrect, PTL

\* No entry keeps a pointer to a closed connection: CRouteConn::Close takes the
\* connection out of every entry, and only a connection that is held brings
\* messages that could put it in.
THEOREM OnlyOpenCorrect == Spec => []OnlyOpenRouteConns
<1>1. RouteInv => OnlyOpenRouteConns
    BY DEF RouteInv
<1>. QED BY <1>1, RouteCorrect, PTL

-----------------------------------------------------------------------------
(***************************************************************************)
(* How many clients the table has of a user and type.  A row of h is what  *)
(* the route_server has heard from one msg_server, a column what it has    *)
(* heard of one user and type.                                             *)
(***************************************************************************)
Count == 0..MaxClients

\* The clients counted by a column g, numbered on each msg_server.
CountedIn(g) == {c \in Server \X (1..MaxClients) : c[2] <= g[c[1]]}

LEMMA CountedIsFinite ==
    ASSUME NEW g
    PROVE  IsFiniteSet(CountedIn(g)) /\ Cardinality(CountedIn(g)) \in Nat
<1>1. IsFiniteSet(1..MaxClients)
    BY BoundAssumption, FS_Interval
<1>2. IsFiniteSet(Server \X (1..MaxClients))
    BY <1>1, ServerAssumption, FS_Product
<1>3. CountedIn(g) \subseteq Server \X (1..MaxClients)
    BY DEF CountedIn
<1>. QED BY <1>2, <1>3, FS_Subset, FS_CardinalityType

\* One msg_server's clients and those of the others.
LEMMA CountedSplits ==
    ASSUME NEW g \in [Server -> Count], NEW s \in Server, NEW n, n = g[s]
    PROVE  LET others == {c \in CountedIn(g) : c[1] # s}
           IN  Cardinality(CountedIn(g)) = Cardinality(others) + n
<1>. DEFINE others == {c \in CountedIn(g) : c[1] # s}
            mine == {s} \X (1..n)
<1>1. n \in Count /\ n \in Nat /\ MaxClients \in Nat
    BY BoundAssumption DEF Count
<1>2. IsFiniteSet(mine) /\ Cardinality(mine) = n
    <2>1. IsFiniteSet(1..n) /\ Cardinality(1..n) = n
        BY <1>1, FS_Interval
    <2>2. IsFiniteSet({s}) /\ Cardinality({s}) = 1
        BY FS_Singleton
    <2>. QED BY <1>1, <2>1, <2>2, FS_Product
<1>3. IsFiniteSet(others) /\ others \subseteq CountedIn(g)
    BY CountedIsFinite, FS_Subset
<1>4. CountedIn(g) = others \cup mine
    <2>1. \A c \in Server \X (1..MaxClients) : c[1] = s => (c \in CountedIn(g) <=> c \in mine)
        BY <1>1 DEF CountedIn, Count
    <2>2. mine \subseteq Server \X (1..MaxClients)
        BY <1>1 DEF Count
    <2>3. CountedIn(g) \subseteq Server \X (1..MaxClients) /\ \A c \in mine : c[1] = s
        BY DEF CountedIn
    <2>. HIDE DEF mine
    <2>. QED BY <2>1, <2>2, <2>3
<1>5. others \cap mine = {}
    OBVIOUS
<1>6. Cardinality(others) \in Nat /\ Cardinality({}) = 0
    BY <1>3, FS_CardinalityType, FS_EmptySet
<1>. HIDE DEF others, mine
<1>7. Cardinality(others \cup mine) = Cardinality(others) + n
    <2>1. /\ IsFiniteSet(others) /\ IsFiniteSet(mine)
          /\ Cardinality(others \cap mine) = 0 /\ Cardinality(mine) = n
        BY <1>2, <1>3, <1>5, <1>6
    <2>2. Cardinality(others \cup mine)
            = Cardinality(others) + Cardinality(mine) - Cardinality(others \cap mine)
        BY <2>1, FS_Union
    <2>. QED BY <1>1, <1>6, <2>1, <2>2
<1>. QED BY <1>4, <1>7 DEF others

LEMMA CountedCovers ==
    ASSUME NEW g \in [Server -> Count], NEW s \in Server
    PROVE  g[s] <= Cardinality(CountedIn(g))
<1>. DEFINE others == {c \in CountedIn(g) : c[1] # s}
<1>1. Cardinality(others) \in Nat
    BY CountedIsFinite, FS_Subset, FS_CardinalityType
<1>2. Cardinality(CountedIn(g)) = Cardinality(others) + g[s]
    BY CountedSplits
<1>3. g[s] \in Nat
    BY BoundAssumption DEF Count
<1>. HIDE DEF others
<1>. QED BY <1>1, <1>2, <1>3

LEMMA CountedChanges ==
    ASSUME NEW g \in [Server -> Count], NEW s \in Server, NEW v \in Count
    PROVE  Cardinality(CountedIn([g EXCEPT ![s] = v])) = Cardinality(CountedIn(g)) - g[s] + v
<1>. DEFINE h == [g EXCEPT ![s] = v]
            othersOf(x) == {c \in CountedIn(x) : c[1] # s}
<1>1. h \in [Server -> Count] /\ h[s] = v
    OBVIOUS
<1>2. othersOf(h) = othersOf(g)
    BY DEF CountedIn
<1>3. IsFiniteSet(othersOf(g))
    BY CountedIsFinite, FS_Subset
<1>4. Cardinality(othersOf(g)) \in Nat
    BY <1>3, FS_CardinalityType
<1>5. v \in Nat /\ g[s] \in Nat
    BY BoundAssumption DEF Count
<1>6. Cardinality(CountedIn(g)) = Cardinality(othersOf(g)) + g[s]
    BY CountedSplits
<1>. HIDE DEF h
<1>7. Cardinality(CountedIn(h)) = Cardinality(othersOf(h)) + v
    BY <1>1, CountedSplits
<1>. HIDE DEF othersOf
<1>8. Cardinality(CountedIn(h)) = Cardinality(CountedIn(g)) - g[s] + v
    BY <1>2, <1>4, <1>5, <1>6, <1>7
<1>. QED BY <1>8 DEF h

Column(h, p) == [s \in Server |-> h[s][p]]
Heard(h, p) == Cardinality(CountedIn(Column(h, p)))

Rows == [Server -> [Clients -> Count]]

LEMMA HeardFacts ==
    ASSUME NEW h \in Rows, NEW p \in Clients
    PROVE  /\ Heard(h, p) \in Nat
           /\ \A s \in Server : h[s][p] \in Nat /\ h[s][p] <= Heard(h, p)
           /\ (\A s \in Server : h[s][p] = 0) => Heard(h, p) = 0
<1>. DEFINE g == Column(h, p)
<1>1. g \in [Server -> Count] /\ \A s \in Server : g[s] = h[s][p]
    BY DEF Column, Rows
<1>2. Cardinality(CountedIn(g)) \in Nat
    BY CountedIsFinite
<1>3. \A s \in Server : g[s] <= Cardinality(CountedIn(g)) /\ g[s] \in Nat
    BY <1>1, CountedCovers, BoundAssumption DEF Count
<1>4. ASSUME \A s \in Server : g[s] = 0 PROVE Cardinality(CountedIn(g)) = 0
    <2>1. CountedIn(g) = {}
        BY <1>4, BoundAssumption DEF CountedIn
    <2>. QED BY <2>1, FS_EmptySet
<1>. HIDE DEF g
<1>5. Heard(h, p) = Cardinality(CountedIn(g))
    BY DEF Heard, g
<1>. QED BY <1>1, <1>2, <1>3, <1>4, <1>5

LEMMA HeardChanges ==
    ASSUME NEW h \in Rows, NEW s \in Server, NEW row \in [Clients -> Count], NEW p \in Clients
    PROVE  Heard([h EXCEPT ![s] = row], p) = Heard(h, p) - h[s][p] + row[p]
<1>1. Column([h EXCEPT ![s] = row], p) = [Column(h, p) EXCEPT ![s] = row[p]]
    BY DEF Column, Rows
<1>2. Column(h, p) \in [Server -> Count] /\ row[p] \in Count /\ Column(h, p)[s] = h[s][p]
    BY DEF Column, Rows
<1>. QED BY ZenonT(30), <1>1, <1>2, CountedChanges DEF Heard

-----------------------------------------------------------------------------
(***************************************************************************)
(* The messages under way.  A path through a queue gives the number of     *)
(* clients of p heard of after each of its messages.                       *)
(***************************************************************************)
\* The message m takes the number of clients of p heard of from a to b; only the
\* first of a connection is a list.
Follows(m, p, a, b) ==
    IF m.kind = "users" THEN a = 0 /\ b = m.count[p]
    ELSE IF <<m.uid, m.type>> # p THEN b = a
    ELSE IF m.on THEN b = a + 1 ELSE b = a - 1

IsPath(f, q, p, a, b) ==
    /\ f \in [0..Len(q) -> Count]
    /\ f[0] = a /\ f[Len(q)] = b
    /\ \A i \in 1..Len(q) : Follows(q[i], p, f[i - 1], f[i])

Path(q, p, a, b) == \E f : IsPath(f, q, p, a, b)

LEMMA PathEmpty ==
    ASSUME NEW p, NEW a \in Count
    PROVE  Path(<<>>, p, a, a)
<1>. DEFINE f == [i \in 0..0 |-> a]
<1>1. IsPath(f, <<>>, p, a, a)
    BY DEF IsPath
<1>. QED BY <1>1 DEF Path

LEMMA PathOfEmpty ==
    ASSUME NEW p, NEW a, NEW b, Path(<<>>, p, a, b)
    PROVE  a = b
BY DEF Path, IsPath

LEMMA PathAppend ==
    ASSUME NEW q \in Seq(Message), NEW p, NEW a, NEW b, Path(q, p, a, b), NEW m \in Message,
           NEW c \in Count, Follows(m, p, b, c)
    PROVE  Path(Append(q, m), p, a, c)
<1>1. PICK f : IsPath(f, q, p, a, b)
    BY DEF Path
<1>. DEFINE n == Len(q)
            r == Append(q, m)
            g == [i \in 0..(n + 1) |-> IF i = n + 1 THEN c ELSE f[i]]
<1>2. n \in Nat /\ Len(r) = n + 1 /\ r[n + 1] = m /\ \A i \in 1..n : r[i] = q[i]
    OBVIOUS
<1>3. \A i \in 0..n : g[i] = f[i] /\ f[i] \in Count
    BY <1>1, <1>2 DEF IsPath
<1>4. g[0] = a /\ g[n] = b /\ g[n + 1] = c
    BY <1>1, <1>2, <1>3 DEF IsPath
<1>5. g \in [0..(n + 1) -> Count]
    <2>1. \A i \in 0..(n + 1) : i = n + 1 \/ i \in 0..n
        BY <1>2
    <2>2. \A i \in 0..(n + 1) : g[i] \in Count
        BY <1>3, <1>4, <2>1
    <2>. QED BY <2>2
<1>6. ASSUME NEW i \in 1..(n + 1) PROVE Follows(r[i], p, g[i - 1], g[i])
    <2>1. CASE i = n + 1
        <3>1. g[i - 1] = b /\ g[i] = c /\ r[i] = m
            BY <1>2, <1>4, <2>1
        <3>. HIDE DEF g, r
        <3>. QED BY <3>1
    <2>2. CASE i # n + 1
        <3>1. i \in 1..n /\ i - 1 \in 0..n /\ i \in 0..n
            BY <1>2, <2>2
        <3>2. g[i - 1] = f[i - 1] /\ g[i] = f[i] /\ r[i] = q[i]
            BY <1>2, <1>3, <3>1
        <3>3. Follows(q[i], p, f[i - 1], f[i])
            BY <1>1, <3>1 DEF IsPath
        <3>. HIDE DEF g, r
        <3>. QED BY <3>2, <3>3
    <2>. QED BY <2>1, <2>2
<1>. HIDE DEF g, r, n
<1>7. IsPath(g, r, p, a, c)
    BY <1>2, <1>4, <1>5, <1>6 DEF IsPath
<1>. QED BY <1>7 DEF Path, r

LEMMA PathTail ==
    ASSUME NEW q \in Seq(Message), q # <<>>, NEW p, NEW a, NEW b, Path(q, p, a, b)
    PROVE  \E c \in Count : Follows(Head(q), p, a, c) /\ Path(Tail(q), p, c, b)
<1>1. PICK f : IsPath(f, q, p, a, b)
    BY DEF Path
<1>. DEFINE n == Len(q)
            r == Tail(q)
            g == [i \in 0..(n - 1) |-> f[i + 1]]
<1>2. /\ n \in Nat /\ n >= 1 /\ Len(r) = n - 1 /\ Head(q) = q[1]
      /\ \A i \in 1..(n - 1) : r[i] = q[i + 1]
    OBVIOUS
<1>3. Follows(q[1], p, a, f[1]) /\ f[1] \in Count
    BY <1>1, <1>2 DEF IsPath
<1>5. g[0] = f[1] /\ g[n - 1] = b /\ g \in [0..(n - 1) -> Count]
    BY <1>1, <1>2 DEF IsPath
<1>6. ASSUME NEW i \in 1..(n - 1) PROVE Follows(r[i], p, g[i - 1], g[i])
    <2>1. i + 1 \in 1..n /\ i - 1 \in 0..(n - 1) /\ i \in 0..(n - 1)
        BY <1>2
    <2>2. g[i - 1] = f[i] /\ g[i] = f[i + 1] /\ r[i] = q[i + 1]
        BY <1>2, <2>1
    <2>3. Follows(q[i + 1], p, f[(i + 1) - 1], f[i + 1])
        BY <1>1, <2>1 DEF IsPath
    <2>4. (i + 1) - 1 = i
        OBVIOUS
    <2>. HIDE DEF g, r
    <2>. QED BY <2>2, <2>3, <2>4
<1>. HIDE DEF g, r, n
<1>7. IsPath(g, r, p, f[1], b)
    BY <1>2, <1>5, <1>6 DEF IsPath
<1>. QED BY <1>2, <1>3, <1>7 DEF Path, r

LEMMA PathCut ==
    ASSUME NEW q \in Seq(Message), NEW p, NEW a, NEW b, Path(q, p, a, b), NEW n \in 0..Len(q)
    PROVE  \E c : Path(SubSeq(q, 1, n), p, a, c)
<1>1. PICK f : IsPath(f, q, p, a, b)
    BY DEF Path
<1>. DEFINE r == SubSeq(q, 1, n)
            g == [i \in 0..n |-> f[i]]
<1>2. Len(r) = n /\ \A i \in 1..n : r[i] = q[i]
    OBVIOUS
<1>3. \A i \in 0..n : g[i] = f[i] /\ f[i] \in Count
    BY <1>1 DEF IsPath
<1>4. ASSUME NEW i \in 1..n PROVE Follows(r[i], p, g[i - 1], g[i])
    <2>1. i \in 1..Len(q) /\ i - 1 \in 0..n /\ i \in 0..n
        OBVIOUS
    <2>2. g[i - 1] = f[i - 1] /\ g[i] = f[i] /\ r[i] = q[i]
        BY <1>2, <1>3, <2>1
    <2>3. Follows(q[i], p, f[i - 1], f[i])
        BY <1>1, <2>1 DEF IsPath
    <2>. HIDE DEF g, r
    <2>. QED BY <2>2, <2>3
<1>5. g \in [0..n -> Count] /\ g[0] = a
    BY <1>1, <1>3 DEF IsPath
<1>. HIDE DEF g, r
<1>6. IsPath(g, r, p, a, g[n])
    BY <1>2, <1>4, <1>5 DEF IsPath
<1>. QED BY <1>6 DEF Path, r

-----------------------------------------------------------------------------
(***************************************************************************)
(* The counters of the table.  h is what the route_server has heard from   *)
(* the connections it holds: it leads along every queue to what is open at *)
(* the other end, the table covers it, and is exactly it before any break. *)
(***************************************************************************)
LinkAccount(h, s) ==
    \A p \in Clients :
        IF s \in Connected
        THEN \E b : Path(queue[s], p, h[s][p], b) /\ (link[s] = "up" => b = online[s][p])
        ELSE h[s][p] = 0

EntryAccount(h, u) ==
    /\ \A k \in Type : /\ Heard(h, <<u, k>>) <= table[u].types[k]
                       /\ breaks = 0 => table[u].types[k] = Heard(h, <<u, k>>)
    /\ \A s \in Server, k \in Type : h[s][<<u, k>>] > 0 => s \in table[u].conns

Accounts(h) ==
    /\ h \in Rows
    /\ \A s \in Server : LinkAccount(h, s)
    /\ \A u \in Uid : EntryAccount(h, u)

BeforeBreaks ==
    breaks = 0 => /\ \A s \in Server : link[s] \in {"up", "down"}
                  /\ \A u \in Uid : told[u] => IsOnline(u)

CountInv == RouteInv /\ BeforeBreaks /\ \E h : Accounts(h)

LEMMA CountInit == Init => CountInv
<1>. SUFFICES ASSUME Init PROVE CountInv
    OBVIOUS
<1>. DEFINE h == [s \in Server |-> [p \in Clients |-> 0]]
<1>1. h \in Rows /\ \A s \in Server, p \in Clients : h[s][p] = 0
    BY BoundAssumption DEF Rows, Count
<1>2. \A p \in Clients : Heard(h, p) = 0
    BY <1>1, HeardFacts
<1>3. \A u \in Uid : \A k \in Type : <<u, k>> \in Clients /\ table[u].types[k] = 0
    BY DEF Init, Absent, NoTypes, Clients
<1>4. ASSUME NEW u \in Uid PROVE EntryAccount(h, u)
    <2>. HIDE DEF h
    <2>. QED BY <1>1, <1>2, <1>3 DEF EntryAccount
<1>5. ASSUME NEW s \in Server PROVE LinkAccount(h, s)
    <2>. HIDE DEF h
    <2>. QED BY <1>1 DEF LinkAccount, Init, Connected
<1>6. Accounts(h)
    BY <1>1, <1>4, <1>5 DEF Accounts
<1>7. BeforeBreaks
    BY DEF BeforeBreaks, Init
<1>. QED BY <1>6, <1>7, RouteInit DEF CountInv

\* A step that leaves the table alone, of one msg_server.
LEMMA TableStays ==
    ASSUME RouteInv, NEW h, Accounts(h), NEW s \in Server, UNCHANGED <<table>>,
           breaks' = breaks \/ breaks' # 0, LinkAccount(h, s)',
           \A x \in Server \ {s} : /\ link'[x] = link[x] /\ queue'[x] = queue[x]
                                   /\ online'[x] = online[x]
    PROVE  Accounts(h)'
<1>1. ASSUME NEW x \in Server \ {s} PROVE LinkAccount(h, x)'
    BY DEF Accounts, LinkAccount, Connected
<1>2. ASSUME NEW u \in Uid PROVE EntryAccount(h, u)'
    <2>1. \A k \in Type : /\ Heard(h, <<u, k>>) <= table[u].types[k]
                          /\ breaks = 0 => table[u].types[k] = Heard(h, <<u, k>>)
        BY DEF Accounts, EntryAccount
    <2>2. \A x \in Server, k \in Type : h[x][<<u, k>>] > 0 => x \in table[u].conns
        BY DEF Accounts, EntryAccount
    <2>. QED BY <2>1, <2>2 DEF EntryAccount
<1>. QED BY <1>1, <1>2 DEF Accounts

\* A step that leaves the table alone and breaks nothing.
LEMMA BeforeBreaksStays ==
    ASSUME BeforeBreaks, UNCHANGED <<table, told>>,
           \/ breaks' # 0
           \/ /\ breaks' = breaks
              /\ \A s \in Server : link'[s] = link[s] \/ link'[s] \in {"up", "down"}
    PROVE  BeforeBreaks'
BY DEF BeforeBreaks, IsOnline, IsPCClientLogin

\* A client that comes or goes on msg_server s.
LEMMA ClientChangeKeeps ==
    ASSUME CountInv, NEW s \in Server, NEW u \in Uid, NEW k \in Type, NEW on \in BOOLEAN,
           Send(s, Status(u, k, on)), UNCHANGED <<link, table, told, breaks>>,
           LET p == <<u, k>>
               n == IF on THEN online[s][p] + 1 ELSE online[s][p] - 1
           IN  n \in Count /\ online' = [online EXCEPT ![s][p] = n]
    PROVE  BeforeBreaks' /\ \E h : Accounts(h)'
<1>1. PICK h : Accounts(h)
    BY DEF CountInv
<1>. DEFINE m == Status(u, k, on)
            n == IF on THEN online[s][<<u, k>>] + 1 ELSE online[s][<<u, k>>] - 1
<1>2. /\ m \in Message /\ <<u, k>> \in Clients /\ queue[s] \in Seq(Message)
      /\ online \in [Server -> [Clients -> Count]]
    BY DEF Message, Status, Clients, CountInv, RouteInv, Count
<1>3. /\ online' \in [Server -> [Clients -> Count]]
      /\ \A x \in Server \ {s} : online'[x] = online[x]
      /\ \A p \in Clients : online'[s][p] = IF p = <<u, k>> THEN n ELSE online[s][p]
    BY <1>2
<1>4. \A p \in Clients : Follows(m, p, online[s][p], online'[s][p])
    BY <1>3 DEF Follows, Status
<1>. HIDE DEF m, n
<1>5. ASSUME NEW p \in Clients
      PROVE  IF s \in Connected'
             THEN \E b : Path(queue'[s], p, h[s][p], b) /\ (link'[s] = "up" => b = online'[s][p])
             ELSE h[s][p] = 0
    <2>1. CASE link[s] = "up"
        <3>1. Path(queue[s], p, h[s][p], online[s][p])
            BY <1>1, <2>1 DEF Accounts, LinkAccount, Connected
        <3>2. Path(Append(queue[s], m), p, h[s][p], online'[s][p])
            BY <1>2, <1>3, <1>4, <3>1, PathAppend
        <3>3. queue'[s] = Append(queue[s], m)
            BY <2>1 DEF Send, m, CountInv, RouteInv
        <3>. QED BY <2>1, <3>2, <3>3 DEF Connected
    <2>2. CASE link[s] # "up"
        <3>1. queue' = queue
            BY <2>2 DEF Send
        <3>. QED BY <1>1, <2>2, <3>1 DEF Accounts, LinkAccount, Connected
    <2>. QED BY <2>1, <2>2
<1>6. LinkAccount(h, s)'
    BY <1>5 DEF LinkAccount
<1>7. \A x \in Server \ {s} : queue'[x] = queue[x]
    BY DEF Send, CountInv, RouteInv
<1>8. Accounts(h)'
    BY <1>1, <1>3, <1>6, <1>7, TableStays DEF CountInv
<1>9. BeforeBreaks'
    BY BeforeBreaksStays DEF CountInv
<1>. QED BY <1>8, <1>9

LEMMA ConnectKeeps ==
    ASSUME CountInv, NEW s \in Server, Connect(s)
    PROVE  BeforeBreaks' /\ \E h : Accounts(h)'
<1>1. PICK h : Accounts(h)
    BY DEF CountInv
<1>. DEFINE m == Users(online[s])
<1>2. /\ link[s] = "down" /\ link' = [link EXCEPT ![s] = "up"]
      /\ queue' = [queue EXCEPT ![s] = <<m>>] /\ UNCHANGED <<online, table, told, breaks>>
    BY DEF Connect
<1>3. online[s] \in [Clients -> Count] /\ Count \subseteq Nat
    BY BoundAssumption DEF CountInv, RouteInv, Count
<1>4. m \in Message
    BY <1>3 DEF Message, Users
<1>5. ASSUME NEW p \in Clients
      PROVE  h[s][p] = 0 /\ Path(<<m>>, p, 0, online[s][p])
    <2>1. h[s][p] = 0
        BY <1>1, <1>2 DEF Accounts, LinkAccount, Connected
    <2>2. Path(<<>>, p, 0, 0)
        BY PathEmpty, BoundAssumption DEF Count
    <2>3. Follows(m, p, 0, online[s][p])
        BY DEF Follows, Users
    <2>4. <<>> \in Seq(Message) /\ <<m>> = Append(<<>>, m) /\ online[s][p] \in Count
        BY <1>3
    <2>. HIDE DEF m
    <2>. QED BY <1>4, <2>1, <2>2, <2>3, <2>4, PathAppend
<1>. HIDE DEF m
<1>6. link'[s] = "up" /\ queue'[s] = <<m>>
    BY <1>2 DEF CountInv, RouteInv
<1>7. LinkAccount(h, s)'
    BY <1>2, <1>5, <1>6 DEF LinkAccount, Connected
<1>8. \A x \in Server \ {s} : queue'[x] = queue[x] /\ link'[x] = link[x]
    BY <1>2 DEF CountInv, RouteInv
<1>9. Accounts(h)'
    BY <1>1, <1>2, <1>7, <1>8, TableStays DEF CountInv
<1>10. BeforeBreaks'
    BY <1>2, <1>6, <1>8, BeforeBreaksStays DEF CountInv
<1>. QED BY <1>9, <1>10

LEMMA MsgServerClosesKeeps ==
    ASSUME CountInv, NEW s \in Server, MsgServerCloses(s)
    PROVE  BeforeBreaks' /\ \E h : Accounts(h)'
<1>1. PICK h : Accounts(h)
    BY DEF CountInv
<1>2. PICK n \in 0..Len(queue[s]) : queue' = [queue EXCEPT ![s] = SubSeq(queue[s], 1, n)]
    BY DEF MsgServerCloses
<1>3. /\ link[s] = "up" /\ link' = [link EXCEPT ![s] = "closing"]
      /\ breaks' = breaks + 1 /\ UNCHANGED <<online, table, told>>
    BY DEF MsgServerCloses
<1>4. breaks' # 0
    BY <1>3, BoundAssumption DEF CountInv, RouteInv
<1>5. link'[s] = "closing" /\ queue'[s] = SubSeq(queue[s], 1, n) /\ queue[s] \in Seq(Message)
    BY <1>2, <1>3 DEF CountInv, RouteInv
<1>6. ASSUME NEW p \in Clients PROVE \E b : Path(SubSeq(queue[s], 1, n), p, h[s][p], b)
    <2>1. PICK b : Path(queue[s], p, h[s][p], b)
        BY <1>1, <1>3 DEF Accounts, LinkAccount, Connected
    <2>. QED BY <1>5, <2>1, PathCut
<1>7. LinkAccount(h, s)'
    BY <1>5, <1>6 DEF LinkAccount, Connected
<1>8. \A x \in Server \ {s} : queue'[x] = queue[x] /\ link'[x] = link[x]
    BY <1>2, <1>3 DEF CountInv, RouteInv
<1>9. Accounts(h)'
    BY <1>1, <1>3, <1>4, <1>7, <1>8, TableStays DEF CountInv
<1>. QED BY <1>4, <1>9 DEF BeforeBreaks

-----------------------------------------------------------------------------
(***************************************************************************)
(* Handling a message.                                                     *)
(***************************************************************************)
After(m, row) ==
    [p \in Clients |->
        IF m.kind = "users" THEN m.count[p]
        ELSE IF <<m.uid, m.type>> # p THEN row[p]
        ELSE IF m.on THEN row[p] + 1 ELSE row[p] - 1]

\* A message at the head of a queue takes what is heard of its msg_server one step
\* along the paths.
LEMMA HandledOnPath ==
    ASSUME RouteInv, NEW h, Accounts(h), NEW s \in Server, queue[s] # <<>>,
           NEW m, m = Head(queue[s])
    PROVE  /\ s \in Connected /\ m \in Message /\ Tail(queue[s]) \in Seq(Message)
           /\ After(m, h[s]) \in [Clients -> Count]
           /\ \A p \in Clients :
                /\ Follows(m, p, h[s][p], After(m, h[s])[p])
                /\ \E b : /\ Path(Tail(queue[s]), p, After(m, h[s])[p], b)
                          /\ link[s] = "up" => b = online[s][p]
<1>1. s \in Connected /\ queue[s] \in Seq(Message)
    BY DEF RouteInv
<1>2. ASSUME NEW p \in Clients
      PROVE  \E c \in Count : \E b :
                /\ Follows(m, p, h[s][p], c) /\ Path(Tail(queue[s]), p, c, b)
                /\ link[s] = "up" => b = online[s][p]
    <2>1. PICK b : Path(queue[s], p, h[s][p], b) /\ (link[s] = "up" => b = online[s][p])
        BY <1>1 DEF Accounts, LinkAccount
    <2>2. PICK c \in Count : Follows(m, p, h[s][p], c) /\ Path(Tail(queue[s]), p, c, b)
        BY <1>1, <2>1, PathTail
    <2>. QED BY <2>1, <2>2
<1>3. \A p \in Clients : \A c : Follows(m, p, h[s][p], c) => After(m, h[s])[p] = c
    BY DEF Follows, After
<1>4. \A p \in Clients : After(m, h[s])[p] \in Count
    BY <1>2, <1>3
<1>5. After(m, h[s]) \in [Clients -> Count]
    BY <1>4 DEF After
<1>6. ASSUME NEW p \in Clients
      PROVE  /\ Follows(m, p, h[s][p], After(m, h[s])[p])
             /\ \E b : /\ Path(Tail(queue[s]), p, After(m, h[s])[p], b)
                       /\ link[s] = "up" => b = online[s][p]
    <2>1. PICK c \in Count : \E b :
                /\ Follows(m, p, h[s][p], c) /\ Path(Tail(queue[s]), p, c, b)
                /\ link[s] = "up" => b = online[s][p]
        BY <1>2
    <2>2. After(m, h[s])[p] = c
        BY <1>3, <2>1
    <2>. QED BY <2>1, <2>2
<1>7. m \in Message /\ Tail(queue[s]) \in Seq(Message)
    BY <1>1
<1>. QED BY <1>1, <1>5, <1>6, <1>7

\* What a step of s that handles a message has to show.
LEMMA HandlingKeeps ==
    ASSUME RouteInv, NEW h, Accounts(h), NEW s \in Server, queue[s] # <<>>,
           NEW g, g = [h EXCEPT ![s] = After(Head(queue[s]), h[s])],
           queue' = [queue EXCEPT ![s] = Tail(@)], UNCHANGED <<online, link, breaks>>,
           \A u \in Uid : EntryAccount(g, u)'
    PROVE  Accounts(g)'
<1>. DEFINE m == Head(queue[s])
            row == After(m, h[s])
<1>1. /\ s \in Connected /\ row \in [Clients -> Count]
      /\ \A p \in Clients : \E b : /\ Path(Tail(queue[s]), p, row[p], b)
                                   /\ link[s] = "up" => b = online[s][p]
    BY HandledOnPath
<1>. HIDE DEF row
<1>2. g = [h EXCEPT ![s] = row]
    BY DEF row
<1>3. g \in Rows /\ g[s] = row /\ \A x \in Server \ {s} : g[x] = h[x]
    BY <1>1, <1>2 DEF Accounts, Rows
<1>4. queue'[s] = Tail(queue[s]) /\ \A x \in Server \ {s} : queue'[x] = queue[x]
    BY DEF RouteInv
<1>5. LinkAccount(g, s)'
    BY <1>1, <1>3, <1>4 DEF LinkAccount, Connected
<1>6. ASSUME NEW x \in Server \ {s} PROVE LinkAccount(g, x)'
    BY <1>3, <1>4 DEF Accounts, LinkAccount, Connected
<1>7. \A x \in Server : LinkAccount(g, x)'
    <2>. SUFFICES ASSUME NEW x \in Server PROVE LinkAccount(g, x)'
        OBVIOUS
    <2>1. CASE x = s
        BY <1>5, <2>1
    <2>2. CASE x # s
        BY <1>6, <2>2
    <2>. QED BY <2>1, <2>2
<1>. QED BY <1>3, <1>7, Zenon DEF Accounts

\* What the list of a msg_server's clients does to the counters.
LEMMA ListAdds ==
    ASSUME RouteInv, NEW s \in Server, HandleOnlineUserInfo(s),
           NEW count, count = Head(queue[s]).count
    PROVE  /\ count \in [Clients -> Nat]
           /\ \A u \in Uid :
                /\ \A k \in Type : /\ table[u].types[k] \in Nat
                                   /\ table'[u].types[k] = table[u].types[k] + count[<<u, k>>]
                /\ table[u].conns \subseteq table'[u].conns
                /\ (\E k \in Type : count[<<u, k>>] > 0) => s \in table'[u].conns
                /\ IsOnline(u) => IsOnline(u)'
                /\ IsOnline(u)' => IsOnline(u) \/ \E k \in Type : count[<<u, k>>] > 0
<1>. DEFINE Listed(u) == IF \A k \in Type : count[<<u, k>>] = 0 THEN table[u]
                         ELSE [conns |-> table[u].conns \cup {s},
                               types |-> [k \in Type |-> table[u].types[k] + count[<<u, k>>]]]
<1>1. table' = [u \in Uid |-> Listed(u)]
    BY Zenon DEF HandleOnlineUserInfo
<1>2. count \in [Clients -> Nat]
    <2>1. Head(queue[s]) \in Message /\ Head(queue[s]).kind = "users"
        BY DEF RouteInv, HandleOnlineUserInfo
    <2>. QED BY <2>1 DEF Message
<1>3. ASSUME NEW u \in Uid
      PROVE  /\ \A k \in Type : /\ table[u].types[k] \in Nat
                                /\ table'[u].types[k] = table[u].types[k] + count[<<u, k>>]
             /\ table[u].conns \subseteq table'[u].conns
             /\ (\E k \in Type : count[<<u, k>>] > 0) => s \in table'[u].conns
    <2>1. \A k \in Type : table[u].types[k] \in Nat
        BY DEF RouteInv, EntryOK, EntryType
    <2>2. CASE \A k \in Type : count[<<u, k>>] = 0
        <3>1. Listed(u) = table[u]
            BY <2>2
        <3>. HIDE DEF Listed
        <3>2. table'[u] = table[u]
            BY <1>1, <3>1
        <3>3. ASSUME NEW k \in Type
              PROVE  /\ table[u].types[k] = table[u].types[k] + count[<<u, k>>]
                     /\ ~(count[<<u, k>>] > 0)
            <4>1. count[<<u, k>>] = 0 /\ table[u].types[k] \in Nat
                BY <2>1, <2>2
            <4>. QED BY <4>1
        <3>. QED BY <2>1, <3>2, <3>3
    <2>3. CASE ~\A k \in Type : count[<<u, k>>] = 0
        <3>1. Listed(u) = [conns |-> table[u].conns \cup {s},
                           types |-> [k \in Type |-> table[u].types[k] + count[<<u, k>>]]]
            BY <2>3
        <3>. HIDE DEF Listed
        <3>2. /\ table'[u].conns = table[u].conns \cup {s}
              /\ table'[u].types = [k \in Type |-> table[u].types[k] + count[<<u, k>>]]
            BY <1>1, <3>1
        <3>3. \A k \in Type : table'[u].types[k] = table[u].types[k] + count[<<u, k>>]
            BY <3>2
        <3>. QED BY <2>1, <3>2, <3>3
    <2>. QED BY <2>2, <2>3
<1>4. ASSUME NEW u \in Uid, NEW k \in PCType
      PROVE  /\ table[u].types[k] > 0 => table'[u].types[k] > 0
             /\ table'[u].types[k] > 0 => table[u].types[k] > 0 \/ count[<<u, k>>] > 0
    <2>1. k \in Type /\ <<u, k>> \in Clients
        BY TypeAssumption DEF Clients
    <2>2. table[u].types[k] \in Nat /\ count[<<u, k>>] \in Nat
        BY <1>2, <1>3, <2>1
    <2>. HIDE DEF Listed
    <2>. QED BY <1>3, <2>1, <2>2
<1>. HIDE DEF Listed
<1>5. ASSUME NEW u \in Uid
      PROVE  /\ IsOnline(u) => IsOnline(u)'
             /\ IsOnline(u)' => IsOnline(u) \/ \E k \in Type : count[<<u, k>>] > 0
    BY <1>4, TypeAssumption DEF IsOnline, IsPCClientLogin
<1>. QED BY <1>2, <1>3, <1>5

LEMMA OnlineUserInfoKeeps ==
    ASSUME CountInv, NEW s \in Server, HandleOnlineUserInfo(s)
    PROVE  BeforeBreaks' /\ \E h : Accounts(h)'
<1>1. PICK h : Accounts(h)
    BY DEF CountInv
<1>. DEFINE m == Head(queue[s])
            count == m.count
<1>2. /\ queue[s] # <<>> /\ m.kind = "users" /\ queue' = [queue EXCEPT ![s] = Tail(@)]
      /\ UNCHANGED <<online, link, told, breaks>>
    BY DEF HandleOnlineUserInfo
<1>3. /\ count \in [Clients -> Nat]
      /\ \A u \in Uid :
            /\ \A k \in Type : /\ table[u].types[k] \in Nat
                               /\ table'[u].types[k] = table[u].types[k] + count[<<u, k>>]
            /\ table[u].conns \subseteq table'[u].conns
            /\ (\E k \in Type : count[<<u, k>>] > 0) => s \in table'[u].conns
            /\ IsOnline(u) => IsOnline(u)'
    BY ListAdds DEF CountInv
<1>4. \A p \in Clients : h[s][p] = 0 /\ After(m, h[s])[p] = count[p]
    <2>1. \A p \in Clients : Follows(m, p, h[s][p], After(m, h[s])[p])
        BY <1>1, <1>2, HandledOnPath DEF CountInv
    <2>. HIDE DEF m
    <2>. QED BY <1>2, <2>1 DEF Follows
<1>5. \A u \in Uid, k \in Type : <<u, k>> \in Clients
    BY DEF Clients
<1>6. ASSUME NEW g, g = [h EXCEPT ![s] = After(m, h[s])]
      PROVE  Accounts(g)'
    <2>1. /\ After(m, h[s]) \in [Clients -> Count] /\ h \in Rows
        BY <1>1, <1>2, HandledOnPath DEF CountInv, Accounts
    <2>. HIDE DEF count, m
    <2>2. \A p \in Clients : Heard(g, p) = Heard(h, p) - 0 + count[p]
        BY <1>4, <1>6, <2>1, HeardChanges
    <2>3. \A x \in Server, p \in Clients : g[x][p] = IF x = s THEN count[p] ELSE h[x][p]
        BY <1>4, <1>6, <2>1 DEF Rows
    <2>4. \A p \in Clients : Heard(h, p) \in Nat /\ count[p] \in Nat
        BY <1>3, <2>1, HeardFacts
    <2>5. ASSUME NEW u \in Uid PROVE EntryAccount(g, u)'
        <3>1. EntryAccount(h, u)
            BY <1>1 DEF Accounts
        <3>2. ASSUME NEW k \in Type
              PROVE  /\ Heard(g, <<u, k>>) <= table'[u].types[k]
                     /\ breaks' = 0 => table'[u].types[k] = Heard(g, <<u, k>>)
            <4>1. Heard(g, <<u, k>>) = Heard(h, <<u, k>>) + count[<<u, k>>]
                BY <1>5, <2>2, <2>4
            <4>2. /\ table'[u].types[k] = table[u].types[k] + count[<<u, k>>]
                  /\ table[u].types[k] \in Nat
                BY <1>3
            <4>3. Heard(h, <<u, k>>) \in Nat /\ count[<<u, k>>] \in Nat
                BY <1>5, <2>4
            <4>4. /\ Heard(h, <<u, k>>) <= table[u].types[k]
                  /\ breaks = 0 => table[u].types[k] = Heard(h, <<u, k>>)
                BY <3>1 DEF EntryAccount
            <4>. QED BY <1>2, <4>1, <4>2, <4>3, <4>4
        <3>3. ASSUME NEW x \in Server, NEW k \in Type, g[x][<<u, k>>] > 0
              PROVE  x \in table'[u].conns
            <4>1. CASE x = s
                BY <1>3, <1>5, <2>3, <3>3, <4>1
            <4>2. CASE x # s
                BY <1>3, <1>5, <2>3, <3>1, <3>3, <4>2 DEF EntryAccount
            <4>. QED BY <4>1, <4>2
        <3>. QED BY <3>2, <3>3 DEF EntryAccount
    <2>. QED BY <1>1, <1>2, <1>6, <2>5, HandlingKeeps DEF CountInv, m
<1>7. BeforeBreaks'
    BY <1>2, <1>3 DEF CountInv, BeforeBreaks
<1>. QED BY <1>6, <1>7

\* What going offline does to the counters: one fewer of the type, and the connection
\* leaves only with the last client of all.
LEMMA GoOfflineTypes ==
    ASSUME NEW e, EntryOK(e), NEW s \in Server, NEW k \in Type, s \in e.conns
    PROVE  LET f == GoOffline(e, s, k)
           IN  /\ f.types = [e.types EXCEPT ![k] = IF @ > 0 THEN @ - 1 ELSE 0]
               /\ f.conns = e.conns \/ f.types = NoTypes
<1>. DEFINE left == RemoveClientType(e, k)
            fewer == [e.types EXCEPT ![k] = IF @ > 0 THEN @ - 1 ELSE 0]
<1>1. e.types \in [Type -> Nat] /\ e = [conns |-> e.conns, types |-> e.types]
    BY DEF EntryOK, EntryType
<1>2. left = [conns |-> e.conns, types |-> fewer]
    BY <1>1 DEF RemoveClientType
<1>3. left.types = fewer /\ left.conns = e.conns
    BY <1>2
<1>. HIDE DEF left, fewer
<1>4. CASE left.types = NoTypes
    <2>1. GoOffline(e, s, k) = RemoveRouteConn(left, s)
        BY <1>4 DEF GoOffline, left
    <2>2. RemoveRouteConn(left, s).types = NoTypes
        BY <1>2, <1>3, <1>4 DEF RemoveRouteConn, Absent
    <2>. QED BY <1>3, <1>4, <2>1, <2>2 DEF fewer
<1>5. CASE left.types # NoTypes
    <2>1. GoOffline(e, s, k) = left
        BY <1>5 DEF GoOffline, left
    <2>. QED BY <1>3, <2>1 DEF fewer
<1>. QED BY <1>4, <1>5

LEMMA StatusUpdateKeeps ==
    ASSUME CountInv, NEW s \in Server, HandleUserStatusUpdate(s)
    PROVE  BeforeBreaks' /\ \E h : Accounts(h)'
<1>1. PICK h : Accounts(h)
    BY DEF CountInv
<1>2. PICK m : m = Head(queue[s])
    OBVIOUS
<1>3. PICK row : row = After(m, h[s])
    OBVIOUS
<1>4. /\ queue[s] # <<>> /\ m.kind = "status"
      /\ queue' = [queue EXCEPT ![s] = Tail(@)] /\ UNCHANGED <<online, link, breaks>>
      /\ table' = [table EXCEPT ![m.uid] = IF m.on THEN GoOnline(@, s, m.type)
                                                  ELSE GoOffline(@, s, m.type)]
      /\ told' = IF m.type \in PCType /\ (m.on \/ ~IsPCClientLogin(table'[m.uid]))
                 THEN [told EXCEPT ![m.uid] = m.on] ELSE told
    BY <1>2 DEF HandleUserStatusUpdate
<1>5. /\ m \in Message /\ row \in [Clients -> Count] /\ h \in Rows
      /\ \A p \in Clients : Follows(m, p, h[s][p], row[p])
    BY <1>1, <1>2, <1>3, <1>4, HandledOnPath DEF CountInv, Accounts
<1>6. m.uid \in Uid /\ m.type \in Type /\ m.on \in BOOLEAN /\ <<m.uid, m.type>> \in Clients
    BY <1>4, <1>5 DEF Message, Clients
<1>. DEFINE e == table[m.uid]
            f == table'[m.uid]
            p0 == <<m.uid, m.type>>
<1>7. /\ EntryOK(e) /\ e.types \in [Type -> Nat] /\ EntryAccount(h, m.uid)
      /\ f = IF m.on THEN GoOnline(e, s, m.type) ELSE GoOffline(e, s, m.type)
      /\ \A u \in Uid : u # m.uid => table'[u] = table[u]
    BY <1>1, <1>4, <1>6 DEF CountInv, RouteInv, EntryOK, EntryType, Accounts
<1>8. \A p \in Clients : h[s][p] \in Count /\ row[p] \in Count
    BY <1>5 DEF Rows
<1>9. \A p \in Clients : row[p] = IF p # p0 THEN h[s][p]
                                  ELSE IF m.on THEN h[s][p] + 1 ELSE h[s][p] - 1
    BY <1>3, <1>4 DEF After
\* One more or one fewer of the type.
<1>10. /\ \A k \in Type : f.types[k] = IF k # m.type THEN e.types[k]
                                       ELSE IF m.on THEN e.types[k] + 1 ELSE e.types[k] - 1
       /\ IF m.on THEN f.conns = e.conns \cup {s} ELSE f.conns = e.conns \/ f.types = NoTypes
    <2>1. CASE m.on
        <3>1. f = [conns |-> e.conns \cup {s}, types |-> [e.types EXCEPT ![m.type] = @ + 1]]
            BY <1>7, <2>1 DEF GoOnline
        <3>2. /\ f.conns = e.conns \cup {s}
              /\ f.types = [e.types EXCEPT ![m.type] = @ + 1]
            BY <3>1
        <3>. HIDE DEF e, f
        <3>. QED BY <1>6, <1>7, <2>1, <3>2
    <2>2. CASE ~m.on
        <3>1. h[s][p0] > 0
            BY <1>6, <1>8, <1>9, <2>2, BoundAssumption DEF Count
        <3>2. s \in e.conns
            BY <1>6, <1>7, <3>1 DEF EntryAccount
        <3>3. Heard(h, p0) \in Nat /\ h[s][p0] \in Nat /\ h[s][p0] <= Heard(h, p0)
            BY <1>5, <1>6, HeardFacts
        <3>4. Heard(h, p0) <= e.types[m.type]
            BY <1>6, <1>7 DEF EntryAccount
        <3>5. e.types[m.type] \in Nat
            BY <1>6, <1>7
        <3>6. e.types[m.type] > 0
            BY <3>1, <3>3, <3>4, <3>5
        <3>7. /\ f.types = [e.types EXCEPT ![m.type] = IF @ > 0 THEN @ - 1 ELSE 0]
              /\ f.conns = e.conns \/ f.types = NoTypes
            BY <1>6, <1>7, <2>2, <3>2, GoOfflineTypes
        <3>. HIDE DEF e, f
        <3>. QED BY <1>6, <1>7, <2>2, <3>6, <3>7
    <2>. QED BY <2>1, <2>2
<1>11. ASSUME NEW g, g = [h EXCEPT ![s] = row]
       PROVE  Accounts(g)'
    <2>1. \A p \in Clients : Heard(g, p) = Heard(h, p) - h[s][p] + row[p]
        BY <1>5, <1>11, HeardChanges
    <2>2. \A x \in Server, p \in Clients : g[x][p] = IF x = s THEN row[p] ELSE h[x][p]
        BY <1>5, <1>11 DEF Rows
    <2>3. g \in Rows
        BY <1>5, <1>11 DEF Rows
    <2>4. \A p \in Clients : Heard(h, p) \in Nat /\ h[s][p] \in Nat /\ row[p] \in Nat
        BY <1>5, <1>8, HeardFacts, BoundAssumption DEF Count
    <2>5. \A p \in Clients : Heard(g, p) = IF p # p0 THEN Heard(h, p)
                                           ELSE IF m.on THEN Heard(h, p) + 1 ELSE Heard(h, p) - 1
        BY <1>9, <2>1, <2>4
    <2>6. EntryAccount(g, m.uid)'
        <3>1. ASSUME NEW k \in Type
              PROVE  /\ Heard(g, <<m.uid, k>>) <= f.types[k]
                     /\ breaks' = 0 => f.types[k] = Heard(g, <<m.uid, k>>)
            <4>1. <<m.uid, k>> \in Clients /\ (<<m.uid, k>> = p0 <=> k = m.type)
                BY <1>6 DEF Clients
            <4>2. /\ Heard(h, <<m.uid, k>>) <= e.types[k]
                  /\ breaks = 0 => e.types[k] = Heard(h, <<m.uid, k>>)
                BY <1>7 DEF EntryAccount
            <4>3. e.types[k] \in Nat /\ Heard(h, <<m.uid, k>>) \in Nat
                BY <1>7, <2>4, <4>1
            <4>4. Heard(g, <<m.uid, k>>) = IF k # m.type THEN Heard(h, <<m.uid, k>>)
                                           ELSE IF m.on THEN Heard(h, <<m.uid, k>>) + 1
                                                ELSE Heard(h, <<m.uid, k>>) - 1
                BY <2>5, <4>1
            <4>. HIDE DEF e, f, p0
            <4>. QED BY <1>4, <1>10, <4>2, <4>3, <4>4
        <3>2. ASSUME NEW x \in Server, NEW k \in Type, g[x][<<m.uid, k>>] > 0
              PROVE  x \in f.conns
            <4>1. <<m.uid, k>> \in Clients
                BY <1>6 DEF Clients
            <4>2. g[x][<<m.uid, k>>] <= Heard(g, <<m.uid, k>>) /\ g[x][<<m.uid, k>>] \in Nat
                BY <2>3, <4>1, HeardFacts
            <4>3. Heard(g, <<m.uid, k>>) <= f.types[k] /\ Heard(g, <<m.uid, k>>) \in Nat
                BY <2>3, <3>1, <4>1, HeardFacts
            <4>4. f.types # NoTypes
                <5>1. f.types[k] # 0
                    <6>1. f.types[k] \in Int
                        <7>1. e.types[k] \in Int
                            BY <1>7
                        <7>. HIDE DEF e, f
                        <7>. QED BY <1>10, <7>1
                    <6>. HIDE DEF f
                    <6>. QED BY <3>2, <4>2, <4>3, <6>1
                <5>. QED BY <5>1 DEF NoTypes
            <4>5. CASE m.on /\ x = s
                BY <1>10, <4>5
            <4>6. CASE ~(m.on /\ x = s)
                <5>1. h[x][<<m.uid, k>>] > 0
                    <6>1. CASE x = s
                        <7>1. row[<<m.uid, k>>] > 0
                            BY <2>2, <3>2, <4>1, <6>1
                        <7>2. row[<<m.uid, k>>] <= h[s][<<m.uid, k>>]
                            BY <1>9, <2>4, <4>1, <4>6, <6>1
                        <7>3. row[<<m.uid, k>>] \in Nat /\ h[s][<<m.uid, k>>] \in Nat
                            BY <2>4, <4>1
                        <7>. QED BY <6>1, <7>1, <7>2, <7>3
                    <6>2. CASE x # s
                        BY <2>2, <3>2, <4>1, <6>2
                    <6>. QED BY <6>1, <6>2
                <5>2. x \in e.conns
                    BY <1>7, <5>1 DEF EntryAccount
                <5>. QED BY <1>10, <4>4, <5>2
            <4>. QED BY <4>5, <4>6
        <3>. QED BY <3>1, <3>2 DEF EntryAccount
    <2>7. ASSUME NEW u \in Uid, u # m.uid PROVE EntryAccount(g, u)'
        <3>1. table'[u] = table[u] /\ EntryAccount(h, u)
            BY <1>1, <1>7, <2>7 DEF Accounts
        <3>2. \A k \in Type : <<u, k>> \in Clients /\ <<u, k>> # p0
            BY <2>7 DEF Clients
        <3>3. \A k \in Type : Heard(g, <<u, k>>) = Heard(h, <<u, k>>)
            BY <2>5, <3>2
        <3>4. \A x \in Server, k \in Type : g[x][<<u, k>>] = h[x][<<u, k>>]
            BY <1>9, <2>2, <3>2
        <3>. QED BY <1>4, <3>1, <3>3, <3>4 DEF EntryAccount
    <2>. QED BY <1>1, <1>2, <1>3, <1>4, <1>11, <2>6, <2>7, HandlingKeeps DEF CountInv
<1>12. BeforeBreaks'
    <2>. SUFFICES ASSUME breaks = 0, NEW u \in Uid, told'[u] PROVE IsOnline(u)'
        BY <1>4 DEF CountInv, BeforeBreaks
    <2>1. told[u] => IsOnline(u)
        BY DEF CountInv, BeforeBreaks
    <2>2. CASE u # m.uid
        BY <1>4, <1>6, <1>7, <2>1, <2>2 DEF CountInv, RouteInv, IsOnline
    <2>3. CASE u = m.uid /\ m.type \in PCType /\ m.on
        <3>1. f.types[m.type] > 0
            <4>1. e.types[m.type] \in Nat
                BY <1>6, <1>7
            <4>. HIDE DEF e, f
            <4>. QED BY <1>6, <1>10, <2>3, <4>1
        <3>. QED BY <2>3, <3>1 DEF IsOnline, IsPCClientLogin
    <2>4. CASE u = m.uid /\ m.type \in PCType /\ ~m.on
        <3>1. CASE IsPCClientLogin(f)
            BY <2>4, <3>1 DEF IsOnline
        <3>2. CASE ~IsPCClientLogin(f)
            <4>1. told' = [told EXCEPT ![m.uid] = m.on]
                BY <1>4, <2>4, <3>2
            <4>2. told' [m.uid] = m.on
                BY <1>6, <4>1 DEF CountInv, RouteInv
            <4>. QED BY <2>4, <4>2
        <3>. QED BY <3>1, <3>2
    <2>5. CASE u = m.uid /\ m.type \notin PCType
        <3>1. told[u]
            BY <1>4, <2>5
        <3>2. PICK k \in PCType : e.types[k] > 0
            BY <2>1, <2>5, <3>1 DEF IsOnline, IsPCClientLogin
        <3>3. f.types[k] = e.types[k]
            BY <1>10, <2>5, <3>2, TypeAssumption
        <3>. QED BY <2>5, <3>2, <3>3 DEF IsOnline, IsPCClientLogin
    <2>. QED BY <2>2, <2>3, <2>4, <2>5, <1>6
<1>. QED BY <1>11, <1>12

LEMMA CloseKeeps ==
    ASSUME CountInv, NEW s \in Server, NEW next \in {"down", "lost"}, CloseRouteConn(s, next),
           breaks' # 0
    PROVE  BeforeBreaks' /\ \E h : Accounts(h)'
<1>1. PICK h : Accounts(h)
    BY DEF CountInv
<1>2. /\ link' = [link EXCEPT ![s] = next] /\ queue' = [queue EXCEPT ![s] = <<>>]
      /\ table' = [u \in Uid |-> RemoveRouteConn(table[u], s)] /\ UNCHANGED <<online, told>>
    BY DEF CloseRouteConn
<1>3. PICK row : row = [p \in Clients |-> 0]
    OBVIOUS
<1>4. h \in Rows /\ row \in [Clients -> Count] /\ \A p \in Clients : row[p] = 0
    BY <1>1, <1>3, BoundAssumption DEF Accounts, Count
<1>5. ASSUME NEW g, g = [h EXCEPT ![s] = row]
      PROVE  Accounts(g)'
    <2>1. g \in Rows /\ \A x \in Server : g[x] = IF x = s THEN row ELSE h[x]
        BY <1>4, <1>5 DEF Rows
    <2>2. \A p \in Clients : Heard(g, p) = Heard(h, p) - h[s][p] + row[p]
        BY <1>4, <1>5, HeardChanges
    <2>3. ASSUME NEW p \in Clients
          PROVE  Heard(g, p) \in Nat /\ Heard(g, p) <= Heard(h, p)
        <3>1. Heard(g, p) \in Nat /\ Heard(h, p) \in Nat /\ h[s][p] \in Nat
            BY <1>4, <2>1, HeardFacts
        <3>. QED BY <1>4, <2>2, <3>1
    <2>4. /\ link'[s] \notin {"up", "closing"}
          /\ \A x \in Server \ {s} : link'[x] = link[x] /\ queue'[x] = queue[x]
        BY <1>2 DEF CountInv, RouteInv
    <2>5. LinkAccount(g, s)'
        BY <1>4, <2>1, <2>4 DEF LinkAccount, Connected
    <2>6. ASSUME NEW x \in Server, x # s PROVE LinkAccount(g, x)'
        BY <1>1, <1>2, <2>1, <2>4, <2>6 DEF Accounts, LinkAccount, Connected
    <2>7. ASSUME NEW u \in Uid PROVE EntryAccount(g, u)'
        <3>1. /\ EntryAccount(h, u) /\ table'[u] = RemoveRouteConn(table[u], s)
              /\ table[u] \in EntryType
            BY <1>1, <1>2 DEF Accounts, CountInv, RouteInv, EntryOK
        <3>2. \A k \in Type : <<u, k>> \in Clients
            BY DEF Clients
        <3>3. \A x \in Server, k \in Type :
                    g[x][<<u, k>>] > 0 => x # s /\ x \in table[u].conns
            BY <1>4, <2>1, <3>1, <3>2 DEF EntryAccount
        <3>4. CASE table[u].conns \subseteq {s}
            <4>1. table'[u] = Absent
                BY <3>1, <3>4 DEF RemoveRouteConn
            <4>2. ASSUME NEW k \in Type PROVE Heard(g, <<u, k>>) = 0
                <5>1. \A x \in Server : g[x][<<u, k>>] \in Nat
                    BY <2>1, <3>2, HeardFacts
                <5>2. \A x \in Server : g[x][<<u, k>>] = 0
                    BY <3>3, <3>4, <5>1
                <5>. QED BY <2>1, <3>2, <5>2, HeardFacts
            <4>3. \A k \in Type : table'[u].types[k] = 0
                BY <4>1 DEF Absent, NoTypes
            <4>. QED BY <3>3, <3>4, <4>2, <4>3 DEF EntryAccount
        <3>5. CASE ~(table[u].conns \subseteq {s})
            <4>1. /\ table'[u].types = table[u].types
                  /\ table'[u].conns = table[u].conns \ {s}
                BY <3>1, <3>5 DEF RemoveRouteConn, EntryType
            <4>2. ASSUME NEW k \in Type PROVE Heard(g, <<u, k>>) <= table[u].types[k]
                <5>1. /\ Heard(h, <<u, k>>) <= table[u].types[k] /\ Heard(h, <<u, k>>) \in Nat
                      /\ table[u].types[k] \in Nat
                    BY <1>4, <3>1, <3>2, HeardFacts DEF EntryAccount, EntryType
                <5>. QED BY <2>3, <3>2, <5>1
            <4>. QED BY <3>3, <4>1, <4>2 DEF EntryAccount
        <3>. QED BY <3>4, <3>5
    <2>8. \A x \in Server : LinkAccount(g, x)'
        BY <2>5, <2>6
    <2>. QED BY <2>1, <2>7, <2>8, Zenon DEF Accounts
<1>. QED BY <1>5 DEF BeforeBreaks

LEMMA CountStep == CountInv /\ [Next]_vars => CountInv'
<1>. SUFFICES ASSUME CountInv, [Next]_vars PROVE BeforeBreaks' /\ \E h : Accounts(h)'
    BY RouteStep DEF CountInv
<1>1. ASSUME NEW s \in Server, NEW u \in Uid, NEW k \in Type, Login(s, u, k)
      PROVE  BeforeBreaks' /\ \E h : Accounts(h)'
    <2>1. <<u, k>> \in Clients /\ online \in [Server -> [Clients -> Count]]
        BY DEF Clients, CountInv, RouteInv, Count
    <2>2. online[s][<<u, k>>] + 1 \in Count
        BY <1>1, <2>1, BoundAssumption DEF Login, Count
    <2>3. /\ online' = [online EXCEPT ![s][<<u, k>>] = online[s][<<u, k>>] + 1]
          /\ Send(s, Status(u, k, TRUE)) /\ UNCHANGED <<link, table, told, breaks>>
        BY <1>1 DEF Login
    <2>. QED BY <2>2, <2>3, ClientChangeKeeps
<1>2. ASSUME NEW s \in Server, NEW u \in Uid, NEW k \in Type, Logout(s, u, k)
      PROVE  BeforeBreaks' /\ \E h : Accounts(h)'
    <2>1. <<u, k>> \in Clients /\ online \in [Server -> [Clients -> Count]]
        BY DEF Clients, CountInv, RouteInv, Count
    <2>2. online[s][<<u, k>>] - 1 \in Count
        BY <1>2, <2>1, BoundAssumption DEF Logout, Count
    <2>3. /\ online' = [online EXCEPT ![s][<<u, k>>] = online[s][<<u, k>>] - 1]
          /\ Send(s, Status(u, k, FALSE)) /\ UNCHANGED <<link, table, told, breaks>>
        BY <1>2 DEF Logout
    <2>. QED BY <2>2, <2>3, ClientChangeKeeps
<1>3. ASSUME NEW s \in Server, HandleOnlineUserInfo(s) \/ HandleUserStatusUpdate(s)
      PROVE  BeforeBreaks' /\ \E h : Accounts(h)'
    BY <1>3, OnlineUserInfoKeeps, StatusUpdateKeeps
<1>4. ASSUME NEW s \in Server, Connect(s) \/ MsgServerCloses(s)
      PROVE  BeforeBreaks' /\ \E h : Accounts(h)'
    BY <1>4, ConnectKeeps, MsgServerClosesKeeps
<1>5. ASSUME NEW s \in Server, RouteServerCloses(s) \/ RouteServerNotices(s)
      PROVE  BeforeBreaks' /\ \E h : Accounts(h)'
    <2>1. breaks' # 0
        BY <1>5, BoundAssumption
        DEF RouteServerCloses, RouteServerNotices, CountInv, RouteInv, BeforeBreaks
    <2>. QED BY <1>5, <2>1, CloseKeeps DEF RouteServerCloses, RouteServerNotices
<1>6. ASSUME NEW s \in Server, MsgServerNotices(s)
      PROVE  BeforeBreaks' /\ \E h : Accounts(h)'
    <2>1. PICK h : Accounts(h)
        BY DEF CountInv
    <2>2. /\ link[s] = "lost" /\ link'[s] = "down"
          /\ \A x \in Server \ {s} : link'[x] = link[x]
          /\ UNCHANGED <<online, queue, table, told, breaks>>
        BY <1>6 DEF MsgServerNotices, CountInv, RouteInv
    <2>3. LinkAccount(h, s)'
        BY <2>1, <2>2 DEF Accounts, LinkAccount, Connected
    <2>4. Accounts(h)'
        BY <2>1, <2>2, <2>3, TableStays DEF CountInv
    <2>5. BeforeBreaks'
        BY <2>2, BeforeBreaksStays DEF CountInv
    <2>. QED BY <2>4, <2>5
<1>7. CASE UNCHANGED vars
    <2>1. PICK h : Accounts(h)
        BY DEF CountInv
    <2>2. Accounts(h)'
        BY <1>7, <2>1 DEF vars, Accounts, LinkAccount, EntryAccount, Connected
    <2>3. BeforeBreaks'
        BY <1>7, BeforeBreaksStays DEF vars, CountInv
    <2>. QED BY <2>2, <2>3
<1>. QED BY <1>1, <1>2, <1>3, <1>4, <1>5, <1>6, <1>7 DEF Next

LEMMA SpecCountInv == Spec => []CountInv
BY CountInit, CountStep, PTL DEF Spec

\* With all messages delivered, what is heard is what is open.
LEMMA HeardIsOpen ==
    ASSUME RouteInv, NEW h, Accounts(h), Settled, NEW u \in Uid, NEW k \in Type
    PROVE  /\ Heard(h, <<u, k>>) = OpenClients(u, k)
           /\ \A s \in Connected : h[s][<<u, k>>] = online[s][<<u, k>>]
<1>1. <<u, k>> \in Clients /\ Connected \subseteq Server
    BY DEF Clients, Connected
<1>2. ASSUME NEW s \in Connected PROVE h[s][<<u, k>>] = online[s][<<u, k>>]
    <2>1. link[s] = "up" /\ queue[s] = <<>> /\ s \in Server
        BY <1>1 DEF Settled, Connected
    <2>2. Path(<<>>, <<u, k>>, h[s][<<u, k>>], online[s][<<u, k>>])
        BY <1>1, <2>1 DEF Accounts, LinkAccount
    <2>. QED BY <2>2, PathOfEmpty
<1>3. \A s \in Server : s \notin Connected => h[s][<<u, k>>] = 0
    BY <1>1 DEF Accounts, LinkAccount
<1>4. CountedIn(Column(h, <<u, k>>))
        = {c \in Connected \X (1..MaxClients) : c[2] <= online[c[1]][<<u, k>>]}
    <2>1. \A s \in Server, i \in 1..MaxClients :
              i <= Column(h, <<u, k>>)[s] <=> s \in Connected /\ i <= online[s][<<u, k>>]
        BY <1>2, <1>3, BoundAssumption DEF Column
    <2>. QED BY <1>1, <2>1 DEF CountedIn
<1>. QED BY <1>2, <1>4 DEF Heard, OpenClients

\* Once all messages are delivered nobody is reported offline by mistake: the counters
\* of a user cover the clients that are there, however often connections broke, and
\* the user's entry has their msg_servers.
THEOREM NoFalseOfflineCorrect == Spec => []NoFalseOffline
<1>1. CountInv => NoFalseOffline
    <2>. SUFFICES ASSUME CountInv, Settled, NEW u \in Uid
         PROVE  /\ \A k \in Type : table[u].types[k] >= OpenClients(u, k)
                /\ \A s \in Connected, k \in Type : online[s][<<u, k>>] > 0 => s \in table[u].conns
        BY DEF NoFalseOffline
    <2>1. PICK h : Accounts(h)
        BY DEF CountInv
    <2>2. \A k \in Type : /\ Heard(h, <<u, k>>) = OpenClients(u, k)
                          /\ \A s \in Connected : h[s][<<u, k>>] = online[s][<<u, k>>]
        BY <2>1, HeardIsOpen DEF CountInv
    <2>3. EntryAccount(h, u) /\ Connected \subseteq Server
        BY <2>1 DEF Accounts, Connected
    <2>4. ASSUME NEW k \in Type PROVE table[u].types[k] >= OpenClients(u, k)
        <3>1. <<u, k>> \in Clients /\ h \in Rows
            BY <2>1 DEF Clients, Accounts
        <3>2. table[u].types[k] \in Nat /\ Heard(h, <<u, k>>) \in Nat
            BY <3>1, HeardFacts DEF CountInv, RouteInv, EntryOK, EntryType
        <3>. QED BY <2>2, <2>3, <3>2 DEF EntryAccount
    <2>. QED BY <2>2, <2>3, <2>4 DEF EntryAccount
<1>. QED BY <1>1, SpecCountInv, PTL

\* Both: no entry of the table points to a closed connection, and once all messages have
\* arrived every user with a client is reported online and can be reached.
THEOREM TableIsSafeCorrect == Spec => []TableIsSafe
<1>1. OnlyOpenRouteConns /\ NoFalseOffline => TableIsSafe
    BY DEF TableIsSafe
<1>. QED BY <1>1, OnlyOpenCorrect, NoFalseOfflineCorrect, PTL

\* As long as no connection was ever broken the counters are exact once all messages
\* are delivered, in whatever order the msg_servers' messages were handled, and nobody
\* was told a user is online who is not.
THEOREM ExactWithoutBreaksCorrect == Spec => []ExactWithoutBreaks
<1>1. CountInv => ExactWithoutBreaks
    <2>. SUFFICES ASSUME CountInv, Settled, breaks = 0, NEW u \in Uid
         PROVE  /\ \A k \in Type : table[u].types[k] = OpenClients(u, k)
                /\ told[u] => IsOnline(u)
        BY DEF ExactWithoutBreaks
    <2>1. PICK h : Accounts(h)
        BY DEF CountInv
    <2>2. \A k \in Type : Heard(h, <<u, k>>) = OpenClients(u, k)
        BY <2>1, HeardIsOpen DEF CountInv
    <2>3. EntryAccount(h, u)
        BY <2>1 DEF Accounts
    <2>. QED BY <2>2, <2>3 DEF EntryAccount, CountInv, BeforeBreaks
<1>. QED BY <1>1, SpecCountInv, PTL

-----------------------------------------------------------------------------
(***************************************************************************)
(* With the notices back to the msg_servers.                               *)
(***************************************************************************)
LEMMA PcStep == [PcNext]_pcVars => [Next]_vars
<1>. SUFFICES ASSUME PcNext, ~UNCHANGED vars PROVE Next
    BY DEF pcVars, vars
<1>1. PICK s \in Server :
        \/ \E u \in Uid, k \in Type : UserLogin(s, u, k) \/ UserLogout(s, u, k)
        \/ OnlineUserInfo(s) \/ UserStatusUpdate(s) \/ HandlePCLoginStatusNotify(s)
        \/ LinkUp(s) \/ LinkBreaks(s) \/ LinkDown(s)
    BY DEF PcNext
<1>2. ASSUME NEW u \in Uid, NEW k \in Type, UserLogin(s, u, k) \/ UserLogout(s, u, k)
      PROVE  Next
    BY <1>2 DEF UserLogin, UserLogout, Next
<1>3. CASE OnlineUserInfo(s) \/ UserStatusUpdate(s)
    BY <1>3 DEF OnlineUserInfo, UserStatusUpdate, Next
<1>4. CASE HandlePCLoginStatusNotify(s)
    BY <1>4 DEF HandlePCLoginStatusNotify
<1>5. CASE LinkUp(s) \/ LinkBreaks(s) \/ LinkDown(s)
    BY <1>5 DEF LinkUp, LinkBreaks, LinkDown, Next
<1>. QED BY <1>1, <1>2, <1>3, <1>4, <1>5

\* The notices only watch the route table: PcLoginStatus implements RouteStatus.
THEOREM PcImplementsRoute == PcSpec => Spec
<1>1. PcInit => Init
    BY DEF PcInit
<1>. QED BY <1>1, PcStep, PTL DEF PcSpec, Spec

Notice == [uid : Uid, on : BOOLEAN]

\* What msg_servers know, and are about to.
PcInv ==
    /\ notices \in [Server -> Seq(Notice)]
    /\ pcStatus \in [Server -> [Uid -> {"none", "fresh", "on", "off"}]]
    /\ missed \subseteq Uid

LEMMA PcInvStep == RouteInv /\ PcInv /\ [PcNext]_pcVars => PcInv'
<1>. SUFFICES ASSUME RouteInv, PcInv, [PcNext]_pcVars PROVE PcInv'
    OBVIOUS
<1>. USE DEF PcInv
<1>1. ASSUME NEW s \in Server, NEW u \in Uid, NEW k \in Type,
             UserLogin(s, u, k) \/ UserLogout(s, u, k)
      PROVE  PcInv'
  <2>1. PICK v \in {"none", "fresh", "on", "off"} : pcStatus' = [pcStatus EXCEPT ![s][u] = v]
      BY <1>1 DEF UserLogin, UserLogout
  <2>2. UNCHANGED <<notices, missed>>
      BY <1>1 DEF UserLogin, UserLogout
  <2>. QED BY <2>1, <2>2
<1>2. ASSUME NEW s \in Server, OnlineUserInfo(s)
      PROVE  PcInv'
    BY <1>2 DEF OnlineUserInfo
<1>3. ASSUME NEW s \in Server, UserStatusUpdate(s)
      PROVE  PcInv'
  <2>. DEFINE m == Head(queue[s])
              tell == LoginStatus(m, table'[m.uid])
  <2>1. m.uid \in Uid
      BY <1>3 DEF UserStatusUpdate, HandleUserStatusUpdate, RouteInv, Message
  <2>2. Broadcast(m.uid, tell) /\ missed' \subseteq missed \cup {m.uid} /\ UNCHANGED pcStatus
      BY <1>3 DEF UserStatusUpdate
  <2>. HIDE DEF m, tell
  <2>3. [uid |-> m.uid, on |-> TRUE \in tell] \in Notice
      BY <2>1 DEF Notice
  <2>4. \A x \in Server :
            \/ notices'[x] = notices[x]
            \/ notices'[x] = Append(notices[x], [uid |-> m.uid, on |-> TRUE \in tell])
      BY <2>2 DEF Broadcast
  <2>5. notices' \in [Server -> Seq(Notice)]
      BY <2>2, <2>3, <2>4 DEF Broadcast
  <2>. QED BY <2>1, <2>2, <2>5
<1>4. ASSUME NEW s \in Server, HandlePCLoginStatusNotify(s)
      PROVE  PcInv'
  <2>1. Head(notices[s]) \in Notice /\ Tail(notices[s]) \in Seq(Notice)
      BY <1>4 DEF HandlePCLoginStatusNotify
  <2>. QED BY <1>4, <2>1 DEF HandlePCLoginStatusNotify
<1>5. ASSUME NEW s \in Server, LinkUp(s) \/ LinkDown(s)
      PROVE  PcInv'
  <2>1. notices' = notices \/ notices' = [notices EXCEPT ![s] = <<>>]
      BY <1>5 DEF LinkUp, LinkDown
  <2>2. UNCHANGED <<pcStatus, missed>> /\ <<>> \in Seq(Notice)
      BY <1>5 DEF LinkUp, LinkDown
  <2>. QED BY <2>1, <2>2
<1>6. ASSUME NEW s \in Server, LinkBreaks(s)
      PROVE  PcInv'
  <2>1. \/ notices' = [notices EXCEPT ![s] = <<>>]
        \/ \E n \in 0..Len(notices[s]) : notices' = [notices EXCEPT ![s] = SubSeq(notices[s], 1, n)]
      BY <1>6 DEF LinkBreaks
  <2>2. UNCHANGED <<pcStatus, missed>>
      BY <1>6 DEF LinkBreaks
  <2>3. ASSUME NEW n \in 0..Len(notices[s])
        PROVE  SubSeq(notices[s], 1, n) \in Seq(Notice)
    <3>1. notices[s] \in Seq(Notice)
        OBVIOUS
    <3>. QED BY <3>1
  <2>4. <<>> \in Seq(Notice)
      OBVIOUS
  <2>. QED BY <2>1, <2>2, <2>3, <2>4
<1>7. CASE UNCHANGED pcVars
    BY <1>7 DEF pcVars
<1>. QED BY <1>1, <1>2, <1>3, <1>4, <1>5, <1>6, <1>7 DEF PcNext

\* Every variable of PcLoginStatus keeps its type.
THEOREM PcTypeCorrect == PcSpec => []PcTypeOK
<1>1. PcInit => PcInv
    BY DEF PcInit, PcInv
<1>2. PcSpec => []RouteInv
    BY PcImplementsRoute, RouteCorrect, PTL
<1>3. PcInv => PcTypeOK
  <2>. SUFFICES ASSUME PcInv PROVE PcTypeOK
      OBVIOUS
  <2>1. \A s \in Server : \A i \in DOMAIN notices[s] : notices[s][i] \in Notice
      BY DEF PcInv
  <2>. QED BY <2>1 DEF PcInv, PcTypeOK, Notice
<1>. QED BY <1>1, <1>2, <1>3, PcInvStep, PTL DEF PcSpec

-----------------------------------------------------------------------------
(***************************************************************************)
(* What a msg_server knows of the desktop clients of a user, or will when  *)
(* the notices under way to it have arrived, is what the route_server has  *)
(* in its table; or the msg_server's own report of a client of theirs is   *)
(* still under way, which is answered with the missing notice.             *)
(***************************************************************************)
Announces(m, u) ==
    IF m.kind = "status" THEN m.uid = u /\ m.on ELSE \E k \in Type : m.count[<<u, k>>] > 0

Announced(q, u) == \E i \in DOMAIN q : Announces(q[i], u)

LastAbout(q, u, i) ==
    i \in DOMAIN q /\ q[i].uid = u /\ \A j \in DOMAIN q : q[j].uid = u => j <= i

Right(s, u, known) == (known <=> IsOnline(u)) \/ (~known /\ Announced(queue[s], u))

NoticesRight(s, u) == \A i : LastAbout(notices[s], u, i) => Right(s, u, notices[s][i].on)

\* What is kept counts when no notice is under way.
StatusRight(s, u) ==
    pcStatus[s][u] # "none" /\ (\A i \in DOMAIN notices[s] : notices[s][i].uid # u)
        => Right(s, u, pcStatus[s][u] = "on")

\* A user has an object on a msg_server while they have a client there.
ObjectsOK ==
    \A s \in Server, u \in Uid :
        pcStatus[s][u] = "none" <=> \A k \in Type : online[s][<<u, k>>] = 0

\* A msg_server that never connected has been told nothing.
Unconnected(s) == notices[s] = <<>> /\ \A u \in Uid : pcStatus[s][u] \in {"none", "fresh"}

PushInv ==
    breaks = 0 => \A s \in Server :
        /\ link[s] = "up" => \A u \in Uid \ missed : NoticesRight(s, u) /\ StatusRight(s, u)
        /\ link[s] # "up" => Unconnected(s)

LEMMA AnnouncedTail ==
    ASSUME NEW q \in Seq(Message), q # <<>>, NEW u, Announced(q, u), ~Announces(Head(q), u)
    PROVE  Announced(Tail(q), u)
<1>1. PICK i \in DOMAIN q : Announces(q[i], u)
    BY DEF Announced
<1>2. i # 1 /\ i \in 1..Len(q) /\ Head(q) = q[1]
    BY <1>1
<1>3. i - 1 \in DOMAIN Tail(q) /\ Tail(q)[i - 1] = q[i]
    BY <1>2
<1>. QED BY <1>1, <1>3 DEF Announced

LEMMA AnnouncedAppend ==
    ASSUME NEW q \in Seq(Message), NEW m \in Message, NEW u, Announced(q, u) \/ Announces(m, u)
    PROVE  Announced(Append(q, m), u)
<1>1. CASE Announced(q, u)
    <2>1. PICK i \in DOMAIN q : Announces(q[i], u)
        BY <1>1 DEF Announced
    <2>2. i \in DOMAIN Append(q, m) /\ Append(q, m)[i] = q[i]
        BY <2>1
    <2>. QED BY <2>1, <2>2 DEF Announced
<1>2. CASE Announces(m, u)
    <2>1. Len(q) + 1 \in DOMAIN Append(q, m) /\ Append(q, m)[Len(q) + 1] = m
        OBVIOUS
    <2>. QED BY <1>2, <2>1 DEF Announced
<1>. QED BY <1>1, <1>2

\* What the notices under way say, and what is kept, stays right when only the table
\* and the reports under way change.
LEMMA NoticesFrom ==
    ASSUME NEW s \in Server, NEW u \in Uid, NoticesRight(s, u), IsOnline(u)' <=> IsOnline(u),
           IsOnline(u) /\ Announced(queue[s], u) => Announced(queue'[s], u),
           \A i : LastAbout(notices'[s], u, i) =>
                    \E j : LastAbout(notices[s], u, j) /\ notices'[s][i] = notices[s][j]
    PROVE  NoticesRight(s, u)'
<1>. SUFFICES ASSUME NEW i, LastAbout(notices'[s], u, i)
     PROVE  \/ notices'[s][i].on <=> IsOnline(u)'
            \/ ~notices'[s][i].on /\ Announced(queue'[s], u)
    BY DEF NoticesRight, Right
<1>1. PICK j : LastAbout(notices[s], u, j) /\ notices'[s][i] = notices[s][j]
    OBVIOUS
<1>2. Right(s, u, notices[s][j].on)
    BY <1>1 DEF NoticesRight
<1>. QED BY <1>1, <1>2 DEF Right

LEMMA NoticesStay ==
    ASSUME NEW s \in Server, NEW u \in Uid, NoticesRight(s, u), IsOnline(u)' <=> IsOnline(u),
           IsOnline(u) /\ Announced(queue[s], u) => Announced(queue'[s], u),
           notices'[s] = notices[s]
    PROVE  NoticesRight(s, u)'
BY NoticesFrom

LEMMA StatusStays ==
    ASSUME NEW s \in Server, NEW u \in Uid, StatusRight(s, u), IsOnline(u)' <=> IsOnline(u),
           IsOnline(u) /\ Announced(queue[s], u) => Announced(queue'[s], u),
           (\A i \in DOMAIN notices'[s] : notices'[s][i].uid # u)
                => \A i \in DOMAIN notices[s] : notices[s][i].uid # u,
           pcStatus'[s][u] = pcStatus[s][u]
    PROVE  StatusRight(s, u)'
<1>. SUFFICES ASSUME pcStatus'[s][u] # "none",
                     \A i \in DOMAIN notices'[s] : notices'[s][i].uid # u
     PROVE  \/ pcStatus'[s][u] = "on" <=> IsOnline(u)'
            \/ pcStatus'[s][u] # "on" /\ Announced(queue'[s], u)
    BY DEF StatusRight, Right
<1>1. Right(s, u, pcStatus[s][u] = "on")
    BY DEF StatusRight
<1>. QED BY <1>1 DEF Right

\* What holds of every msg_server before a step that does not break a connection.
PushFacts(s) ==
    /\ link[s] = "up" => \A u \in Uid \ missed : NoticesRight(s, u) /\ StatusRight(s, u)
    /\ link[s] # "up" => Unconnected(s)

LEMMA UserLoginPush ==
    ASSUME RouteInv, PcInv, ObjectsOK, PushInv, NEW s \in Server, NEW u \in Uid, NEW k \in Type,
           UserLogin(s, u, k)
    PROVE  ObjectsOK' /\ PushInv'
<1>. DEFINE m == Status(u, k, TRUE)
            v == IF pcStatus[s][u] = "none" THEN "fresh" ELSE pcStatus[s][u]
<1>1. /\ online' = [online EXCEPT ![s][<<u, k>>] = @ + 1] /\ Send(s, m)
      /\ UNCHANGED <<link, table, told, breaks, notices, missed>>
      /\ pcStatus' = [pcStatus EXCEPT ![s][u] = v]
    BY DEF UserLogin, Login
<1>2. /\ m \in Message /\ queue[s] \in Seq(Message)
      /\ \A x \in Uid, j \in Type : online[s][<<x, j>>] \in Nat /\ <<x, j>> \in Clients
      /\ online \in [Server -> [Clients -> Nat]]
    <2>1. m \in Message
        BY DEF Message, Status
    <2>2. queue[s] \in Seq(Message) /\ online \in [Server -> [Clients -> Nat]]
        BY BoundAssumption DEF RouteInv
    <2>3. \A x \in Uid, j \in Type : <<x, j>> \in Clients
        BY DEF Clients
    <2>. HIDE DEF m
    <2>. QED BY <2>1, <2>2, <2>3
<1>3. ObjectsOK'
    <2>. SUFFICES ASSUME NEW x \in Server, NEW w \in Uid
         PROVE  pcStatus'[x][w] = "none" <=> \A j \in Type : online'[x][<<w, j>>] = 0
        BY DEF ObjectsOK
    <2>0. pcStatus[x][w] = "none" <=> \A j \in Type : online[x][<<w, j>>] = 0
        BY DEF ObjectsOK
    <2>1. CASE x = s /\ w = u
        <3>1. online'[s][<<u, k>>] = online[s][<<u, k>>] + 1
            BY <1>1, <1>2
        <3>2. online'[s][<<u, k>>] # 0
            BY <1>2, <3>1
        <3>3. pcStatus'[s][u] # "none"
            BY <1>1 DEF PcInv
        <3>. QED BY <2>1, <3>2, <3>3
    <2>2. CASE x # s \/ w # u
        <3>1. \A j \in Type : online'[x][<<w, j>>] = online[x][<<w, j>>]
            BY <1>1, <1>2, <2>2
        <3>2. pcStatus'[x][w] = pcStatus[x][w]
            BY <1>1, <2>2 DEF PcInv
        <3>. QED BY <2>0, <3>1, <3>2
    <2>. QED BY <2>1, <2>2
<1>4. PushInv'
    <2>. SUFFICES ASSUME breaks = 0, NEW x \in Server PROVE PushFacts(x)'
        BY <1>1 DEF PushInv, PushFacts
    <2>0. PushFacts(x)
        BY DEF PushInv, PushFacts
    <2>1. CASE link[x] = "up"
        <3>. SUFFICES ASSUME NEW w \in Uid \ missed
             PROVE  NoticesRight(x, w)' /\ StatusRight(x, w)'
            BY <1>1, <2>1 DEF PushFacts
        <3>1. NoticesRight(x, w) /\ StatusRight(x, w)
            BY <2>0, <2>1 DEF PushFacts
        <3>2. /\ Announced(queue[x], w) => Announced(queue'[x], w)
              /\ x = s => Announced(queue'[x], u)
            <4>1. CASE x = s
                <5>1. queue'[s] = Append(queue[s], m)
                    BY <1>1, <2>1, <4>1 DEF Send, RouteInv
                <5>2. Announces(m, u)
                    BY DEF Announces, Status
                <5>. HIDE DEF m
                <5>. QED BY <1>2, <4>1, <5>1, <5>2, AnnouncedAppend
            <4>2. CASE x # s
                BY <1>1, <4>2 DEF Send, RouteInv
            <4>. QED BY <4>1, <4>2
        <3>3. IsOnline(w)' <=> IsOnline(w)
            BY <1>1 DEF IsOnline, IsPCClientLogin
        <3>4. NoticesRight(x, w)'
            BY <1>1, <3>1, <3>2, <3>3, NoticesStay
        <3>5. CASE pcStatus'[x][w] = pcStatus[x][w]
            BY <1>1, <3>1, <3>2, <3>3, <3>4, <3>5, StatusStays
        <3>6. CASE pcStatus'[x][w] # pcStatus[x][w]
            <4>1. x = s /\ w = u /\ pcStatus'[x][w] # "on"
                BY <1>1, <3>6 DEF PcInv
            <4>. QED BY <3>2, <3>4, <4>1 DEF StatusRight, Right
        <3>. QED BY <3>5, <3>6
    <2>2. CASE link[x] # "up"
        <3>1. Unconnected(x)
            BY <2>0, <2>2 DEF PushFacts
        <3>2. \A w \in Uid : pcStatus'[x][w] \in {pcStatus[x][w], "fresh"}
            BY <1>1 DEF PcInv
        <3>3. Unconnected(x)'
            BY <1>1, <3>1, <3>2 DEF Unconnected
        <3>. QED BY <1>1, <2>2, <3>3 DEF PushFacts
    <2>. QED BY <2>1, <2>2
<1>. QED BY <1>3, <1>4

LEMMA UserLogoutPush ==
    ASSUME RouteInv, PcInv, ObjectsOK, PushInv, NEW s \in Server, NEW u \in Uid, NEW k \in Type,
           UserLogout(s, u, k)
    PROVE  ObjectsOK' /\ PushInv'
<1>. DEFINE m == Status(u, k, FALSE)
            gone == \A j \in Type : online'[s][<<u, j>>] = 0
            v == IF gone THEN "none" ELSE pcStatus[s][u]
<1>1. /\ online' = [online EXCEPT ![s][<<u, k>>] = @ - 1] /\ online[s][<<u, k>>] > 0
      /\ Send(s, m) /\ UNCHANGED <<link, table, told, breaks, notices, missed>>
      /\ pcStatus' = [pcStatus EXCEPT ![s][u] = v]
    BY DEF UserLogout, Logout
<1>2. /\ m \in Message /\ queue[s] \in Seq(Message)
      /\ \A x \in Uid, j \in Type : online[s][<<x, j>>] \in Nat /\ <<x, j>> \in Clients
      /\ online \in [Server -> [Clients -> Nat]]
    <2>1. m \in Message
        BY DEF Message, Status
    <2>2. queue[s] \in Seq(Message) /\ online \in [Server -> [Clients -> Nat]]
        BY BoundAssumption DEF RouteInv
    <2>3. \A x \in Uid, j \in Type : <<x, j>> \in Clients
        BY DEF Clients
    <2>. HIDE DEF m
    <2>. QED BY <2>1, <2>2, <2>3
<1>3. ObjectsOK'
    <2>. SUFFICES ASSUME NEW x \in Server, NEW w \in Uid
         PROVE  pcStatus'[x][w] = "none" <=> \A j \in Type : online'[x][<<w, j>>] = 0
        BY DEF ObjectsOK
    <2>0. pcStatus[x][w] = "none" <=> \A j \in Type : online[x][<<w, j>>] = 0
        BY DEF ObjectsOK
    <2>1. CASE x = s /\ w = u
        <3>1. pcStatus[s][u] # "none"
            BY <1>1, <1>2, <2>0, <2>1
        <3>2. pcStatus'[s][u] = v
            BY <1>1 DEF PcInv
        <3>. QED BY <2>1, <3>1, <3>2
    <2>2. CASE x # s \/ w # u
        <3>1. \A j \in Type : online'[x][<<w, j>>] = online[x][<<w, j>>]
            BY <1>1, <1>2, <2>2
        <3>2. pcStatus'[x][w] = pcStatus[x][w]
            BY <1>1, <2>2 DEF PcInv
        <3>. QED BY <2>0, <3>1, <3>2
    <2>. QED BY <2>1, <2>2
<1>4. PushInv'
    <2>. HIDE DEF gone
    <2>. SUFFICES ASSUME breaks = 0, NEW x \in Server PROVE PushFacts(x)'
        BY <1>1 DEF PushInv, PushFacts
    <2>0. PushFacts(x)
        BY DEF PushInv, PushFacts
    <2>1. CASE link[x] = "up"
        <3>. SUFFICES ASSUME NEW w \in Uid \ missed
             PROVE  NoticesRight(x, w)' /\ StatusRight(x, w)'
            BY <1>1, <2>1 DEF PushFacts
        <3>1. NoticesRight(x, w) /\ StatusRight(x, w)
            BY <2>0, <2>1 DEF PushFacts
        <3>2. Announced(queue[x], w) => Announced(queue'[x], w)
            <4>1. CASE x = s
                <5>1. queue'[s] = Append(queue[s], m)
                    BY <1>1, <2>1, <4>1 DEF Send, RouteInv
                <5>. HIDE DEF m
                <5>. QED BY <1>2, <4>1, <5>1, AnnouncedAppend
            <4>2. CASE x # s
                BY <1>1, <4>2 DEF Send, RouteInv
            <4>. QED BY <4>1, <4>2
        <3>3. IsOnline(w)' <=> IsOnline(w)
            BY <1>1 DEF IsOnline, IsPCClientLogin
        <3>4. NoticesRight(x, w)'
            BY <1>1, <3>1, <3>2, <3>3, NoticesStay
        <3>5. CASE pcStatus'[x][w] = pcStatus[x][w]
            BY <1>1, <3>1, <3>2, <3>3, <3>4, <3>5, StatusStays
        <3>6. CASE pcStatus'[x][w] # pcStatus[x][w]
            <4>1. pcStatus'[x][w] = "none"
                BY <1>1, <3>6 DEF PcInv
            <4>. QED BY <3>4, <4>1 DEF StatusRight
        <3>. QED BY <3>5, <3>6
    <2>2. CASE link[x] # "up"
        <3>1. Unconnected(x)
            BY <2>0, <2>2 DEF PushFacts
        <3>2. \A w \in Uid : pcStatus'[x][w] \in {pcStatus[x][w], "none"}
            BY <1>1 DEF PcInv
        <3>3. Unconnected(x)'
            BY <1>1, <3>1, <3>2 DEF Unconnected
        <3>. QED BY <1>1, <2>2, <3>3 DEF PushFacts
    <2>. QED BY <2>1, <2>2
<1>. QED BY <1>3, <1>4

LEMMA LinkUpPush ==
    ASSUME RouteInv, PcInv, ObjectsOK, PushInv, NEW s \in Server, LinkUp(s)
    PROVE  ObjectsOK' /\ PushInv'
<1>. DEFINE m == Users(online[s])
<1>1. /\ link[s] = "down" /\ link' = [link EXCEPT ![s] = "up"]
      /\ queue' = [queue EXCEPT ![s] = <<m>>]
      /\ UNCHANGED <<online, table, told, breaks, notices, pcStatus, missed>>
    BY DEF LinkUp, Connect
<1>2. ObjectsOK'
    BY <1>1 DEF ObjectsOK
<1>3. ASSUME breaks = 0, NEW x \in Server PROVE PushFacts(x)'
    <2>0. PushFacts(x) /\ \A w \in Uid : IsOnline(w)' <=> IsOnline(w)
        BY <1>1, <1>3 DEF PushInv, PushFacts, IsOnline, IsPCClientLogin
    <2>1. CASE x = s
        <3>1. Unconnected(s) /\ queue'[s] = <<m>> /\ link'[s] = "up"
            BY <1>1, <2>0, <2>1 DEF PushFacts, RouteInv
        <3>2. ASSUME NEW w \in Uid
              PROVE  NoticesRight(s, w)' /\ StatusRight(s, w)'
            <4>1. NoticesRight(s, w)'
                <5>1. notices'[s] = <<>>
                    BY <1>1, <3>1 DEF Unconnected
                <5>2. \A i : ~LastAbout(notices'[s], w, i)
                    BY <5>1 DEF LastAbout
                <5>. QED BY <5>2 DEF NoticesRight
            <4>2. ASSUME pcStatus'[s][w] # "none"
                  PROVE  pcStatus'[s][w] # "on" /\ Announced(queue'[s], w)
                <5>1. pcStatus[s][w] = "fresh"
                    BY <1>1, <3>1, <4>2 DEF Unconnected
                <5>2. PICK k \in Type : online[s][<<w, k>>] # 0
                    BY <5>1 DEF ObjectsOK
                <5>3. online[s][<<w, k>>] > 0
                    BY <5>2, BoundAssumption DEF RouteInv, Clients
                <5>4. Announces(m, w)
                    BY <5>3 DEF Announces, Users
                <5>. HIDE DEF m
                <5>5. 1 \in DOMAIN queue'[s] /\ queue'[s][1] = m
                    BY <3>1
                <5>. QED BY <1>1, <5>1, <5>4, <5>5 DEF Announced
            <4>. QED BY <4>1, <4>2 DEF StatusRight, Right
        <3>. QED BY <2>1, <3>1, <3>2 DEF PushFacts
    <2>2. CASE x # s
        <3>1. link'[x] = link[x] /\ queue'[x] = queue[x]
            BY <1>1, <2>2 DEF RouteInv
        <3>2. ASSUME link[x] = "up", NEW w \in Uid \ missed
              PROVE  NoticesRight(x, w)' /\ StatusRight(x, w)'
            BY <1>1, <2>0, <3>1, <3>2, NoticesStay, StatusStays DEF PushFacts
        <3>3. Unconnected(x) => Unconnected(x)'
            BY <1>1 DEF Unconnected
        <3>. QED BY <1>1, <2>0, <3>1, <3>2, <3>3 DEF PushFacts
    <2>. QED BY <2>1, <2>2
<1>4. PushInv'
    BY <1>1, <1>3 DEF PushInv, PushFacts
<1>. QED BY <1>2, <1>4

LEMMA OnlineUserInfoPush ==
    ASSUME RouteInv, PcInv, ObjectsOK, PushInv, NEW s \in Server, OnlineUserInfo(s)
    PROVE  ObjectsOK' /\ PushInv'
<1>1. PICK m : m = Head(queue[s])
    OBVIOUS
<1>2. /\ HandleOnlineUserInfo(s) /\ queue[s] # <<>> /\ m.kind = "users"
      /\ queue' = [queue EXCEPT ![s] = Tail(@)]
      /\ UNCHANGED <<online, link, told, breaks, notices, pcStatus>>
      /\ missed' = missed \cup
            {u \in Uid : IsPCClientLogin(table'[u]) /\ \E k \in Type : m.count[<<u, k>>] > 0}
    BY <1>1 DEF OnlineUserInfo, HandleOnlineUserInfo
<1>3. ASSUME NEW u \in Uid
      PROVE  /\ IsOnline(u) => IsOnline(u)'
             /\ IsOnline(u)' => IsOnline(u) \/ \E k \in Type : m.count[<<u, k>>] > 0
    BY <1>1, <1>2, ListAdds
<1>4. ObjectsOK'
    BY <1>2 DEF ObjectsOK
<1>5. ASSUME breaks = 0, NEW x \in Server PROVE PushFacts(x)'
    <2>0. PushFacts(x)
        BY <1>5 DEF PushInv, PushFacts
    <2>1. ASSUME link[x] = "up", NEW w \in Uid \ missed'
          PROVE  NoticesRight(x, w)' /\ StatusRight(x, w)'
        <3>1. NoticesRight(x, w) /\ StatusRight(x, w)
            BY <1>2, <2>0, <2>1 DEF PushFacts
        <3>2. ~(IsOnline(w)' /\ \E k \in Type : m.count[<<w, k>>] > 0)
            BY <1>2, <2>1 DEF IsOnline
        <3>3. IsOnline(w)' <=> IsOnline(w)
            BY <1>3, <3>2
        <3>4. IsOnline(w) /\ Announced(queue[x], w) => Announced(queue'[x], w)
            <4>1. CASE x = s
                <5>1. IsOnline(w) => ~Announces(m, w)
                    BY <1>2, <1>3, <3>2 DEF Announces
                <5>2. queue'[s] = Tail(queue[s]) /\ queue[s] \in Seq(Message)
                    BY <1>2 DEF RouteInv
                <5>. QED BY <1>1, <1>2, <4>1, <5>1, <5>2, AnnouncedTail
            <4>2. CASE x # s
                BY <1>2, <4>2 DEF RouteInv
            <4>. QED BY <4>1, <4>2
        <3>. QED BY <1>2, <3>1, <3>3, <3>4, NoticesStay, StatusStays
    <2>2. Unconnected(x) => Unconnected(x)'
        BY <1>2 DEF Unconnected
    <2>. QED BY <1>2, <2>0, <2>1, <2>2 DEF PushFacts
<1>6. PushInv'
    BY <1>2, <1>5 DEF PushInv, PushFacts
<1>. QED BY <1>4, <1>6

Appended(q, n, r) == r = Append(q, n)

LEMMA LastOfAppend ==
    ASSUME NEW q \in Seq(Notice), NEW n \in Notice, NEW r, Appended(q, n, r),
           NEW u, NEW i, LastAbout(r, u, i)
    PROVE  /\ n.uid = u => r[i] = n
           /\ n.uid # u => LastAbout(q, u, i) /\ r[i] = q[i]
<1>1. /\ Len(q) \in Nat /\ Len(r) = Len(q) + 1 /\ r[Len(q) + 1] = n
      /\ DOMAIN r = 1..(Len(q) + 1) /\ DOMAIN q = 1..Len(q)
      /\ \A j \in 1..Len(q) : r[j] = q[j]
    BY DEF Appended
<1>2. i \in DOMAIN r /\ r[i].uid = u /\ \A j \in DOMAIN r : r[j].uid = u => j <= i
    BY DEF LastAbout
<1>3. n.uid = u => i = Len(q) + 1
    BY <1>1, <1>2
<1>4. n.uid # u => i \in 1..Len(q)
    BY <1>1, <1>2
<1>. QED BY <1>1, <1>2, <1>3, <1>4 DEF LastAbout

LEMMA LastOfTail ==
    ASSUME NEW q \in Seq(Notice), q # <<>>, NEW u, NEW i, LastAbout(Tail(q), u, i)
    PROVE  LastAbout(q, u, i + 1) /\ Tail(q)[i] = q[i + 1]
<1>. DEFINE r == Tail(q)
<1>1. /\ Len(q) \in Nat /\ DOMAIN r = 1..(Len(q) - 1) /\ DOMAIN q = 1..Len(q)
      /\ \A j \in 1..(Len(q) - 1) : r[j] = q[j + 1]
    OBVIOUS
<1>2. i \in DOMAIN r /\ r[i].uid = u /\ \A j \in DOMAIN r : r[j].uid = u => j <= i
    BY DEF LastAbout
<1>. HIDE DEF r
<1>3. i + 1 \in DOMAIN q /\ r[i] = q[i + 1]
    BY <1>1, <1>2
<1>4. ASSUME NEW j \in DOMAIN q, q[j].uid = u PROVE j <= i + 1
    <2>1. CASE j = 1
        BY <1>1, <1>2, <2>1
    <2>2. CASE j # 1
        <3>1. j - 1 \in DOMAIN r /\ r[j - 1] = q[(j - 1) + 1] /\ (j - 1) + 1 = j
            BY <1>1, <2>2
        <3>2. j - 1 <= i
            BY <1>2, <1>4, <3>1
        <3>. QED BY <1>1, <1>2, <3>2
    <2>. QED BY <2>1, <2>2
<1>. QED BY <1>2, <1>3, <1>4 DEF LastAbout, r

\* What is told agrees with the table, and nothing is told of a user who is there only
\* if that is no news.
LEMMA TellsRight ==
    ASSUME RouteInv, NEW s \in Server, HandleUserStatusUpdate(s),
           NEW m, m = Head(queue[s]), NEW tell, tell = LoginStatus(m, table'[m.uid])
    PROVE  /\ m \in Message /\ m.uid \in Uid /\ m.kind = "status"
           /\ queue'[s] = Tail(queue[s])
           /\ \A u \in Uid : u # m.uid => table'[u] = table[u]
           /\ tell # {} => (TRUE \in tell <=> m.on) /\ (IsOnline(m.uid)' <=> m.on)
           /\ tell = {} /\ m.on => ~IsOnline(m.uid)
<1>1. /\ queue[s] # <<>> /\ m.kind = "status" /\ queue' = [queue EXCEPT ![s] = Tail(@)]
      /\ table' = [table EXCEPT ![m.uid] = IF m.on THEN GoOnline(@, s, m.type)
                                                  ELSE GoOffline(@, s, m.type)]
    BY DEF HandleUserStatusUpdate
<1>2. m \in Message /\ m.uid \in Uid /\ m.type \in Type /\ m.on \in BOOLEAN
    BY <1>1 DEF RouteInv, Message
<1>3. queue'[s] = Tail(queue[s]) /\ \A u \in Uid : u # m.uid => table'[u] = table[u]
    BY <1>1, <1>2 DEF RouteInv
<1>. DEFINE e == table'[m.uid]
<1>4. tell # {} => (TRUE \in tell <=> m.on) /\ (IsPCClientLogin(e) <=> m.on)
    <2>. SUFFICES ASSUME tell # {}
         PROVE (TRUE \in tell <=> m.on) /\ (IsPCClientLogin(e) <=> m.on)
        OBVIOUS
    <2>1. PICK on \in {m.on} : IF on THEN IsPCClientLogin(e) ELSE ~IsPCClientLogin(e)
        BY Zenon DEF LoginStatus
    <2>2. m.on = TRUE => TRUE \in tell
        <3>. SUFFICES ASSUME m.on = TRUE PROVE TRUE \in tell
            OBVIOUS
        <3>1. PICK x : x \in tell
            OBVIOUS
        <3>2. x = TRUE
            BY <3>1, Zenon DEF LoginStatus
        <3>. QED BY <3>1, <3>2
    <2>3. TRUE \in tell => m.on = TRUE
        BY Zenon DEF LoginStatus
    <2>. HIDE DEF e
    <2>. QED BY <1>2, <2>1, <2>2, <2>3, Zenon
<1>5. tell = {} /\ m.on => ~IsOnline(m.uid)
    <2>. SUFFICES ASSUME tell = {}, m.on, IsOnline(m.uid) PROVE FALSE
        OBVIOUS
    <2>1. m.on = TRUE
        BY <1>2
    <2>2. /\ table[m.uid].types \in [Type -> Nat]
          /\ e = [conns |-> table[m.uid].conns \cup {s},
                  types |-> [table[m.uid].types EXCEPT ![m.type] = @ + 1]]
        BY <1>1, <1>2, <2>1 DEF GoOnline, RouteInv, EntryOK, EntryType
    <2>. HIDE DEF e
    <2>3. e.conns # {} /\ e.types = [table[m.uid].types EXCEPT ![m.type] = @ + 1]
        BY <2>2
    <2>4. e # Absent
        BY <2>3, AbsentOK
    <2>5. PICK k \in PCType : table[m.uid].types[k] > 0
        BY DEF IsOnline, IsPCClientLogin
    <2>6. e.types[k] > 0
        <3>. DEFINE t == table[m.uid].types
        <3>1. t \in [Type -> Nat] /\ t[k] > 0 /\ k \in Type
            BY <2>2, <2>5, TypeAssumption
        <3>2. e.types = [t EXCEPT ![m.type] = @ + 1]
            BY <2>3
        <3>. HIDE DEF t
        <3>. QED BY <3>1, <3>2
    <2>7. IsPCClientLogin(e)
        BY <2>6 DEF IsPCClientLogin
    <2>8. TRUE \in tell
        BY <2>1, <2>4, <2>7, Zenon DEF LoginStatus, e
    <2>. QED BY <2>8
<1>. HIDE DEF e
<1>6. IsOnline(m.uid)' <=> IsPCClientLogin(e)
    BY DEF IsOnline, e
<1>. QED BY <1>1, <1>2, <1>3, <1>4, <1>5, <1>6

LEMMA UserStatusUpdatePush ==
    ASSUME RouteInv, PcInv, ObjectsOK, PushInv, NEW s \in Server, UserStatusUpdate(s)
    PROVE  ObjectsOK' /\ PushInv'
<1>1. PICK m : m = Head(queue[s])
    OBVIOUS
<1>2. PICK tell : tell = LoginStatus(m, table'[m.uid])
    OBVIOUS
<1>3. /\ HandleUserStatusUpdate(s) /\ Broadcast(m.uid, tell)
      /\ queue[s] # <<>> /\ queue' = [queue EXCEPT ![s] = Tail(@)]
      /\ UNCHANGED <<online, link, breaks, pcStatus>>
      /\ missed' = IF /\ IsPCClientLogin(table[m.uid]) # IsPCClientLogin(table'[m.uid])
                      /\ tell = {} /\ Concerned(m.uid) # {}
                   THEN missed \cup {m.uid} ELSE missed
    BY <1>1, <1>2 DEF UserStatusUpdate, HandleUserStatusUpdate
<1>4. /\ m \in Message /\ m.uid \in Uid /\ m.kind = "status"
      /\ queue'[s] = Tail(queue[s])
      /\ \A u \in Uid : u # m.uid => table'[u] = table[u]
      /\ tell # {} => (TRUE \in tell <=> m.on) /\ (IsOnline(m.uid)' <=> m.on)
      /\ tell = {} /\ m.on => ~IsOnline(m.uid)
    <2>1. HandleUserStatusUpdate(s)
        BY <1>3
    <2>2. m = Head(queue[s])
        BY <1>1
    <2>3. tell = LoginStatus(m, table'[m.uid])
        BY <1>2
    <2>. QED BY <2>1, <2>2, <2>3, TellsRight, Zenon
<1>5. PICK n : n = [uid |-> m.uid, on |-> TRUE \in tell]
    OBVIOUS
<1>6. n \in Notice /\ n.uid = m.uid /\ (n.on <=> TRUE \in tell)
    <2>1. m.uid \in Uid /\ (TRUE \in tell) \in BOOLEAN
        BY <1>4
    <2>. QED BY <1>5, <2>1, Zenon DEF Notice
<1>7. \A x \in Server :
        notices'[x] = IF link[x] = "up" /\ tell # {} THEN Append(notices[x], n) ELSE notices[x]
    BY <1>3, <1>5 DEF Broadcast
<1>8. \A x \in Server : notices[x] \in Seq(Notice) /\ queue[x] \in Seq(Message)
    BY DEF PcInv, RouteInv
<1>9. ObjectsOK'
    BY <1>3 DEF ObjectsOK
<1>10. ASSUME NEW x \in Server, NEW u \in Uid, IsOnline(u) => ~Announces(m, u)
       PROVE  IsOnline(u) /\ Announced(queue[x], u) => Announced(queue'[x], u)
    <2>1. CASE x = s
        BY <1>1, <1>3, <1>4, <1>8, <1>10, <2>1, AnnouncedTail
    <2>2. CASE x # s
        BY <1>3, <2>2 DEF RouteInv
    <2>. QED BY <2>1, <2>2
<1>11. ASSUME breaks = 0, NEW x \in Server PROVE PushFacts(x)'
    <2>0. PushFacts(x)
        BY <1>11 DEF PushInv, PushFacts
    <2>1. ASSUME link[x] = "up", NEW u \in Uid \ missed'
          PROVE  NoticesRight(x, u)' /\ StatusRight(x, u)'
        <3>1. u \notin missed /\ NoticesRight(x, u) /\ StatusRight(x, u)
            BY <1>3, <2>0, <2>1 DEF PushFacts
        <3>2. CASE u # m.uid
            <4>1. IsOnline(u)' <=> IsOnline(u)
                BY <1>4, <3>2 DEF IsOnline, IsPCClientLogin
            <4>2. IsOnline(u) /\ Announced(queue[x], u) => Announced(queue'[x], u)
                BY <1>4, <1>10, <3>2 DEF Announces
            <4>0. notices'[x] \in {notices[x], Append(notices[x], n)}
                BY <1>7
            <4>3. ASSUME NEW i, LastAbout(notices'[x], u, i)
                  PROVE  LastAbout(notices[x], u, i) /\ notices'[x][i] = notices[x][i]
                <5>1. CASE notices'[x] = notices[x]
                    BY <4>3, <5>1
                <5>2. CASE notices'[x] = Append(notices[x], n)
                    <6>1. notices[x] \in Seq(Notice) /\ n \in Notice /\ n.uid # u
                        BY <1>6, <1>8, <3>2
                    <6>2. Appended(notices[x], n, notices'[x])
                        BY <5>2 DEF Appended
                    <6>. QED BY <4>3, <6>1, <6>2, LastOfAppend
                <5>. QED BY <4>0, <5>1, <5>2
            <4>4. (\A i \in DOMAIN notices'[x] : notices'[x][i].uid # u)
                        => \A i \in DOMAIN notices[x] : notices[x][i].uid # u
                <5>1. CASE notices'[x] = notices[x]
                    BY <5>1
                <5>2. CASE notices'[x] = Append(notices[x], n)
                    <6>1. \A i \in DOMAIN notices[x] :
                                /\ i \in DOMAIN Append(notices[x], n)
                                /\ Append(notices[x], n)[i] = notices[x][i]
                        BY <1>6, <1>8
                    <6>. QED BY <5>2, <6>1
                <5>. QED BY <4>0, <5>1, <5>2
            <4>. QED BY <1>3, <3>1, <4>1, <4>2, <4>3, <4>4, NoticesFrom, StatusStays
        <3>3. CASE u = m.uid /\ tell # {}
            <4>1. notices'[x] = Append(notices[x], n) /\ (n.on <=> IsOnline(u)')
                BY <1>4, <1>6, <1>7, <2>1, <3>3
            <4>2. ASSUME NEW i, LastAbout(notices'[x], u, i)
                  PROVE  notices'[x][i].on <=> IsOnline(u)'
                <5>1. notices[x] \in Seq(Notice) /\ n \in Notice /\ n.uid = u
                    BY <1>6, <1>8, <3>3
                <5>2. Appended(notices[x], n, notices'[x])
                    BY <4>1 DEF Appended
                <5>3. notices'[x][i] = n
                    BY <4>2, <5>1, <5>2, LastOfAppend
                <5>. QED BY <4>1, <5>3
            <4>3. \E i \in DOMAIN notices'[x] : notices'[x][i].uid = u
                <5>1. /\ Len(notices[x]) + 1 \in DOMAIN notices'[x]
                      /\ notices'[x][Len(notices[x]) + 1] = n
                    BY <1>6, <1>8, <4>1
                <5>. QED BY <1>6, <3>3, <5>1
            <4>4. NoticesRight(x, u)'
                BY <4>2 DEF NoticesRight, Right
            <4>. QED BY <4>3, <4>4 DEF StatusRight
        <3>4. CASE u = m.uid /\ tell = {} /\ Concerned(u) # {}
            <4>1. IsOnline(u)' <=> IsOnline(u)
                BY <1>3, <2>1, <3>4 DEF IsOnline
            <4>2. IsOnline(u) /\ Announced(queue[x], u) => Announced(queue'[x], u)
                BY <1>4, <1>10, <3>4 DEF Announces
            <4>3. notices'[x] = notices[x]
                BY <1>7, <3>4
            <4>. QED BY <1>3, <3>1, <4>1, <4>2, <4>3, NoticesStay, StatusStays
        <3>5. CASE u = m.uid /\ tell = {} /\ Concerned(u) = {}
            <4>1. /\ pcStatus[x][u] = "none"
                  /\ \A i \in DOMAIN notices[x] : notices[x][i].uid # u
                BY <3>5 DEF Concerned
            <4>2. notices'[x] = notices[x]
                BY <1>7, <3>5
            <4>3. \A i : ~LastAbout(notices'[x], u, i)
                BY <4>1, <4>2 DEF LastAbout
            <4>. QED BY <1>3, <4>1, <4>3 DEF NoticesRight, StatusRight
        <3>. QED BY <3>2, <3>3, <3>4, <3>5
    <2>2. link[x] # "up" /\ Unconnected(x) => Unconnected(x)'
        BY <1>3, <1>7 DEF Unconnected
    <2>. QED BY <1>3, <2>0, <2>1, <2>2 DEF PushFacts
<1>12. PushInv'
    BY <1>3, <1>11 DEF PushInv, PushFacts
<1>. QED BY <1>9, <1>12

LEMMA NotifyPush ==
    ASSUME RouteInv, PcInv, ObjectsOK, PushInv, NEW s \in Server, HandlePCLoginStatusNotify(s)
    PROVE  ObjectsOK' /\ PushInv'
<1>1. PICK m : m = Head(notices[s])
    OBVIOUS
<1>. DEFINE v == IF pcStatus[s][m.uid] = "none" THEN "none" ELSE IF m.on THEN "on" ELSE "off"
<1>2. /\ notices[s] # <<>> /\ notices' = [notices EXCEPT ![s] = Tail(@)]
      /\ UNCHANGED <<online, link, queue, table, told, breaks, missed>>
      /\ pcStatus' = [pcStatus EXCEPT ![s][m.uid] = v]
    BY <1>1 DEF HandlePCLoginStatusNotify, vars
<1>3. /\ \A x \in Server : notices[x] \in Seq(Notice)
      /\ notices'[s] = Tail(notices[s]) /\ \A x \in Server : x # s => notices'[x] = notices[x]
    BY <1>2 DEF PcInv
<1>4. m \in Notice /\ m.uid \in Uid /\ m = notices[s][1] /\ 1 \in DOMAIN notices[s]
    <2>1. notices[s] \in Seq(Notice) /\ notices[s] # <<>>
        BY <1>2, <1>3
    <2>2. m \in Notice /\ m = notices[s][1] /\ 1 \in DOMAIN notices[s]
        BY <1>1, <2>1
    <2>. QED BY <2>2 DEF Notice
<1>5. \A x \in Server, u \in Uid :
        pcStatus'[x][u] = IF x = s /\ u = m.uid THEN v ELSE pcStatus[x][u]
    BY <1>2, <1>4 DEF PcInv
<1>6. ObjectsOK'
    <2>1. \A x \in Server, u \in Uid : pcStatus'[x][u] = "none" <=> pcStatus[x][u] = "none"
        BY <1>5
    <2>. QED BY <1>2, <2>1 DEF ObjectsOK
<1>7. \A u \in Uid : IsOnline(u)' <=> IsOnline(u)
    BY <1>2 DEF IsOnline, IsPCClientLogin
<1>8. ASSUME breaks = 0, NEW x \in Server PROVE PushFacts(x)'
    <2>0. PushFacts(x)
        BY <1>8 DEF PushInv, PushFacts
    <2>1. CASE x # s
        <3>1. ASSUME link[x] = "up", NEW u \in Uid \ missed
              PROVE  NoticesRight(x, u)' /\ StatusRight(x, u)'
            BY <1>2, <1>3, <1>5, <1>7, <2>0, <2>1, <3>1, NoticesStay, StatusStays DEF PushFacts
        <3>2. Unconnected(x) => Unconnected(x)'
            BY <1>3, <1>5, <2>1 DEF Unconnected
        <3>. QED BY <1>2, <2>0, <3>1, <3>2 DEF PushFacts
    <2>2. CASE x = s
        <3>1. link[s] = "up"
            BY <1>2, <2>0, <2>2 DEF PushFacts, Unconnected
        <3>2. ASSUME NEW u \in Uid \ missed
              PROVE  NoticesRight(s, u)' /\ StatusRight(s, u)'
            <4>1. NoticesRight(s, u) /\ StatusRight(s, u)
                BY <2>0, <2>2, <3>1, <3>2 DEF PushFacts
            <4>2. ASSUME NEW i, LastAbout(notices'[s], u, i)
                  PROVE  LastAbout(notices[s], u, i + 1) /\ notices'[s][i] = notices[s][i + 1]
                <5>1. LastAbout(Tail(notices[s]), u, i)
                    BY <1>3, <4>2
                <5>2. /\ LastAbout(notices[s], u, i + 1)
                      /\ Tail(notices[s])[i] = notices[s][i + 1]
                    BY <1>2, <1>3, <5>1, LastOfTail
                <5>. QED BY <1>3, <5>2
            <4>3. NoticesRight(s, u)'
                BY <1>2, <1>7, <4>1, <4>2, NoticesFrom
            <4>4. ASSUME pcStatus'[s][u] # "none",
                         \A i \in DOMAIN notices'[s] : notices'[s][i].uid # u
                  PROVE  \/ pcStatus'[s][u] = "on" <=> IsOnline(u)'
                         \/ pcStatus'[s][u] # "on" /\ Announced(queue'[s], u)
                <5>1. ASSUME NEW i \in DOMAIN notices[s], i # 1 PROVE notices[s][i].uid # u
                    <6>1. notices[s] \in Seq(Notice) /\ notices[s] # <<>>
                        BY <1>2, <1>3
                    <6>2. i - 1 \in DOMAIN Tail(notices[s]) /\ Tail(notices[s])[i - 1] = notices[s][i]
                        BY <5>1, <6>1
                    <6>. QED BY <1>3, <4>4, <6>2
                <5>2. CASE u = m.uid
                    <6>1. LastAbout(notices[s], u, 1)
                        BY <1>4, <5>1, <5>2 DEF LastAbout
                    <6>2. Right(s, u, m.on)
                        BY <1>4, <4>1, <6>1 DEF NoticesRight
                    <6>3. pcStatus'[s][u] = "on" <=> m.on
                        BY <1>5, <4>4, <5>2
                    <6>. QED BY <1>2, <1>7, <6>2, <6>3 DEF Right
                <5>3. CASE u # m.uid
                    <6>1. \A i \in DOMAIN notices[s] : notices[s][i].uid # u
                        BY <1>4, <5>1, <5>3
                    <6>2. pcStatus'[s][u] = pcStatus[s][u]
                        BY <1>5, <5>3
                    <6>3. Right(s, u, pcStatus[s][u] = "on")
                        BY <4>1, <4>4, <6>1, <6>2 DEF StatusRight
                    <6>. QED BY <1>2, <1>7, <6>2, <6>3 DEF Right
                <5>. QED BY <5>2, <5>3
            <4>5. StatusRight(s, u)'
                BY <4>4 DEF StatusRight, Right
            <4>. QED BY <4>3, <4>5
        <3>. QED BY <1>2, <2>2, <3>1, <3>2 DEF PushFacts
    <2>. QED BY <2>1, <2>2
<1>9. PushInv'
    BY <1>2, <1>8 DEF PushInv, PushFacts
<1>. QED BY <1>6, <1>9

LEMMA PushStep ==
    CountInv /\ PcInv /\ ObjectsOK /\ PushInv /\ [PcNext]_pcVars => ObjectsOK' /\ PushInv'
<1>. SUFFICES ASSUME CountInv, RouteInv, PcInv, ObjectsOK, PushInv, [PcNext]_pcVars
     PROVE  ObjectsOK' /\ PushInv'
    BY DEF CountInv
<1>1. ASSUME NEW s \in Server, NEW u \in Uid, NEW k \in Type,
             UserLogin(s, u, k) \/ UserLogout(s, u, k)
      PROVE  ObjectsOK' /\ PushInv'
    BY <1>1, UserLoginPush, UserLogoutPush
<1>2. ASSUME NEW s \in Server, \/ OnlineUserInfo(s) \/ UserStatusUpdate(s)
                               \/ HandlePCLoginStatusNotify(s) \/ LinkUp(s)
      PROVE  ObjectsOK' /\ PushInv'
    BY <1>2, OnlineUserInfoPush, UserStatusUpdatePush, NotifyPush, LinkUpPush
<1>3. ASSUME NEW s \in Server, LinkBreaks(s) \/ LinkDown(s)
      PROVE  ObjectsOK' /\ PushInv'
    <2>1. breaks \in Nat /\ (breaks = 0 => link[s] \in {"up", "down"})
        BY BoundAssumption DEF CountInv, BeforeBreaks, RouteInv
    <2>2. breaks' # 0
        BY <1>3, <2>1 DEF LinkBreaks, LinkDown, MsgServerCloses, RouteServerCloses,
                          RouteServerNotices, MsgServerNotices
    <2>3. UNCHANGED <<online, pcStatus>>
        BY <1>3 DEF LinkBreaks, LinkDown, MsgServerCloses, RouteServerCloses,
                    RouteServerNotices, MsgServerNotices, CloseRouteConn
    <2>. QED BY <2>2, <2>3 DEF ObjectsOK, PushInv
<1>4. CASE UNCHANGED pcVars
    BY <1>4 DEF pcVars, vars, ObjectsOK, PushInv, NoticesRight, StatusRight, Right, Unconnected,
                IsOnline
<1>. QED BY <1>1, <1>2, <1>3, <1>4 DEF PcNext

\* What is delivered and kept is right: a user's phones are pushed to silently exactly
\* while they have a desktop client somewhere, in whatever order the reports of the
\* msg_servers and the notices about them were handled.
THEOREM PushIsRightCorrect == PcSpec => []PushIsRight
<1>1. PcInit => ObjectsOK /\ PushInv /\ PcInv
    BY DEF PcInit, Init, ObjectsOK, PushInv, PcInv, Unconnected, Clients
<1>2. PcSpec => []CountInv
    BY PcImplementsRoute, SpecCountInv, PTL
<1>3. CountInv => RouteInv
    BY DEF CountInv
<1>4. CountInv /\ ObjectsOK /\ PushInv => PushIsRight
    <2>. SUFFICES ASSUME CountInv, ObjectsOK, PushInv, AllDelivered, breaks = 0,
                         NEW s \in Connected, NEW u \in Uid \ missed
         PROVE  PushIsSilent(s, u) <=>
                    \E x \in Connected, k \in PCType : online[x][<<u, k>>] > 0
        BY DEF PushIsRight, HasDesktop
    <2>1. s \in Server /\ link[s] = "up" /\ queue[s] = <<>> /\ notices[s] = <<>> /\ Settled
        BY DEF AllDelivered, Settled, Connected
    <2>2. PICK h : Accounts(h)
        BY DEF CountInv
    <2>3. \A k \in PCType :
            table[u].types[k] > 0 <=> \E x \in Connected : online[x][<<u, k>>] > 0
        <3>. SUFFICES ASSUME NEW k \in PCType
             PROVE  table[u].types[k] > 0 <=> \E x \in Connected : online[x][<<u, k>>] > 0
            OBVIOUS
        <3>0. k \in Type /\ <<u, k>> \in Clients /\ h \in Rows /\ Connected \subseteq Server
            BY <2>2, TypeAssumption DEF Clients, Accounts, Connected
        <3>1. table[u].types[k] = Heard(h, <<u, k>>)
            BY <2>2, <3>0 DEF Accounts, EntryAccount
        <3>2. \A x \in Connected : h[x][<<u, k>>] = online[x][<<u, k>>]
            BY <2>1, <2>2, <3>0, HeardIsOpen DEF CountInv
        <3>3. \A x \in Server : x \notin Connected => h[x][<<u, k>>] = 0
            BY <2>2, <3>0 DEF Accounts, LinkAccount
        <3>4. /\ Heard(h, <<u, k>>) \in Nat
              /\ \A x \in Server : /\ h[x][<<u, k>>] \in Nat
                                   /\ h[x][<<u, k>>] <= Heard(h, <<u, k>>)
              /\ (\A x \in Server : h[x][<<u, k>>] = 0) => Heard(h, <<u, k>>) = 0
            BY <3>0, HeardFacts
        <3>. QED BY <3>0, <3>1, <3>2, <3>3, <3>4
    <2>4. IsOnline(u) <=> \E x \in Connected, k \in PCType : online[x][<<u, k>>] > 0
        BY <2>3 DEF IsOnline, IsPCClientLogin
    <2>5. CASE pcStatus[s][u] = "none"
        BY <2>4, <2>5 DEF PushIsSilent
    <2>6. CASE pcStatus[s][u] # "none"
        <3>1. ~Announced(queue[s], u) /\ DOMAIN notices[s] = {}
            BY <2>1 DEF Announced
        <3>2. StatusRight(s, u)
            BY <2>1 DEF PushInv
        <3>3. pcStatus[s][u] = "on" <=> IsOnline(u)
            BY <2>6, <3>1, <3>2 DEF StatusRight, Right
        <3>. QED BY <2>4, <2>6, <3>3 DEF PushIsSilent
    <2>. QED BY <2>5, <2>6
<1>. QED BY <1>1, <1>2, <1>3, <1>4, PcInvStep, PushStep, PTL DEF PcSpec
=============================================================================
