-------------------------- MODULE MsgSession_proofs --------------------------
(***************************************************************************)
(* Proofs about MsgSession, for any number of connections, handles, names, *)
(* users and heap objects, and any map from login names to user ids.       *)
(***************************************************************************)
EXTENDS MsgSession, FiniteSetTheorems, WellFoundedInduction, TLAPS

-----------------------------------------------------------------------------
\* A non-empty set of natural numbers has a least element.
LEMMA LeastNatural ==
    ASSUME NEW S \in SUBSET Nat, S # {}
    PROVE  \E x \in S : \A y \in S : x <= y
<1>1. PICK x \in S : \A y \in S : ~(<<y, x>> \in OpToRel(<, Nat))
    BY NatLessThanWellFounded, WFMin
<1>2. \A y \in S : ~(y < x)
    BY <1>1 DEF OpToRel
<1>. QED BY <1>2

-----------------------------------------------------------------------------
(***************************************************************************)
(* What the operations of CImUser and CImUserManager change.  Each lemma   *)
(* gives the result entry by entry, so that the proofs below need not      *)
(* expand nested updates.                                                  *)
(***************************************************************************)
LEMMA DeadUserType == DeadUser \in UserType
BY DEF DeadUser, UserType

LEMMA FreeConnType == FreeConn \in ConnType
BY DEF FreeConn, ConnType

\* q is r with the object o replaced by x, its indexes untouched.
Replaced(r, q, o, x) ==
    /\ q \in RegType
    /\ q.byName = r.byName
    /\ q.byId = r.byId
    /\ q.user[o] = x
    /\ \A p \in UserObj \ {o} : q.user[p] = r.user[p]

LEMMA AddMsgConnResult ==
    ASSUME NEW r \in RegType, NEW o \in UserObj, NEW h \in Handle, NEW c \in Conn
    PROVE  Replaced(r, AddMsgConn(r, o, h, c), o,
                    [r.user[o] EXCEPT !.conns = [@ EXCEPT ![h] = c]])
BY DEF Replaced, AddMsgConn, RegType, UserType

LEMMA DelMsgConnResult ==
    ASSUME NEW r \in RegType, NEW o \in UserObj, NEW h \in Handle
    PROVE  Replaced(r, DelMsgConn(r, o, h), o,
                    [r.user[o] EXCEPT !.conns = [@ EXCEPT ![h] = NoConn]])
BY DEF Replaced, DelMsgConn, RegType, UserType

LEMMA AddUnValidateResult ==
    ASSUME NEW r \in RegType, NEW o \in UserObj, NEW c \in Conn
    PROVE  Replaced(r, AddUnValidate(r, o, c), o,
                    [r.user[o] EXCEPT !.unval = @ \cup {c}])
BY DEF Replaced, AddUnValidate, RegType, UserType

LEMMA DelUnValidateResult ==
    ASSUME NEW r \in RegType, NEW o \in UserObj, NEW c \in Conn
    PROVE  Replaced(r, DelUnValidate(r, o, c), o,
                    [r.user[o] EXCEPT !.unval = @ \ {c}])
BY DEF Replaced, DelUnValidate, RegType, UserType

LEMMA DeleteUserResult ==
    ASSUME NEW r \in RegType, NEW o \in UserObj, NEW u, NEW n
    PROVE  LET q == DeleteUser(r, o, u, n)
           IN  /\ q \in RegType
               /\ \A m \in Name : q.byName[m] = IF m = n THEN NoUser ELSE r.byName[m]
               /\ \A v \in Uid : q.byId[v] = IF v = u THEN NoUser ELSE r.byId[v]
               /\ q.user[o] = DeadUser
               /\ \A p \in UserObj \ {o} : q.user[p] = r.user[p]
BY DeadUserType DEF DeleteUser, RegType

-----------------------------------------------------------------------------
(***************************************************************************)
(* The inductive invariant, as conditions on the connections cs and the    *)
(* registry r, so that it can be followed through the steps of a callback. *)
(***************************************************************************)

\* The fields of a connection agree, and no two have the same handle.
ConnOK(cs) ==
    /\ cs \in [Conn -> ConnType]
    /\ \A c \in Conn :
        /\ cs[c].handle = NoHandle => cs[c] = FreeConn
        /\ cs[c].name # NoName => cs[c].class \in Class
        /\ cs[c].open => cs[c].uid \in Uid /\ cs[c].name \in Name
        /\ ~cs[c].open => cs[c].uid = NoUid
        /\ \A d \in Conn : cs[c].handle \in Handle /\ cs[d].handle = cs[c].handle => d = c

\* RegistryConsistent, with what it rests on: dead objects are blank, and an
\* object that has an id has the one the database gives for its name.
IndexOK(r) ==
    /\ r \in RegType
    /\ \A n \in Name : r.byName[n] # NoUser =>
            r.user[r.byName[n]].live /\ r.user[r.byName[n]].name = n
    /\ \A u \in Uid : r.byId[u] # NoUser =>
            r.user[r.byId[u]].live /\ r.user[r.byId[u]].uid = u
    /\ \A o \in UserObj : IF r.user[o].live
            THEN /\ r.user[o].name \in Name
                 /\ r.byName[r.user[o].name] = o
                 /\ r.user[o].uid # NoUid =>
                        /\ r.byId[r.user[o].uid] = o
                        /\ r.user[o].uid = UidOf[r.user[o].name]
            ELSE r.user[o] = DeadUser

\* What the lists of an object hold: NoDanglingConn.
ConnsOK(cs, r) ==
    \A o \in UserObj :
        /\ \A h \in Handle : r.user[o].conns[h] # NoConn =>
            /\ cs[r.user[o].conns[h]].handle = h
            /\ cs[r.user[o].conns[h]].open
            /\ cs[r.user[o].conns[h]].uid = r.user[o].uid
        /\ \A c \in r.user[o].unval :
            /\ cs[c].handle \in Handle
            /\ ~cs[c].open
            /\ cs[c].name = r.user[o].name

\* OpenConnIsReachable.
OpenOK(cs, r) ==
    \A c \in Conn : cs[c].open =>
        /\ r.byId[cs[c].uid] # NoUser
        /\ r.user[r.byId[cs[c].uid]].conns[cs[c].handle] = c

\* NoUserLeak.
LiveOK(r) ==
    \A o \in UserObj : r.user[o].live =>
        /\ IsMsgConnEmpty(r, o) => r.user[o].unval # {}
        /\ r.user[o].uid # NoUid <=> ~IsMsgConnEmpty(r, o)

StateOK(cs, r) ==
    ConnOK(cs) /\ IndexOK(r) /\ ConnsOK(cs, r) /\ OpenOK(cs, r) /\ LiveOK(r)

\* cs and ds differ in nothing but who was kicked.
SameButKicked(cs, ds) ==
    /\ ds \in [Conn -> ConnType]
    /\ \A c \in Conn :
        /\ ds[c].handle = cs[c].handle /\ ds[c].name = cs[c].name
        /\ ds[c].class = cs[c].class /\ ds[c].uid = cs[c].uid
        /\ ds[c].open = cs[c].open
        /\ cs[c].handle = NoHandle => ds[c] = cs[c]

-----------------------------------------------------------------------------
\* Dead objects hold nothing, so an empty-handed check on them is harmless.
LEMMA DeadUserIsEmpty ==
    ASSUME NEW r \in RegType, NEW o \in UserObj, r.user[o] = DeadUser
    PROVE  /\ IsMsgConnEmpty(r, o) /\ r.user[o].unval = {}
           /\ ~r.user[o].live /\ r.user[o].uid = NoUid /\ r.user[o].name = NoName
BY DEF DeadUser, IsMsgConnEmpty

\* A kick marks a connection and moves nothing.
LEMMA KickMarksOnly ==
    ASSUME NEW cs \in [Conn -> ConnType], NEW r, NEW o \in UserObj, NEW k, NEW from,
           \A h \in Handle : r.user[o].conns[h] # NoConn =>
                cs[r.user[o].conns[h]].handle = h
    PROVE  SameButKicked(cs, KickOutSameClientType(cs, r, o, k, from))
<1>. DEFINE rivals == Rivals(cs, r, o, k, from)
            c == r.user[o].conns[Min(rivals)]
<1>1. cs \in [Conn -> ConnType]
    OBVIOUS
<1>2. CASE rivals = {}
    BY <1>1, <1>2 DEF KickOutSameClientType, SameButKicked
<1>3. CASE rivals # {}
    <2>1. KickOutSameClientType(cs, r, o, k, from) = [cs EXCEPT ![c].kicked = TRUE]
        BY <1>3 DEF KickOutSameClientType
    <2>2. c \in Conn => cs[c].handle # NoHandle
        <3>. SUFFICES ASSUME c \in Conn PROVE cs[c].handle # NoHandle
            OBVIOUS
        <3>1. Min(rivals) \in rivals
            <4>1. rivals \in SUBSET Nat
                BY HandleAssumption DEF Rivals
            <4>2. \E x \in rivals : \A y \in rivals : x <= y
                BY <1>3, <4>1, LeastNatural
            <4>. QED BY <4>2 DEF Min
        <3>2. Min(rivals) \in Handle
            BY <3>1 DEF Rivals
        <3>3. cs[c].handle = Min(rivals)
            BY <3>2, NullAssumption
        <3>. QED BY <3>2, <3>3, NullAssumption
    <2>3. KickOutSameClientType(cs, r, o, k, from) \in [Conn -> ConnType]
        BY ZenonT(30), <1>1, <2>1 DEF ConnType
    <2>4. \A d \in Conn \ {c} : KickOutSameClientType(cs, r, o, k, from)[d] = cs[d]
        BY <1>1, <2>1
    <2>5. c \in Conn => KickOutSameClientType(cs, r, o, k, from)[c] = [cs[c] EXCEPT !.kicked = TRUE]
        BY <1>1, <2>1
    <2>. HIDE DEF c
    <2>. QED BY <1>1, <2>2, <2>3, <2>4, <2>5 DEF SameButKicked, ConnType
<1>. QED BY <1>2, <1>3

LEMMA KickKeepsState ==
    ASSUME NEW cs, NEW ds, NEW r, StateOK(cs, r), SameButKicked(cs, ds)
    PROVE  StateOK(ds, r)
<1>. USE DEF StateOK, SameButKicked
<1>1. ConnOK(ds)
    BY NullAssumption DEF ConnOK
<1>2. ConnsOK(ds, r)
    <2>1. \A o \in UserObj : /\ \A h \in Handle : r.user[o].conns[h] \in Conn \cup {NoConn}
                             /\ r.user[o].unval \subseteq Conn
        BY DEF IndexOK, RegType, UserType
    <2>. QED BY <2>1 DEF ConnsOK
<1>3. OpenOK(ds, r)
    BY DEF OpenOK
<1>. QED BY <1>1, <1>2, <1>3

\* s is r without the object p, which had no validated connection.
WithoutPending(r, s, p) ==
    /\ s \in RegType
    /\ \A m \in Name : s.byName[m] = IF m = r.user[p].name THEN NoUser ELSE r.byName[m]
    /\ \A v \in Uid : s.byId[v] = r.byId[v]
    /\ s.user[p] = DeadUser
    /\ \A q \in UserObj \ {p} : s.user[q] = r.user[q]

\* Deleting an object without validated connections keeps the invariant,
\* even when connections still wait for an answer in it.
LEMMA DeletePendingKeepsState ==
    ASSUME NEW cs, NEW r, StateOK(cs, r), NEW p \in UserObj,
           r.user[p].live, IsMsgConnEmpty(r, p), NEW s, WithoutPending(r, s, p)
    PROVE  StateOK(cs, s)
<1>. USE DEF StateOK, WithoutPending
<1>0. /\ r \in RegType
      /\ r.user[p].uid = NoUid /\ r.user[p].name \in Name
      /\ IsMsgConnEmpty(s, p) /\ s.user[p].unval = {} /\ ~s.user[p].live
      /\ \A u \in Uid : r.byId[u] # p
    <2>1. r \in RegType /\ r.user[p].uid = NoUid /\ r.user[p].name \in Name
        BY DEF IndexOK, LiveOK, RegType, UserType
    <2>2. \A u \in Uid : r.byId[u] # p
        BY <2>1, NullAssumption DEF IndexOK
    <2>. QED BY <2>1, <2>2, DeadUserIsEmpty
<1>1. IndexOK(s)
    <2>1. \A n \in Name : s.byName[n] # NoUser =>
            s.user[s.byName[n]].live /\ s.user[s.byName[n]].name = n
        BY <1>0 DEF IndexOK, RegType
    <2>2. \A u \in Uid : s.byId[u] # NoUser =>
            s.user[s.byId[u]].live /\ s.user[s.byId[u]].uid = u
        BY <1>0 DEF IndexOK, RegType
    <2>3. ASSUME NEW o \in UserObj, o # p
          PROVE  IF s.user[o].live
                 THEN /\ s.user[o].name \in Name
                      /\ s.byName[s.user[o].name] = o
                      /\ s.user[o].uid # NoUid =>
                            /\ s.byId[s.user[o].uid] = o
                            /\ s.user[o].uid = UidOf[s.user[o].name]
                 ELSE s.user[o] = DeadUser
        <3>1. s.user[o] = r.user[o] /\ r.user[o].uid \in Uid \cup {NoUid}
            BY <1>0, <2>3 DEF RegType, UserType
        <3>2. r.user[o].live => r.user[o].name # r.user[p].name
            BY <1>0, <2>3 DEF IndexOK
        <3>. QED BY <3>1, <3>2 DEF IndexOK
    <2>. QED BY <1>0, <2>1, <2>2, <2>3 DEF IndexOK
<1>2. ConnsOK(cs, s)
    <2>1. \A h \in Handle : s.user[p].conns[h] = NoConn
        BY <1>0 DEF IsMsgConnEmpty
    <2>. QED BY <1>0, <2>1 DEF ConnsOK
<1>3. OpenOK(cs, s)
    <2>. SUFFICES ASSUME NEW c \in Conn, cs[c].open
         PROVE s.byId[cs[c].uid] # NoUser /\ s.user[s.byId[cs[c].uid]].conns[cs[c].handle] = c
        BY DEF OpenOK
    <2>1. cs[c].uid \in Uid
        BY DEF ConnOK
    <2>. QED BY <1>0, <2>1 DEF OpenOK, RegType
<1>4. LiveOK(s)
    BY <1>0 DEF LiveOK, IsMsgConnEmpty
<1>. QED BY <1>1, <1>2, <1>3, <1>4

\* A pending connection leaves a user that keeps validated ones.
LEMMA ShrinkPendingKeepsState ==
    ASSUME NEW cs, NEW r, StateOK(cs, r), NEW p \in UserObj, NEW c \in Conn,
           ~IsMsgConnEmpty(r, p), NEW s,
           Replaced(r, s, p, [r.user[p] EXCEPT !.unval = @ \ {c}])
    PROVE  StateOK(cs, s)
<1>. USE DEF StateOK
<1>0. /\ r \in RegType /\ s \in RegType /\ r.user[p] \in UserType /\ r.user[p].live
      /\ s.user[p].conns = r.user[p].conns /\ s.user[p].unval = r.user[p].unval \ {c}
      /\ s.user[p].live = r.user[p].live /\ s.user[p].name = r.user[p].name
      /\ s.user[p].uid = r.user[p].uid
      /\ s.byName = r.byName /\ s.byId = r.byId
      /\ \A q \in UserObj : q # p => s.user[q] = r.user[q]
    BY SMTT(30), DeadUserIsEmpty DEF IndexOK, RegType, UserType, Replaced
<1>1. \A q \in UserObj :
        /\ s.user[q].conns = r.user[q].conns /\ s.user[q].live = r.user[q].live
        /\ s.user[q].name = r.user[q].name /\ s.user[q].uid = r.user[q].uid
        /\ s.user[q].unval \subseteq r.user[q].unval
        /\ ~r.user[q].live => s.user[q] = r.user[q]
    BY <1>0
<1>2. /\ \A n \in Name : r.byName[n] \in UserObj \cup {NoUser}
      /\ \A u \in Uid : r.byId[u] \in UserObj \cup {NoUser}
    BY <1>0 DEF RegType
<1>3. IndexOK(s)
    BY <1>0, <1>1, <1>2 DEF IndexOK
<1>4. ConnsOK(cs, s)
    BY <1>1 DEF ConnsOK
<1>5. OpenOK(cs, s)
    BY <1>0, <1>1, <1>2 DEF OpenOK, ConnOK
<1>6. LiveOK(s)
    BY <1>0, <1>1 DEF LiveOK, IsMsgConnEmpty
<1>. QED BY <1>3, <1>4, <1>5, <1>6

\* The by-name half of Close keeps the invariant, and c is pending nowhere
\* in that user afterwards.
LEMMA LeaveByNameKeepsState ==
    ASSUME NEW cs, NEW r, StateOK(cs, r), NEW p \in UserObj, NEW c \in Conn,
           r.user[p].live, NEW s, s = RemoveIfEmpty(DelUnValidate(r, p, c), p)
    PROVE  /\ StateOK(cs, s)
           /\ c \notin s.user[p].unval
           /\ \A o \in UserObj : s.user[o].unval \subseteq r.user[o].unval
<1>. DEFINE q == DelUnValidate(r, p, c)
<1>0. r \in RegType /\ r.user[p] \in UserType
    BY DEF StateOK, IndexOK, RegType
<1>1. Replaced(r, q, p, [r.user[p] EXCEPT !.unval = @ \ {c}])
    BY <1>0, DelUnValidateResult
<1>. HIDE DEF q
<1>2. /\ q.user[p].unval = r.user[p].unval \ {c} /\ q.user[p].conns = r.user[p].conns
      /\ q.user[p].name = r.user[p].name /\ q.user[p].uid = r.user[p].uid
      /\ q \in RegType
    BY <1>0, <1>1 DEF Replaced, UserType
<1>3. IsMsgConnEmpty(q, p) <=> IsMsgConnEmpty(r, p)
    BY <1>2 DEF IsMsgConnEmpty
<1>4. CASE IsMsgConnEmpty(r, p)
    <2>1. s = DeleteUser(q, p, r.user[p].uid, r.user[p].name)
        BY <1>2, <1>3, <1>4 DEF RemoveIfEmpty, RemoveImUser, q
    <2>2. r.user[p].uid = NoUid
        BY <1>4 DEF StateOK, LiveOK
    <2>3. WithoutPending(r, s, p)
        BY <1>1, <1>2, <2>1, <2>2, DeleteUserResult, NullAssumption DEF WithoutPending, Replaced
    <2>4. StateOK(cs, s)
        BY <1>4, <2>3, DeletePendingKeepsState
    <2>5. s.user[p].unval = {}
        BY <2>3, DeadUserIsEmpty DEF WithoutPending
    <2>. QED BY <2>3, <2>4, <2>5 DEF WithoutPending
<1>5. CASE ~IsMsgConnEmpty(r, p)
    <2>1. s = q
        BY <1>3, <1>5 DEF RemoveIfEmpty, q
    <2>2. StateOK(cs, s)
        BY <1>1, <1>5, <2>1, ShrinkPendingKeepsState
    <2>. QED BY <1>1, <1>2, <2>1, <2>2 DEF Replaced
<1>. QED BY <1>4, <1>5

\* The connections once c is closed.
Freed(cs, c) == [cs EXCEPT ![c] = FreeConn]

LEMMA FreedConn ==
    ASSUME NEW cs, ConnOK(cs), NEW c \in Conn
    PROVE  /\ ConnOK(Freed(cs, c))
           /\ Freed(cs, c)[c] = FreeConn
           /\ ~Freed(cs, c)[c].open /\ Freed(cs, c)[c].handle = NoHandle
           /\ \A d \in Conn : d # c => Freed(cs, c)[d] = cs[d]
<1>. DEFINE ds == Freed(cs, c)
<1>0. /\ ds \in [Conn -> ConnType] /\ ds[c] = FreeConn
      /\ \A d \in Conn : d # c => ds[d] = cs[d]
    BY FreeConnType DEF ConnOK, Freed
<1>1. /\ ds[c].handle = NoHandle /\ ds[c].name = NoName /\ ~ds[c].open /\ ds[c].uid = NoUid
    BY <1>0 DEF FreeConn
<1>. HIDE DEF ds
<1>2. ConnOK(ds)
    BY <1>0, <1>1, NullAssumption DEF ConnOK
<1>. QED BY <1>0, <1>1, <1>2 DEF ds

\* A connection nobody lists may be freed.
LEMMA FreeKeepsState ==
    ASSUME NEW cs, NEW r, StateOK(cs, r), NEW c \in Conn, ~cs[c].open,
           \A o \in UserObj : c \notin r.user[o].unval
    PROVE  StateOK(Freed(cs, c), r)
<1>. USE DEF StateOK
<1>. DEFINE ds == Freed(cs, c)
<1>1. /\ ConnOK(ds) /\ ~ds[c].open
      /\ \A d \in Conn : d # c => ds[d] = cs[d]
    BY FreedConn
<1>. HIDE DEF ds
<1>3. \A o \in UserObj, h \in Handle : r.user[o].conns[h] # NoConn =>
            r.user[o].conns[h] \in Conn \ {c}
    BY DEF ConnsOK, IndexOK, RegType, UserType
<1>4. \A o \in UserObj : r.user[o].unval \subseteq Conn \ {c}
    BY DEF IndexOK, RegType, UserType
<1>5. ConnsOK(ds, r)
    BY <1>1, <1>3, <1>4 DEF ConnsOK
<1>6. OpenOK(ds, r)
    BY <1>1 DEF OpenOK
<1>7. StateOK(ds, r)
    BY <1>1, <1>5, <1>6
<1>. QED BY <1>7 DEF ds

\* What is known of an open connection and its user.
LEMMA OpenConnFacts ==
    ASSUME NEW cs, NEW r, StateOK(cs, r), NEW c \in Conn, cs[c].open
    PROVE  /\ cs[c].uid \in Uid /\ cs[c].handle \in Handle /\ cs[c].name \in Name
           /\ UserById(r, cs[c].uid) = r.byId[cs[c].uid]
           /\ r.byId[cs[c].uid] \in UserObj
           /\ r.user[r.byId[cs[c].uid]].live
           /\ r.user[r.byId[cs[c].uid]].uid = cs[c].uid
           /\ r.user[r.byId[cs[c].uid]].conns[cs[c].handle] = c
           /\ \A o \in UserObj : c \notin r.user[o].unval
           /\ \A o \in UserObj, h \in Handle : r.user[o].conns[h] = c =>
                    o = r.byId[cs[c].uid] /\ h = cs[c].handle
<1>. USE DEF StateOK
<1>1. cs[c].uid \in Uid /\ cs[c].name \in Name /\ cs[c].handle \in Handle \cup {NoHandle}
    BY DEF ConnOK, ConnType
<1>2. cs[c].handle # NoHandle
    BY DEF ConnOK, FreeConn
<1>3. r.byId[cs[c].uid] \in UserObj
    BY <1>1 DEF OpenOK, IndexOK, RegType
<1>4. \A o \in UserObj : c \notin r.user[o].unval
    BY DEF ConnsOK
<1>5. ASSUME NEW o \in UserObj, NEW h \in Handle, r.user[o].conns[h] = c
      PROVE  o = r.byId[cs[c].uid] /\ h = cs[c].handle
    <2>1. cs[c].handle = h /\ cs[c].uid = r.user[o].uid
        BY <1>5, NullAssumption DEF ConnsOK
    <2>2. r.user[o].uid # NoUid
        BY <1>1, <2>1, NullAssumption
    <2>3. r.user[o].live
        BY <2>2, DeadUserIsEmpty DEF IndexOK
    <2>. QED BY <2>1, <2>2, <2>3 DEF IndexOK
<1>. QED BY <1>1, <1>2, <1>3, <1>4, <1>5 DEF IndexOK, OpenOK, UserById

\* q is r once the connection c, which user o had under handle h, has left;
\* u is the id of o.
LeftOne(r, q, o, u, h, c) ==
    /\ q \in RegType /\ q.byName = r.byName /\ q.byId = r.byId
    /\ q.user[o].live /\ q.user[o].name = r.user[o].name /\ q.user[o].uid = u
    /\ q.user[o].unval = r.user[o].unval
    /\ \A j \in Handle : q.user[o].conns[j] = IF j = h THEN NoConn ELSE r.user[o].conns[j]
    /\ \A p \in UserObj : p # o => q.user[p] = r.user[p]

\* The types of what a registry holds, entry by entry.
LEMMA RegEntries ==
    ASSUME NEW r \in RegType
    PROVE  /\ \A p \in UserObj, j \in Handle : r.user[p].conns[j] \in Conn \cup {NoConn}
           /\ \A p \in UserObj : r.user[p].unval \subseteq Conn
           /\ \A n \in Name : r.byName[n] \in UserObj \cup {NoUser}
           /\ \A v \in Uid : r.byId[v] \in UserObj \cup {NoUser}
           /\ \A p \in UserObj : r.user[p].uid \in Uid \cup {NoUid}
           /\ \A p \in UserObj : r.user[p].name \in Name \cup {NoName}
           /\ \A p \in UserObj : r.user[p] \in UserType
BY DEF RegType, UserType

\* An open connection leaves a user that keeps others.
LEMMA OneLeavesKeepsState ==
    ASSUME NEW cs, NEW r, StateOK(cs, r), NEW c \in Conn, cs[c].open,
           NEW o \in UserObj, NEW u \in Uid, NEW h \in Handle,
           cs[c].uid = u, cs[c].handle = h, r.byId[u] = o,
           NEW q, LeftOne(r, q, o, u, h, c), ~IsMsgConnEmpty(q, o)
    PROVE  StateOK(Freed(cs, c), q) /\ \A p \in UserObj : c \notin q.user[p].unval
<1>. DEFINE ds == Freed(cs, c)
<1>1. /\ r \in RegType /\ r.user[o].live /\ r.user[o].uid = u /\ r.user[o].conns[h] = c
      /\ \A p \in UserObj : c \notin r.user[p].unval
      /\ \A p \in UserObj, j \in Handle : r.user[p].conns[j] = c => p = o /\ j = h
    BY OpenConnFacts DEF StateOK, IndexOK
<1>2. /\ ConnOK(ds) /\ ~ds[c].open
      /\ \A d \in Conn : d # c => ds[d] = cs[d]
    BY FreedConn DEF StateOK
<1>. HIDE DEF ds
<1>0. /\ \A p \in UserObj : p # o => q.user[p] = r.user[p]
      /\ \A j \in Handle : q.user[o].conns[j] = IF j = h THEN NoConn ELSE r.user[o].conns[j]
      /\ q.user[o].live = r.user[o].live /\ q.user[o].name = r.user[o].name
      /\ q.user[o].uid = r.user[o].uid /\ q.user[o].unval = r.user[o].unval
    BY <1>1 DEF LeftOne
<1>3. \A p \in UserObj : /\ q.user[p].live = r.user[p].live /\ q.user[p].name = r.user[p].name
                         /\ q.user[p].uid = r.user[p].uid /\ q.user[p].unval = r.user[p].unval
                         /\ \A j \in Handle : q.user[p].conns[j] # NoConn =>
                                q.user[p].conns[j] = r.user[p].conns[j] /\ (p = o => j # h)
                         /\ p # o => q.user[p] = r.user[p]
    BY <1>0
<1>4. q \in RegType /\ q.byName = r.byName /\ q.byId = r.byId
    BY DEF LeftOne
<1>5. IndexOK(q)
    BY <1>1, <1>3, <1>4, RegEntries DEF StateOK, IndexOK
<1>6. ConnsOK(ds, q)
    <2>1. ASSUME NEW p \in UserObj, NEW j \in Handle, q.user[p].conns[j] # NoConn
          PROVE  /\ ds[q.user[p].conns[j]].handle = j
                 /\ ds[q.user[p].conns[j]].open
                 /\ ds[q.user[p].conns[j]].uid = q.user[p].uid
        <3>1. /\ q.user[p].conns[j] = r.user[p].conns[j] /\ r.user[p].conns[j] \in Conn
              /\ r.user[p].conns[j] # c
            BY <1>1, <1>3, <2>1, RegEntries
        <3>. QED BY <1>2, <1>3, <2>1, <3>1 DEF StateOK, ConnsOK
    <2>2. ASSUME NEW p \in UserObj, NEW d \in q.user[p].unval
          PROVE  ds[d].handle \in Handle /\ ~ds[d].open /\ ds[d].name = q.user[p].name
        <3>1. d \in r.user[p].unval /\ d \in Conn /\ d # c
            BY <1>1, <1>3, <2>2, RegEntries
        <3>. QED BY <1>2, <1>3, <3>1 DEF StateOK, ConnsOK
    <2>. QED BY <2>1, <2>2 DEF ConnsOK
<1>7. OpenOK(ds, q)
    <2>. SUFFICES ASSUME NEW d \in Conn, ds[d].open
         PROVE q.byId[ds[d].uid] # NoUser /\ q.user[q.byId[ds[d].uid]].conns[ds[d].handle] = d
        BY DEF OpenOK
    <2>1. d # c /\ ds[d] = cs[d]
        BY <1>2
    <2>0. cs[d].open
        BY <2>1
    <2>2. /\ r.byId[cs[d].uid] \in UserObj /\ cs[d].handle \in Handle
          /\ r.user[r.byId[cs[d].uid]].conns[cs[d].handle] = d
        BY <2>0, OpenConnFacts
    <2>3. cs[d].handle # h
        BY <2>1 DEF StateOK, ConnOK
    <2>4. \A p \in UserObj, j \in Handle : j # h => q.user[p].conns[j] = r.user[p].conns[j]
        BY <1>0
    <2>5. q.byId[ds[d].uid] = r.byId[cs[d].uid]
        BY <1>4, <2>1
    <2>6. q.user[r.byId[cs[d].uid]].conns[cs[d].handle] = d
        BY <2>2, <2>3, <2>4
    <2>. QED BY <2>1, <2>2, <2>5, <2>6, NullAssumption
<1>8. LiveOK(q)
    <2>1. \A p \in UserObj : p # o => (IsMsgConnEmpty(q, p) <=> IsMsgConnEmpty(r, p))
        BY <1>3 DEF IsMsgConnEmpty
    <2>. QED BY <1>1, <1>3, <2>1, NullAssumption DEF StateOK, LiveOK
<1>. QED BY <1>1, <1>2, <1>3, <1>5, <1>6, <1>7, <1>8 DEF StateOK, ds

\* The last open connection of a user leaves, and the user is deleted, even
\* when other connections still wait for an answer in it.
LEMMA LastLeavesKeepsState ==
    ASSUME NEW cs, NEW r, StateOK(cs, r), NEW c \in Conn, cs[c].open,
           NEW o \in UserObj, NEW u \in Uid, NEW h \in Handle,
           cs[c].uid = u, cs[c].handle = h, r.byId[u] = o,
           NEW q, LeftOne(r, q, o, u, h, c), IsMsgConnEmpty(q, o),
           NEW n, n = r.user[o].name
    PROVE  /\ StateOK(Freed(cs, c), DeleteUser(q, o, u, n))
           /\ \A p \in UserObj : c \notin DeleteUser(q, o, u, n).user[p].unval
<1>. DEFINE s == DeleteUser(q, o, u, n)
            ds == Freed(cs, c)
<1>1. /\ r \in RegType /\ r.user[o].live /\ r.user[o].uid = u /\ r.user[o].conns[h] = c
      /\ \A p \in UserObj : c \notin r.user[p].unval
      /\ \A p \in UserObj, j \in Handle : r.user[p].conns[j] = c => p = o /\ j = h
    BY OpenConnFacts DEF StateOK, IndexOK
<1>2. /\ ConnOK(ds) /\ ~ds[c].open
      /\ \A d \in Conn : d # c => ds[d] = cs[d]
    BY FreedConn DEF StateOK
<1>3. /\ s \in RegType
      /\ \A m \in Name : s.byName[m] = IF m = r.user[o].name THEN NoUser ELSE r.byName[m]
      /\ \A v \in Uid : s.byId[v] = IF v = u THEN NoUser ELSE r.byId[v]
      /\ s.user[o] = DeadUser
      /\ \A p \in UserObj : p # o => s.user[p] = r.user[p]
    BY DeleteUserResult DEF LeftOne
<1>. HIDE DEF s, ds
<1>4. IsMsgConnEmpty(s, o) /\ s.user[o].unval = {} /\ ~s.user[o].live
    BY <1>3, DeadUserIsEmpty
<1>5. IndexOK(s)
    <2>1. \A m \in Name : s.byName[m] # NoUser =>
            s.user[s.byName[m]].live /\ s.user[s.byName[m]].name = m
        <3>1. \A m \in Name : s.byName[m] # NoUser => s.byName[m] \in UserObj /\ s.byName[m] # o
            BY <1>1, <1>3, RegEntries DEF StateOK, IndexOK
        <3>. QED BY <1>3, <3>1 DEF StateOK, IndexOK
    <2>2. \A v \in Uid : s.byId[v] # NoUser =>
            s.user[s.byId[v]].live /\ s.user[s.byId[v]].uid = v
        <3>1. \A v \in Uid : s.byId[v] # NoUser => s.byId[v] \in UserObj /\ s.byId[v] # o
            BY <1>1, <1>3, RegEntries DEF StateOK, IndexOK
        <3>. QED BY <1>3, <3>1 DEF StateOK, IndexOK
    <2>3. ASSUME NEW p \in UserObj, p # o
          PROVE  IF s.user[p].live
                 THEN /\ s.user[p].name \in Name
                      /\ s.byName[s.user[p].name] = p
                      /\ s.user[p].uid # NoUid =>
                            /\ s.byId[s.user[p].uid] = p
                            /\ s.user[p].uid = UidOf[s.user[p].name]
                 ELSE s.user[p] = DeadUser
        <3>1. s.user[p] = r.user[p] /\ r.user[p].uid \in Uid \cup {NoUid}
            BY <1>1, <1>3, <2>3, RegEntries
        <3>2. r.user[p].live => r.user[p].name # r.user[o].name /\ r.user[p].uid # u
            BY <1>1, <2>3, NullAssumption DEF StateOK, IndexOK
        <3>3. IF r.user[p].live
              THEN /\ r.user[p].name \in Name
                   /\ r.byName[r.user[p].name] = p
                   /\ r.user[p].uid # NoUid =>
                        /\ r.byId[r.user[p].uid] = p
                        /\ r.user[p].uid = UidOf[r.user[p].name]
              ELSE r.user[p] = DeadUser
            BY DEF StateOK, IndexOK
        <3>. QED BY <1>3, <3>1, <3>2, <3>3
    <2>. QED BY <1>3, <1>4, <2>1, <2>2, <2>3 DEF IndexOK
<1>6. ConnsOK(ds, s)
    <2>1. ASSUME NEW p \in UserObj, NEW j \in Handle, s.user[p].conns[j] # NoConn
          PROVE  /\ ds[s.user[p].conns[j]].handle = j
                 /\ ds[s.user[p].conns[j]].open
                 /\ ds[s.user[p].conns[j]].uid = s.user[p].uid
        <3>1. p # o
            BY <1>4, <2>1 DEF IsMsgConnEmpty
        <3>2. /\ s.user[p] = r.user[p] /\ r.user[p].conns[j] \in Conn
              /\ r.user[p].conns[j] # c
            BY <1>1, <1>3, <2>1, <3>1, RegEntries
        <3>. QED BY <1>2, <2>1, <3>2 DEF StateOK, ConnsOK
    <2>2. ASSUME NEW p \in UserObj, NEW d \in s.user[p].unval
          PROVE  ds[d].handle \in Handle /\ ~ds[d].open /\ ds[d].name = s.user[p].name
        <3>1. p # o
            BY <1>4, <2>2
        <3>2. s.user[p] = r.user[p] /\ d \in r.user[p].unval /\ d \in Conn /\ d # c
            BY <1>1, <1>3, <2>2, <3>1, RegEntries
        <3>3. cs[d].handle \in Handle /\ ~cs[d].open /\ cs[d].name = r.user[p].name
            BY <3>2 DEF StateOK, ConnsOK
        <3>4. ds[d] = cs[d]
            BY <1>2, <3>2
        <3>. QED BY <3>2, <3>3, <3>4
    <2>. QED BY <2>1, <2>2 DEF ConnsOK
<1>7. OpenOK(ds, s)
    <2>. SUFFICES ASSUME NEW d \in Conn, ds[d].open
         PROVE s.byId[ds[d].uid] # NoUser /\ s.user[s.byId[ds[d].uid]].conns[ds[d].handle] = d
        BY DEF OpenOK
    <2>1. d # c /\ ds[d] = cs[d]
        BY <1>2
    <2>2. /\ r.byId[cs[d].uid] \in UserObj /\ cs[d].handle \in Handle /\ cs[d].uid \in Uid
          /\ r.user[r.byId[cs[d].uid]].conns[cs[d].handle] = d
          /\ r.user[r.byId[cs[d].uid]].uid = cs[d].uid
        BY <2>1, OpenConnFacts
    <2>3. cs[d].handle # h
        BY <2>1 DEF StateOK, ConnOK
    <2>4. r.byId[cs[d].uid] # o
        <3>. SUFFICES ASSUME r.byId[cs[d].uid] = o PROVE FALSE
            OBVIOUS
        <3>1. q.user[o].conns[cs[d].handle] = d
            BY <2>2, <2>3 DEF LeftOne
        <3>. QED BY <3>1, <2>2, NullAssumption DEF IsMsgConnEmpty
    <2>5. cs[d].uid # u
        BY <2>4
    <2>6. s.byId[cs[d].uid] = r.byId[cs[d].uid]
        BY <1>3, <2>2, <2>5
    <2>7. s.user[r.byId[cs[d].uid]] = r.user[r.byId[cs[d].uid]]
        BY <1>3, <2>2, <2>4
    <2>. QED BY <2>1, <2>2, <2>6, <2>7, NullAssumption
<1>8. LiveOK(s)
    <2>1. \A p \in UserObj : p # o => (IsMsgConnEmpty(s, p) <=> IsMsgConnEmpty(r, p))
        BY <1>3 DEF IsMsgConnEmpty
    <2>. QED BY <1>3, <1>4, <2>1 DEF StateOK, LiveOK
<1>9. StateOK(ds, s) /\ \A p \in UserObj : c \notin s.user[p].unval
    BY <1>1, <1>2, <1>3, <1>4, <1>5, <1>6, <1>7, <1>8 DEF StateOK
<1>. QED BY <1>9 DEF s, ds

\* The by-id half of Close: an open connection leaves its user, which is
\* deleted with its last one; the invariant holds with c freed.
LEMMA LeaveByIdKeepsState ==
    ASSUME NEW cs, NEW r, StateOK(cs, r), NEW c \in Conn, cs[c].open,
           NEW s, s = DropById(LeaveById(r, c, cs[c]), cs[c])
    PROVE  StateOK(Freed(cs, c), s) /\ \A o \in UserObj : c \notin s.user[o].unval
<1>. DEFINE u == cs[c].uid
            h == cs[c].handle
            o == r.byId[u]
            q1 == DelMsgConn(r, o, h)
            q == DelUnValidate(q1, o, c)
<1>0. /\ u \in Uid /\ h \in Handle /\ o \in UserObj
      /\ r.user[o].live /\ r.user[o].uid = u /\ r.user[o].conns[h] = c
      /\ \A p \in UserObj : c \notin r.user[p].unval
      /\ \A p \in UserObj, j \in Handle : r.user[p].conns[j] = c => p = o /\ j = h
      /\ UserById(r, u) = o
    BY OpenConnFacts
<1>a. r \in RegType /\ r.user[o] \in UserType
    BY <1>0 DEF StateOK, IndexOK, RegType
<1>1. Replaced(r, q1, o, [r.user[o] EXCEPT !.conns = [@ EXCEPT ![h] = NoConn]])
    BY <1>0, <1>a, DelMsgConnResult
<1>2. Replaced(q1, q, o, [q1.user[o] EXCEPT !.unval = @ \ {c}])
    <2>1. q1 \in RegType
        BY <1>1 DEF Replaced
    <2>. HIDE DEF q1, o
    <2>. QED BY <1>0, <2>1, DelUnValidateResult
<1>3. LeaveById(r, c, cs[c]) = q
    BY <1>0, NullAssumption DEF LeaveById
<1>b. cs[c].uid = u /\ cs[c].handle = h /\ r.byId[u] = o
    OBVIOUS
<1>. HIDE DEF q, q1, u, h, o
<1>4. LeftOne(r, q, o, u, h, c)
    <2>1. /\ q1 \in RegType /\ q1.byName = r.byName /\ q1.byId = r.byId
          /\ q1.user[o] = [r.user[o] EXCEPT !.conns = [@ EXCEPT ![h] = NoConn]]
          /\ \A p \in UserObj : p # o => q1.user[p] = r.user[p]
        BY <1>1 DEF Replaced
    <2>2. /\ q \in RegType /\ q.byName = r.byName /\ q.byId = r.byId
          /\ q.user[o] = [q1.user[o] EXCEPT !.unval = @ \ {c}]
          /\ \A p \in UserObj : p # o => q.user[p] = r.user[p]
        BY <2>1, <1>2 DEF Replaced
    <2>3. /\ q1.user[o].live = r.user[o].live /\ q1.user[o].name = r.user[o].name
          /\ q1.user[o].uid = r.user[o].uid /\ q1.user[o].unval = r.user[o].unval
          /\ q1.user[o].conns = [r.user[o].conns EXCEPT ![h] = NoConn]
        BY <2>1, <1>a DEF UserType
    <2>4. \A j \in Handle : q1.user[o].conns[j] = IF j = h THEN NoConn ELSE r.user[o].conns[j]
        BY <2>3, <1>a, <1>0 DEF UserType
    <2>5. q1.user[o] \in UserType
        BY <2>1, <1>0 DEF RegType
    <2>6. /\ q.user[o].live = q1.user[o].live /\ q.user[o].name = q1.user[o].name
          /\ q.user[o].uid = q1.user[o].uid /\ q.user[o].unval = q1.user[o].unval \ {c}
          /\ q.user[o].conns = q1.user[o].conns
        BY <2>2, <2>5 DEF UserType
    <2>7. q.user[o].unval = r.user[o].unval
        BY <2>3, <2>6, <1>0
    <2>8. /\ q \in RegType /\ q.byName = r.byName /\ q.byId = r.byId
          /\ \A p \in UserObj : p # o => q.user[p] = r.user[p]
        BY <2>2
    <2>9. q.user[o].live /\ q.user[o].name = r.user[o].name /\ q.user[o].uid = u
        BY <1>0, <2>3, <2>6
    <2>10. \A j \in Handle : q.user[o].conns[j] = IF j = h THEN NoConn ELSE r.user[o].conns[j]
        BY <2>4, <2>6
    <2>. QED BY <2>7, <2>8, <2>9, <2>10 DEF LeftOne
<1>5. UserById(q, u) = o
    BY <1>0, <1>4, <1>b DEF UserById, LeftOne
<1>6. CASE IsMsgConnEmpty(q, o)
    <2>1. s = DeleteUser(q, o, u, r.user[o].name)
        BY <1>0, <1>b, <1>3, <1>4, <1>5, <1>6, NullAssumption
        DEF DropById, RemoveIfEmpty, RemoveImUser, LeftOne
    <2>. QED BY <1>0, <1>b, <1>4, <1>6, <2>1, LastLeavesKeepsState
<1>7. CASE ~IsMsgConnEmpty(q, o)
    <2>1. s = q
        BY <1>0, <1>b, <1>3, <1>5, <1>7, NullAssumption DEF DropById, RemoveIfEmpty
    <2>. QED BY <1>0, <1>b, <1>4, <1>7, <2>1, OneLeavesKeepsState
<1>. QED BY <1>6, <1>7

-----------------------------------------------------------------------------
(***************************************************************************)
(* The callbacks.                                                          *)
(***************************************************************************)
LEMMA CloseKeepsState ==
    ASSUME StateOK(conn, reg), NEW c \in Conn, Close(c)
    PROVE  StateOK(conn', reg')
<1>. DEFINE k == conn[c]
            s == DropById(LeaveById(reg, c, k), k)
            p == UserByName(s, k.name)
<1>1. conn' = Freed(conn, c) /\ reg' = CloseByName(s, c, k)
    BY DEF Close, Freed
<1>2. CASE conn[c].open
    <2>1. StateOK(Freed(conn, c), s) /\ \A o \in UserObj : c \notin s.user[o].unval
        BY <1>2, LeaveByIdKeepsState
    <2>. HIDE DEF s
    <2>2. CASE p = NoUser
        BY <1>1, <2>1, <2>2 DEF CloseByName
    <2>3. CASE p # NoUser
        <3>1. p \in UserObj /\ s.user[p].live
            BY <2>1, <2>3 DEF UserByName, StateOK, IndexOK, RegType
        <3>2. reg' = RemoveIfEmpty(DelUnValidate(s, p, c), p)
            BY <1>1, <2>3 DEF CloseByName
        <3>3. StateOK(Freed(conn, c), reg')
            BY <2>1, <3>1, <3>2, LeaveByNameKeepsState
        <3>. QED BY <1>1, <3>3
    <2>. QED BY <2>2, <2>3
<1>3. CASE ~conn[c].open
    <2>1. s = reg
        BY <1>3, NullAssumption DEF StateOK, ConnOK, UserById, LeaveById, DropById
    <2>. HIDE DEF s
    <2>2. \A o \in UserObj : c \in reg.user[o].unval =>
            /\ reg.user[o].live /\ reg.user[o].name = conn[c].name
            /\ UserByName(reg, conn[c].name) = o
        <3>. SUFFICES ASSUME NEW o \in UserObj, c \in reg.user[o].unval
             PROVE /\ reg.user[o].live /\ reg.user[o].name = conn[c].name
                   /\ UserByName(reg, conn[c].name) = o
            OBVIOUS
        <3>1. reg.user[o].live
            BY DeadUserIsEmpty DEF StateOK, IndexOK
        <3>. QED BY <3>1 DEF StateOK, IndexOK, ConnsOK, UserByName
    <2>3. CASE p = NoUser
        <3>1. reg' = reg
            BY <1>1, <2>1, <2>3 DEF CloseByName
        <3>2. \A o \in UserObj : c \notin reg.user[o].unval
            BY <2>1, <2>2, <2>3, NullAssumption
        <3>. QED BY <1>1, <1>3, <3>1, <3>2, FreeKeepsState
    <2>4. CASE p # NoUser
        <3>1. p \in UserObj /\ reg.user[p].live
            BY <2>1, <2>4 DEF UserByName, StateOK, IndexOK, RegType
        <3>2. reg' = RemoveIfEmpty(DelUnValidate(reg, p, c), p)
            BY <1>1, <2>1, <2>4 DEF CloseByName
        <3>3. /\ StateOK(conn, reg') /\ c \notin reg'.user[p].unval
              /\ \A o \in UserObj : reg'.user[o].unval \subseteq reg.user[o].unval
            BY <3>1, <3>2, LeaveByNameKeepsState
        <3>4. \A o \in UserObj : c \notin reg'.user[o].unval
            BY <2>1, <2>2, <3>3
        <3>. QED BY <1>1, <1>3, <3>3, <3>4, FreeKeepsState
    <2>. QED BY <2>3, <2>4
<1>. QED BY <1>2, <1>3

LEMMA ConnectKeepsState ==
    ASSUME StateOK(conn, reg), NEW c \in Conn, NEW h \in Handle, OnConnect(c, h)
    PROVE  StateOK(conn', reg')
<1>. USE DEF StateOK, OnConnect
<1>1. conn[c] = FreeConn /\ conn \in [Conn -> ConnType]
    BY DEF ConnOK, Up
<1>2. /\ conn'[c] = [conn[c] EXCEPT !.handle = h] /\ conn' \in [Conn -> ConnType]
      /\ \A d \in Conn : d # c => conn'[d] = conn[d]
    BY <1>1 DEF ConnType
<1>3. /\ conn'[c].handle = h /\ conn'[c].name = NoName /\ ~conn'[c].open
      /\ conn'[c].uid = NoUid
      /\ conn[c].handle = NoHandle /\ ~conn[c].open
    BY <1>1, <1>2 DEF FreeConn
<1>4. \A d \in Conn : conn[d].handle # h
    OBVIOUS
<1>5. ConnOK(conn')
    BY <1>2, <1>3, <1>4, NullAssumption DEF ConnOK
<1>6. \A o \in UserObj : /\ c \notin reg.user[o].unval
                         /\ \A j \in Handle : reg.user[o].conns[j] # c \/ c = NoConn
    BY <1>3, NullAssumption DEF ConnsOK
<1>7. ConnsOK(conn', reg)
    BY <1>2, <1>6, RegEntries, NullAssumption DEF ConnsOK, IndexOK
<1>8. OpenOK(conn', reg)
    BY <1>2, <1>3 DEF OpenOK
<1>. QED BY <1>5, <1>7, <1>8

\* s is r once c waits for an answer in the user o of login name n, which was
\* there already or is made for it.
JoinedPending(r, s, o, n, c) ==
    /\ s \in RegType
    /\ s.byId = r.byId
    /\ \A m \in Name : s.byName[m] = IF m = n THEN o ELSE r.byName[m]
    /\ \A p \in UserObj : p # o => s.user[p] = r.user[p]
    /\ s.user[o].live /\ s.user[o].name = n /\ s.user[o].uid = r.user[o].uid
    /\ s.user[o].conns = r.user[o].conns
    /\ s.user[o].unval = r.user[o].unval \cup {c}
    /\ IF r.user[o].live THEN r.byName[n] = o /\ r.user[o].name = n ELSE r.byName[n] = NoUser

\* ds is cs once c has sent its login request.
LoginSent(cs, ds, c, n) ==
    /\ ds \in [Conn -> ConnType]
    /\ ds[c].name = n /\ ds[c].class \in Class /\ ds[c].handle = cs[c].handle
    /\ ds[c].uid = cs[c].uid /\ ds[c].open = cs[c].open
    /\ \A d \in Conn : d # c => ds[d] = cs[d]
    /\ cs[c].handle # NoHandle /\ cs[c].name = NoName

LEMMA JoinKeepsState ==
    ASSUME NEW cs, NEW ds, NEW r, NEW s, StateOK(cs, r), NEW c \in Conn, NEW n \in Name,
           NEW o \in UserObj, LoginSent(cs, ds, c, n), JoinedPending(r, s, o, n, c)
    PROVE  StateOK(ds, s)
<1>. USE DEF StateOK
<1>0. ~cs[c].open /\ cs[c].handle \in Handle
    BY NullAssumption DEF ConnOK, ConnType, LoginSent
<1>1. ConnOK(ds)
    BY <1>0, NullAssumption DEF ConnOK, LoginSent
<1>2. r \in RegType /\ s \in RegType
    BY DEF IndexOK, JoinedPending
<1>3. /\ \A p \in UserObj : p # o => s.user[p] = r.user[p]
      /\ \A p \in UserObj : s.user[p].conns = r.user[p].conns /\ s.user[p].uid = r.user[p].uid
      /\ s.byId = r.byId /\ s.user[o].live /\ s.user[o].name = n
      /\ s.user[o].unval = r.user[o].unval \cup {c}
      /\ \A m \in Name : s.byName[m] = IF m = n THEN o ELSE r.byName[m]
      /\ r.user[o].live => r.byName[n] = o /\ r.user[o].name = n
      /\ ~r.user[o].live => r.byName[n] = NoUser
    BY DEF JoinedPending
<1>4. ~r.user[o].live =>
        /\ r.user[o].uid = NoUid /\ r.user[o].unval = {}
        /\ \A h \in Handle : r.user[o].conns[h] = NoConn
        /\ \A m \in Name : r.byName[m] # o
        /\ \A v \in Uid : r.byId[v] # o
    BY <1>2, DeadUserIsEmpty, NullAssumption DEF IndexOK, IsMsgConnEmpty
<1>5. IndexOK(s)
    <2>1. \A m \in Name : s.byName[m] # NoUser =>
            s.user[s.byName[m]].live /\ s.user[s.byName[m]].name = m
        <3>. SUFFICES ASSUME NEW m \in Name, s.byName[m] # NoUser
             PROVE s.user[s.byName[m]].live /\ s.user[s.byName[m]].name = m
            OBVIOUS
        <3>1. CASE m = n
            BY <1>3, <3>1
        <3>2. CASE m # n
            <4>1. s.byName[m] = r.byName[m] /\ r.byName[m] \in UserObj
                BY <1>2, <1>3, <3>2, RegEntries
            <4>2. r.user[r.byName[m]].live /\ r.user[r.byName[m]].name = m
                BY <4>1, NullAssumption DEF IndexOK
            <4>3. r.byName[m] # o
                BY <1>3, <1>4, <3>2, <4>2
            <4>. QED BY <1>3, <4>1, <4>2, <4>3
        <3>. QED BY <3>1, <3>2
    <2>2. \A u \in Uid : s.byId[u] # NoUser =>
            s.user[s.byId[u]].live /\ s.user[s.byId[u]].uid = u
        BY <1>2, <1>3, <1>4, RegEntries DEF IndexOK
    <2>3. ASSUME NEW p \in UserObj, p # o
          PROVE  IF s.user[p].live
                 THEN /\ s.user[p].name \in Name
                      /\ s.byName[s.user[p].name] = p
                      /\ s.user[p].uid # NoUid =>
                            /\ s.byId[s.user[p].uid] = p
                            /\ s.user[p].uid = UidOf[s.user[p].name]
                 ELSE s.user[p] = DeadUser
        <3>1. s.user[p] = r.user[p]
            BY <1>3, <2>3
        <3>2. r.user[p].live => r.user[p].name # n
            BY <1>3, <2>3, NullAssumption DEF IndexOK
        <3>. QED BY <1>3, <3>1, <3>2 DEF IndexOK
    <2>4. /\ s.user[o].name \in Name /\ s.byName[s.user[o].name] = o
          /\ s.user[o].uid # NoUid =>
                /\ s.byId[s.user[o].uid] = o
                /\ s.user[o].uid = UidOf[s.user[o].name]
        BY <1>3, <1>4 DEF IndexOK
    <2>. QED BY <1>2, <1>3, <2>1, <2>2, <2>3, <2>4 DEF IndexOK
<1>6. ConnsOK(ds, s)
    <2>1. ASSUME NEW p \in UserObj, NEW h \in Handle, s.user[p].conns[h] # NoConn
          PROVE  /\ ds[s.user[p].conns[h]].handle = h
                 /\ ds[s.user[p].conns[h]].open
                 /\ ds[s.user[p].conns[h]].uid = s.user[p].uid
        <3>1. s.user[p].conns[h] = r.user[p].conns[h] /\ r.user[p].conns[h] \in Conn
              /\ s.user[p].uid = r.user[p].uid
            BY <1>2, <1>3, <2>1, RegEntries
        <3>2. /\ cs[r.user[p].conns[h]].handle = h
              /\ cs[r.user[p].conns[h]].open
              /\ cs[r.user[p].conns[h]].uid = r.user[p].uid
            BY <2>1, <3>1 DEF ConnsOK
        <3>. QED BY <1>0, <3>1, <3>2 DEF LoginSent
    <2>2. ASSUME NEW p \in UserObj, NEW d \in s.user[p].unval
          PROVE  ds[d].handle \in Handle /\ ~ds[d].open /\ ds[d].name = s.user[p].name
        <3>1. CASE d = c
            <4>1. p = o
                <5>. SUFFICES ASSUME p # o PROVE FALSE
                    OBVIOUS
                <5>1. c \in r.user[p].unval
                    BY <1>3, <2>2, <3>1
                <5>2. cs[c].name = r.user[p].name /\ r.user[p].live
                    BY <5>1, DeadUserIsEmpty, <1>2 DEF ConnsOK, IndexOK
                <5>. QED BY <5>2, NullAssumption DEF IndexOK, LoginSent
            <4>. QED BY <1>0, <1>3, <3>1, <4>1 DEF LoginSent
        <3>2. CASE d # c
            <4>1. d \in r.user[p].unval /\ d \in Conn
                BY <1>2, <1>3, <2>2, <3>2, RegEntries
            <4>2. cs[d].handle \in Handle /\ ~cs[d].open /\ cs[d].name = r.user[p].name
                BY <4>1 DEF ConnsOK
            <4>3. r.user[p].name = s.user[p].name
                BY <1>3, <1>4, <4>1
            <4>. QED BY <3>2, <4>1, <4>2, <4>3 DEF LoginSent
        <3>. QED BY <3>1, <3>2
    <2>. QED BY <2>1, <2>2 DEF ConnsOK
<1>7. OpenOK(ds, s)
    <2>. SUFFICES ASSUME NEW d \in Conn, ds[d].open
         PROVE s.byId[ds[d].uid] # NoUser /\ s.user[s.byId[ds[d].uid]].conns[ds[d].handle] = d
        BY DEF OpenOK
    <2>1. cs[d].open /\ ds[d] = cs[d]
        BY <1>0 DEF LoginSent
    <2>. HIDE DEF StateOK
    <2>2. /\ r.byId[cs[d].uid] \in UserObj
          /\ r.user[r.byId[cs[d].uid]].conns[cs[d].handle] = d
        BY <2>1, OpenConnFacts
    <2>3. s.byId = r.byId /\ \A p \in UserObj : s.user[p].conns = r.user[p].conns
        BY <1>3
    <2>. QED BY <2>1, <2>2, <2>3, NullAssumption
<1>8. LiveOK(s)
    <2>1. \A p \in UserObj : IsMsgConnEmpty(s, p) <=> IsMsgConnEmpty(r, p)
        BY <1>3 DEF IsMsgConnEmpty
    <2>2. ~r.user[o].live => IsMsgConnEmpty(r, o)
        BY <1>4 DEF IsMsgConnEmpty
    <2>. QED BY <1>3, <1>4, <2>1, <2>2 DEF LiveOK
<1>. QED BY <1>1, <1>5, <1>6, <1>7, <1>8

LEMMA LoginRequestKeepsState ==
    ASSUME StateOK(conn, reg), NEW c \in Conn, NEW n \in Name, NEW k \in Class,
           HandleLoginRequest(c, n, k)
    PROVE  StateOK(conn', reg')
<1>1. reg \in RegType /\ conn \in [Conn -> ConnType]
    BY DEF StateOK, IndexOK, ConnOK
<1>2. LoginSent(conn, conn', c, n)
    BY <1>1 DEF HandleLoginRequest, MayLogin, LoginSent, ConnType, Up
<1>. DEFINE o == UserByName(reg, n)
<1>3. o = reg.byName[n] /\ o \in UserObj \cup {NoUser}
    BY <1>1, RegEntries DEF UserByName
<1>4. CASE o # NoUser
    <2>1. reg' = AddUnValidate(reg, o, c)
        BY <1>4 DEF HandleLoginRequest
    <2>2. /\ Replaced(reg, reg', o, [reg.user[o] EXCEPT !.unval = @ \cup {c}])
        BY <1>1, <1>3, <1>4, <2>1, AddUnValidateResult
    <2>3. o \in UserObj /\ reg.user[o] \in UserType
          /\ reg.user[o].live /\ reg.user[o].name = n
        BY <1>1, <1>3, <1>4, RegEntries DEF StateOK, IndexOK
    <2>. HIDE DEF o
    <2>4. JoinedPending(reg, reg', o, n, c)
        BY <1>3, <2>2, <2>3 DEF JoinedPending, Replaced, UserType
    <2>. QED BY <1>2, <2>3, <2>4, JoinKeepsState
<1>5. CASE o = NoUser
    <2>1. PICK new \in UserObj :
            /\ ~reg.user[new].live
            /\ reg' = AddUnValidate(AddImUserByLoginName(reg, new, n), new, c)
        BY <1>5 DEF HandleLoginRequest
    <2>. DEFINE x == [DeadUser EXCEPT !.live = TRUE, !.name = n]
                q == AddImUserByLoginName(reg, new, n)
    <2>2. /\ x \in UserType /\ x.live /\ x.name = n /\ x.uid = NoUid /\ x.unval = {}
          /\ x.conns = DeadUser.conns
        BY DEF DeadUser, UserType
    <2>3. /\ q.byName = [reg.byName EXCEPT ![n] = new] /\ q.byId = reg.byId
          /\ q.user = [reg.user EXCEPT ![new] = x] /\ q \in RegType
        <3>. HIDE DEF x
        <3>. QED BY <1>1, <2>2 DEF AddImUserByLoginName, RegType, x
    <2>. HIDE DEF x, q
    <2>4. /\ q \in RegType /\ q.byId = reg.byId /\ q.user[new] = x
          /\ \A m \in Name : q.byName[m] = IF m = n THEN new ELSE reg.byName[m]
          /\ \A p \in UserObj : p # new => q.user[p] = reg.user[p]
        BY <1>1, <2>2, <2>3 DEF RegType
    <2>5. Replaced(q, reg', new, [q.user[new] EXCEPT !.unval = @ \cup {c}])
        BY <2>1, <2>4, AddUnValidateResult DEF q
    <2>6. /\ reg' \in RegType /\ reg'.byName = q.byName /\ reg'.byId = q.byId
          /\ \A p \in UserObj : p # new => reg'.user[p] = q.user[p]
          /\ reg'.user[new] = [x EXCEPT !.unval = @ \cup {c}]
        BY <2>4, <2>5 DEF Replaced
    <2>7. /\ reg'.user[new].live /\ reg'.user[new].name = n /\ reg'.user[new].uid = NoUid
          /\ reg'.user[new].conns = DeadUser.conns /\ reg'.user[new].unval = {c}
        BY <2>2, <2>6 DEF UserType
    <2>8. /\ reg.user[new].unval = {} /\ reg.user[new].uid = NoUid
          /\ reg.user[new].conns = DeadUser.conns
          /\ reg.byName[n] = NoUser
        <3>1. reg.user[new] = DeadUser
            BY <2>1 DEF StateOK, IndexOK
        <3>. QED BY <1>1, <1>3, <1>5, <3>1, DeadUserIsEmpty
    <2>9. JoinedPending(reg, reg', new, n, c)
        BY <2>1, <2>4, <2>6, <2>7, <2>8 DEF JoinedPending
    <2>. QED BY <1>2, <2>9, JoinKeepsState
<1>. QED BY <1>4, <1>5

-----------------------------------------------------------------------------
(***************************************************************************)
(* An accepted login.                                                      *)
(***************************************************************************)

\* s is r once c is validated in the user o for the id u, under the handle h.
JoinedValid(r, s, o, u, h, c) ==
    /\ s \in RegType
    /\ s.byName = r.byName
    /\ \A v \in Uid : s.byId[v] = IF v = u THEN o ELSE r.byId[v]
    /\ \A p \in UserObj : p # o => s.user[p] = r.user[p]
    /\ s.user[o].live = r.user[o].live /\ s.user[o].name = r.user[o].name
    /\ s.user[o].uid = u
    /\ \A j \in Handle : s.user[o].conns[j] = IF j = h THEN c ELSE r.user[o].conns[j]
    /\ s.user[o].unval = r.user[o].unval \ {c}

\* ds is cs once the login of c is approved for the id u.
Approved(cs, ds, c, u) ==
    /\ ds \in [Conn -> ConnType]
    /\ ds[c].name = cs[c].name /\ ds[c].class = cs[c].class /\ ds[c].handle = cs[c].handle
    /\ ds[c].uid = u /\ ds[c].open
    /\ \A d \in Conn : d # c => ds[d] = cs[d]

\* The open connection d is found by its id and its handle.
WellPlaced(cs, r, d) ==
    /\ r.byId[cs[d].uid] \in UserObj /\ cs[d].handle \in Handle /\ cs[d].uid \in Uid
    /\ r.user[r.byId[cs[d].uid]].conns[cs[d].handle] = d
    /\ r.user[r.byId[cs[d].uid]].uid = cs[d].uid

LEMMA OpenConnPlace ==
    ASSUME NEW cs, NEW r, StateOK(cs, r)
    PROVE  \A d \in Conn : cs[d].open => WellPlaced(cs, r, d)
<1>. SUFFICES ASSUME NEW d \in Conn, cs[d].open PROVE WellPlaced(cs, r, d)
    OBVIOUS
<1>. QED BY OpenConnFacts DEF WellPlaced

LEMMA JoinValidKeepsState ==
    ASSUME NEW cs, NEW ds, NEW r, NEW s, StateOK(cs, r), NEW c \in Conn, NEW u \in Uid,
           NEW o \in UserObj, NEW h \in Handle,
           Approved(cs, ds, c, u), JoinedValid(r, s, o, u, h, c),
           cs[c].handle = h, ~cs[c].open, cs[c].name \in Name,
           r.user[o].live, u = UidOf[r.user[o].name],
           r.user[o].uid = u \/ (r.user[o].uid = NoUid /\ r.byId[u] = NoUser),
           \A p \in UserObj : p # o => c \notin r.user[p].unval
    PROVE  StateOK(ds, s)
<1>a. \A d \in Conn : cs[d].open => WellPlaced(cs, r, d)
    BY OpenConnPlace
<1>. USE DEF StateOK
<1>0. /\ r \in RegType /\ s \in RegType
      /\ \A p \in UserObj : p # o => r.user[p].uid # u
    <2>1. r \in RegType /\ s \in RegType
        BY DEF IndexOK, JoinedValid
    <2>2. \A p \in UserObj : r.user[p].uid = u => r.byId[u] = p
        BY <2>1, DeadUserIsEmpty, NullAssumption DEF IndexOK
    <2>. QED BY <2>1, <2>2, NullAssumption
<1>1. ConnOK(ds)
    BY NullAssumption DEF ConnOK, Approved
<1>2. /\ s.byName = r.byName
      /\ \A v \in Uid : s.byId[v] = IF v = u THEN o ELSE r.byId[v]
      /\ \A p \in UserObj : p # o => s.user[p] = r.user[p]
      /\ s.user[o].live = r.user[o].live /\ s.user[o].name = r.user[o].name
      /\ s.user[o].uid = u
      /\ \A j \in Handle : s.user[o].conns[j] = IF j = h THEN c ELSE r.user[o].conns[j]
      /\ s.user[o].unval = r.user[o].unval \ {c}
    BY DEF JoinedValid
<1>3. IndexOK(s)
    <2>1. \A m \in Name : s.byName[m] # NoUser =>
            s.user[s.byName[m]].live /\ s.user[s.byName[m]].name = m
        <3>1. \A p \in UserObj : s.user[p].live = r.user[p].live /\ s.user[p].name = r.user[p].name
            BY <1>2
        <3>. QED BY <1>0, <1>2, <3>1, RegEntries DEF IndexOK
    <2>2. \A v \in Uid : s.byId[v] # NoUser =>
            s.user[s.byId[v]].live /\ s.user[s.byId[v]].uid = v
        <3>. SUFFICES ASSUME NEW v \in Uid, s.byId[v] # NoUser
             PROVE s.user[s.byId[v]].live /\ s.user[s.byId[v]].uid = v
            OBVIOUS
        <3>1. CASE v = u
            BY <1>2, <3>1
        <3>2. CASE v # u
            <4>1. s.byId[v] = r.byId[v] /\ r.byId[v] \in UserObj
                BY <1>0, <1>2, <3>2, RegEntries
            <4>2. r.user[r.byId[v]].live /\ r.user[r.byId[v]].uid = v
                BY <4>1, NullAssumption DEF IndexOK
            <4>3. r.byId[v] # o
                BY <4>2, <3>2, NullAssumption
            <4>. QED BY <1>2, <4>1, <4>2, <4>3
        <3>. QED BY <3>1, <3>2
    <2>3. ASSUME NEW p \in UserObj, p # o
          PROVE  IF s.user[p].live
                 THEN /\ s.user[p].name \in Name
                      /\ s.byName[s.user[p].name] = p
                      /\ s.user[p].uid # NoUid =>
                            /\ s.byId[s.user[p].uid] = p
                            /\ s.user[p].uid = UidOf[s.user[p].name]
                 ELSE s.user[p] = DeadUser
        <3>1. s.user[p] = r.user[p] /\ r.user[p].uid \in Uid \cup {NoUid}
            BY <1>0, <1>2, <2>3, RegEntries
        <3>. QED BY <1>0, <1>2, <2>3, <3>1 DEF IndexOK
    <2>4. /\ s.user[o].live
          /\ s.user[o].name \in Name /\ s.byName[s.user[o].name] = o
          /\ s.byId[s.user[o].uid] = o /\ s.user[o].uid = UidOf[s.user[o].name]
        BY <1>2 DEF IndexOK
    <2>5. \A p \in UserObj :
            IF s.user[p].live
            THEN /\ s.user[p].name \in Name
                 /\ s.byName[s.user[p].name] = p
                 /\ s.user[p].uid # NoUid =>
                       /\ s.byId[s.user[p].uid] = p
                       /\ s.user[p].uid = UidOf[s.user[p].name]
            ELSE s.user[p] = DeadUser
        <3>. HIDE DEF StateOK
        <3>. TAKE p \in UserObj
        <3>1. CASE p = o
            BY <2>4, <3>1
        <3>2. CASE p # o
            BY <2>3, <3>2
        <3>. QED BY <3>1, <3>2
    <2>. HIDE DEF StateOK
    <2>6. s \in RegType
        BY <1>0
    <2>. QED BY <2>1, <2>2, <2>5, <2>6 DEF IndexOK
<1>4. ConnsOK(ds, s)
    <2>1. ASSUME NEW p \in UserObj, NEW j \in Handle, s.user[p].conns[j] # NoConn
          PROVE  /\ ds[s.user[p].conns[j]].handle = j
                 /\ ds[s.user[p].conns[j]].open
                 /\ ds[s.user[p].conns[j]].uid = s.user[p].uid
        <3>1. CASE p = o /\ j = h
            BY <1>2, <3>1 DEF Approved
        <3>2. CASE ~(p = o /\ j = h)
            <4>1. s.user[p].conns[j] = r.user[p].conns[j] /\ r.user[p].conns[j] \in Conn
                BY <1>0, <1>2, <2>1, <3>2, RegEntries
            <4>2. /\ cs[r.user[p].conns[j]].handle = j
                  /\ cs[r.user[p].conns[j]].open
                  /\ cs[r.user[p].conns[j]].uid = r.user[p].uid
                BY <2>1, <4>1 DEF ConnsOK
            <4>3. r.user[p].conns[j] # c
                BY <4>2
            <4>4. r.user[p].uid = s.user[p].uid
                <5>1. r.user[p].uid \in Uid
                    BY <4>1, <4>2 DEF ConnOK
                <5>. QED BY <1>2, <5>1, NullAssumption
            <4>. QED BY <4>1, <4>2, <4>3, <4>4 DEF Approved
        <3>. QED BY <3>1, <3>2
    <2>2. ASSUME NEW p \in UserObj, NEW d \in s.user[p].unval
          PROVE  ds[d].handle \in Handle /\ ~ds[d].open /\ ds[d].name = s.user[p].name
        <3>1. d \in r.user[p].unval /\ d # c /\ d \in Conn /\ s.user[p].name = r.user[p].name
            BY <1>0, <1>2, <2>2, RegEntries
        <3>2. cs[d].handle \in Handle /\ ~cs[d].open /\ cs[d].name = r.user[p].name
            BY <3>1 DEF ConnsOK
        <3>. QED BY <3>1, <3>2 DEF Approved
    <2>. HIDE DEF StateOK
    <2>. QED BY <2>1, <2>2 DEF ConnsOK
<1>5. OpenOK(ds, s)
    <2>. SUFFICES ASSUME NEW d \in Conn, ds[d].open
         PROVE s.byId[ds[d].uid] # NoUser /\ s.user[s.byId[ds[d].uid]].conns[ds[d].handle] = d
        BY DEF OpenOK
    <2>1. CASE d = c
        <3>1. ds[d].uid = u /\ ds[d].handle = h
            BY <2>1 DEF Approved
        <3>. QED BY <1>2, <2>1, <3>1, NullAssumption
    <2>2. CASE d # c
        <3>1. ds[d] = cs[d] /\ cs[d].open
            BY <2>2 DEF Approved
        <3>2. /\ r.byId[cs[d].uid] \in UserObj /\ cs[d].handle \in Handle /\ cs[d].uid \in Uid
              /\ r.user[r.byId[cs[d].uid]].conns[cs[d].handle] = d
              /\ r.user[r.byId[cs[d].uid]].uid = cs[d].uid
            BY <1>a, <3>1 DEF WellPlaced
        <3>3. cs[d].handle # h
            BY <2>2, <3>2 DEF ConnOK
        <3>4. s.byId[cs[d].uid] = r.byId[cs[d].uid]
            <4>1. cs[d].uid = u => r.byId[u] = o
                BY <1>0, <3>2
            <4>. QED BY <1>2, <3>2, <4>1
        <3>5. \A p \in UserObj, j \in Handle : j # h => s.user[p].conns[j] = r.user[p].conns[j]
            BY <1>2
        <3>6. s.user[r.byId[cs[d].uid]].conns[cs[d].handle] = d
            BY <3>2, <3>3, <3>5
        <3>. QED BY <3>1, <3>2, <3>4, <3>6, NullAssumption
    <2>. QED BY <2>1, <2>2
<1>6. LiveOK(s)
    <2>1. \A p \in UserObj : p # o => (IsMsgConnEmpty(s, p) <=> IsMsgConnEmpty(r, p))
        BY <1>2 DEF IsMsgConnEmpty
    <2>2. ~IsMsgConnEmpty(s, o) /\ s.user[o].uid # NoUid
        BY <1>2, NullAssumption DEF IsMsgConnEmpty
    <2>. QED BY <1>2, <2>1, <2>2 DEF LiveOK
<1>. QED BY <1>1, <1>3, <1>4, <1>5, <1>6

\* q and r differ in nothing but where c is listed as waiting.
SameButListing(r, q, c) ==
    /\ q \in RegType /\ q.byName = r.byName /\ q.byId = r.byId
    /\ \A x \in UserObj :
        /\ q.user[x].live = r.user[x].live /\ q.user[x].name = r.user[x].name
        /\ q.user[x].uid = r.user[x].uid /\ q.user[x].conns = r.user[x].conns
        /\ q.user[x].unval \ {c} = r.user[x].unval \ {c}

LEMMA MovedResult ==
    ASSUME NEW r \in RegType, NEW o \in UserObj, NEW p \in UserObj, NEW c \in Conn
    PROVE  LET q == DelUnValidate(AddUnValidate(r, p, c), o, c)
           IN  /\ SameButListing(r, q, c)
               /\ \A x \in UserObj : x # o /\ x # p => q.user[x] = r.user[x]
<1>. DEFINE q1 == AddUnValidate(r, p, c)
            q == DelUnValidate(q1, o, c)
<1>1. Replaced(r, q1, p, [r.user[p] EXCEPT !.unval = @ \cup {c}])
    BY AddUnValidateResult
<1>2. /\ q1 \in RegType /\ q1.byName = r.byName /\ q1.byId = r.byId
      /\ q1.user[p] = [r.user[p] EXCEPT !.unval = @ \cup {c}]
      /\ \A x \in UserObj : x # p => q1.user[x] = r.user[x]
    BY <1>1 DEF Replaced
<1>. HIDE DEF q1
<1>3. Replaced(q1, q, o, [q1.user[o] EXCEPT !.unval = @ \ {c}])
    BY <1>2, DelUnValidateResult
<1>. HIDE DEF q
<1>4. /\ q \in RegType /\ q.byName = q1.byName /\ q.byId = q1.byId
      /\ q.user[o] = [q1.user[o] EXCEPT !.unval = @ \ {c}]
      /\ \A x \in UserObj : x # o => q.user[x] = q1.user[x]
    BY <1>3 DEF Replaced
<1>5. r.user[p] \in UserType /\ q1.user[o] \in UserType
    BY <1>2, RegEntries
<1>6. SameButListing(r, q1, c)
    <2>1. /\ q1.user[p].live = r.user[p].live /\ q1.user[p].name = r.user[p].name
          /\ q1.user[p].uid = r.user[p].uid /\ q1.user[p].conns = r.user[p].conns
          /\ q1.user[p].unval = r.user[p].unval \cup {c}
        BY <1>2, <1>5 DEF UserType
    <2>. QED BY <1>2, <2>1 DEF SameButListing
<1>7. SameButListing(q1, q, c)
    <2>1. /\ q.user[o].live = q1.user[o].live /\ q.user[o].name = q1.user[o].name
          /\ q.user[o].uid = q1.user[o].uid /\ q.user[o].conns = q1.user[o].conns
          /\ q.user[o].unval = q1.user[o].unval \ {c}
        BY <1>4, <1>5 DEF UserType
    <2>. QED BY <1>4, <2>1 DEF SameButListing
<1>8. SameButListing(r, q, c)
    BY <1>6, <1>7 DEF SameButListing
<1>9. \A x \in UserObj : x # o /\ x # p => q.user[x] = r.user[x]
    BY <1>2, <1>4
<1>. QED BY <1>8, <1>9 DEF q, q1

\* SetUserId and AddImUserById, entry by entry.
LEMMA AddImUserByIdResult ==
    ASSUME NEW r \in RegType, NEW o \in UserObj, NEW u \in Uid,
           r.byId[u] = NoUser \/ r.byId[u] = o
    PROVE  LET q == AddImUserById(r, o, u)
           IN  /\ q \in RegType /\ q.byName = r.byName
               /\ \A v \in Uid : q.byId[v] = IF v = u THEN o ELSE r.byId[v]
               /\ \A x \in UserObj : x # o => q.user[x] = r.user[x]
               /\ q.user[o].live = r.user[o].live /\ q.user[o].name = r.user[o].name
               /\ q.user[o].conns = r.user[o].conns /\ q.user[o].unval = r.user[o].unval
               /\ q.user[o].uid = u
<1>. DEFINE q == AddImUserById(r, o, u)
<1>1. r.user[o] \in UserType
    BY RegEntries
<1>2. /\ q.byName = r.byName
      /\ q.byId = [r.byId EXCEPT ![u] = IF r.byId[u] = NoUser THEN o ELSE r.byId[u]]
      /\ q.user = [r.user EXCEPT ![o] = [r.user[o] EXCEPT !.uid = u]]
      /\ q \in RegType
    BY <1>1 DEF AddImUserById, RegType, UserType
<1>. HIDE DEF q
<1>3. \A v \in Uid : q.byId[v] = IF v = u THEN o ELSE r.byId[v]
    BY <1>2 DEF RegType
<1>4. /\ q.user[o] = [r.user[o] EXCEPT !.uid = u]
      /\ \A x \in UserObj : x # o => q.user[x] = r.user[x]
    BY <1>2 DEF RegType
<1>5. /\ q.user[o].live = r.user[o].live /\ q.user[o].name = r.user[o].name
      /\ q.user[o].conns = r.user[o].conns /\ q.user[o].unval = r.user[o].unval
      /\ q.user[o].uid = u
    BY <1>1, <1>4 DEF UserType
<1>. QED BY <1>2, <1>3, <1>4, <1>5 DEF q

LEMMA ValidateMsgConnResult ==
    ASSUME NEW r \in RegType, NEW o \in UserObj, NEW h \in Handle, NEW c \in Conn
    PROVE  LET q == ValidateMsgConn(r, o, h, c)
           IN  /\ q \in RegType /\ q.byName = r.byName /\ q.byId = r.byId
               /\ \A x \in UserObj : x # o => q.user[x] = r.user[x]
               /\ q.user[o].live = r.user[o].live /\ q.user[o].name = r.user[o].name
               /\ q.user[o].uid = r.user[o].uid
               /\ \A j \in Handle : q.user[o].conns[j] = IF j = h THEN c ELSE r.user[o].conns[j]
               /\ q.user[o].unval = r.user[o].unval \ {c}
<1>. DEFINE q1 == AddMsgConn(r, o, h, c)
            q == DelUnValidate(q1, o, c)
<1>1. Replaced(r, q1, o, [r.user[o] EXCEPT !.conns = [@ EXCEPT ![h] = c]])
    BY AddMsgConnResult
<1>2. /\ q1 \in RegType /\ q1.byName = r.byName /\ q1.byId = r.byId
      /\ q1.user[o] = [r.user[o] EXCEPT !.conns = [@ EXCEPT ![h] = c]]
      /\ \A x \in UserObj : x # o => q1.user[x] = r.user[x]
    BY <1>1 DEF Replaced
<1>. HIDE DEF q1
<1>3. Replaced(q1, q, o, [q1.user[o] EXCEPT !.unval = @ \ {c}])
    BY <1>2, DelUnValidateResult
<1>4. q = ValidateMsgConn(r, o, h, c)
    BY DEF ValidateMsgConn, q1
<1>. HIDE DEF q
<1>5. /\ q \in RegType /\ q.byName = q1.byName /\ q.byId = q1.byId
      /\ q.user[o] = [q1.user[o] EXCEPT !.unval = @ \ {c}]
      /\ \A x \in UserObj : x # o => q.user[x] = q1.user[x]
    BY <1>3 DEF Replaced
<1>6. r.user[o] \in UserType /\ q1.user[o] \in UserType
    BY <1>2, RegEntries
<1>7. /\ q1.user[o].live = r.user[o].live /\ q1.user[o].name = r.user[o].name
      /\ q1.user[o].uid = r.user[o].uid /\ q1.user[o].unval = r.user[o].unval
      /\ q1.user[o].conns = [r.user[o].conns EXCEPT ![h] = c]
    BY <1>2, <1>6 DEF UserType
<1>8. \A j \in Handle : q1.user[o].conns[j] = IF j = h THEN c ELSE r.user[o].conns[j]
    BY <1>6, <1>7 DEF UserType
<1>9. /\ q.user[o].live = q1.user[o].live /\ q.user[o].name = q1.user[o].name
      /\ q.user[o].uid = q1.user[o].uid /\ q.user[o].conns = q1.user[o].conns
      /\ q.user[o].unval = q1.user[o].unval \ {c}
    BY <1>5, <1>6 DEF UserType
<1>. QED BY <1>2, <1>4, <1>5, <1>7, <1>8, <1>9

LEMMA IndexedAndValidated ==
    ASSUME NEW r \in RegType, NEW o \in UserObj, NEW u \in Uid, NEW h \in Handle,
           NEW c \in Conn, r.byId[u] = NoUser \/ r.byId[u] = o
    PROVE  JoinedValid(r, ValidateMsgConn(AddImUserById(r, o, u), o, h, c), o, u, h, c)
<1>. DEFINE q == AddImUserById(r, o, u)
            s == ValidateMsgConn(q, o, h, c)
<1>1. /\ q \in RegType /\ q.byName = r.byName
      /\ \A v \in Uid : q.byId[v] = IF v = u THEN o ELSE r.byId[v]
      /\ \A x \in UserObj : x # o => q.user[x] = r.user[x]
      /\ q.user[o].live = r.user[o].live /\ q.user[o].name = r.user[o].name
      /\ q.user[o].conns = r.user[o].conns /\ q.user[o].unval = r.user[o].unval
      /\ q.user[o].uid = u
    BY AddImUserByIdResult
<1>. HIDE DEF q
<1>2. /\ s \in RegType /\ s.byName = q.byName /\ s.byId = q.byId
      /\ \A x \in UserObj : x # o => s.user[x] = q.user[x]
      /\ s.user[o].live = q.user[o].live /\ s.user[o].name = q.user[o].name
      /\ s.user[o].uid = q.user[o].uid
      /\ \A j \in Handle : s.user[o].conns[j] = IF j = h THEN c ELSE q.user[o].conns[j]
      /\ s.user[o].unval = q.user[o].unval \ {c}
    BY <1>1, ValidateMsgConnResult
<1>. HIDE DEF s
<1>3. JoinedValid(r, s, o, u, h, c)
    BY <1>1, <1>2 DEF JoinedValid
<1>. QED BY <1>3 DEF s, q

\* c waits in the user o for the answer for the login name n.
WaitsIn(cs, r, o, n, c) ==
    /\ o \in UserObj /\ r.byName[n] = o /\ r.user[o].live /\ r.user[o].name = n
    /\ c \in r.user[o].unval
    /\ cs[c].name = n /\ cs[c].handle \in Handle /\ ~cs[c].open
    /\ \A p \in UserObj : p # o => c \notin r.user[p].unval

LEMMA WaitingWaits ==
    ASSUME StateOK(conn, reg), NEW h \in Handle, NEW n \in Name, NEW c \in Waiting(h, n)
    PROVE  c \in Conn /\ conn[c].handle = h /\ WaitsIn(conn, reg, reg.byName[n], n, c)
<1>. DEFINE o == reg.byName[n]
<1>1. reg \in RegType
    BY DEF StateOK, IndexOK
<1>2. o \in UserObj /\ c \in reg.user[o].unval /\ conn[c].handle = h /\ ~conn[c].open
    BY <1>1, RegEntries DEF Waiting, UserByName
<1>3. c \in Conn
    BY <1>1, <1>2, RegEntries
<1>4. reg.user[o].live /\ reg.user[o].name = n
    BY <1>2, NullAssumption DEF StateOK, IndexOK
<1>5. conn[c].name = n
    BY <1>2, <1>4 DEF StateOK, ConnsOK
<1>6. \A p \in UserObj : p # o => c \notin reg.user[p].unval
    <2>. SUFFICES ASSUME NEW p \in UserObj, p # o, c \in reg.user[p].unval PROVE FALSE
        OBVIOUS
    <2>1. reg.user[p].name = n
        BY <1>5 DEF StateOK, ConnsOK
    <2>2. reg.user[p].live
        BY <1>1, DeadUserIsEmpty DEF StateOK, IndexOK
    <2>. QED BY <2>1, <2>2 DEF StateOK, IndexOK
<1>. QED BY <1>2, <1>3, <1>4, <1>5, <1>6 DEF WaitsIn

\* What an accepted answer makes of the registry; t is the user the
\* connection ends up in.
Accepted(r, c, n, u, h) ==
    LET placed == MoveToUserOfId(r, c, n, u)
    IN  ValidateMsgConn(AddImUserById(placed[1], placed[2], u), placed[2], h, c)

AcceptedKeeps(cs, r, c, n, u, h) ==
    LET placed == MoveToUserOfId(r, c, n, u)
        t      == placed[2]
    IN  /\ t \in UserObj
        /\ AddImUserById(placed[1], t, u).user[t].conns = r.user[t].conns
        /\ AddImUserById(placed[1], t, u) \in RegType
        /\ \A ds : Approved(cs, ds, c, u) => StateOK(ds, Accepted(r, c, n, u, h))

\* The first login of a user id: the user found by name gets the id.
LEMMA FirstLoginKeeps ==
    ASSUME NEW cs, NEW r, StateOK(cs, r), NEW c \in Conn, NEW n \in Name, NEW o,
           NEW h \in Handle, cs[c].handle = h, NEW u, u = UidOf[n],
           WaitsIn(cs, r, o, n, c), r.byId[u] = NoUser
    PROVE  AcceptedKeeps(cs, r, c, n, u, h)
<1>1. o \in UserObj /\ u \in Uid /\ r \in RegType
    BY UidOfAssumption DEF WaitsIn, StateOK, IndexOK
<1>2. MoveToUserOfId(r, c, n, u) = <<r, o>>
    BY <1>1 DEF MoveToUserOfId, UserByName, UserById, WaitsIn
<1>3. Accepted(r, c, n, u, h) = ValidateMsgConn(AddImUserById(r, o, u), o, h, c)
    BY <1>2 DEF Accepted
<1>4. JoinedValid(r, Accepted(r, c, n, u, h), o, u, h, c)
    BY <1>1, <1>3, IndexedAndValidated
<1>5. r.user[o].uid = NoUid
    BY <1>1, NullAssumption DEF StateOK, IndexOK, WaitsIn
<1>6. ASSUME NEW ds, Approved(cs, ds, c, u)
      PROVE  StateOK(ds, Accepted(r, c, n, u, h))
    <2>1. /\ ~cs[c].open /\ cs[c].name \in Name /\ r.user[o].live /\ u = UidOf[r.user[o].name]
          /\ \A p \in UserObj : p # o => c \notin r.user[p].unval
        BY DEF WaitsIn
    <2>. QED BY <1>1, <1>4, <1>5, <1>6, <2>1, JoinValidKeepsState
<1>7. /\ AddImUserById(r, o, u).user[o].conns = r.user[o].conns
      /\ AddImUserById(r, o, u) \in RegType
    BY <1>1, AddImUserByIdResult
<1>. QED BY <1>1, <1>2, <1>6, <1>7 DEF AcceptedKeeps

\* Another client of that user and that name is logged in already.
LEMMA SameUserLoginKeeps ==
    ASSUME NEW cs, NEW r, StateOK(cs, r), NEW c \in Conn, NEW n \in Name, NEW o,
           NEW h \in Handle, cs[c].handle = h, NEW u, u = UidOf[n],
           WaitsIn(cs, r, o, n, c), r.byId[u] = o
    PROVE  AcceptedKeeps(cs, r, c, n, u, h)
<1>. DEFINE q == DelUnValidate(AddUnValidate(r, o, c), o, c)
<1>1. o \in UserObj /\ u \in Uid /\ r \in RegType
    BY UidOfAssumption DEF WaitsIn, StateOK, IndexOK
<1>2. r.user[o].uid = u
    BY <1>1, NullAssumption DEF StateOK, IndexOK
<1>3. /\ SameButListing(r, q, c)
      /\ \A x \in UserObj : x # o => q.user[x] = r.user[x]
    BY <1>1, MovedResult
<1>4. MoveToUserOfId(r, c, n, u) =
        <<IF IsMsgConnEmpty(q, o) THEN DeleteUser(q, o, NoUid, n) ELSE q, o>>
    BY <1>1, NullAssumption DEF MoveToUserOfId, UserByName, UserById, WaitsIn
<1>. HIDE DEF q
<1>5. ~IsMsgConnEmpty(q, o)
    <2>1. ~IsMsgConnEmpty(r, o)
        BY <1>1, <1>2, NullAssumption DEF StateOK, LiveOK, WaitsIn
    <2>. QED BY <1>1, <1>3, <2>1 DEF IsMsgConnEmpty, SameButListing
<1>6. MoveToUserOfId(r, c, n, u) = <<q, o>>
    BY <1>4, <1>5
<1>7. Accepted(r, c, n, u, h) = ValidateMsgConn(AddImUserById(q, o, u), o, h, c)
    BY <1>6 DEF Accepted
<1>8. q \in RegType /\ q.byId[u] = o
    BY <1>3 DEF SameButListing
<1>9. JoinedValid(q, Accepted(r, c, n, u, h), o, u, h, c)
    BY <1>1, <1>7, <1>8, IndexedAndValidated
<1>10. JoinedValid(r, Accepted(r, c, n, u, h), o, u, h, c)
    BY <1>1, <1>3, <1>9 DEF JoinedValid, SameButListing
<1>11. ASSUME NEW ds, Approved(cs, ds, c, u)
       PROVE  StateOK(ds, Accepted(r, c, n, u, h))
    <2>1. /\ ~cs[c].open /\ cs[c].name \in Name /\ r.user[o].live /\ u = UidOf[r.user[o].name]
          /\ \A p \in UserObj : p # o => c \notin r.user[p].unval
        BY DEF WaitsIn
    <2>. QED BY <1>1, <1>2, <1>10, <1>11, <2>1, JoinValidKeepsState
<1>12. /\ AddImUserById(q, o, u).user[o].conns = r.user[o].conns
       /\ AddImUserById(q, o, u) \in RegType
    <2>1. /\ AddImUserById(q, o, u).user[o].conns = q.user[o].conns
          /\ AddImUserById(q, o, u) \in RegType
        BY <1>1, <1>8, AddImUserByIdResult
    <2>. QED BY <1>1, <1>3, <2>1 DEF SameButListing
<1>. QED BY <1>1, <1>6, <1>11, <1>12 DEF AcceptedKeeps

\* The user id is logged in under another name: the connection moves there,
\* and the user found by name, which has nobody validated, is deleted.
LEMMA AliasLoginKeeps ==
    ASSUME NEW cs, NEW r, StateOK(cs, r), NEW c \in Conn, NEW n \in Name, NEW o,
           NEW h \in Handle, cs[c].handle = h, NEW u, u = UidOf[n],
           WaitsIn(cs, r, o, n, c), NEW p \in UserObj, r.byId[u] = p, p # o
    PROVE  AcceptedKeeps(cs, r, c, n, u, h)
<1>. DEFINE q == DelUnValidate(AddUnValidate(r, p, c), o, c)
            r0 == DeleteUser(r, o, NoUid, n)
            r1 == DeleteUser(q, o, NoUid, n)
<1>1. o \in UserObj /\ u \in Uid /\ r \in RegType /\ r.user[o].live /\ r.user[o].name = n
    BY UidOfAssumption DEF WaitsIn, StateOK, IndexOK
<1>2. r.user[p].live /\ r.user[p].uid = u /\ u = UidOf[r.user[p].name]
    BY <1>1, NullAssumption DEF StateOK, IndexOK
<1>3. r.user[o].uid = NoUid /\ IsMsgConnEmpty(r, o)
    BY <1>1, NullAssumption DEF StateOK, IndexOK, LiveOK
<1>4. /\ SameButListing(r, q, c)
      /\ \A x \in UserObj : x # o /\ x # p => q.user[x] = r.user[x]
    BY <1>1, MovedResult
<1>5. MoveToUserOfId(r, c, n, u) =
        <<IF IsMsgConnEmpty(q, o) THEN DeleteUser(q, o, NoUid, n) ELSE q, p>>
    BY <1>1, NullAssumption DEF MoveToUserOfId, UserByName, UserById, WaitsIn
<1>. HIDE DEF q
<1>6. IsMsgConnEmpty(q, o)
    BY <1>1, <1>3, <1>4 DEF IsMsgConnEmpty, SameButListing
<1>7. MoveToUserOfId(r, c, n, u) = <<r1, p>>
    BY <1>5, <1>6
<1>8. /\ r0 \in RegType
      /\ \A m \in Name : r0.byName[m] = IF m = n THEN NoUser ELSE r.byName[m]
      /\ \A v \in Uid : r0.byId[v] = IF v = NoUid THEN NoUser ELSE r.byId[v]
      /\ r0.user[o] = DeadUser
      /\ \A x \in UserObj \ {o} : r0.user[x] = r.user[x]
    BY <1>1, DeleteUserResult
<1>9. /\ r1 \in RegType
      /\ r1.byName = r0.byName /\ r1.byId = r0.byId
      /\ r1.user[o] = DeadUser
      /\ \A x \in UserObj \ {o} : r1.user[x] = q.user[x]
    <2>1. q \in RegType /\ q.byName = r.byName /\ q.byId = r.byId
        BY <1>4 DEF SameButListing
    <2>2. r1.byName = r0.byName /\ r1.byId = r0.byId
        BY <2>1 DEF DeleteUser
    <2>. QED BY <1>1, <2>1, <2>2, DeleteUserResult
<1>. HIDE DEF r0, r1
<1>10. /\ r1.user[p].live = r0.user[p].live /\ r1.user[p].name = r0.user[p].name
       /\ r1.user[p].conns = r0.user[p].conns
       /\ r1.user[p].unval \ {c} = r0.user[p].unval \ {c}
       /\ \A x \in UserObj : x # p => r1.user[x] = r0.user[x]
       /\ r0.user[p] = r.user[p]
    BY <1>4, <1>8, <1>9 DEF SameButListing
<1>11. WithoutPending(r, r0, o)
    BY <1>1, <1>8, NullAssumption DEF WithoutPending
<1>12. StateOK(cs, r0)
    BY <1>1, <1>3, <1>11, DeletePendingKeepsState
<1>13. Accepted(r, c, n, u, h) = ValidateMsgConn(AddImUserById(r1, p, u), p, h, c)
    BY <1>7 DEF Accepted
<1>14. r1.byId[u] = p
    BY <1>1, <1>8, <1>9, NullAssumption
<1>15. JoinedValid(r1, Accepted(r, c, n, u, h), p, u, h, c)
    BY <1>1, <1>9, <1>13, <1>14, IndexedAndValidated
<1>16. JoinedValid(r0, Accepted(r, c, n, u, h), p, u, h, c)
    BY <1>9, <1>10, <1>15 DEF JoinedValid
<1>17. ASSUME NEW ds, Approved(cs, ds, c, u)
       PROVE  StateOK(ds, Accepted(r, c, n, u, h))
    <2>1. /\ ~cs[c].open /\ cs[c].name \in Name
          /\ r0.user[p].live /\ r0.user[p].uid = u /\ u = UidOf[r0.user[p].name]
        BY <1>2, <1>10 DEF WaitsIn
    <2>2. \A x \in UserObj : x # p => c \notin r0.user[x].unval
        <3>1. c \notin r0.user[o].unval
            BY <1>1, <1>8, DeadUserIsEmpty
        <3>2. \A x \in UserObj : x # o => c \notin r0.user[x].unval
            BY <1>8 DEF WaitsIn
        <3>. QED BY <3>1, <3>2
    <2>. QED BY <1>1, <1>12, <1>16, <1>17, <2>1, <2>2, JoinValidKeepsState
<1>18. /\ AddImUserById(r1, p, u).user[p].conns = r.user[p].conns
       /\ AddImUserById(r1, p, u) \in RegType
    <2>1. /\ AddImUserById(r1, p, u).user[p].conns = r1.user[p].conns
          /\ AddImUserById(r1, p, u) \in RegType
        BY <1>1, <1>9, <1>14, AddImUserByIdResult
    <2>. QED BY <1>10, <2>1
<1>. QED BY <1>7, <1>17, <1>18 DEF AcceptedKeeps

\* The user AddImUserById enters is indexed, be it by this or an earlier call.
LEMMA AddedIsIndexed ==
    ASSUME NEW r, NEW o \in UserObj, NEW u \in Uid, AddImUserById(r, o, u) \in RegType
    PROVE  AddImUserById(r, o, u).byId[u] # NoUser
BY NullAssumption DEF AddImUserById, RegType

\* A connection is opened, and that is told under its user and class.
OneArrives ==
    \E c, ks, r :
        /\ c \in Conn /\ ~conn[c].open /\ conn[c].name \in Name
        /\ SameButKicked(conn, ks) /\ Approved(ks, conn', c, conn'[c].uid)
        /\ conn'[c].uid \in Uid /\ UserById(r, conn'[c].uid) # NoUser
        /\ announced' = SendUserStatusUpdate(announced, r, conn'[c], 1)

LEMMA AcceptKeepsState ==
    ASSUME StateOK(conn, reg), NEW h \in Handle, NEW n \in Name, ValidateAccepted(h, n)
    PROVE  /\ StateOK(conn', reg')
           /\ OneArrives
<1>. DEFINE u == UidOf[n]
            o == reg.byName[n]
<1>1. PICK c \in Waiting(h, n) :
        LET placed  == MoveToUserOfId(reg, c, n, u)
            t       == placed[2]
            indexed == AddImUserById(placed[1], t, u)
            kicked  == KickOutSameClientType(conn, indexed, t, conn[c].class, c)
        IN  /\ conn' = [kicked EXCEPT ![c].uid = u, ![c].open = TRUE]
            /\ announced' = SendUserStatusUpdate(announced, indexed, conn'[c], 1)
            /\ reg' = ValidateMsgConn(indexed, t, h, c)
    BY DEF ValidateAccepted
<1>2. c \in Conn /\ conn[c].handle = h /\ WaitsIn(conn, reg, o, n, c)
    BY WaitingWaits
<1>3. u \in Uid /\ reg \in RegType /\ conn \in [Conn -> ConnType]
    BY UidOfAssumption DEF StateOK, IndexOK, ConnOK
<1>. DEFINE placed  == MoveToUserOfId(reg, c, n, u)
            t       == placed[2]
            indexed == AddImUserById(placed[1], t, u)
            kicked  == KickOutSameClientType(conn, indexed, t, conn[c].class, c)
<1>4. /\ conn' = [kicked EXCEPT ![c].uid = u, ![c].open = TRUE]
      /\ reg' = Accepted(reg, c, n, u, h)
    BY <1>1 DEF Accepted
<1>5. ASSUME NEW cs, StateOK(cs, reg), cs[c].handle = h, WaitsIn(cs, reg, o, n, c)
      PROVE  AcceptedKeeps(cs, reg, c, n, u, h)
    <2>. HIDE DEF o, u
    <2>1. u = UidOf[n]
        BY DEF u
    <2>2. CASE reg.byId[u] = NoUser
        BY <1>2, <1>5, <2>1, <2>2, FirstLoginKeeps
    <2>3. CASE reg.byId[u] = o
        BY <1>2, <1>5, <2>1, <2>3, SameUserLoginKeeps
    <2>4. CASE reg.byId[u] # NoUser /\ reg.byId[u] # o
        <3>1. reg.byId[u] \in UserObj
            BY <1>3, <2>4, RegEntries
        <3>. QED BY <1>2, <1>5, <2>1, <2>4, <3>1, AliasLoginKeeps
    <2>. QED BY <2>2, <2>3, <2>4
<1>6. /\ t \in UserObj /\ indexed.user[t].conns = reg.user[t].conns
    BY <1>2, <1>5 DEF AcceptedKeeps
<1>a. announced' = SendUserStatusUpdate(announced, indexed, conn'[c], 1)
    BY <1>1
<1>b. UserById(indexed, u) # NoUser
    <2>1. indexed \in RegType /\ indexed = AddImUserById(placed[1], t, u)
        BY <1>2, <1>5 DEF AcceptedKeeps
    <2>. HIDE DEF indexed, t, placed, u
    <2>. QED BY <1>3, <1>6, <2>1, AddedIsIndexed DEF UserById
<1>. HIDE DEF t, indexed
<1>7. SameButKicked(conn, kicked)
    <2>1. \A j \in Handle : indexed.user[t].conns[j] # NoConn =>
                conn[indexed.user[t].conns[j]].handle = j
        BY <1>6 DEF StateOK, ConnsOK
    <2>. QED BY <1>3, <1>6, <2>1, KickMarksOnly
<1>. HIDE DEF kicked
<1>8. StateOK(kicked, reg)
    BY <1>7, KickKeepsState
<1>9. kicked[c].handle = h /\ WaitsIn(kicked, reg, o, n, c) /\ kicked \in [Conn -> ConnType]
    BY <1>2, <1>7 DEF WaitsIn, SameButKicked
<1>. HIDE DEF o, u
<1>10. Approved(kicked, conn', c, u)
    BY <1>2, <1>3, <1>4, <1>9 DEF Approved, ConnType
<1>11. AcceptedKeeps(kicked, reg, c, n, u, h)
    BY <1>5, <1>8, <1>9
<1>12. StateOK(conn', reg')
    BY <1>4, <1>10, <1>11 DEF AcceptedKeeps
<1>13. OneArrives
    <2>1. ~conn[c].open /\ conn[c].name \in Name
        BY <1>2 DEF WaitsIn
    <2>2. conn'[c].uid = u
        BY <1>10 DEF Approved
    <2>. QED BY <1>2, <1>3, <1>7, <1>10, <1>a, <1>b, <2>1, <2>2 DEF OneArrives
<1>. QED BY <1>12, <1>13

LEMMA KickStepKeepsState ==
    ASSUME StateOK(conn, reg), NEW u, NEW k, NEW from, Kick(u, k, from)
    PROVE  StateOK(conn', reg') /\ SameButKicked(conn, conn')
<1>. DEFINE o == UserById(reg, u)
<1>1. /\ o # NoUser /\ conn' = KickOutSameClientType(conn, reg, o, k, from) /\ reg' = reg
    BY DEF Kick
<1>2. o \in UserObj /\ conn \in [Conn -> ConnType]
    BY <1>1, RegEntries DEF UserById, StateOK, IndexOK, ConnOK
<1>. HIDE DEF o
<1>3. \A j \in Handle : reg.user[o].conns[j] # NoConn => conn[reg.user[o].conns[j]].handle = j
    BY <1>2 DEF StateOK, ConnsOK
<1>4. SameButKicked(conn, conn')
    BY <1>1, <1>2, <1>3, KickMarksOnly
<1>. QED BY <1>1, <1>4, KickKeepsState

-----------------------------------------------------------------------------
CountersOK ==
    /\ validating \in [Handle \X Name -> Nat]
    /\ announced \in [Uid \X Class -> Int]

\* The inductive invariant.
IInv == StateOK(conn, reg) /\ CountersOK

LEMMA InitIInv == Init => IInv
<1>. SUFFICES ASSUME Init PROVE IInv
    OBVIOUS
<1>1. CountersOK
    BY DEF Init, CountersOK
<1>2. /\ \A c \in Conn : conn[c] = FreeConn
      /\ conn \in [Conn -> ConnType]
      /\ \A n \in Name : reg.byName[n] = NoUser
      /\ \A u \in Uid : reg.byId[u] = NoUser
      /\ \A o \in UserObj : reg.user[o] = DeadUser
      /\ reg \in RegType
    BY FreeConnType, DeadUserType DEF Init, RegType
<1>3. \A c \in Conn : /\ conn[c].handle = NoHandle /\ conn[c].name = NoName
                      /\ ~conn[c].open /\ conn[c].uid = NoUid
    BY <1>2 DEF FreeConn
<1>4. \A o \in UserObj : /\ ~reg.user[o].live /\ reg.user[o].unval = {}
                         /\ \A h \in Handle : reg.user[o].conns[h] = NoConn
    BY <1>2 DEF DeadUser
<1>5. ConnOK(conn)
    BY <1>2, <1>3, NullAssumption DEF ConnOK
<1>6. IndexOK(reg)
    BY <1>2, <1>4 DEF IndexOK
<1>7. ConnsOK(conn, reg) /\ OpenOK(conn, reg) /\ LiveOK(reg)
    BY <1>3, <1>4 DEF ConnsOK, OpenOK, LiveOK
<1>. QED BY <1>1, <1>5, <1>6, <1>7 DEF IInv, StateOK

\* Counters of any index set: one entry changes by d.
LEMMA CounterChange ==
    ASSUME NEW S, NEW a \in [S -> Int], NEW p, NEW d \in Int
    PROVE  [a EXCEPT ![p] = @ + d] \in [S -> Int]
<1>. DEFINE v == a[p] + d
<1>1. p \in S => v \in Int
    OBVIOUS
<1>. HIDE DEF v
<1>2. [a EXCEPT ![p] = v] \in [S -> Int]
    BY <1>1
<1>. QED BY <1>2 DEF v

LEMMA CounterUp ==
    ASSUME NEW S, NEW a \in [S -> Nat], NEW p
    PROVE  [a EXCEPT ![p] = @ + 1] \in [S -> Nat]
<1>. DEFINE v == a[p] + 1
<1>1. p \in S => v \in Nat
    OBVIOUS
<1>. HIDE DEF v
<1>2. [a EXCEPT ![p] = v] \in [S -> Nat]
    BY <1>1
<1>. QED BY <1>2 DEF v

LEMMA CounterDown ==
    ASSUME NEW S, NEW a \in [S -> Nat], NEW p, a[p] > 0
    PROVE  [a EXCEPT ![p] = @ - 1] \in [S -> Nat]
<1>. SUFFICES ASSUME p \in S PROVE a[p] - 1 \in Nat
    OBVIOUS
<1>. QED OBVIOUS

LEMMA StatusUpdateType ==
    ASSUME NEW a \in [Uid \X Class -> Int], NEW r, NEW k, NEW d \in Int
    PROVE  SendUserStatusUpdate(a, r, k, d) \in [Uid \X Class -> Int]
<1>1. [a EXCEPT ![<<k.uid, k.class>>] = @ + d] \in [Uid \X Class -> Int]
    BY CounterChange
<1>. QED BY <1>1 DEF SendUserStatusUpdate

LEMMA CloseCounters ==
    ASSUME CountersOK, NEW c \in Conn, Close(c)
    PROVE  announced' \in [Uid \X Class -> Int]
<1>1. announced \in [Uid \X Class -> Int] /\ -1 \in Int
    BY DEF CountersOK
<1>2. announced' = SendUserStatusUpdate(announced, LeaveById(reg, c, conn[c]), conn[c], -1)
    BY DEF Close
<1>. QED BY <1>1, <1>2, StatusUpdateType

LEMMA AnsweredCounters ==
    ASSUME CountersOK, NEW h \in Handle, NEW n \in Name, Answered(h, n)
    PROVE  validating' \in [Handle \X Name -> Nat]
<1>1. validating \in [Handle \X Name -> Nat]
    BY DEF CountersOK
<1>2. validating[<<h, n>>] > 0 /\ validating' = [validating EXCEPT ![<<h, n>>] = @ - 1]
    BY DEF Answered
<1>. QED BY <1>1, <1>2, CounterDown

LEMMA NextIInv == IInv /\ [Next]_vars => IInv'
<1>. SUFFICES ASSUME IInv, [Next]_vars PROVE IInv'
    OBVIOUS
<1>1. StateOK(conn, reg) /\ CountersOK
    BY DEF IInv
<1>2. ASSUME NEW c \in Conn, Close(c), UNCHANGED validating PROVE IInv'
    BY <1>1, <1>2, CloseKeepsState, CloseCounters DEF IInv, CountersOK
<1>3. ASSUME NEW c \in Conn, OnClose(c) PROVE IInv'
    BY <1>2, <1>3 DEF OnClose
<1>4. ASSUME NEW c \in Conn, LoginTimeout(c) PROVE IInv'
    BY <1>2, <1>4 DEF LoginTimeout
<1>5. ASSUME NEW c \in Conn, RefuseLogin(c) PROVE IInv'
    BY <1>2, <1>5 DEF RefuseLogin
<1>6. ASSUME NEW c \in Conn, HandleLoginOutRequest(c) PROVE IInv'
    BY <1>2, <1>6 DEF HandleLoginOutRequest
<1>7. ASSUME NEW c \in Conn, HandleKickPCClient(c) PROVE IInv'
    BY <1>1, <1>7, KickStepKeepsState DEF HandleKickPCClient, Kick, IInv, CountersOK
<1>8. ASSUME NEW c \in Conn, NEW h \in Handle, OnConnect(c, h) PROVE IInv'
    BY <1>1, <1>8, ConnectKeepsState DEF OnConnect, IInv, CountersOK
<1>9. ASSUME NEW c \in Conn, NEW n \in Name, NEW k \in Class, HandleLoginRequest(c, n, k)
      PROVE  IInv'
    <2>1. StateOK(conn', reg')
        BY <1>1, <1>9, LoginRequestKeepsState
    <2>2. CountersOK'
        <3>1. validating \in [Handle \X Name -> Nat] /\ announced' \in [Uid \X Class -> Int]
            BY <1>1, <1>9 DEF HandleLoginRequest, CountersOK
        <3>2. validating' = [validating EXCEPT ![<<conn[c].handle, n>>] = @ + 1]
            BY <1>9 DEF HandleLoginRequest
        <3>. QED BY <3>1, <3>2, CounterUp DEF CountersOK
    <2>. QED BY <2>1, <2>2 DEF IInv
<1>10. ASSUME NEW h \in Handle, NEW n \in Name, ValidateStale(h, n) \/ LoseValidation(h, n)
       PROVE  IInv'
    BY <1>1, <1>10, AnsweredCounters DEF ValidateStale, LoseValidation, IInv, CountersOK
<1>11. ASSUME NEW h \in Handle, NEW n \in Name, ValidateRefused(h, n) PROVE IInv'
    <2>1. PICK c \in Waiting(h, n) : Close(c)
        BY <1>11 DEF ValidateRefused
    <2>2. c \in Conn
        BY <1>1, WaitingWaits
    <2>. QED BY <1>1, <1>11, <2>1, <2>2, CloseKeepsState, CloseCounters, AnsweredCounters
         DEF ValidateRefused, IInv, CountersOK
<1>12. ASSUME NEW h \in Handle, NEW n \in Name, ValidateAccepted(h, n) PROVE IInv'
    <2>1. StateOK(conn', reg')
        BY <1>1, <1>12, AcceptKeepsState
    <2>2. validating' \in [Handle \X Name -> Nat]
        BY <1>1, <1>12, AnsweredCounters DEF ValidateAccepted
    <2>3. announced' \in [Uid \X Class -> Int]
        <3>1. announced \in [Uid \X Class -> Int] /\ 1 \in Int
            BY <1>1 DEF CountersOK
        <3>2. \E r, k : announced' = SendUserStatusUpdate(announced, r, k, 1)
            BY <1>12 DEF ValidateAccepted
        <3>. QED BY <3>1, <3>2, StatusUpdateType
    <2>. QED BY <2>1, <2>2, <2>3 DEF IInv, CountersOK
<1>13. ASSUME NEW u \in Uid, NEW k \in Class, HandleKickUser(u, k) PROVE IInv'
    BY <1>1, <1>13, KickStepKeepsState DEF HandleKickUser, Kick, IInv, CountersOK
<1>14. CASE UNCHANGED vars
    BY <1>1, <1>14 DEF vars, IInv, CountersOK
<1>. QED BY <1>3, <1>4, <1>5, <1>6, <1>7, <1>8, <1>9, <1>10, <1>11, <1>12, <1>13, <1>14 DEF Next

LEMMA SpecIInv == Spec => []IInv
BY InitIInv, NextIInv, PTL DEF Spec

\* Every variable of the registry keeps its type, whatever the callbacks of
\* msg_server do and in whatever order.
THEOREM TypeCorrect == Spec => []TypeOK
<1>1. IInv => TypeOK
    BY DEF IInv, StateOK, ConnOK, IndexOK, CountersOK, TypeOK
<1>. QED BY <1>1, SpecIInv, PTL

\* CImUserManager's indexes and the CImUser heap never disagree: what
\* GetImUserById and GetImUserByLoginName return is alive and is the user asked for.
THEOREM RegistryCorrect == Spec => []RegistryConsistent
<1>1. IInv => RegistryConsistent
    BY DEF IInv, StateOK, IndexOK, RegType, UserType, RegistryConsistent, UserByName, UserById
<1>. QED BY <1>1, SpecIInv, PTL

\* No CImUser keeps a pointer to a CMsgConn that was closed or is someone
\* else's, through any interleaving of logins, moves, kicks and disconnects.
THEOREM NoDangling == Spec => []NoDanglingConn
<1>1. IInv => NoDanglingConn
    BY NullAssumption DEF IInv, StateOK, ConnsOK, NoDanglingConn, Up
<1>. QED BY <1>1, SpecIInv, PTL

\* A client whose login was approved is delivered to until it leaves.
THEOREM Reachable == Spec => []OpenConnIsReachable
<1>1. IInv => OpenConnIsReachable
    BY DEF IInv, StateOK, OpenOK, ConnOK, OpenConnIsReachable, UserById
<1>. QED BY <1>1, SpecIInv, PTL

\* No CImUser outlives its last connection.
THEOREM NoLeak == Spec => []NoUserLeak
<1>1. IInv => NoUserLeak
    BY DEF IInv, StateOK, LiveOK, NoUserLeak
<1>. QED BY <1>1, SpecIInv, PTL

-----------------------------------------------------------------------------
(***************************************************************************)
(* What the other servers are told.                                        *)
(***************************************************************************)
\* OpenConns, of connections cs.
OpenIn(cs, u, k) == {c \in Conn : cs[c].open /\ cs[c].uid = u /\ cs[c].class = k}

\* Those who are open in cs are open in ds, for the same user and class; all of
\* them, or all but c.
OpenSame(cs, ds, c) ==
    \A d \in Conn \ {c} :
        /\ (ds[d].open <=> cs[d].open)
        /\ (cs[d].open => ds[d].uid = cs[d].uid /\ ds[d].class = cs[d].class)

\* With c open in ds and not in cs, one set has one member more.
LEMMA OneMore ==
    ASSUME NEW cs, NEW ds, NEW c \in Conn, OpenSame(cs, ds, c),
           ~cs[c].open, ds[c].open, NEW u, NEW k
    PROVE  /\ Cardinality(OpenIn(cs, u, k)) \in Nat
           /\ Cardinality(OpenIn(ds, u, k)) = Cardinality(OpenIn(cs, u, k))
                + (IF u = ds[c].uid /\ k = ds[c].class THEN 1 ELSE 0)
<1>. DEFINE S == OpenIn(cs, u, k)
<1>1. c \notin S /\ S \subseteq Conn
    BY DEF OpenIn
<1>2. IsFiniteSet(S) /\ Cardinality(S) \in Nat
    BY <1>1, ConnAssumption, FS_Subset, FS_CardinalityType
<1>3. OpenIn(ds, u, k) = IF u = ds[c].uid /\ k = ds[c].class THEN S \cup {c} ELSE S
    <2>1. \A d \in Conn : d # c => (d \in OpenIn(ds, u, k) <=> d \in S)
        BY DEF OpenIn, OpenSame
    <2>2. c \in OpenIn(ds, u, k) <=> u = ds[c].uid /\ k = ds[c].class
        BY DEF OpenIn
    <2>3. OpenIn(ds, u, k) \subseteq Conn
        BY DEF OpenIn
    <2>. HIDE DEF S
    <2>. QED BY <1>1, <2>1, <2>2, <2>3
<1>. HIDE DEF S
<1>4. Cardinality(S \cup {c}) = Cardinality(S) + 1
    BY <1>1, <1>2, FS_AddElement
<1>5. CASE u = ds[c].uid /\ k = ds[c].class
    BY <1>2, <1>3, <1>4, <1>5 DEF S
<1>6. CASE ~(u = ds[c].uid /\ k = ds[c].class)
    BY <1>2, <1>3, <1>6 DEF S
<1>. QED BY <1>5, <1>6

LEMMA NoneMore ==
    ASSUME NEW cs, NEW ds, OpenSame(cs, ds, NoConn), NEW u, NEW k
    PROVE  OpenIn(ds, u, k) = OpenIn(cs, u, k)
<1>1. \A d \in Conn : d \in OpenIn(ds, u, k) <=> d \in OpenIn(cs, u, k)
    BY NullAssumption DEF OpenIn, OpenSame
<1>2. OpenIn(ds, u, k) \subseteq Conn /\ OpenIn(cs, u, k) \subseteq Conn
    BY DEF OpenIn
<1>. QED BY <1>1, <1>2

\* Who changes nothing about the open connections and tells nothing.
LEMMA QuietKeepsAnnounced ==
    ASSUME AnnouncedIsOpen, OpenSame(conn, conn', NoConn), announced' = announced
    PROVE  AnnouncedIsOpen'
<1>1. \A u \in Uid, k \in Class : OpenIn(conn', u, k) = OpenIn(conn, u, k)
    BY NoneMore
<1>. QED BY <1>1 DEF AnnouncedIsOpen, OpenConns, OpenIn

\* What closing changes, and what is told.
LEMMA CloseTells ==
    ASSUME IInv, NEW c \in Conn, Close(c)
    PROVE  /\ conn' = Freed(conn, c)
           /\ ~conn[c].open => announced' = announced
           /\ conn[c].open =>
                /\ conn[c].uid \in Uid /\ conn[c].class \in Class
                /\ announced' = [announced EXCEPT ![<<conn[c].uid, conn[c].class>>] = @ - 1]
<1>. DEFINE k == conn[c]
            left == LeaveById(reg, c, k)
<1>1. /\ conn' = Freed(conn, c)
      /\ announced' = SendUserStatusUpdate(announced, left, k, -1)
    BY DEF Close, Freed
<1>2. CASE ~k.open
    BY <1>1, <1>2 DEF SendUserStatusUpdate
<1>3. CASE k.open
    <2>1. /\ k.uid \in Uid /\ k.handle \in Handle /\ k.class \in Class
          /\ reg.byId[k.uid] \in UserObj /\ reg \in RegType
        BY <1>3, OpenConnFacts, NullAssumption DEF IInv, StateOK, ConnOK, IndexOK
    <2>2. left.byId = reg.byId
        <3>. DEFINE o == reg.byId[k.uid]
                    q == DelMsgConn(reg, o, k.handle)
        <3>1. q \in RegType /\ q.byId = reg.byId
            BY <2>1, DelMsgConnResult DEF Replaced
        <3>2. left = DelUnValidate(q, o, c)
            BY <2>1, NullAssumption DEF LeaveById, UserById
        <3>. HIDE DEF q, o
        <3>3. o \in UserObj
            BY <2>1 DEF o
        <3>4. DelUnValidate(q, o, c).byId = q.byId
            BY <3>1, <3>3, DelUnValidateResult DEF Replaced
        <3>. QED BY <3>1, <3>2, <3>4
    <2>. HIDE DEF left
    <2>3. announced' = [announced EXCEPT ![<<k.uid, k.class>>] = @ - 1]
        BY <1>1, <1>3, <2>1, <2>2, NullAssumption DEF SendUserStatusUpdate, UserById
    <2>. QED BY <1>1, <1>3, <2>1, <2>3
<1>. QED BY <1>2, <1>3

LEMMA CloseKeepsAnnounced ==
    ASSUME IInv, AnnouncedIsOpen, NEW c \in Conn, Close(c)
    PROVE  AnnouncedIsOpen'
<1>. DEFINE k == conn[c]
<1>1. conn' = Freed(conn, c)
    BY CloseTells
<1>2. /\ ~conn'[c].open
      /\ \A d \in Conn : d # c => conn'[d] = conn[d]
    BY <1>1, FreedConn DEF IInv, StateOK
<1>3. CASE ~k.open
    <2>1. OpenSame(conn, conn', NoConn)
        BY <1>2, <1>3 DEF OpenSame
    <2>. QED BY <1>3, <2>1, CloseTells, QuietKeepsAnnounced
<1>4. CASE k.open
    <2>1. /\ k.uid \in Uid /\ k.class \in Class
          /\ announced' = [announced EXCEPT ![<<k.uid, k.class>>] = @ - 1]
        BY <1>4, CloseTells
    <2>2. OpenSame(conn', conn, c)
        BY <1>2 DEF OpenSame
    <2>3. announced \in [Uid \X Class -> Int]
        BY DEF IInv, CountersOK
    <2>4. ASSUME NEW u \in Uid, NEW j \in Class
          PROVE  announced'[<<u, j>>] = Cardinality(OpenIn(conn', u, j))
        <3>. DEFINE one == IF u = k.uid /\ j = k.class THEN 1 ELSE 0
                    n == Cardinality(OpenIn(conn', u, j))
        <3>1. n \in Nat /\ Cardinality(OpenIn(conn, u, j)) = n + one
            <4>1. ~conn'[c].open /\ conn[c].open
                BY <1>2, <1>4
            <4>. QED BY <2>2, <4>1, OneMore
        <3>2. announced[<<u, j>>] = Cardinality(OpenIn(conn, u, j))
            BY DEF AnnouncedIsOpen, OpenConns, OpenIn
        <3>3. announced'[<<u, j>>] = announced[<<u, j>>] - one
            BY <2>1, <2>3
        <3>4. one \in {0, 1}
            OBVIOUS
        <3>. HIDE DEF one, n
        <3>5. announced'[<<u, j>>] = n
            BY <3>1, <3>2, <3>3, <3>4
        <3>. QED BY <3>5 DEF n
    <2>. QED BY <2>4 DEF AnnouncedIsOpen, OpenConns, OpenIn
<1>. QED BY <1>3, <1>4

\* An arrival, and what is told of it.
ArrivalOf(c) ==
    /\ ~conn[c].open /\ conn[c].name \in Name /\ conn[c].handle \in Handle
    /\ conn'[c].open /\ conn'[c].uid \in Uid /\ conn'[c].class \in Class
    /\ conn'[c].handle = conn[c].handle
    /\ \A d \in Conn \ {c} :
        /\ conn'[d].handle = conn[d].handle /\ conn'[d].name = conn[d].name
        /\ conn'[d].class = conn[d].class /\ conn'[d].uid = conn[d].uid
        /\ conn'[d].open = conn[d].open
    /\ announced' = [announced EXCEPT ![<<conn'[c].uid, conn'[c].class>>] = @ + 1]

LEMMA ArrivalTells ==
    ASSUME IInv, OneArrives
    PROVE  \E c \in Conn : ArrivalOf(c)
<1>1. PICK c, ks, r :
        /\ c \in Conn /\ ~conn[c].open /\ conn[c].name \in Name
        /\ SameButKicked(conn, ks) /\ Approved(ks, conn', c, conn'[c].uid)
        /\ conn'[c].uid \in Uid /\ UserById(r, conn'[c].uid) # NoUser
        /\ announced' = SendUserStatusUpdate(announced, r, conn'[c], 1)
    BY DEF OneArrives
<1>2. conn[c].class \in Class /\ conn[c].handle \in Handle
    BY <1>1, NullAssumption DEF IInv, StateOK, ConnOK, ConnType, FreeConn
<1>3. /\ conn'[c].open /\ conn'[c].class \in Class /\ conn'[c].handle = conn[c].handle
      /\ \A d \in Conn \ {c} :
            /\ conn'[d].handle = conn[d].handle /\ conn'[d].name = conn[d].name
            /\ conn'[d].class = conn[d].class /\ conn'[d].uid = conn[d].uid
            /\ conn'[d].open = conn[d].open
    BY <1>1, <1>2 DEF Approved, SameButKicked
<1>4. announced' = [announced EXCEPT ![<<conn'[c].uid, conn'[c].class>>] = @ + 1]
    BY <1>1, <1>3 DEF SendUserStatusUpdate
<1>. QED BY <1>1, <1>2, <1>3, <1>4 DEF ArrivalOf

LEMMA ArrivalKeepsAnnounced ==
    ASSUME IInv, AnnouncedIsOpen, OneArrives
    PROVE  AnnouncedIsOpen'
<1>1. PICK c \in Conn : ArrivalOf(c)
    BY ArrivalTells
<1>. DEFINE k == conn'[c]
<1>2. ~conn[c].open /\ k.open /\ k.uid \in Uid /\ k.class \in Class
    BY <1>1 DEF ArrivalOf
<1>3. OpenSame(conn, conn', c)
    BY <1>1 DEF ArrivalOf, OpenSame
<1>4. announced' = [announced EXCEPT ![<<k.uid, k.class>>] = @ + 1]
    BY <1>1 DEF ArrivalOf
<1>5. announced \in [Uid \X Class -> Int]
    BY DEF IInv, CountersOK
<1>6. ASSUME NEW u \in Uid, NEW j \in Class
      PROVE  announced'[<<u, j>>] = Cardinality(OpenIn(conn', u, j))
    <2>. DEFINE one == IF u = k.uid /\ j = k.class THEN 1 ELSE 0
                n == Cardinality(OpenIn(conn, u, j))
    <2>1. n \in Nat /\ Cardinality(OpenIn(conn', u, j)) = n + one
        BY <1>2, <1>3, OneMore
    <2>2. announced[<<u, j>>] = n
        BY DEF AnnouncedIsOpen, OpenConns, OpenIn
    <2>3. announced'[<<u, j>>] = announced[<<u, j>>] + one
        BY <1>2, <1>4, <1>5
    <2>. HIDE DEF one, n
    <2>. QED BY <2>1, <2>2, <2>3
<1>. QED BY <1>6 DEF AnnouncedIsOpen, OpenConns, OpenIn

LEMMA KickKeepsAnnounced ==
    ASSUME IInv, AnnouncedIsOpen, NEW u, NEW k, NEW from, Kick(u, k, from)
    PROVE  AnnouncedIsOpen'
<1>1. SameButKicked(conn, conn') /\ announced' = announced
    BY KickStepKeepsState DEF IInv, Kick
<1>. QED BY <1>1, QuietKeepsAnnounced DEF SameButKicked, OpenSame

LEMMA InitAnnounced == Init => AnnouncedIsOpen
<1>. SUFFICES ASSUME Init, NEW u \in Uid, NEW k \in Class
     PROVE announced[<<u, k>>] = Cardinality(OpenConns(u, k))
    BY DEF AnnouncedIsOpen
<1>1. OpenConns(u, k) = {}
    BY DEF Init, OpenConns, FreeConn
<1>. QED BY <1>1, FS_EmptySet DEF Init

LEMMA NextAnnounced == IInv /\ AnnouncedIsOpen /\ [Next]_vars => AnnouncedIsOpen'
<1>. SUFFICES ASSUME IInv, AnnouncedIsOpen, [Next]_vars PROVE AnnouncedIsOpen'
    OBVIOUS
<1>1. ASSUME NEW c \in Conn,
             OnClose(c) \/ LoginTimeout(c) \/ RefuseLogin(c) \/ HandleLoginOutRequest(c)
      PROVE  AnnouncedIsOpen'
    BY <1>1, CloseKeepsAnnounced DEF OnClose, LoginTimeout, RefuseLogin, HandleLoginOutRequest
<1>2. ASSUME NEW c \in Conn, HandleKickPCClient(c) PROVE AnnouncedIsOpen'
    BY <1>2, KickKeepsAnnounced DEF HandleKickPCClient
<1>3. ASSUME NEW u \in Uid, NEW k \in Class, HandleKickUser(u, k) PROVE AnnouncedIsOpen'
    BY <1>3, KickKeepsAnnounced DEF HandleKickUser
<1>4. ASSUME NEW c \in Conn, NEW h \in Handle, OnConnect(c, h) PROVE AnnouncedIsOpen'
    <2>1. conn \in [Conn -> ConnType]
        BY DEF IInv, StateOK, ConnOK
    <2>2. conn' = [conn EXCEPT ![c] = [conn[c] EXCEPT !.handle = h]] /\ announced' = announced
        BY <1>4 DEF OnConnect
    <2>3. OpenSame(conn, conn', NoConn)
        BY <2>1, <2>2 DEF OpenSame, ConnType
    <2>. QED BY <2>2, <2>3, QuietKeepsAnnounced
<1>5. ASSUME NEW c \in Conn, NEW n \in Name, NEW k \in Class, HandleLoginRequest(c, n, k)
      PROVE  AnnouncedIsOpen'
    <2>1. conn \in [Conn -> ConnType] /\ ~conn[c].open
        BY <1>5, NullAssumption DEF IInv, StateOK, ConnOK, HandleLoginRequest, MayLogin
    <2>2. conn' = [conn EXCEPT ![c] = [conn[c] EXCEPT !.name = n, !.class = k]]
          /\ announced' = announced
        BY <1>5 DEF HandleLoginRequest
    <2>3. OpenSame(conn, conn', NoConn)
        BY <2>1, <2>2 DEF OpenSame, ConnType
    <2>. QED BY <2>2, <2>3, QuietKeepsAnnounced
<1>6. ASSUME NEW h \in Handle, NEW n \in Name, ValidateStale(h, n) \/ LoseValidation(h, n)
      PROVE  AnnouncedIsOpen'
    BY <1>6, QuietKeepsAnnounced DEF ValidateStale, LoseValidation, OpenSame
<1>7. ASSUME NEW h \in Handle, NEW n \in Name, ValidateRefused(h, n) PROVE AnnouncedIsOpen'
    <2>1. PICK c \in Waiting(h, n) : Close(c)
        BY <1>7 DEF ValidateRefused
    <2>2. c \in Conn
        BY WaitingWaits DEF IInv
    <2>. QED BY <2>1, <2>2, CloseKeepsAnnounced
<1>8. ASSUME NEW h \in Handle, NEW n \in Name, ValidateAccepted(h, n) PROVE AnnouncedIsOpen'
    BY <1>8, AcceptKeepsState, ArrivalKeepsAnnounced DEF IInv
<1>9. CASE UNCHANGED vars
    BY <1>9, QuietKeepsAnnounced DEF vars, OpenSame
<1>. QED BY <1>1, <1>2, <1>3, <1>4, <1>5, <1>6, <1>7, <1>8, <1>9 DEF Next

\* The login and route servers are told of each arrival and each departure once:
\* with every update delivered, they count the clients that are there.
THEOREM AnnouncedCorrect == Spec => []AnnouncedIsOpen
BY InitAnnounced, NextAnnounced, SpecIInv, PTL DEF Spec

-----------------------------------------------------------------------------
(***************************************************************************)
(* The refinement of UserPresence.  Phases and Members are what its        *)
(* variables are mapped to; by IInv the delivery lists are the sets of     *)
(* open connections, and every step is followed on those.                  *)
(***************************************************************************)
Phases  == [c \in Conn |-> Phase(c)]
Members == [p \in Uid \X Class |-> Delivered(p[1], p[2])]

OpenMembers(cs) == [p \in Uid \X Class |-> OpenIn(cs, p[1], p[2])]

\* Whom the broadcasts of CImUser walk over is who is open.
LEMMA DeliveredIsOpen ==
    ASSUME NEW cs, NEW r, StateOK(cs, r), NEW u \in Uid, NEW k \in Class
    PROVE  (IF r.byId[u] = NoUser THEN {}
            ELSE {c \in Conn : cs[c].class = k /\
                    \E h \in Handle : r.user[r.byId[u]].conns[h] = c})
           = OpenIn(cs, u, k)
<1>. DEFINE o == r.byId[u]
            D == IF o = NoUser THEN {}
                 ELSE {c \in Conn : cs[c].class = k /\
                        \E h \in Handle : r.user[o].conns[h] = c}
<1>1. D \subseteq Conn /\ OpenIn(cs, u, k) \subseteq Conn
    BY DEF OpenIn
<1>2. ASSUME NEW c \in Conn, c \in D PROVE c \in OpenIn(cs, u, k)
    <2>1. o # NoUser /\ cs[c].class = k
        BY <1>2
    <2>2. PICK h \in Handle : r.user[o].conns[h] = c
        BY <1>2
    <2>3. o \in UserObj /\ r.user[o].uid = u
        BY <2>1 DEF StateOK, IndexOK, RegType
    <2>. HIDE DEF o
    <2>4. r.user[o].conns[h] # NoConn
        BY <2>2, NullAssumption
    <2>5. cs[c].open /\ cs[c].uid = u
        BY <2>2, <2>3, <2>4 DEF StateOK, ConnsOK
    <2>. QED BY <2>1, <2>5 DEF OpenIn
<1>3. ASSUME NEW c \in Conn, c \in OpenIn(cs, u, k) PROVE c \in D
    <2>1. cs[c].open /\ cs[c].uid = u /\ cs[c].class = k
        BY <1>3 DEF OpenIn
    <2>2. o \in UserObj /\ cs[c].handle \in Handle /\ r.user[o].conns[cs[c].handle] = c
        BY <2>1, OpenConnFacts
    <2>. QED BY <2>1, <2>2, NullAssumption
<1>. HIDE DEF D
<1>4. D = OpenIn(cs, u, k)
    BY <1>1, <1>2, <1>3
<1>. QED BY <1>4 DEF D

LEMMA MembersAreOpen ==
    ASSUME IInv
    PROVE  Members = OpenMembers(conn)
<1>1. ASSUME NEW p \in Uid \X Class PROVE Delivered(p[1], p[2]) = OpenIn(conn, p[1], p[2])
    <2>1. StateOK(conn, reg) /\ p[1] \in Uid /\ p[2] \in Class
        BY DEF IInv
    <2>. QED BY <2>1, DeliveredIsOpen DEF Delivered
<1>. QED BY <1>1 DEF Members, OpenMembers

LEMMA MembersStayOpen ==
    ASSUME IInv'
    PROVE  Members' = OpenMembers(conn')
<1>1. ASSUME NEW p \in Uid \X Class PROVE Delivered(p[1], p[2])' = OpenIn(conn', p[1], p[2])
    <2>1. StateOK(conn', reg') /\ p[1] \in Uid /\ p[2] \in Class
        BY DEF IInv
    <2>. QED BY <2>1, DeliveredIsOpen DEF Delivered
<1>. QED BY <1>1 DEF Members, OpenMembers

\* The steps of UserPresence, read through the mapping.
LEMMA PresenceStutters ==
    ASSUME Phases' = Phases, Members' = Members, announced' = announced
    PROVE  UNCHANGED Presence!vars
BY DEF Presence!vars, Phases, Members

LEMMA PresenceConnects ==
    ASSUME NEW c \in Conn, Phases[c] = "idle", Phases' = [Phases EXCEPT ![c] = "connected"],
           Members' = Members, announced' = announced
    PROVE  Presence!Next
<1>1. Presence!Connect(c)
    BY DEF Presence!Connect, Phases, Members
<1>. QED BY <1>1 DEF Presence!Next

LEMMA PresenceSubmits ==
    ASSUME NEW c \in Conn, Phases[c] = "connected", Phases' = [Phases EXCEPT ![c] = "pending"],
           Members' = Members, announced' = announced
    PROVE  Presence!Next
<1>1. Presence!Submit(c)
    BY DEF Presence!Submit, Phases, Members
<1>. QED BY <1>1 DEF Presence!Next

LEMMA PresenceApproves ==
    ASSUME NEW c \in Conn, NEW u \in Uid, NEW k \in Class,
           Phases[c] = "pending", Phases' = [Phases EXCEPT ![c] = "online"],
           Members' = [Members EXCEPT ![<<u, k>>] = @ \cup {c}],
           announced' = [announced EXCEPT ![<<u, k>>] = @ + 1]
    PROVE  Presence!Next
<1>1. Presence!Approve(c, u, k)
    BY DEF Presence!Approve, Phases, Members
<1>. QED BY <1>1 DEF Presence!Next

LEMMA PresenceLeaves ==
    ASSUME NEW c \in Conn, Phases[c] # "idle", Phases' = [Phases EXCEPT ![c] = "idle"],
           Members' = [p \in Uid \X Class |-> Members[p] \ {c}],
           announced' = [p \in Uid \X Class |->
                IF c \in Members[p] THEN announced[p] - 1 ELSE announced[p]]
    PROVE  Presence!Next
<1>1. Presence!Leave(c)
    BY DEF Presence!Leave, Phases, Members
<1>. QED BY <1>1 DEF Presence!Next

\* Who leaves the open connections alone leaves the delivery lists alone.
LEMMA SameMembers ==
    ASSUME IInv, IInv', OpenSame(conn, conn', NoConn)
    PROVE  Members' = Members
<1>1. \A p \in Uid \X Class : OpenIn(conn', p[1], p[2]) = OpenIn(conn, p[1], p[2])
    BY NoneMore
<1>2. OpenMembers(conn') = OpenMembers(conn)
    BY <1>1 DEF OpenMembers
<1>. QED BY <1>2, MembersAreOpen, MembersStayOpen

\* A client changes its phase alone, the others keep theirs.
LEMMA OnePhase ==
    ASSUME NEW c \in Conn, \A d \in Conn \ {c} : Phase(d)' = Phase(d)
    PROVE  Phases' = [Phases EXCEPT ![c] = Phase(c)']
BY DEF Phases

LEMMA QuietStutters ==
    ASSUME IInv, IInv', SameButKicked(conn, conn'), announced' = announced
    PROVE  UNCHANGED Presence!vars
<1>1. OpenSame(conn, conn', NoConn)
    BY DEF SameButKicked, OpenSame
<1>2. \A c \in Conn : Phase(c)' = Phase(c)
    BY DEF SameButKicked, Phase, Up
<1>3. Phases' = Phases
    BY <1>2 DEF Phases
<1>. QED BY <1>1, <1>3, SameMembers, PresenceStutters

LEMMA CloseLeaves ==
    ASSUME IInv, IInv', NEW c \in Conn, Up(c), Close(c)
    PROVE  Presence!Next
<1>. DEFINE k == conn[c]
<1>1. /\ conn' = Freed(conn, c)
      /\ ~k.open => announced' = announced
      /\ k.open => /\ k.uid \in Uid /\ k.class \in Class
                   /\ announced' = [announced EXCEPT ![<<k.uid, k.class>>] = @ - 1]
    BY CloseTells
<1>2. /\ conn'[c].handle = NoHandle /\ ~conn'[c].open
      /\ \A d \in Conn : d # c => conn'[d] = conn[d]
    BY <1>1, FreedConn DEF IInv, StateOK
<1>3. Phases[c] # "idle"
    BY DEF Phases, Phase
<1>4. Phases' = [Phases EXCEPT ![c] = "idle"]
    <2>1. Phase(c)' = "idle"
        BY <1>2 DEF Phase, Up
    <2>2. \A d \in Conn \ {c} : Phase(d)' = Phase(d)
        BY <1>2 DEF Phase, Up
    <2>. QED BY <2>1, <2>2, OnePhase
<1>5. Members' = [p \in Uid \X Class |-> Members[p] \ {c}]
    <2>1. ASSUME NEW p \in Uid \X Class
          PROVE  OpenIn(conn', p[1], p[2]) = OpenIn(conn, p[1], p[2]) \ {c}
        BY <1>2 DEF OpenIn
    <2>. QED BY <2>1, MembersAreOpen, MembersStayOpen DEF OpenMembers
<1>6. announced' = [p \in Uid \X Class |->
            IF c \in Members[p] THEN announced[p] - 1 ELSE announced[p]]
    <2>1. announced \in [Uid \X Class -> Int]
        BY DEF IInv, CountersOK
    <2>2. ASSUME NEW p \in Uid \X Class
          PROVE  c \in Members[p] <=> (k.open /\ p = <<k.uid, k.class>>)
        <3>1. c \in Members[p] <=> (k.open /\ k.uid = p[1] /\ k.class = p[2])
            BY MembersAreOpen DEF OpenMembers, OpenIn
        <3>. QED BY <3>1
    <2>3. CASE ~k.open
        BY <1>1, <2>1, <2>2, <2>3
    <2>4. CASE k.open
        BY <1>1, <2>1, <2>2, <2>4
    <2>. QED BY <2>3, <2>4
<1>. QED BY <1>3, <1>4, <1>5, <1>6, PresenceLeaves

LEMMA ArrivalApproves ==
    ASSUME IInv, IInv', OneArrives
    PROVE  Presence!Next
<1>1. PICK c \in Conn : ArrivalOf(c)
    BY ArrivalTells
<1>. DEFINE u == conn'[c].uid
            k == conn'[c].class
<1>2. u \in Uid /\ k \in Class /\ announced' = [announced EXCEPT ![<<u, k>>] = @ + 1]
    BY <1>1 DEF ArrivalOf
<1>3. Phases[c] = "pending"
    <2>1. Phase(c) = "pending"
        BY <1>1, NullAssumption DEF ArrivalOf, Phase, Up
    <2>. QED BY <2>1 DEF Phases
<1>4. Phases' = [Phases EXCEPT ![c] = "online"]
    <2>1. Phase(c)' = "online"
        BY <1>1, NullAssumption DEF ArrivalOf, Phase, Up
    <2>2. \A d \in Conn \ {c} : Phase(d)' = Phase(d)
        BY <1>1 DEF ArrivalOf, Phase, Up
    <2>. QED BY <2>1, <2>2, OnePhase
<1>5. Members' = [Members EXCEPT ![<<u, k>>] = @ \cup {c}]
    <2>1. ASSUME NEW p \in Uid \X Class
          PROVE  OpenIn(conn', p[1], p[2]) =
                    IF p = <<u, k>> THEN OpenIn(conn, p[1], p[2]) \cup {c}
                    ELSE OpenIn(conn, p[1], p[2])
        <3>1. \A d \in Conn \ {c} :
                d \in OpenIn(conn', p[1], p[2]) <=> d \in OpenIn(conn, p[1], p[2])
            BY <1>1 DEF ArrivalOf, OpenIn
        <3>2. c \notin OpenIn(conn, p[1], p[2])
            BY <1>1 DEF ArrivalOf, OpenIn
        <3>3. c \in OpenIn(conn', p[1], p[2]) <=> p = <<u, k>>
            BY <1>1 DEF ArrivalOf, OpenIn
        <3>4. OpenIn(conn', p[1], p[2]) \subseteq Conn /\ OpenIn(conn, p[1], p[2]) \subseteq Conn
            BY DEF OpenIn
        <3>. QED BY <3>1, <3>2, <3>3, <3>4
    <2>. HIDE DEF u, k
    <2>2. /\ Members = [p \in Uid \X Class |-> OpenIn(conn, p[1], p[2])]
          /\ Members' = [p \in Uid \X Class |-> OpenIn(conn', p[1], p[2])]
        BY MembersAreOpen, MembersStayOpen DEF OpenMembers
    <2>3. ASSUME NEW p \in Uid \X Class
          PROVE  Members'[p] = IF p = <<u, k>> THEN Members[p] \cup {c} ELSE Members[p]
        BY <2>1, <2>2
    <2>. QED BY <2>2, <2>3
<1>. HIDE DEF u, k
<1>. QED BY <1>2, <1>3, <1>4, <1>5, PresenceApproves

LEMMA ConnectConnects ==
    ASSUME IInv, IInv', NEW c \in Conn, NEW h \in Handle, OnConnect(c, h)
    PROVE  Presence!Next
<1>1. /\ conn \in [Conn -> ConnType] /\ conn[c] = FreeConn
      /\ conn' = [conn EXCEPT ![c] = [FreeConn EXCEPT !.handle = h]]
      /\ announced' = announced
    BY DEF OnConnect, Up, IInv, StateOK, ConnOK
<1>2. /\ conn'[c].handle = h /\ ~conn'[c].open /\ conn'[c].name = NoName
      /\ ~conn[c].open /\ conn[c].handle = NoHandle
      /\ \A d \in Conn \ {c} : conn'[d] = conn[d]
    BY <1>1 DEF FreeConn
<1>3. OpenSame(conn, conn', NoConn)
    BY <1>2 DEF OpenSame
<1>4. Phases[c] = "idle"
    BY <1>2 DEF Phases, Phase, Up
<1>5. Phases' = [Phases EXCEPT ![c] = "connected"]
    <2>1. Phase(c)' = "connected"
        BY <1>2, NullAssumption DEF Phase, Up
    <2>2. \A d \in Conn \ {c} : Phase(d)' = Phase(d)
        BY <1>2 DEF Phase, Up
    <2>. QED BY <2>1, <2>2, OnePhase
<1>. QED BY <1>1, <1>3, <1>4, <1>5, SameMembers, PresenceConnects

LEMMA LoginSubmits ==
    ASSUME IInv, IInv', NEW c \in Conn, NEW n \in Name, NEW k \in Class,
           HandleLoginRequest(c, n, k)
    PROVE  Presence!Next
<1>1. /\ conn \in [Conn -> ConnType] /\ conn[c].name = NoName /\ ~conn[c].open
      /\ conn[c].handle # NoHandle
      /\ conn' = [conn EXCEPT ![c] = [conn[c] EXCEPT !.name = n, !.class = k]]
      /\ announced' = announced
    BY NullAssumption DEF HandleLoginRequest, MayLogin, Up, IInv, StateOK, ConnOK
<1>2. /\ conn'[c].handle = conn[c].handle /\ ~conn'[c].open /\ conn'[c].name = n
      /\ \A d \in Conn \ {c} : conn'[d] = conn[d]
    BY <1>1 DEF ConnType
<1>3. OpenSame(conn, conn', NoConn)
    BY <1>1, <1>2 DEF OpenSame
<1>4. Phases[c] = "connected"
    BY <1>1 DEF Phases, Phase, Up
<1>5. Phases' = [Phases EXCEPT ![c] = "pending"]
    <2>1. Phase(c)' = "pending"
        BY <1>1, <1>2, NullAssumption DEF Phase, Up
    <2>2. \A d \in Conn \ {c} : Phase(d)' = Phase(d)
        BY <1>2 DEF Phase, Up
    <2>. QED BY <2>1, <2>2, OnePhase
<1>. QED BY <1>1, <1>3, <1>4, <1>5, SameMembers, PresenceSubmits

LEMMA StepIsPresenceStep ==
    ASSUME IInv, [Next]_vars
    PROVE  [Presence!Next]_(Presence!vars)
<1>1. IInv'
    BY NextIInv
<1>2. ASSUME NEW c \in Conn,
             OnClose(c) \/ LoginTimeout(c) \/ RefuseLogin(c) \/ HandleLoginOutRequest(c)
      PROVE  Presence!Next
    BY <1>1, <1>2, CloseLeaves
       DEF OnClose, LoginTimeout, RefuseLogin, MayLogin, HandleLoginOutRequest
<1>3. ASSUME NEW u, NEW k, NEW from, Kick(u, k, from) PROVE UNCHANGED Presence!vars
    <2>1. SameButKicked(conn, conn') /\ announced' = announced
        BY <1>3, KickStepKeepsState DEF IInv, Kick
    <2>. QED BY <1>1, <2>1, QuietStutters
<1>4. ASSUME NEW c \in Conn, HandleKickPCClient(c) PROVE UNCHANGED Presence!vars
    BY <1>3, <1>4 DEF HandleKickPCClient
<1>5. ASSUME NEW u \in Uid, NEW k \in Class, HandleKickUser(u, k) PROVE UNCHANGED Presence!vars
    BY <1>3, <1>5 DEF HandleKickUser
<1>6. ASSUME NEW c \in Conn, NEW h \in Handle, OnConnect(c, h) PROVE Presence!Next
    BY <1>1, <1>6, ConnectConnects
<1>7. ASSUME NEW c \in Conn, NEW n \in Name, NEW k \in Class, HandleLoginRequest(c, n, k)
      PROVE  Presence!Next
    BY <1>1, <1>7, LoginSubmits
<1>8. ASSUME UNCHANGED <<conn, announced>> PROVE UNCHANGED Presence!vars
    <2>1. SameButKicked(conn, conn')
        BY <1>8 DEF SameButKicked, IInv, StateOK, ConnOK
    <2>. QED BY <1>1, <1>8, <2>1, QuietStutters
<1>9. ASSUME NEW h \in Handle, NEW n \in Name, ValidateStale(h, n) \/ LoseValidation(h, n)
      PROVE  UNCHANGED Presence!vars
    BY <1>8, <1>9 DEF ValidateStale, LoseValidation
<1>10. ASSUME NEW h \in Handle, NEW n \in Name, ValidateRefused(h, n) PROVE Presence!Next
    <2>1. PICK c \in Waiting(h, n) : Close(c)
        BY <1>10 DEF ValidateRefused
    <2>2. c \in Conn /\ Up(c)
        BY WaitingWaits, NullAssumption DEF IInv, Up
    <2>. QED BY <1>1, <2>1, <2>2, CloseLeaves
<1>11. ASSUME NEW h \in Handle, NEW n \in Name, ValidateAccepted(h, n) PROVE Presence!Next
    BY <1>1, <1>11, AcceptKeepsState, ArrivalApproves DEF IInv
<1>12. CASE UNCHANGED vars
    BY <1>8, <1>12 DEF vars
<1>. QED BY <1>2, <1>4, <1>5, <1>6, <1>7, <1>9, <1>10, <1>11, <1>12 DEF Next

LEMMA InitIsPresenceInit == Init => Presence!Init
<1>. SUFFICES ASSUME Init PROVE Presence!Init
    OBVIOUS
<1>1. Phases = [c \in Conn |-> "idle"]
    BY DEF Init, Phases, Phase, Up, FreeConn
<1>2. Members = [p \in Uid \X Class |-> {}]
    <2>1. \A u \in Uid : reg.byId[u] = NoUser
        BY DEF Init
    <2>. QED BY <2>1 DEF Members, Delivered
<1>. QED BY <1>1, <1>2 DEF Init, Presence!Init, Phases, Members

\* Every callback, whatever the maps and pointers it goes through, is one
\* step of UserPresence or changes nothing a client or a server can see.
THEOREM ImplementsPresenceCorrect == Spec => ImplementsPresence
BY InitIsPresenceInit, StepIsPresenceStep, SpecIInv, PTL
   DEF Spec, ImplementsPresence, Presence!Spec
=============================================================================
