-------------------------- MODULE RouteLinks_proofs --------------------------
(***************************************************************************)
(* Proofs about RouteLinks, for any number of route servers and any        *)
(* back-off bounds.  The inductive invariant is TypeOK with two additions: *)
(* no connection was opened in the future, which MasterIsOldest needs when *)
(* a second connection opens, which must not look older than the master;   *)
(* and no back-off is below its start, which ReconnectIsDue needs when it  *)
(* is doubled.                                                             *)
(***************************************************************************)
EXTENDS RouteLinks, WellFoundedInduction, TLAPS

\* No open connection is younger than the clock.
OpenedInThePast == \A i \in Slot : link[i].since <= now

\* The back-off starts at half of MIN_RECONNECT_CNT and never falls below it.
Half == MinReconnect \div 2
BackoffFloor == \A i \in Slot : link[i].reconnect >= Half

\* ReconnectIsDue of one slot.
Due(s) == s.conn = "none" => s.idle < s.reconnect /\ s.reconnect \in 2 * Half..MaxReconnect

IInv == TypeOK /\ OpenedInThePast /\ MasterIsOldest /\ ReconnectIsDue /\ BackoffFloor

-----------------------------------------------------------------------------
\* A non-empty set of natural numbers has a least element.
LEMMA LeastNatural ==
    ASSUME NEW S \in SUBSET Nat, S # {}
    PROVE  \E x \in S : \A y \in S : x <= y
<1>1. PICK x \in S : \A y \in S : ~(<<y, x>> \in OpToRel(<, Nat))
    BY NatLessThanWellFounded, WFMin
<1>2. \A y \in S : ~(y < x)
    BY <1>1 DEF OpToRel
<1>. QED BY <1>2

-----------------------------------------------------------------------------
\* The half of MIN_RECONNECT_CNT a fresh slot waits is a legal back-off.
LEMMA HalfMinimum == Half \in 1..MaxReconnect /\ 2 * Half <= MinReconnect
BY ReconnectAssumption DEF Half

\* serv_reset keeps the back-off between one tick and its maximum.
LEMMA BackoffBounded ==
    ASSUME NEW r \in 1..MaxReconnect
    PROVE  /\ Backoff(r) \in 1..MaxReconnect
           /\ r >= Half => Backoff(r) \in 2 * Half..MaxReconnect
<1>1. Backoff(r) \in 1..MaxReconnect
    BY ReconnectAssumption DEF Backoff
<1>2. ASSUME r >= Half PROVE Backoff(r) \in 2 * Half..MaxReconnect
    BY <1>2, ReconnectAssumption, HalfMinimum DEF Backoff
<1>. QED BY <1>1, <1>2

\* A closed slot has the type of a slot, is empty and is not due yet.
LEMMA ResetType ==
    ASSUME NEW s \in LinkType
    PROVE  /\ Reset(s) \in LinkType
           /\ Reset(s).conn = "none" /\ Reset(s).since = 0
           /\ s.reconnect >= Half => Due(Reset(s)) /\ Reset(s).reconnect >= Half
<1>1. /\ Backoff(s.reconnect) \in 1..MaxReconnect
      /\ s.reconnect >= Half => Backoff(s.reconnect) \in 2 * Half..MaxReconnect
    BY BackoffBounded DEF LinkType
<1>2. Reset(s) = [conn |-> "none", idle |-> 0, reconnect |-> Backoff(s.reconnect), since |-> 0]
    BY DEF Reset
<1>3. Reset(s) \in LinkType
    BY <1>1, <1>2, MaxTimeAssumption DEF LinkType
<1>4. ASSUME s.reconnect >= Half PROVE Due(Reset(s)) /\ Reset(s).reconnect >= Half
    BY <1>1, <1>2, <1>4, HalfMinimum DEF Due
<1>. QED BY <1>2, <1>3, <1>4

\* serv_check_reconnect keeps the type, opens nothing, and leaves an empty
\* slot only if it is not due.
LEMMA CheckReconnectType ==
    ASSUME NEW s \in LinkType, NEW a \in Attempts, NEW t, t = CheckReconnect(s, a)
    PROVE  /\ t \in LinkType
           /\ Due(s) => Due(t)
           /\ t.conn = "open" <=> s.conn = "open"
           /\ t.since = s.since /\ t.reconnect = s.reconnect
<1>1. CASE s.conn # "none"
    BY <1>1 DEF CheckReconnect
<1>2. CASE s.conn = "none" /\ s.idle + 1 >= s.reconnect
    <2>1. t = [s EXCEPT !.idle = @ + 1, !.conn = a]
        BY <1>2 DEF CheckReconnect
    <2>2. a \in {"connecting", "invalid"} /\ a # "none" /\ a # "open"
        BY DEF Attempts
    <2>3. t = [conn |-> a, idle |-> s.idle + 1, reconnect |-> s.reconnect, since |-> s.since]
        BY <2>1 DEF LinkType
    <2>4. s.idle \in Nat /\ s.reconnect \in 1..MaxReconnect /\ s.since \in 0..MaxTime
        BY DEF LinkType
    <2>5. t \in LinkType
        BY <2>2, <2>3, <2>4 DEF LinkType
    <2>. QED BY <1>2, <2>2, <2>3, <2>5 DEF Due
<1>3. CASE s.conn = "none" /\ ~(s.idle + 1 >= s.reconnect)
    <2>1. t = [s EXCEPT !.idle = @ + 1]
        BY <1>3 DEF CheckReconnect
    <2>2. t = [conn |-> "none", idle |-> s.idle + 1, reconnect |-> s.reconnect, since |-> s.since]
        BY <1>3, <2>1 DEF LinkType
    <2>3. s.idle \in Nat /\ s.reconnect \in 1..MaxReconnect /\ s.since \in 0..MaxTime
        BY DEF LinkType
    <2>4. t \in LinkType
        BY <2>2, <2>3 DEF LinkType
    <2>5. Due(s) => Due(t)
        BY <1>3, <2>2, <2>3, ReconnectAssumption DEF Due
    <2>. QED BY <1>3, <2>2, <2>4, <2>5
<1>. QED BY <1>1, <1>2, <1>3

\* update_master_route_serv_conn yields an open connection no other is older
\* than, when there is one.
LEMMA OldestOpenIsOldest ==
    ASSUME NEW l \in [Slot -> LinkType], OpenSlots(l) # {}
    PROVE  /\ OldestOpen(l) \in OpenSlots(l)
           /\ \A j \in OpenSlots(l) : l[OldestOpen(l)].since <= l[j].since
<1>. DEFINE times == {l[i].since : i \in OpenSlots(l)}
<1>1. \A i \in OpenSlots(l) : i \in Slot /\ l[i].since \in Nat /\ i \in Nat
    BY NAssumption, MaxTimeAssumption DEF OpenSlots, LinkType, Slot
<1>2. PICK t \in times : \A u \in times : t <= u
    <2>1. times \in SUBSET Nat /\ times # {}
        BY <1>1
    <2>. HIDE DEF times
    <2>. QED BY <2>1, LeastNatural
<1>. DEFINE first == {i \in OpenSlots(l) : l[i].since = t}
<1>3. PICK i \in first : \A j \in first : i <= j
    <2>1. first \in SUBSET Nat /\ first # {}
        BY <1>1, <1>2
    <2>. HIDE DEF first
    <2>. QED BY <2>1, LeastNatural
<1>4. i \in OpenSlots(l) /\ \A j \in OpenSlots(l) : Older(l, i, j)
    BY <1>1, <1>2, <1>3 DEF Older
<1>5. /\ OldestOpen(l) \in OpenSlots(l)
      /\ \A j \in OpenSlots(l) : Older(l, OldestOpen(l), j)
    BY <1>4 DEF OldestOpen
<1>. QED BY <1>1, <1>5 DEF Older

\* What update_master_route_serv_conn establishes: MasterIsOldest of l and m.
MasterOf(l, m) ==
    /\ m \in Slot \cup {NoSlot}
    /\ m = NoSlot <=> OpenSlots(l) = {}
    /\ m # NoSlot =>
        /\ IsOpen(l, m)
        /\ \A j \in OpenSlots(l) : l[m].since <= l[j].since

LEMMA OldestOpenIsMaster ==
    ASSUME NEW l \in [Slot -> LinkType] PROVE MasterOf(l, OldestOpen(l))
<1>1. CASE OpenSlots(l) = {}
    BY <1>1 DEF MasterOf, OldestOpen
<1>2. CASE OpenSlots(l) # {}
    BY <1>2, OldestOpenIsOldest, NoSlotAssumption DEF MasterOf, OpenSlots, Slot
<1>. QED BY <1>1, <1>2

\* Closing connections, one or several, leaves a master that is oldest.
LEMMA CloseAllKeepsMaster ==
    ASSUME TypeOK, MasterIsOldest, NEW S \in SUBSET Slot
    PROVE  LET l == CloseAll(link, S)
           IN  /\ l \in [Slot -> LinkType]
               /\ MasterOf(l, MasterAfterClose(l, S))
               /\ \A i \in S : l[i] = Reset(link[i])
               /\ \A i \in Slot \ S : l[i] = link[i]
<1>. DEFINE l == CloseAll(link, S)
<1>1. \A i \in Slot : l[i] = IF i \in S THEN Reset(link[i]) ELSE link[i]
    BY DEF CloseAll
<1>2. l \in [Slot -> LinkType]
    BY ResetType DEF CloseAll, TypeOK
<1>3. OpenSlots(l) = OpenSlots(link) \ S
    <2>1. \A i \in Slot : Reset(link[i]).conn # "open"
        BY ResetType DEF TypeOK
    <2>. QED BY <1>1, <2>1 DEF OpenSlots, IsOpen
<1>4. MasterOf(l, MasterAfterClose(l, S))
    <2>1. CASE master \in S
        BY <1>2, <2>1, OldestOpenIsMaster DEF MasterAfterClose
    <2>2. CASE master = NoSlot /\ master \notin S
        BY <1>3, <2>2 DEF MasterAfterClose, MasterIsOldest, MasterOf, TypeOK
    <2>3. CASE master # NoSlot /\ master \notin S
        <3>1. master \in Slot /\ master \in OpenSlots(link)
            BY <2>3 DEF TypeOK, MasterIsOldest, OpenSlots
        <3>2. master \in OpenSlots(l) /\ l[master] = link[master]
            BY <1>1, <1>3, <2>3, <3>1
        <3>3. \A j \in OpenSlots(l) : link[master].since <= link[j].since /\ l[j] = link[j]
            BY <1>1, <1>3, <2>3 DEF MasterIsOldest, OpenSlots
        <3>. QED BY <2>3, <3>1, <3>2, <3>3 DEF MasterAfterClose, MasterOf, OpenSlots
    <2>. QED BY <2>1, <2>2, <2>3
<1>. QED BY <1>1, <1>2, <1>4

-----------------------------------------------------------------------------
LEMMA InitIInv == Init => IInv
<1>. SUFFICES ASSUME Init PROVE IInv
    OBVIOUS
<1>1. PICK attempt \in [Slot -> Attempts] :
        link = [i \in Slot |-> [conn |-> attempt[i], idle |-> 0,
                                reconnect |-> Half, since |-> 0]]
    BY DEF Init, Half
<1>2. link \in [Slot -> LinkType]
    BY <1>1, HalfMinimum, MaxTimeAssumption DEF LinkType, Attempts
<1>3. OpenSlots(link) = {}
    BY <1>1 DEF OpenSlots, IsOpen, Attempts
<1>4. TypeOK
    BY <1>2, MaxTimeAssumption DEF Init, TypeOK
<1>5. OpenedInThePast /\ ReconnectIsDue /\ BackoffFloor
    BY <1>1, HalfMinimum DEF Init, OpenedInThePast, ReconnectIsDue, Attempts, BackoffFloor
<1>. QED BY <1>3, <1>4, <1>5 DEF IInv, Init, MasterIsOldest

LEMMA NextIInv == IInv /\ [Next]_vars => IInv'
<1>. SUFFICES ASSUME IInv, [Next]_vars PROVE IInv'
    OBVIOUS
<1>. USE DEF IInv
<1>1. ASSUME NEW i \in Slot, OnConfirm(i) PROVE IInv'
    <2>0. link[i] \in LinkType /\ link[i].conn = "connecting" /\ now \in 0..MaxTime
        BY <1>1 DEF OnConfirm, TypeOK
    <2>1. link'[i] = [link[i] EXCEPT !.conn = "open", !.since = now,
                                     !.reconnect = Half]
        BY <1>1, <2>0 DEF OnConfirm, TypeOK, Half
    <2>2. \A j \in Slot : j # i => link'[j] = link[j]
        BY <1>1 DEF OnConfirm, TypeOK
    <2>3. link' \in [Slot -> LinkType]
        <3>1. link'[i] \in LinkType
            BY <2>0, <2>1, HalfMinimum DEF LinkType
        <3>2. DOMAIN link' = Slot /\ link' = [j \in Slot |-> link'[j]]
            BY <1>1 DEF OnConfirm, TypeOK
        <3>. QED BY <2>2, <3>1, <3>2 DEF TypeOK
    <2>4. OpenSlots(link') = OpenSlots(link) \cup {i} /\ i \notin OpenSlots(link)
        BY <2>0, <2>1, <2>2 DEF OpenSlots, IsOpen, LinkType
    <2>5. link'[i].since = now /\ link'[i].conn = "open"
        BY <2>0, <2>1 DEF LinkType
    <2>6. MasterOf(link', master')
        <3>1. CASE master = NoSlot
            BY <1>1, <2>3, <3>1, OldestOpenIsMaster DEF OnConfirm
        <3>2. CASE master # NoSlot
            <4>1. master' = master /\ master \in Slot /\ master \in OpenSlots(link)
                BY <1>1, <3>2 DEF OnConfirm, TypeOK, MasterIsOldest, OpenSlots
            <4>2. master # i /\ link'[master] = link[master] /\ link[master].since <= now
                BY <2>2, <2>4, <4>1 DEF OpenedInThePast
            <4>3. \A j \in OpenSlots(link) : link[master].since <= link[j].since /\ link'[j] = link[j]
                BY <2>2, <2>4, <3>2 DEF MasterIsOldest, OpenSlots
            <4>. QED BY <2>4, <2>5, <3>2, <4>1, <4>2, <4>3 DEF MasterOf, OpenSlots, IsOpen
        <3>. QED BY <3>1, <3>2
    <2>7. OpenedInThePast' /\ ReconnectIsDue' /\ BackoffFloor'
        <3>1. \A j \in Slot : link'[j].since <= now
            BY <2>0, <2>2, <2>5, MaxTimeAssumption DEF OpenedInThePast
        <3>2. \A j \in Slot : Due(link'[j])
            BY <2>2, <2>5 DEF ReconnectIsDue, Due, Half
        <3>3. \A j \in Slot : link'[j].reconnect >= Half
            <4>1. link'[i].reconnect = Half
                BY <2>0, <2>1 DEF LinkType
            <4>. QED BY <2>2, <4>1, HalfMinimum DEF BackoffFloor
        <3>. QED BY <1>1, <3>1, <3>2, <3>3
             DEF OnConfirm, OpenedInThePast, ReconnectIsDue, Due, Half, BackoffFloor
    <2>. QED BY <1>1, <2>0, <2>3, <2>6, <2>7 DEF OnConfirm, TypeOK, MasterIsOldest, MasterOf
<1>2. ASSUME NEW i \in Slot, OnClose(i) PROVE IInv'
    <2>1. /\ link' \in [Slot -> LinkType]
          /\ MasterOf(link', master')
          /\ link'[i] = Reset(link[i])
          /\ \A j \in Slot \ {i} : link'[j] = link[j]
        BY <1>2, CloseAllKeepsMaster DEF OnClose
    <2>2. OpenedInThePast' /\ ReconnectIsDue' /\ BackoffFloor'
        <3>1. link[i] \in LinkType /\ 0 <= now
            BY MaxTimeAssumption DEF TypeOK
        <3>2. \A j \in Slot : link'[j].since <= now
            BY <2>1, <3>1, ResetType DEF OpenedInThePast
        <3>3. \A j \in Slot : Due(link'[j]) /\ link'[j].reconnect >= Half
            <4>1. Due(link'[i]) /\ link'[i].reconnect >= Half
                BY <2>1, <3>1, ResetType DEF BackoffFloor
            <4>2. \A j \in Slot : Due(link[j]) /\ link[j].reconnect >= Half
                BY DEF ReconnectIsDue, Due, Half, BackoffFloor
            <4>. QED BY <2>1, <4>1, <4>2
        <3>. QED BY <1>2, <3>2, <3>3
             DEF OnClose, OpenedInThePast, ReconnectIsDue, Due, Half, BackoffFloor
    <2>. QED BY <1>2, <2>1, <2>2 DEF OnClose, TypeOK, MasterIsOldest, MasterOf
<1>3. CASE Timer
    <2>1. PICK expired \in SUBSET {i \in Slot : link[i].conn \in Up},
               attempt \in [Slot -> Attempts] :
            /\ link' = [i \in Slot |-> CheckReconnect(CloseAll(link, expired)[i], attempt[i])]
            /\ master' = MasterAfterClose(CloseAll(link, expired), expired)
        BY <1>3 DEF Timer
    <2>. DEFINE left == CloseAll(link, expired)
    <2>2. /\ left \in [Slot -> LinkType]
          /\ MasterOf(left, master')
          /\ \A i \in expired : left[i] = Reset(link[i])
          /\ \A i \in Slot \ expired : left[i] = link[i]
        BY <2>1, CloseAllKeepsMaster
    <2>3. link' = [i \in Slot |-> CheckReconnect(left[i], attempt[i])]
        BY <2>1
    <2>4. \A i \in Slot : left[i].since <= now
        BY <2>2, ResetType DEF TypeOK, OpenedInThePast
    <2>10. \A i \in Slot : Due(left[i]) /\ left[i].reconnect >= Half
        <3>1. \A i \in Slot : Due(link[i]) /\ link[i].reconnect >= Half /\ link[i] \in LinkType
            BY DEF ReconnectIsDue, Due, Half, BackoffFloor, TypeOK
        <3>. QED BY <2>2, <3>1, ResetType
    <2>. HIDE DEF left
    <2>5. \A i \in Slot : /\ link'[i] \in LinkType
                          /\ Due(link'[i]) /\ link'[i].reconnect >= Half
                          /\ link'[i].conn = "open" <=> left[i].conn = "open"
                          /\ link'[i].since = left[i].since
        <3>. SUFFICES ASSUME NEW i \in Slot
             PROVE /\ link'[i] \in LinkType
                   /\ Due(link'[i]) /\ link'[i].reconnect >= Half
                   /\ link'[i].conn = "open" <=> left[i].conn = "open"
                   /\ link'[i].since = left[i].since
            OBVIOUS
        <3>1. left[i] \in LinkType /\ attempt[i] \in Attempts
            BY <2>1, <2>2
        <3>2. link'[i] = CheckReconnect(left[i], attempt[i])
            BY <2>3
        <3>. QED BY <2>10, <3>1, <3>2, CheckReconnectType
    <2>6. link' \in [Slot -> LinkType]
        BY <2>3, <2>5
    <2>7. OpenSlots(link') = OpenSlots(left)
        BY <2>5 DEF OpenSlots, IsOpen
    <2>8. MasterOf(link', master')
        BY <2>2, <2>5, <2>7 DEF MasterOf, IsOpen, OpenSlots
    <2>9. OpenedInThePast' /\ ReconnectIsDue' /\ BackoffFloor'
        BY <1>3, <2>4, <2>5 DEF Timer, OpenedInThePast, ReconnectIsDue, Due, Half, BackoffFloor
    <2>. QED BY <1>3, <2>6, <2>8, <2>9 DEF Timer, TypeOK, MasterIsOldest, MasterOf
<1>4. CASE Tick
    <2>1. link' = link /\ master' = master /\ now \in 0..MaxTime /\ now' = now + 1 /\ now < MaxTime
        BY <1>4 DEF Tick, TypeOK
    <2>2. \A i \in Slot : link[i].since \in Nat
        BY MaxTimeAssumption DEF TypeOK, LinkType
    <2>. QED BY <2>1, <2>2, MaxTimeAssumption
         DEF TypeOK, OpenedInThePast, MasterIsOldest, ReconnectIsDue, BackoffFloor, OpenSlots, IsOpen
<1>5. CASE UNCHANGED vars
    BY <1>5 DEF vars, TypeOK, OpenedInThePast, MasterIsOldest, ReconnectIsDue, BackoffFloor, OpenSlots, IsOpen
<1>. QED BY <1>1, <1>2, <1>3, <1>4, <1>5 DEF Next

\* Every state has its type: the back-off counter of ServInfo.h never leaves
\* 1..MAX_RECONNECT_CNT, however connections fail.
THEOREM TypeCorrect == Spec => []TypeOK
<1>1. IInv => TypeOK
    BY DEF IInv
<1>. QED BY InitIInv, NextIInv, <1>1, PTL DEF Spec

\* The master connection exists exactly while a route server is connected,
\* is open, and is the oldest: get_route_serv_conn keeps its comment.
THEOREM MasterCorrect == Spec => []MasterIsOldest
<1>1. IInv => MasterIsOldest
    BY DEF IInv
<1>. QED BY InitIInv, NextIInv, <1>1, PTL DEF Spec

\* No empty slot waits longer than its back-off, which stays between half of
\* MIN_RECONNECT_CNT, doubled, and MAX_RECONNECT_CNT.
THEOREM ReconnectCorrect == Spec => []ReconnectIsDue
<1>1. IInv => ReconnectIsDue
    BY DEF IInv
<1>. QED BY InitIInv, NextIInv, <1>1, PTL DEF Spec

\* An open master is never replaced: a server that reconnects, whatever its
\* index, does not take over.
THEOREM MasterStable == Spec => MasterIsStable
<1>1. IInv /\ [Next]_vars => [master # NoSlot /\ master' # master => ~IsOpen(link', master)]_vars
    <2>. SUFFICES ASSUME IInv, Next, master # NoSlot, master' # master
         PROVE ~IsOpen(link', master)
        BY DEF vars
    <2>. USE DEF IInv
    <2>0. master \in Slot
        BY DEF TypeOK
    <2>1. ASSUME NEW i \in Slot, OnConfirm(i) PROVE FALSE
        BY <2>1 DEF OnConfirm
    <2>2. ASSUME NEW i \in Slot, OnClose(i) PROVE ~IsOpen(link', master)
        <3>1. master = i
            BY <2>2 DEF OnClose, MasterAfterClose
        <3>. QED BY <2>0, <2>2, <3>1, CloseAllKeepsMaster, ResetType DEF OnClose, TypeOK, IsOpen
    <2>3. CASE Timer
        <3>1. PICK expired \in SUBSET {i \in Slot : link[i].conn \in Up},
                   attempt \in [Slot -> Attempts] :
                /\ link' = [i \in Slot |-> CheckReconnect(CloseAll(link, expired)[i], attempt[i])]
                /\ master' = MasterAfterClose(CloseAll(link, expired), expired)
            BY <2>3 DEF Timer
        <3>2. master \in expired
            BY <3>1 DEF MasterAfterClose
        <3>3. /\ CloseAll(link, expired)[master] = Reset(link[master])
              /\ CloseAll(link, expired)[master] \in LinkType
            BY <2>0, <3>2, CloseAllKeepsMaster
        <3>4. CloseAll(link, expired)[master].conn = "none"
            BY <2>0, <3>3, ResetType DEF TypeOK
        <3>5. link'[master] = CheckReconnect(CloseAll(link, expired)[master], attempt[master])
            BY <2>0, <3>1
        <3>6. attempt[master] \in Attempts
            BY <2>0, <3>1
        <3>. QED BY <3>3, <3>4, <3>5, <3>6, CheckReconnectType DEF IsOpen
    <2>4. CASE Tick
        BY <2>4 DEF Tick
    <2>. QED BY <2>1, <2>2, <2>3, <2>4 DEF Next
<1>. QED BY InitIInv, NextIInv, <1>1, PTL DEF Spec, MasterIsStable
=============================================================================
