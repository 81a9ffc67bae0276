----------------------------- MODULE RouteLinks -----------------------------
(***************************************************************************)
(* The connections a msg_server keeps to the route servers: one slot of    *)
(* g_route_server_list per server, the reconnection back-off of ServInfo.h *)
(* that all server-to-server connections share, and the master connection, *)
(* through which everything that must be routed once is sent.              *)
(***************************************************************************)
EXTENDS Integers

CONSTANTS
    N,              \* number of route servers configured
    MinReconnect,   \* MIN_RECONNECT_CNT, in ticks of the timer
    MaxReconnect,   \* MAX_RECONNECT_CNT
    NoSlot,
    MaxTime         \* bound on the clock

ASSUME NAssumption == N \in Nat
ASSUME ReconnectAssumption ==
    /\ MinReconnect \in Nat /\ MaxReconnect \in Nat
    /\ 2 <= MinReconnect /\ MinReconnect <= MaxReconnect
ASSUME NoSlotAssumption == NoSlot \notin 1..N
ASSUME MaxTimeAssumption == MaxTime \in Nat

VARIABLES
    link,   \* serv_info_t, with the state of its serv_conn, per slot
    master, \* g_master_rs_conn, as the slot of the connection
    now     \* get_tick_count(), taken as monotone

vars == <<link, master, now>>

Slot == 1..N

(***************************************************************************)
(* The states of serv_conn: "none" (NULL), "connecting", "open", and       *)
(* "invalid": an object whose connect() failed at once, with               *)
(* NETLIB_INVALID_HANDLE, in no connection map.                            *)
(***************************************************************************)
Attempts == {"connecting", "invalid"}
Up == {"connecting", "open"}

IsOpen(l, i) == l[i].conn = "open"

OpenSlots(l) == {i \in Slot : IsOpen(l, i)}

\* The first slot, in index order, whose connection is the oldest.
Older(l, i, j) == l[i].since < l[j].since \/ (l[i].since = l[j].since /\ i <= j)

OldestOpen(l) ==
    IF OpenSlots(l) = {} THEN NoSlot
    ELSE CHOOSE i \in OpenSlots(l) : \A j \in OpenSlots(l) : Older(l, i, j)

\* serv_reset: the back-off doubles, and starts over above its maximum.
Backoff(r) == IF 2 * r > MaxReconnect THEN MinReconnect ELSE 2 * r

Reset(s) == [conn |-> "none", idle |-> 0, reconnect |-> Backoff(s.reconnect), since |-> 0]

CloseAll(l, S) == [i \in Slot |-> IF i \in S THEN Reset(l[i]) ELSE l[i]]

\* Mutant: a lost master is not replaced.
MasterForgotten(l, S) == IF master \in S THEN NoSlot ELSE master

\* Close: a lost master is replaced by the oldest connection left.
MasterAfterClose(l, S) == IF master \in S THEN OldestOpen(l) ELSE master

\* Mutant: one tick late.
CheckReconnectLate(s, attempt) ==
    IF s.conn # "none" THEN s
    ELSE [s EXCEPT !.idle = @ + 1, !.conn = IF s.idle + 1 > s.reconnect THEN attempt ELSE "none"]

\* Mutant: the tick is not counted.
CheckReconnectUncounted(s, attempt) ==
    IF s.conn = "none" /\ s.idle + 1 >= s.reconnect THEN [s EXCEPT !.conn = attempt] ELSE s

\* serv_check_reconnect on one slot; `attempt' is what Connect would yield.
CheckReconnect(s, attempt) ==
    IF s.conn # "none" THEN s
    ELSE IF s.idle + 1 >= s.reconnect
         THEN [s EXCEPT !.idle = @ + 1, !.conn = attempt]
         ELSE [s EXCEPT !.idle = @ + 1]

-----------------------------------------------------------------------------
\* init_route_serv_conn: every slot is connected to at once.
Init ==
    /\ \E attempt \in [Slot -> Attempts] :
        link = [i \in Slot |-> [conn |-> attempt[i], idle |-> 0,
                                reconnect |-> MinReconnect \div 2, since |-> 0]]
    /\ master = NoSlot
    /\ now = 0

\* Mutant: the master is chosen anew whenever a connection is confirmed.
OnConfirmElects(i) ==
    /\ link[i].conn = "connecting"
    /\ link' = [link EXCEPT ![i].conn = "open", ![i].since = now,
                            ![i].reconnect = MinReconnect \div 2]
    /\ master' = OldestOpen(link')
    /\ UNCHANGED now

\* OnConfirm: connected; the back-off starts over.  The master is chosen
\* only when there is none.
OnConfirm(i) ==
    /\ link[i].conn = "connecting"
    /\ link' = [link EXCEPT ![i].conn = "open", ![i].since = now,
                            ![i].reconnect = MinReconnect \div 2]
    /\ master' = IF master = NoSlot THEN OldestOpen(link') ELSE master
    /\ UNCHANGED now

\* OnClose: the connect failed late, or the peer closed.
OnClose(i) ==
    /\ link[i].conn \in Up
    /\ link' = CloseAll(link, {i})
    /\ master' = MasterAfterClose(link', {i})
    /\ UNCHANGED now

\* The timer of one second: connections silent past SERVER_TIMEOUT are
\* closed, then every empty slot counts a tick and may connect.
Timer ==
    /\ \E expired \in SUBSET {i \in Slot : link[i].conn \in Up},
          attempt \in [Slot -> Attempts] :
        LET left == CloseAll(link, expired)
        IN  /\ link' = [i \in Slot |-> CheckReconnect(left[i], attempt[i])]
            /\ master' = MasterAfterClose(left, expired)
    /\ UNCHANGED now

Tick ==
    /\ now < MaxTime
    /\ now' = now + 1
    /\ UNCHANGED <<link, master>>

Next ==
    \/ \E i \in Slot : OnConfirm(i) \/ OnClose(i)
    \/ Timer
    \/ Tick

Spec == Init /\ [][Next]_vars

\* The event loop runs the timer every second.
FairSpec == Spec /\ WF_vars(Timer)

-----------------------------------------------------------------------------
LinkType == [conn : {"none", "connecting", "open", "invalid"}, idle : Nat,
             reconnect : 1..MaxReconnect, since : 0..MaxTime]

\* The back-off counter stays between one tick and MAX_RECONNECT_CNT.
TypeOK ==
    /\ link \in [Slot -> LinkType]
    /\ master \in Slot \cup {NoSlot}
    /\ now \in 0..MaxTime

\* "get the oldest route server connection": there is a master exactly while
\* some connection is open (a login is accepted on that test and then uses
\* the master), it is open, and no open connection is older.
MasterIsOldest ==
    /\ master = NoSlot <=> OpenSlots(link) = {}
    /\ master # NoSlot =>
        /\ IsOpen(link, master)
        /\ \A j \in OpenSlots(link) : link[master].since <= link[j].since

\* An empty slot is tried again when the back-off says, not later, and the back-off
\* is never shorter than the first one (a server that is down is not hammered) nor
\* longer than MAX_RECONNECT_CNT (it is not forgotten), however often attempts and
\* connections failed before.
ReconnectIsDue ==
    \A i \in Slot : link[i].conn = "none" =>
        /\ link[i].idle < link[i].reconnect
        /\ link[i].reconnect \in 2 * (MinReconnect \div 2)..MaxReconnect

\* The master changes only when its connection is gone: a reconnected or an
\* older-numbered server never takes over from an open master.
MasterIsStable ==
    [][master # NoSlot /\ master' # master => ~IsOpen(link', master)]_vars

\* An emptied slot is always followed by an attempt.  More does not hold: a
\* connect() that fails at once leaves an object in the slot that no timer looks
\* at, and the comment "will reconnect in 4s, 8s, 16s, ..." is not kept.
EmptySlotIsRetried == \A i \in Slot : link[i].conn = "none" ~> link[i].conn # "none"
=============================================================================
