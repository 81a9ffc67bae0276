---------------------------- MODULE UserPresence ----------------------------
(***************************************************************************)
(* What a msg_server promises about its clients, with no user objects, no  *)
(* indexes and no handles: a client connects, asks to log in, is approved  *)
(* as one class of client of one user, and leaves.  Messages for a user    *)
(* reach exactly its approved clients, and the other servers are told of   *)
(* every arrival and every departure once.                                 *)
(***************************************************************************)
EXTENDS Integers

CONSTANTS Conn, Uid, Class

VARIABLES
    phase,      \* [Conn -> {"idle", "connected", "pending", "online"}]
    members,    \* [Uid \X Class -> SUBSET Conn]: whom messages reach
    announced   \* [Uid \X Class -> Int]: arrivals minus departures told

vars == <<phase, members, announced>>

Init ==
    /\ phase = [c \in Conn |-> "idle"]
    /\ members = [p \in Uid \X Class |-> {}]
    /\ announced = [p \in Uid \X Class |-> 0]

Connect(c) ==
    /\ phase[c] = "idle"
    /\ phase' = [phase EXCEPT ![c] = "connected"]
    /\ UNCHANGED <<members, announced>>

Submit(c) ==
    /\ phase[c] = "connected"
    /\ phase' = [phase EXCEPT ![c] = "pending"]
    /\ UNCHANGED <<members, announced>>

Approve(c, u, k) ==
    /\ phase[c] = "pending"
    /\ phase' = [phase EXCEPT ![c] = "online"]
    /\ members' = [members EXCEPT ![<<u, k>>] = @ \cup {c}]
    /\ announced' = [announced EXCEPT ![<<u, k>>] = @ + 1]

\* Leaving takes the client out of the one membership it has, if any.
Leave(c) ==
    /\ phase[c] # "idle"
    /\ phase' = [phase EXCEPT ![c] = "idle"]
    /\ members' = [p \in Uid \X Class |-> members[p] \ {c}]
    /\ announced' = [p \in Uid \X Class |->
                        IF c \in members[p] THEN announced[p] - 1 ELSE announced[p]]

Next ==
    \E c \in Conn :
        \/ Connect(c) \/ Submit(c) \/ Leave(c)
        \/ \E u \in Uid, k \in Class : Approve(c, u, k)

Spec == Init /\ [][Next]_vars
=============================================================================
