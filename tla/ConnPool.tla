------------------------------ MODULE ConnPool ------------------------------
(***************************************************************************)
(* The connection pools of the database proxy: CDBPool over MySQL and      *)
(* CachePool over Redis, which are the same program.  Worker threads take  *)
(* a connection, open a new one while the pool is below its limit, sleep   *)
(* on the pool's condition variable when it is not, and give the           *)
(* connection back, which wakes one sleeper.                               *)
(*                                                                         *)
(* Each action is one critical section of m_free_notify: the mutex is held *)
(* from the entry, or from the return of Wait(), to the next Wait() or the *)
(* return.  A woken thread is one that pthread_cond_signal chose, or that  *)
(* woke by itself, and has not got the mutex again: others may be faster.  *)
(***************************************************************************)
EXTENDS Naturals, FiniteSets

CONSTANTS
    Thread,     \* the threads that use the pools
    Pool,       \* the pools, by name
    NoPool,
    MinConn,    \* connections a pool is created with (MIN_DB_CONN_CNT, MIN_CACHE_CONN_CNT)
    MaxConn     \* <pool>_maxconncnt of dbproxyserver.conf

ASSUME ThreadAssumption == IsFiniteSet(Thread)
ASSUME PoolAssumption == NoPool \notin Pool
ASSUME LimitAssumption == MinConn \in [Pool -> Nat \ {0}] /\ MaxConn \in [Pool -> Nat]

VARIABLES
    created,    \* m_db_cur_conn_cnt: connections opened, per pool; none is ever closed
    free,       \* m_free_list, per pool; connections are numbered as they are opened
    held,       \* the connections each thread took and did not give back
    waiting,    \* the pool each thread waits for, if it does
    woken       \* the waiting threads that are no longer asleep

poolVars == <<created, free, held, waiting, woken>>

PoolInit ==
    /\ created = MinConn
    /\ free = [p \in Pool |-> 1..MinConn[p]]
    /\ held = [t \in Thread |-> {}]
    /\ waiting = [t \in Thread |-> NoPool]
    /\ woken = {}

Sleepers(p) == {t \in Thread : waiting[t] = p /\ t \notin woken}
Woken(p)    == {t \in Thread : waiting[t] = p /\ t \in woken}

\* The thread calls GetDBConn, or continues after Wait().
MayEnter(t, p) == t \in Sleepers(NoPool) \cup Woken(p)

Leave(t) ==
    /\ waiting' = [waiting EXCEPT ![t] = NoPool]
    /\ woken' = woken \ {t}

\* A free connection is there.
Take(t, p, c) ==
    /\ MayEnter(t, p)
    /\ c \in free[p]
    /\ free' = [free EXCEPT ![p] = @ \ {c}]
    /\ held' = [held EXCEPT ![t] = @ \cup {<<p, c>>}]
    /\ Leave(t)
    /\ UNCHANGED created

MayGrow(p) == free[p] = {} /\ created[p] < MaxConn[p]

\* None is there and another may be opened: it goes through the list to the
\* caller, in one critical section.
Grow(t, p) ==
    LET c == created[p] + 1
    IN  /\ MayEnter(t, p)
        /\ MayGrow(p)
        /\ created' = [created EXCEPT ![p] = c]
        /\ held' = [held EXCEPT ![t] = @ \cup {<<p, c>>}]
        /\ Leave(t)
        /\ UNCHANGED free

\* The server cannot be connected to: the caller gets NULL.
GrowFails(t, p) ==
    /\ MayEnter(t, p)
    /\ MayGrow(p)
    /\ Leave(t)
    /\ UNCHANGED <<created, free, held>>

\* None is there and the pool is at its limit.
Wait(t, p) ==
    /\ MayEnter(t, p)
    /\ free[p] = {} /\ created[p] >= MaxConn[p]
    /\ waiting' = [waiting EXCEPT ![t] = p]
    /\ woken' = woken \ {t}
    /\ UNCHANGED <<created, free, held>>

\* pthread_cond_wait may return without a signal.
SpuriousWake(t) ==
    /\ waiting[t] # NoPool /\ t \notin woken
    /\ woken' = woken \cup {t}
    /\ UNCHANGED <<created, free, held, waiting>>

\* Mutant: the list is looked at before the connection is put back.
SignalIfFree(p) ==
    IF Sleepers(p) = {} \/ free[p] = {} THEN UNCHANGED woken
    ELSE \E s \in Sleepers(p) : woken' = woken \cup {s}

Signal(p) ==
    IF Sleepers(p) = {} THEN UNCHANGED woken
    ELSE \E s \in Sleepers(p) : woken' = woken \cup {s}

\* RelDBConn, by whoever still has the pointer: the pool cannot tell.  A
\* connection that is in the list already is not put there again.
Rel(t, p, c) ==
    /\ free' = [free EXCEPT ![p] = @ \cup {c}]
    /\ held' = [held EXCEPT ![t] = @ \ {<<p, c>>}]
    /\ Signal(p)
    /\ UNCHANGED <<created, waiting>>

\* What every user of a pool has to keep to: give back what you took, once.
Release(t, p, c) ==
    /\ t \in Sleepers(NoPool)
    /\ <<p, c>> \in held[t]
    /\ Rel(t, p, c)

PoolNext ==
    \E t \in Thread :
        \/ SpuriousWake(t)
        \/ \E p \in Pool :
            \/ Grow(t, p) \/ GrowFails(t, p) \/ Wait(t, p)
            \/ \E c \in 1..created[p] : Take(t, p, c) \/ Release(t, p, c)

PoolSpec == PoolInit /\ [][PoolNext]_poolVars

-----------------------------------------------------------------------------
\* Every variable of the pools keeps its type.
PoolTypeOK ==
    /\ created \in [Pool -> Nat]
    /\ free \in [Pool -> SUBSET Nat]
    /\ held \in [Thread -> SUBSET (Pool \X Nat)]
    /\ waiting \in [Thread -> Pool \cup {NoPool}]
    /\ woken \in SUBSET Thread

\* Every connection ever opened is in one place: in the free list, or with
\* one thread.  Two threads on one MYSQL or redisContext crash (the comment at
\* GroupMessageModel.cpp:86); one in neither place is lost to the pool, which
\* counts it for ever.  The count stays within the limit.
OneOwner ==
    /\ \A p \in Pool :
        /\ free[p] \subseteq 1..created[p]
        /\ created[p] <= MinConn[p] \/ created[p] <= MaxConn[p]
        /\ \A c \in 1..created[p] : c \in free[p] \/ \E t \in Thread : <<p, c>> \in held[t]
    /\ \A t \in Thread : \A x \in held[t] :
        /\ x[2] \in 1..created[x[1]]
        /\ x[2] \notin free[x[1]]
        /\ \A s \in Thread \ {t} : x \notin held[s]

\* A thread sleeps only while the pool cannot grow and every free connection
\* has a woken thread that will come for it: the single Signal() of RelDBConn
\* is never used up by a thread that leaves a connection behind.
NoMissedSignal ==
    \A p \in Pool : Sleepers(p) # {} =>
        /\ created[p] >= MaxConn[p]
        /\ Cardinality(free[p]) <= Cardinality(Woken(p))
=============================================================================
