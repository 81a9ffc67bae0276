---------------------------- MODULE DBProxy_proofs ----------------------------
(***************************************************************************)
(* Proofs about ConnPool, for any finite number of threads, any number of  *)
(* pools and any limits, and about DBProxy, which uses the pools, for any  *)
(* number of requests, workers and msg_servers.                            *)
(***************************************************************************)
EXTENDS DBProxy, FiniteSetTheorems, SequenceTheorems, WellFoundedInduction, TLAPS

-----------------------------------------------------------------------------
(***************************************************************************)
(* The pools: the type invariant, OneOwner and NoMissedSignal are          *)
(* inductive together.                                                     *)
(***************************************************************************)
PoolIInv == PoolTypeOK /\ OneOwner /\ NoMissedSignal

-----------------------------------------------------------------------------
(***************************************************************************)
(* The sets NoMissedSignal counts.                                         *)
(***************************************************************************)
LEMMA FreeIsFinite ==
    ASSUME PoolTypeOK, OneOwner, NEW p \in Pool
    PROVE  IsFiniteSet(free[p])
<1>1. IsFiniteSet(1..created[p])
    BY FS_Interval DEF PoolTypeOK
<1>. QED BY <1>1, FS_Subset DEF OneOwner

LEMMA WokenIsFinite ==
    ASSUME NEW p
    PROVE  IsFiniteSet(Woken(p))
BY ThreadAssumption, FS_Subset DEF Woken

\* A thread that is not asleep enters a pool and leaves it: every pool has the
\* sleepers it had, and lost no other woken thread than this one, which came
\* for a connection of p.
LEMMA LeaveResult ==
    ASSUME PoolTypeOK, NEW t \in Thread, NEW p \in Pool, MayEnter(t, p), Leave(t)
    PROVE  /\ waiting' \in [Thread -> Pool \cup {NoPool}]
           /\ woken' \in SUBSET Thread
           /\ \A q \in Pool : Sleepers(q)' = Sleepers(q)
           /\ Woken(p)' = Woken(p) \ {t}
           /\ \A q \in Pool \ {p} : Woken(q)' = Woken(q)
BY PoolAssumption DEF PoolTypeOK, MayEnter, Leave, Sleepers, Woken

\* With one connection less and at most one woken thread less, the balance of
\* NoMissedSignal is kept.
LEMMA TakeKeepsBalance ==
    ASSUME NEW F, NEW W, NEW c, NEW t, IsFiniteSet(F), IsFiniteSet(W), c \in F,
           Cardinality(F) <= Cardinality(W)
    PROVE  Cardinality(F \ {c}) <= Cardinality(W \ {t})
<1>1. Cardinality(F) \in Nat /\ Cardinality(W) \in Nat
    BY FS_CardinalityType
<1>2. Cardinality(F \ {c}) = Cardinality(F) - 1
    BY FS_RemoveElement
<1>3. Cardinality(W \ {t}) = IF t \in W THEN Cardinality(W) - 1 ELSE Cardinality(W)
    BY FS_RemoveElement
<1>. QED BY <1>1, <1>2, <1>3

\* One connection more is paid for by one more woken thread.
LEMMA SignalKeepsBalance ==
    ASSUME NEW F, NEW W, NEW c, NEW s, IsFiniteSet(F), IsFiniteSet(W), s \notin W,
           Cardinality(F) <= Cardinality(W)
    PROVE  Cardinality(F \cup {c}) <= Cardinality(W \cup {s})
<1>1. Cardinality(F) \in Nat /\ Cardinality(W) \in Nat
    BY FS_CardinalityType
<1>2. Cardinality(F \cup {c}) = IF c \in F THEN Cardinality(F) ELSE Cardinality(F) + 1
    BY FS_AddElement
<1>3. Cardinality(W \cup {s}) = Cardinality(W) + 1
    BY FS_AddElement
<1>. QED BY <1>1, <1>2, <1>3

-----------------------------------------------------------------------------
LEMMA InitPoolIInv == PoolInit => PoolIInv
<1>. SUFFICES ASSUME PoolInit PROVE PoolIInv
    OBVIOUS
<1>. USE DEF PoolInit
<1>1. PoolTypeOK
    BY LimitAssumption DEF PoolTypeOK
<1>2. OneOwner
    BY LimitAssumption DEF OneOwner
<1>3. NoMissedSignal
    BY PoolAssumption DEF NoMissedSignal, Sleepers
<1>. QED BY <1>1, <1>2, <1>3 DEF PoolIInv

\* A free connection changes hands.
LEMMA TakeKeeps ==
    ASSUME PoolIInv, NEW t \in Thread, NEW p \in Pool, NEW c \in 1..created[p], Take(t, p, c)
    PROVE  PoolIInv'
<1>. USE DEF PoolIInv, Take
<1>. USE LeaveResult
<1>1. PoolTypeOK'
    BY DEF PoolTypeOK
<1>2. OneOwner'
    BY DEF OneOwner, PoolTypeOK
<1>3. NoMissedSignal'
    <2>. SUFFICES ASSUME NEW q \in Pool, Sleepers(q)' # {}
         PROVE /\ created'[q] >= MaxConn[q]
               /\ Cardinality(free'[q]) <= Cardinality(Woken(q)')
        BY DEF NoMissedSignal
    <2>1. /\ created[q] >= MaxConn[q]
          /\ Cardinality(free[q]) <= Cardinality(Woken(q))
        BY DEF NoMissedSignal
    <2>2. CASE q = p
        <3>1. free'[p] = free[p] \ {c} /\ c \in free[p]
            BY DEF PoolTypeOK
        <3>2. Woken(p)' = Woken(p) \ {t}
            OBVIOUS
        <3>3. Cardinality(free[p] \ {c}) <= Cardinality(Woken(p) \ {t})
            BY <2>1, <2>2, <3>1, FreeIsFinite, WokenIsFinite, TakeKeepsBalance
        <3>. QED BY <2>1, <2>2, <3>1, <3>2, <3>3
    <2>3. CASE q # p
        BY <2>1, <2>3 DEF PoolTypeOK
    <2>. QED BY <2>2, <2>3
<1>. QED BY <1>1, <1>2, <1>3

\* A pool below its limit has no sleepers, and grows.
LEMMA GrowKeeps ==
    ASSUME PoolIInv, NEW t \in Thread, NEW p \in Pool, Grow(t, p)
    PROVE  PoolIInv'
<1>. USE DEF PoolIInv
<1>0. /\ MayEnter(t, p) /\ Leave(t) /\ MayGrow(p)
      /\ created' = [created EXCEPT ![p] = created[p] + 1]
      /\ held' = [held EXCEPT ![t] = @ \cup {<<p, created[p] + 1>>}]
      /\ free' = free
    BY DEF Grow
<1>. USE LeaveResult
<1>1. PoolTypeOK'
    BY <1>0 DEF PoolTypeOK
<1>2. OneOwner'
    <2>1. ASSUME NEW q \in Pool
          PROVE /\ free'[q] \subseteq 1..created'[q]
                /\ created'[q] <= MinConn[q] \/ created'[q] <= MaxConn[q]
        <3>1. /\ created[q] \in Nat /\ MaxConn[q] \in Nat
              /\ free[q] \subseteq 1..created[q]
              /\ created[q] <= MinConn[q] \/ created[q] <= MaxConn[q]
            BY LimitAssumption DEF OneOwner, PoolTypeOK
        <3>2. CASE q = p
            <4>1. created'[q] = created[q] + 1 /\ created[q] < MaxConn[q] /\ free'[q] = {}
                BY <1>0, <3>2 DEF MayGrow, PoolTypeOK
            <4>. QED BY <3>1, <4>1
        <3>3. CASE q # p
            <4>1. created'[q] = created[q] /\ free'[q] = free[q]
                BY <1>0, <3>3 DEF PoolTypeOK
            <4>. QED BY <3>1, <4>1
        <3>. QED BY <3>2, <3>3
    <2>2. ASSUME NEW q \in Pool, NEW c \in 1..created'[q]
          PROVE c \in free'[q] \/ \E s \in Thread : <<q, c>> \in held'[s]
        <3>1. CASE q = p /\ c = created[p] + 1
            BY <1>0, <3>1 DEF PoolTypeOK
        <3>2. CASE ~(q = p /\ c = created[p] + 1)
            <4>1. c \in 1..created[q]
                BY <1>0, <3>2 DEF PoolTypeOK
            <4>. QED BY <1>0, <4>1 DEF OneOwner, PoolTypeOK
        <3>. QED BY <3>1, <3>2
    <2>3. ASSUME NEW s \in Thread, NEW x \in held'[s]
          PROVE /\ x[2] \in 1..created'[x[1]]
                /\ x[2] \notin free'[x[1]]
                /\ \A r \in Thread \ {s} : x \notin held'[r]
        <3>1. CASE x = <<p, created[p] + 1>>
            <4>1. \A r \in Thread : x \notin held[r]
                BY <3>1 DEF OneOwner, PoolTypeOK
            <4>2. s = t
                BY <1>0, <4>1 DEF PoolTypeOK
            <4>3. created[p] + 1 \notin free[p]
                BY DEF OneOwner, PoolTypeOK
            <4>. QED BY <1>0, <3>1, <4>1, <4>2, <4>3 DEF PoolTypeOK
        <3>2. CASE x # <<p, created[p] + 1>>
            <4>1. x \in held[s] /\ x \in Pool \X Nat
                BY <1>0, <3>2 DEF PoolTypeOK
            <4>2. /\ x[2] \in 1..created[x[1]]
                  /\ x[2] \notin free[x[1]]
                  /\ \A r \in Thread \ {s} : x \notin held[r]
                BY <4>1 DEF OneOwner
            <4>. QED BY <1>0, <3>2, <4>1, <4>2 DEF PoolTypeOK
        <3>. QED BY <3>1, <3>2
    <2>. QED BY <2>1, <2>2, <2>3 DEF OneOwner
<1>3. NoMissedSignal'
    <2>. SUFFICES ASSUME NEW q \in Pool, Sleepers(q)' # {}
         PROVE /\ created'[q] >= MaxConn[q]
               /\ Cardinality(free'[q]) <= Cardinality(Woken(q)')
        BY DEF NoMissedSignal
    <2>1. /\ created[q] >= MaxConn[q]
          /\ Cardinality(free[q]) <= Cardinality(Woken(q))
        BY <1>0 DEF NoMissedSignal
    <2>2. q # p
        <3>1. created[q] \in Nat /\ MaxConn[q] \in Nat
            BY LimitAssumption DEF PoolTypeOK
        <3>2. created[p] < MaxConn[p]
            BY <1>0 DEF MayGrow
        <3>. QED BY <2>1, <3>1, <3>2
    <2>3. created'[q] = created[q] /\ free'[q] = free[q]
        BY <1>0, <2>2 DEF PoolTypeOK
    <2>4. Woken(q)' = Woken(q)
        BY <1>0, <2>2
    <2>. QED BY <2>1, <2>3, <2>4
<1>. QED BY <1>1, <1>2, <1>3

\* The same when no connection can be opened.
LEMMA GrowFailsKeeps ==
    ASSUME PoolIInv, NEW t \in Thread, NEW p \in Pool, GrowFails(t, p)
    PROVE  PoolIInv'
<1>. USE DEF PoolIInv, GrowFails
<1>. USE LeaveResult
<1>1. PoolTypeOK'
    BY DEF PoolTypeOK
<1>2. OneOwner'
    BY DEF OneOwner
<1>3. NoMissedSignal'
    <2>. SUFFICES ASSUME NEW q \in Pool, Sleepers(q)' # {}
         PROVE /\ created'[q] >= MaxConn[q]
               /\ Cardinality(free'[q]) <= Cardinality(Woken(q)')
        BY DEF NoMissedSignal
    <2>1. /\ created[q] >= MaxConn[q]
          /\ Cardinality(free[q]) <= Cardinality(Woken(q))
        BY DEF NoMissedSignal
    <2>2. q # p
        <3>1. created[q] \in Nat /\ MaxConn[q] \in Nat
            BY LimitAssumption DEF PoolTypeOK
        <3>2. created[p] < MaxConn[p]
            BY DEF MayGrow
        <3>. QED BY <2>1, <3>1, <3>2
    <2>. QED BY <2>1, <2>2
<1>. QED BY <1>1, <1>2, <1>3

\* A thread goes to sleep only where nothing is free.
LEMMA WaitKeeps ==
    ASSUME PoolIInv, NEW t \in Thread, NEW p \in Pool, Wait(t, p)
    PROVE  PoolIInv'
<1>. USE DEF PoolIInv, Wait
<1>1. PoolTypeOK'
    BY DEF PoolTypeOK
<1>2. OneOwner'
    BY DEF OneOwner
<1>3. NoMissedSignal'
    <2>. SUFFICES ASSUME NEW q \in Pool, Sleepers(q)' # {}
         PROVE /\ created'[q] >= MaxConn[q]
               /\ Cardinality(free'[q]) <= Cardinality(Woken(q)')
        BY DEF NoMissedSignal
    <2>1. CASE q = p
        <3>1. Cardinality(free'[p]) = 0
            BY FS_EmptySet
        <3>2. Cardinality(Woken(p)') \in Nat
            <4>1. Woken(p)' \in SUBSET Thread
                BY DEF Woken
            <4>. QED BY <4>1, ThreadAssumption, FS_Subset, FS_CardinalityType
        <3>. QED BY <2>1, <3>1, <3>2
    <2>2. CASE q # p
        <3>1. Sleepers(q)' = Sleepers(q) /\ Woken(q)' = Woken(q)
            BY <2>2, PoolAssumption DEF MayEnter, Sleepers, Woken, PoolTypeOK
        <3>. QED BY <3>1 DEF NoMissedSignal
    <2>. QED BY <2>1, <2>2
<1>. QED BY <1>1, <1>2, <1>3

\* A sleeper that wakes by itself is one more that will look.
LEMMA SpuriousWakeKeeps ==
    ASSUME PoolIInv, NEW t \in Thread, SpuriousWake(t)
    PROVE  PoolIInv'
<1>. USE DEF PoolIInv, SpuriousWake
<1>1. PoolTypeOK'
    BY DEF PoolTypeOK
<1>2. OneOwner'
    BY DEF OneOwner
<1>3. NoMissedSignal'
    <2>. SUFFICES ASSUME NEW q \in Pool, Sleepers(q)' # {}
         PROVE /\ created'[q] >= MaxConn[q]
               /\ Cardinality(free'[q]) <= Cardinality(Woken(q)')
        BY DEF NoMissedSignal
    <2>1. Sleepers(q) # {}
        BY DEF Sleepers
    <2>2. /\ created[q] >= MaxConn[q]
          /\ Cardinality(free[q]) <= Cardinality(Woken(q))
        BY <2>1 DEF NoMissedSignal
    <2>3. Woken(q) \in SUBSET Woken(q)' /\ Woken(q)' \in SUBSET Thread
        BY DEF Woken
    <2>4. IsFiniteSet(Woken(q)')
        BY <2>3, ThreadAssumption, FS_Subset
    <2>5. Cardinality(Woken(q)) <= Cardinality(Woken(q)')
        BY <2>3, <2>4, FS_Subset
    <2>6. /\ Cardinality(Woken(q)) \in Nat /\ Cardinality(Woken(q)') \in Nat
          /\ Cardinality(free[q]) \in Nat
        BY <2>4, WokenIsFinite, FreeIsFinite, FS_CardinalityType
    <2>. QED BY <2>2, <2>5, <2>6
<1>. QED BY <1>1, <1>2, <1>3

\* A connection goes back into the list, and its Signal() to a thread that was
\* not counted yet.
LEMMA ReleaseKeeps ==
    ASSUME PoolIInv, NEW t \in Thread, NEW p \in Pool, NEW c \in 1..created[p],
           Release(t, p, c)
    PROVE  PoolIInv'
<1>. USE DEF PoolIInv
<1>0. /\ <<p, c>> \in held[t]
      /\ free' = [free EXCEPT ![p] = @ \cup {c}]
      /\ held' = [held EXCEPT ![t] = @ \ {<<p, c>>}]
      /\ created' = created /\ waiting' = waiting
      /\ Signal(p)
    BY DEF Release, Rel
<1>1. /\ woken' \in SUBSET Thread
      /\ woken \subseteq woken'
      /\ Sleepers(p) # {} => \E s \in Sleepers(p) : woken' = woken \cup {s}
      /\ Sleepers(p) = {} => woken' = woken
    BY <1>0 DEF Signal, Sleepers, PoolTypeOK
<1>2. PoolTypeOK'
    BY <1>0, <1>1 DEF PoolTypeOK
<1>3. OneOwner'
    <2>1. ASSUME NEW q \in Pool
          PROVE /\ free'[q] \subseteq 1..created'[q]
                /\ created'[q] <= MinConn[q] \/ created'[q] <= MaxConn[q]
        BY <1>0 DEF OneOwner, PoolTypeOK
    <2>2. ASSUME NEW q \in Pool, NEW d \in 1..created'[q]
          PROVE d \in free'[q] \/ \E s \in Thread : <<q, d>> \in held'[s]
        <3>1. CASE q = p /\ d = c
            BY <1>0, <3>1 DEF PoolTypeOK
        <3>2. CASE ~(q = p /\ d = c)
            <4>1. d \in free[q] \/ \E s \in Thread : <<q, d>> \in held[s]
                BY <1>0 DEF OneOwner
            <4>. QED BY <1>0, <3>2, <4>1 DEF PoolTypeOK
        <3>. QED BY <3>1, <3>2
    <2>3. ASSUME NEW s \in Thread, NEW x \in held'[s]
          PROVE /\ x[2] \in 1..created'[x[1]]
                /\ x[2] \notin free'[x[1]]
                /\ \A r \in Thread \ {s} : x \notin held'[r]
        <3>1. x \in held[s] /\ x \in Pool \X Nat
            BY <1>0 DEF PoolTypeOK
        <3>2. /\ x[2] \in 1..created[x[1]]
              /\ x[2] \notin free[x[1]]
              /\ \A r \in Thread \ {s} : x \notin held[r]
            BY <3>1 DEF OneOwner
        <3>3. x # <<p, c>>
            <4>1. CASE s = t
                BY <1>0, <4>1 DEF PoolTypeOK
            <4>2. CASE s # t
                BY <1>0, <3>2, <4>2
            <4>. QED BY <4>1, <4>2
        <3>4. ~(x[1] = p /\ x[2] = c)
            BY <3>1, <3>3
        <3>. QED BY <1>0, <3>1, <3>2, <3>4 DEF PoolTypeOK
    <2>. QED BY <2>1, <2>2, <2>3 DEF OneOwner
<1>4. NoMissedSignal'
    <2>. SUFFICES ASSUME NEW q \in Pool, Sleepers(q)' # {}
         PROVE /\ created'[q] >= MaxConn[q]
               /\ Cardinality(free'[q]) <= Cardinality(Woken(q)')
        BY DEF NoMissedSignal
    <2>1. Sleepers(q) # {}
        BY <1>0, <1>1 DEF Sleepers
    <2>2. /\ created[q] >= MaxConn[q]
          /\ Cardinality(free[q]) <= Cardinality(Woken(q))
        BY <2>1 DEF NoMissedSignal
    <2>3. CASE q = p
        <3>1. PICK s \in Sleepers(p) : woken' = woken \cup {s}
            BY <1>1, <2>1, <2>3
        <3>2. Woken(p)' = Woken(p) \cup {s} /\ s \notin Woken(p)
            BY <1>0, <3>1 DEF Woken, Sleepers
        <3>3. free'[p] = free[p] \cup {c}
            BY <1>0 DEF PoolTypeOK
        <3>4. Cardinality(free[p] \cup {c}) <= Cardinality(Woken(p) \cup {s})
            BY <2>2, <2>3, <3>2, FreeIsFinite, WokenIsFinite, SignalKeepsBalance
        <3>. QED BY <1>0, <2>2, <2>3, <3>2, <3>3, <3>4
    <2>4. CASE q # p
        <3>1. Woken(q)' = Woken(q)
            <4>1. CASE Sleepers(p) = {}
                BY <1>0, <1>1, <4>1 DEF Woken
            <4>2. CASE Sleepers(p) # {}
                BY <1>0, <1>1, <2>4, <4>2 DEF Woken, Sleepers
            <4>. QED BY <4>1, <4>2
        <3>. QED BY <1>0, <2>2, <2>4, <3>1 DEF PoolTypeOK
    <2>. QED BY <2>3, <2>4
<1>. QED BY <1>2, <1>3, <1>4

LEMMA NextPoolIInv == PoolIInv /\ [PoolNext]_poolVars => PoolIInv'
<1>. SUFFICES ASSUME PoolIInv, [PoolNext]_poolVars PROVE PoolIInv'
    OBVIOUS
<1>1. CASE UNCHANGED poolVars
    BY <1>1 DEF PoolIInv, PoolTypeOK, OneOwner, NoMissedSignal, Sleepers, Woken, poolVars
<1>2. ASSUME NEW t \in Thread, SpuriousWake(t) PROVE PoolIInv'
    BY <1>2, SpuriousWakeKeeps
<1>3. ASSUME NEW t \in Thread, NEW p \in Pool, Grow(t, p) PROVE PoolIInv'
    BY <1>3, GrowKeeps
<1>4. ASSUME NEW t \in Thread, NEW p \in Pool, GrowFails(t, p) PROVE PoolIInv'
    BY <1>4, GrowFailsKeeps
<1>5. ASSUME NEW t \in Thread, NEW p \in Pool, Wait(t, p) PROVE PoolIInv'
    BY <1>5, WaitKeeps
<1>6. ASSUME NEW t \in Thread, NEW p \in Pool, NEW c \in 1..created[p], Take(t, p, c)
      PROVE PoolIInv'
    BY <1>6, TakeKeeps
<1>7. ASSUME NEW t \in Thread, NEW p \in Pool, NEW c \in 1..created[p], Release(t, p, c)
      PROVE PoolIInv'
    BY <1>7, ReleaseKeeps
<1>. QED BY <1>1, <1>2, <1>3, <1>4, <1>5, <1>6, <1>7 DEF PoolNext

-----------------------------------------------------------------------------
\* Every variable of the pools keeps its type.
THEOREM PoolTypeCorrect == PoolSpec => []PoolTypeOK
<1>1. PoolIInv => PoolTypeOK
    BY DEF PoolIInv
<1>. QED BY InitPoolIInv, NextPoolIInv, <1>1, PTL DEF PoolSpec

\* However many threads share a pool, GetDBConn never hands one connection to
\* two of them, loses none and opens no more than the limit, as long as its
\* users give back once what they took.
THEOREM OneOwnerCorrect == PoolSpec => []OneOwner
<1>1. PoolIInv => OneOwner
    BY DEF PoolIInv
<1>. QED BY InitPoolIInv, NextPoolIInv, <1>1, PTL DEF PoolSpec

\* One Signal() per RelDBConn is enough: nobody sleeps beside a connection that
\* no woken thread is coming for, whoever overtakes whom at the mutex and
\* however often threads wake without a signal.
THEOREM NoMissedSignalCorrect == PoolSpec => []NoMissedSignal
<1>1. PoolIInv => NoMissedSignal
    BY DEF PoolIInv
<1>. QED BY InitPoolIInv, NextPoolIInv, <1>1, PTL DEF PoolSpec

-----------------------------------------------------------------------------
(***************************************************************************)
(* Where a handler may be after the data have decided: Landings is defined *)
(* by recursion from the end of the handler, so an equation is solved one  *)
(* step earlier each time, and has a solution on every step.               *)
(***************************************************************************)
LEMMA LeastNatural ==
    ASSUME NEW S \in SUBSET Nat, S # {}
    PROVE  \E x \in S : \A y \in S : x <= y
<1>1. PICK x \in S : \A y \in S : ~(<<y, x>> \in OpToRel(<, Nat))
    BY NatLessThanWellFounded, WFMin
<1>2. \A y \in S : ~(y < x)
    BY <1>1 DEF OpToRel
<1>. QED BY <1>2

\* The steps of handlers.
Steps == [op : {"get", "rel", "use", "branch", "answer"}, pool : Pool \cup {NoPool},
          var : 0..2, jump : 0..Return]

\* The equation Landings solves for one handler s, on the steps from k on.
LandsAt(s, f, n) ==
    IF n >= Len(s) + 1 THEN {Len(s) + 1}
    ELSE IF s[n].op = "branch" THEN f[n + 1] \cup f[n + 1 + s[n].jump] ELSE {n}

Lands(s, f, k) == f = [n \in k..(Len(s) + 1 + Return) |-> LandsAt(s, f, n)]

LEMMA OneStepEarlier ==
    ASSUME NEW s \in Seq(Steps), NEW k \in 1..(Len(s) + 1 + Return), NEW f, Lands(s, f, k + 1)
    PROVE  \E g : Lands(s, g, k)
<1>. DEFINE top == Len(s) + 1 + Return
            g == [n \in k..top |-> IF n = k THEN LandsAt(s, f, n) ELSE f[n]]
<1>1. top \in Nat /\ Len(s) \in Nat /\ k \in Nat /\ top = Len(s) + 101
    BY DEF Return
<1>2. ASSUME NEW n \in k..top PROVE LandsAt(s, f, n) = LandsAt(s, g, n)
    <2>1. CASE n >= Len(s) + 1
        BY <2>1 DEF LandsAt
    <2>2. CASE n < Len(s) + 1
        <3>1. s[n] \in Steps
            BY <1>1, <2>2
        <3>2. s[n].jump \in 0..100
            BY <3>1 DEF Steps, Return
        <3>3. n + 1 \in (k + 1)..top /\ n + 1 + s[n].jump \in (k + 1)..top
            <4>. DEFINE l == Len(s)
                        j == s[n].jump
            <4>1. l \in Nat /\ k \in Nat /\ j \in 0..100 /\ n \in Int /\ n < l + 1 /\ k <= n
                BY <1>1, <2>2, <3>2
            <4>2. top = l + 101
                BY <1>1
            <4>. HIDE DEF l, j, top
            <4>3. n + 1 \in (k + 1)..top /\ n + 1 + j \in (k + 1)..top
                BY <4>1, <4>2
            <4>. QED BY <4>3 DEF j
        <3>4. g[n + 1] = f[n + 1] /\ g[n + 1 + s[n].jump] = f[n + 1 + s[n].jump]
            BY <1>1, <3>3
        <3>. HIDE DEF g, top
        <3>. QED BY <3>4 DEF LandsAt
    <2>. QED BY <1>1, <2>1, <2>2
<1>3. \A n \in (k + 1)..top : f[n] = LandsAt(s, f, n)
    BY DEF Lands
<1>4. \A n \in k..top : g[n] = LandsAt(s, g, n)
    <2>. SUFFICES ASSUME NEW n \in k..top PROVE g[n] = LandsAt(s, g, n)
        OBVIOUS
    <2>1. g[n] = LandsAt(s, f, n)
        <3>1. CASE n = k
            BY <3>1
        <3>2. CASE n # k
            <4>1. n \in (k + 1)..top
                BY <1>1, <3>2
            <4>. HIDE DEF top
            <4>. QED BY <1>3, <3>2, <4>1
        <3>. QED BY <3>1, <3>2
    <2>. HIDE DEF g
    <2>. QED BY <1>2, <2>1
<1>5. g = [n \in k..top |-> g[n]]
    OBVIOUS
<1>6. Lands(s, g, k)
    <2>. HIDE DEF g
    <2>. QED BY <1>4, <1>5 DEF Lands
<1>. QED BY <1>6

LEMMA LandingsExist ==
    ASSUME NEW s \in Seq(Steps)
    PROVE  \E f : Lands(s, f, 1)
<1>. DEFINE top == Len(s) + 1 + Return
            Missing == {m \in Nat : m <= top /\ ~\E f : Lands(s, f, top + 1 - m)}
<1>1. top \in Nat /\ Len(s) \in Nat
    BY DEF Return
<1>2. SUFFICES ASSUME Missing # {} PROVE FALSE
    <2>1. top \notin Missing => \E f : Lands(s, f, top + 1 - top)
        BY <1>1
    <2>2. top + 1 - top = 1
        BY <1>1
    <2>. QED BY <2>1, <2>2
<1>3. PICK m \in Missing : \A y \in Missing : m <= y
    <2>1. Missing \in SUBSET Nat
        OBVIOUS
    <2>. HIDE DEF Missing
    <2>. QED BY <1>2, <2>1, LeastNatural
<1>4. m \in Nat /\ m <= top /\ ~\E f : Lands(s, f, top + 1 - m)
    BY <1>3
<1>5. CASE m = 0
    <2>. DEFINE f == [n \in (top + 1)..top |-> {}]
    <2>1. (top + 1)..top = {}
        BY <1>1
    <2>2. f = [n \in (top + 1)..top |-> LandsAt(s, f, n)]
        BY <2>1
    <2>3. Lands(s, f, top + 1)
        BY <2>2 DEF Lands
    <2>. QED BY <1>1, <1>4, <1>5, <2>3
<1>6. CASE m # 0
    <2>1. m - 1 \in Nat /\ m - 1 \notin Missing /\ m - 1 <= top
        BY <1>1, <1>3, <1>4, <1>6
    <2>2. PICK f : Lands(s, f, top + 1 - (m - 1))
        BY <2>1
    <2>3. top + 1 - (m - 1) = (top + 1 - m) + 1 /\ top + 1 - m \in 1..top
        BY <1>1, <1>4, <1>6
    <2>4. \E g : Lands(s, g, top + 1 - m)
        BY <2>2, <2>3, OneStepEarlier
    <2>. QED BY <1>4, <2>4
<1>. QED BY <1>5, <1>6

LEMMA LandingsSolve ==
    ASSUME NEW k \in DOMAIN Script, Script[k] \in Seq(Steps)
    PROVE  Lands(Script[k], Landings[k], 1)
<1>1. PICK f : Lands(Script[k], f, 1)
    BY LandingsExist
<1>2. Landings[k] = CHOOSE g : Lands(Script[k], g, 1)
    BY Zenon DEF Landings, Lands, LandsAt
<1>. QED BY <1>1, <1>2

-----------------------------------------------------------------------------
(***************************************************************************)
(* What a handler holds where.  A labelling L gives, for each step and for *)
(* the end, the slots in use there: the variables that hold a connection,  *)
(* each with the pool of its connection.  It fits when every step has the  *)
(* effect the labels say, every jump leads to a place with the same label, *)
(* and a connection is taken only from a pool that comes after those of    *)
(* the slots in use.  With own, only slots in use are given back.  Runs is *)
(* what the labellings of two parts have in common with that of the whole: *)
(* the labels at both ends, and a bound on the length.                     *)
(***************************************************************************)
Slots == (1..2) \X Pool

\* The slots of V but the one of variable v.
Without(V, v) == {x \in V : x[1] # v}

\* A connection of p may be taken into v while the slots of V are in use.
Fresh(V, v, p) == \A x \in V : x[1] # v /\ Before(x[2], p)

JumpFits(s, L, n) ==
    \/ s[n].jump = Return /\ L[n] = {}
    \/ n + 1 + s[n].jump <= Len(s) + 1 /\ L[n + 1 + s[n].jump] = L[n]

StepFits(s, L, n, own) ==
    LET o == s[n]
    IN  /\ o.op \in {"get", "rel", "use"} => o.pool \in Pool /\ o.var \in 1..2
        /\ o.op = "get" => Fresh(L[n], o.var, o.pool) /\ L[n + 1] = L[n] \cup {<<o.var, o.pool>>}
        /\ o.op = "rel" => L[n + 1] = Without(L[n], o.var) /\ (own => <<o.var, o.pool>> \in L[n])
        /\ o.op \in {"use", "branch", "answer"} => L[n + 1] = L[n]
        /\ o.op = "answer" => L[n] = {}
        /\ o.op \in {"get", "branch"} => JumpFits(s, L, n)

Fits(s, L, own) ==
    /\ L \in [1..(Len(s) + 1) -> SUBSET Slots]
    /\ \A n \in 1..Len(s) : StepFits(s, L, n, own)

Runs(s, U, V, k, own) ==
    /\ s \in Seq(Steps) /\ Len(s) <= k
    /\ \E L : Fits(s, L, own) /\ L[1] = U /\ L[Len(s) + 1] = V

LEMMA EmptyRuns ==
    ASSUME NEW V \in SUBSET Slots, NEW own
    PROVE  Runs(<<>>, V, V, 0, own)
<1>. DEFINE L == [n \in 1..1 |-> V]
<1>1. Len(<<>>) = 0 /\ <<>> \in Seq(Steps) /\ 1..0 = {}
    OBVIOUS
<1>2. L \in [1..1 -> SUBSET Slots]
    OBVIOUS
<1>3. L[1] = V
    OBVIOUS
<1>. HIDE DEF L
<1>. QED BY <1>1, <1>2, <1>3 DEF Runs, Fits

\* One part after the other.
LEMMA ConcatRuns ==
    ASSUME NEW U, NEW V, NEW W, NEW own, NEW k \in Nat, NEW l \in Nat,
           NEW s, NEW t, Runs(s, U, V, k, own), Runs(t, V, W, l, own)
    PROVE  Runs(s \o t, U, W, k + l, own)
<1>. DEFINE r == s \o t
            a == Len(s)
            b == Len(t)
<1>1. s \in Seq(Steps) /\ t \in Seq(Steps) /\ a <= k /\ b <= l /\ a \in Nat /\ b \in Nat
    BY DEF Runs
<1>2. /\ r \in Seq(Steps) /\ Len(r) = a + b
      /\ \A n \in 1..a : r[n] = s[n]
      /\ \A n \in 1..b : r[a + n] = t[n]
    <2>1. /\ r \in Seq(Steps) /\ Len(r) = a + b
          /\ \A n \in 1..(a + b) : r[n] = IF n <= a THEN s[n] ELSE t[n - a]
        BY <1>1, ConcatProperties
    <2>. HIDE DEF r, a, b
    <2>. QED BY <1>1, <2>1
<1>3. PICK L : Fits(s, L, own) /\ L[1] = U /\ L[a + 1] = V
    BY DEF Runs
<1>4. PICK M : Fits(t, M, own) /\ M[1] = V /\ M[b + 1] = W
    BY DEF Runs
<1>. DEFINE K == [n \in 1..(a + b + 1) |-> IF n <= a THEN L[n] ELSE M[n - a]]
<1>5. /\ L \in [1..(a + 1) -> SUBSET Slots] /\ \A n \in 1..a : StepFits(s, L, n, own)
      /\ M \in [1..(b + 1) -> SUBSET Slots] /\ \A n \in 1..b : StepFits(t, M, n, own)
    BY <1>3, <1>4 DEF Fits
<1>6. \A n \in 1..a : s[n] \in Steps
    BY <1>1
<1>7. \A n \in 1..b : t[n] \in Steps
    BY <1>1
<1>8. /\ K \in [1..(a + b + 1) -> SUBSET Slots]
      /\ \A n \in 1..(a + 1) : K[n] = L[n]
      /\ \A n \in 1..(b + 1) : K[a + n] = M[n]
    <2>. HIDE DEF r, a, b
    <2>1. \A n \in 1..(a + b + 1) : ~(n <= a) => n - a \in 1..(b + 1)
        BY <1>1
    <2>2. \A n \in 1..(a + b + 1) : n <= a => n \in 1..(a + 1)
        BY <1>1
    <2>3. K \in [1..(a + b + 1) -> SUBSET Slots]
        BY <1>5, <2>1, <2>2
    <2>4. \A n \in 1..(b + 1) : a + n \in 1..(a + b + 1) /\ ~(a + n <= a) /\ (a + n) - a = n
        BY <1>1
    <2>5. \A n \in 1..(b + 1) : K[a + n] = M[n]
        BY <2>4
    <2>6. \A n \in 1..a : n \in 1..(a + b + 1) /\ n <= a
        BY <1>1
    <2>7. \A n \in 1..a : K[n] = L[n]
        BY <2>6
    <2>8. K[a + 1] = L[a + 1]
        BY <1>1, <1>3, <1>4, <2>5
    <2>9. \A n \in 1..(a + 1) : n \in 1..a \/ n = a + 1
        BY <1>1
    <2>. HIDE DEF K
    <2>. QED BY <2>3, <2>5, <2>7, <2>8, <2>9
<1>. HIDE DEF K, r, a, b
<1>9. ASSUME NEW n \in 1..a PROVE StepFits(r, K, n, own)
    <2>1. StepFits(s, L, n, own) /\ r[n] = s[n] /\ K[n] = L[n] /\ K[n + 1] = L[n + 1]
        BY SMTT(20), <1>1, <1>2, <1>5, <1>8
    <2>2. s[n].jump \in Nat
        BY <1>6 DEF Steps, Return
    <2>3. JumpFits(s, L, n) => JumpFits(r, K, n)
        <3>. DEFINE j == s[n].jump
        <3>1. n + 1 + j <= a + 1 => n + 1 + j \in 1..(a + 1) /\ n + 1 + j <= Len(r) + 1
            BY SMTT(30), <1>1, <1>2, <2>2
        <3>. HIDE DEF j
        <3>2. s[n].jump = j /\ r[n].jump = j
            BY <2>1 DEF j
        <3>. QED BY <1>8, <2>1, <3>1, <3>2 DEF JumpFits, a
    <2>. QED BY <2>1, <2>3 DEF StepFits
<1>10. ASSUME NEW n \in 1..b PROVE StepFits(r, K, a + n, own)
    <2>1. /\ StepFits(t, M, n, own) /\ r[a + n] = t[n] /\ K[a + n] = M[n]
          /\ K[a + n + 1] = M[n + 1]
        <3>1. n \in 1..(b + 1) /\ n + 1 \in 1..(b + 1) /\ a + (n + 1) = a + n + 1
            BY <1>1
        <3>. QED BY <1>2, <1>5, <1>8, <3>1
    <2>2. t[n].jump \in Nat
        BY <1>7 DEF Steps, Return
    <2>3. JumpFits(t, M, n) => JumpFits(r, K, a + n)
        <3>. DEFINE j == t[n].jump
        <3>0. j \in Nat /\ n \in Nat
            BY <2>2
        <3>. HIDE DEF j
        <3>1. n + 1 + j <= b + 1 =>
                /\ n + 1 + j \in 1..(b + 1) /\ a + n + 1 + j <= Len(r) + 1
                /\ a + (n + 1 + j) = a + n + 1 + j
            BY <1>1, <1>2, <3>0
        <3>2. t[n].jump = j /\ r[a + n].jump = j
            BY <2>1 DEF j
        <3>3. n + 1 + j <= b + 1 => K[a + n + 1 + j] = M[n + 1 + j]
            BY <1>8, <3>1
        <3>. QED BY <2>1, <3>1, <3>2, <3>3 DEF JumpFits, b
    <2>. QED BY <2>1, <2>3 DEF StepFits
<1>11. \A n \in 1..(a + b) : StepFits(r, K, n, own)
    <2>1. ASSUME NEW n \in 1..(a + b) PROVE n \in 1..a \/ \E m \in 1..b : n = a + m
        <3>1. n \in 1..a \/ (n - a \in 1..b /\ n = a + (n - a))
            BY <1>1
        <3>. QED BY <3>1
    <2>. QED BY <1>9, <1>10, <2>1
<1>12. K[1] = U /\ K[a + b + 1] = W
    <2>1. 1 \in 1..(a + 1) /\ b + 1 \in 1..(b + 1) /\ a + (b + 1) = a + b + 1
        BY <1>1
    <2>. QED BY <1>3, <1>4, <1>8, <2>1
<1>13. Fits(r, K, own)
    BY <1>2, <1>8, <1>11 DEF Fits
<1>14. Len(r) <= k + l
    BY <1>1, <1>2
<1>15. Runs(r, U, W, k + l, own)
    BY <1>2, <1>12, <1>13, <1>14 DEF Runs
<1>. QED BY <1>15 DEF r

LEMMA StepJump == \A o \in Steps : o.jump \in Nat
BY DEF Steps, Return

\* One step that does not jump.
LEMMA StepRuns ==
    ASSUME NEW a \in Steps, NEW U \in SUBSET Slots, NEW V \in SUBSET Slots, NEW own \in BOOLEAN,
           \/ a.op = "rel" /\ a.pool \in Pool /\ a.var \in 1..2 /\ V = Without(U, a.var)
                /\ (own => <<a.var, a.pool>> \in U)
           \/ a.op = "use" /\ a.pool \in Pool /\ a.var \in 1..2 /\ V = U
           \/ a.op = "answer" /\ U = {} /\ V = {}
    PROVE  Runs(<<a>>, U, V, 1, own)
<1>. DEFINE L == [n \in 1..2 |-> IF n = 1 THEN U ELSE V]
            s == <<a>>
<1>1. s \in Seq(Steps) /\ Len(s) = 1 /\ s[1] = a /\ 1..Len(s) = {1}
    OBVIOUS
<1>2. L \in [1..2 -> SUBSET Slots]
    OBVIOUS
<1>3. L[1] = U
    OBVIOUS
<1>4. L[1 + 1] = V
    OBVIOUS
<1>. HIDE DEF L, s
<1>5. StepFits(s, L, 1, own)
    <2>1. CASE a.op = "rel"
        BY <1>1, <1>3, <1>4, <2>1 DEF StepFits
    <2>2. CASE a.op = "use"
        BY <1>1, <1>3, <1>4, <2>2 DEF StepFits
    <2>3. CASE a.op = "answer"
        BY <1>1, <1>3, <1>4, <2>3 DEF StepFits
    <2>. QED BY <2>1, <2>2, <2>3
<1>6. Fits(s, L, own)
    BY <1>1, <1>2, <1>5 DEF Fits
<1>7. Runs(s, U, V, 1, own)
    BY <1>1, <1>3, <1>4, <1>6 DEF Runs
<1>. QED BY <1>7 DEF s

\* A step that may jump over the part after it, to the end.
LEMMA JumpRuns ==
    ASSUME NEW a \in Steps, NEW U \in SUBSET Slots, NEW V \in SUBSET Slots, NEW own \in BOOLEAN,
           NEW k \in Nat, NEW t, Runs(t, U, V, k, own),
           a.jump = Len(t) \/ (a.jump = Return /\ V = {}),
           \/ a.op = "get" /\ a.pool \in Pool /\ a.var \in 1..2 /\ Fresh(V, a.var, a.pool)
                /\ U = V \cup {<<a.var, a.pool>>}
           \/ a.op = "branch" /\ U = V
    PROVE  Runs(<<a>> \o t, V, V, k + 1, own)
<1>. DEFINE r == <<a>> \o t
            b == Len(t)
<1>1. t \in Seq(Steps) /\ b \in Nat /\ b <= k
    BY DEF Runs
<1>2. r \in Seq(Steps) /\ Len(r) = b + 1 /\ r[1] = a /\ \A n \in 1..b : r[n + 1] = t[n]
    <2>1. <<a>> \in Seq(Steps) /\ Len(<<a>>) = 1 /\ <<a>>[1] = a
        OBVIOUS
    <2>2. /\ r \in Seq(Steps) /\ Len(r) = 1 + b
          /\ \A n \in 1..(1 + b) : r[n] = IF n <= 1 THEN <<a>>[n] ELSE t[n - 1]
        BY <1>1, <2>1, ConcatProperties
    <2>3. 1 \in 1..(1 + b) /\ \A n \in 1..b : n + 1 \in 1..(1 + b) /\ ~(n + 1 <= 1) /\ n + 1 - 1 = n
        BY <1>1
    <2>. HIDE DEF r, b
    <2>. QED BY <1>1, <2>1, <2>2, <2>3
<1>3. PICK M : Fits(t, M, own) /\ M[1] = U /\ M[b + 1] = V
    BY DEF Runs
<1>. DEFINE K == [n \in 1..(b + 2) |-> IF n = 1 THEN V ELSE M[n - 1]]
<1>4. M \in [1..(b + 1) -> SUBSET Slots] /\ \A n \in 1..b : StepFits(t, M, n, own)
    BY <1>3 DEF Fits
<1>5. /\ K \in [1..(b + 2) -> SUBSET Slots] /\ K[1] = V
      /\ \A n \in 1..(b + 1) : K[n + 1] = M[n]
    <2>. HIDE DEF r, b
    <2>1. \A n \in 1..(b + 2) : n # 1 => n - 1 \in 1..(b + 1)
        BY <1>1
    <2>2. K \in [1..(b + 2) -> SUBSET Slots]
        BY <1>4, <2>1
    <2>3. \A n \in 1..(b + 1) : n + 1 \in 1..(b + 2) /\ n + 1 # 1 /\ n + 1 - 1 = n
        BY <1>1
    <2>4. 1 \in 1..(b + 2)
        BY <1>1
    <2>. QED BY <2>2, <2>3, <2>4
<1>. HIDE DEF K, r, b
<1>6. StepFits(r, K, 1, own)
    <2>1. K[2] = U /\ K[b + 2] = V
        BY <1>1, <1>3, <1>5
    <2>2. a.jump = b \/ (a.jump = Return /\ V = {})
        BY DEF b
    <2>3. JumpFits(r, K, 1)
        BY <1>1, <1>2, <1>5, <2>1, <2>2 DEF JumpFits
    <2>. QED BY <1>2, <1>5, <2>1, <2>3 DEF StepFits
<1>7. ASSUME NEW n \in 1..b PROVE StepFits(r, K, n + 1, own)
    <2>1. StepFits(t, M, n, own) /\ r[n + 1] = t[n] /\ K[n + 1] = M[n] /\ K[n + 1 + 1] = M[n + 1]
        <3>1. n \in 1..(b + 1) /\ n + 1 \in 1..(b + 1)
            BY <1>1
        <3>. QED BY <1>2, <1>4, <1>5, <3>1
    <2>2. t[n].jump \in Nat
        <3>1. t[n] \in Steps
            BY <1>1 DEF b
        <3>. QED BY <3>1, StepJump
    <2>3. JumpFits(t, M, n) => JumpFits(r, K, n + 1)
        <3>. DEFINE j == t[n].jump
        <3>0. j \in Nat /\ n \in Nat
            BY <2>2
        <3>. HIDE DEF j
        <3>1. n + 1 + j <= b + 1 =>
                /\ n + 1 + j \in 1..(b + 1) /\ n + 1 + 1 + j <= Len(r) + 1
                /\ (n + 1 + j) + 1 = n + 1 + 1 + j
            BY <1>1, <1>2, <3>0
        <3>2. t[n].jump = j /\ r[n + 1].jump = j
            BY <2>1 DEF j
        <3>3. n + 1 + j <= b + 1 => K[n + 1 + 1 + j] = M[n + 1 + j]
            BY <1>5, <3>1
        <3>. QED BY <2>1, <3>1, <3>2, <3>3 DEF JumpFits, b
    <2>. QED BY <2>1, <2>3 DEF StepFits
<1>8. \A n \in 1..(b + 1) : StepFits(r, K, n, own)
    <2>1. \A n \in 1..(b + 1) : n = 1 \/ (n - 1 \in 1..b /\ n = (n - 1) + 1)
        BY <1>1
    <2>. QED BY <1>6, <1>7, <2>1
<1>9. K[b + 2] = V
    <2>1. b + 1 \in 1..(b + 1) /\ b + 1 + 1 = b + 2
        BY <1>1
    <2>. QED BY <1>3, <1>5, <2>1
<1>10. Fits(r, K, own)
    <2>1. Len(r) + 1 = b + 2
        BY <1>1, <1>2
    <2>. QED BY <1>2, <1>5, <1>8, <2>1 DEF Fits
<1>11. Runs(r, V, V, k + 1, own)
    <2>1. Len(r) + 1 = b + 2 /\ Len(r) <= k + 1
        BY <1>1, <1>2
    <2>. QED BY <1>2, <1>5, <1>9, <1>10, <2>1 DEF Runs
<1>. QED BY <1>11 DEF r

-----------------------------------------------------------------------------
\* The part s of a handler is run with V held and leaves it so.
Keeps(s, V, k, own) == Runs(s, V, V, k, own)

LEMMA ThenKeeps ==
    ASSUME NEW V, NEW own, NEW k \in Nat, NEW l \in Nat, NEW m \in Nat, k + l <= m,
           NEW s, NEW t, Keeps(s, V, k, own), Keeps(t, V, l, own)
    PROVE  Keeps(s \o t, V, m, own)
<1>1. Runs(s \o t, V, V, k + l, own)
    BY ConcatRuns DEF Keeps
<1>2. Len(s \o t) \in Nat
    BY <1>1 DEF Runs
<1>. QED BY <1>1, <1>2 DEF Keeps, Runs

\* What Step makes.
LEMMA StepIsStep ==
    ASSUME NEW op \in {"get", "rel", "use", "branch", "answer"}, NEW p \in Pool \cup {NoPool},
           NEW v \in 0..2, NEW j \in Nat, j <= 100
    PROVE  LET a == Step(op, p, v, j)[1]
           IN  /\ a \in Steps /\ Step(op, p, v, j) = <<a>>
               /\ a.op = op /\ a.pool = p /\ a.var = v /\ a.jump = j
<1>. DEFINE a == [op |-> op, pool |-> p, var |-> v, jump |-> j]
<1>1. a \in Steps
    BY DEF Steps, Return
<1>2. Step(op, p, v, j) = <<a>>
    BY DEF Step
<1>. QED BY <1>1, <1>2

LEMMA RunsIsSeq ==
    ASSUME NEW U, NEW V, NEW own, NEW k \in Nat, NEW s, Runs(s, U, V, k, own)
    PROVE  s \in Seq(Steps) /\ Len(s) \in Nat /\ Len(s) <= k
<1>1. s \in Seq(Steps) /\ Len(s) <= k
    BY DEF Runs
<1>. QED BY <1>1

LEMMA PoolFacts ==
    /\ Master \in Pool /\ Slave \in Pool /\ Unread \in Pool /\ GroupMember \in Pool
    /\ {} \in SUBSET Slots /\ 1 \in 1..2 /\ 2 \in 1..2
    /\ \A q \in Pool : <<1, q>> \in Slots /\ <<2, q>> \in Slots /\ {<<1, q>>} \in SUBSET Slots
BY PoolNames DEF Slots

\* The pairs of pools that handlers hold connections of at once, the first one first.
LEMMA OrderFacts ==
    /\ Before(Master, Master) /\ Before(Master, Unread) /\ Before(Master, GroupMember)
    /\ Before(Unread, Slave) /\ Before(Slave, GroupMember)
BY DEF Before

LEMMA TakenAndGivenBack ==
    ASSUME NEW V, NEW v, NEW p, Fresh(V, v, p)
    PROVE  Without(V \cup {<<v, p>>}, v) = V
BY DEF Fresh, Without

LEMMA RelRuns ==
    ASSUME NEW p \in Pool, NEW v \in 1..2, NEW U \in SUBSET Slots, NEW own \in BOOLEAN, own => <<v, p>> \in U
    PROVE  Runs(Step("rel", p, v, 0), U, Without(U, v), 1, own)
<1>. DEFINE a == Step("rel", p, v, 0)[1]
<1>1. /\ a \in Steps /\ Step("rel", p, v, 0) = <<a>>
      /\ a.op = "rel" /\ a.pool = p /\ a.var = v
    BY StepIsStep
<1>. HIDE DEF a
<1>2. Without(U, v) \in SUBSET Slots
    BY DEF Without
<1>. DEFINE V == Without(U, v)
<1>. HIDE DEF V
<1>3. Runs(<<a>>, U, V, 1, own)
    BY <1>1, <1>2, StepRuns DEF V
<1>. QED BY <1>1, <1>3 DEF V

LEMMA UseKeeps ==
    ASSUME NEW p \in Pool, NEW v \in 1..2, NEW V \in SUBSET Slots, NEW own \in BOOLEAN
    PROVE  Keeps(Step("use", p, v, 0), V, 1, own)
<1>. DEFINE a == Step("use", p, v, 0)[1]
<1>1. /\ a \in Steps /\ Step("use", p, v, 0) = <<a>>
      /\ a.op = "use" /\ a.pool = p /\ a.var = v
    BY StepIsStep
<1>. HIDE DEF a
<1>2. Runs(<<a>>, V, V, 1, own)
    BY <1>1, StepRuns
<1>. QED BY <1>1, <1>2 DEF Keeps

LEMMA AnswerKeeps ==
    ASSUME NEW own \in BOOLEAN
    PROVE  Keeps(Answer, {}, 1, own)
<1>. DEFINE a == Step("answer", NoPool, 0, 0)[1]
<1>1. a \in Steps /\ Answer = <<a>> /\ a.op = "answer"
    BY StepIsStep DEF Answer
<1>. HIDE DEF a
<1>2. Runs(<<a>>, {}, {}, 1, own)
    BY <1>1, StepRuns
<1>. QED BY <1>1, <1>2 DEF Keeps

\* A get whose failure leads to the end of the part.
LEMMA GetKeeps ==
    ASSUME NEW p \in Pool, NEW v \in 1..2, NEW U \in SUBSET Slots, NEW V \in SUBSET Slots,
           Fresh(V, v, p), U = V \cup {<<v, p>>}, NEW own \in BOOLEAN,
           NEW k \in Nat, k <= 98, NEW t, Runs(t, U, V, k, own),
           NEW j \in Nat, j <= 100, j = Len(t) \/ (j = Return /\ V = {}),
           NEW m \in Nat, m = k + 1
    PROVE  Keeps(Step("get", p, v, j) \o t, V, m, own)
<1>. DEFINE a == Step("get", p, v, j)[1]
<1>1. /\ a \in Steps /\ Step("get", p, v, j) = <<a>>
      /\ a.op = "get" /\ a.pool = p /\ a.var = v /\ a.jump = j
    BY StepIsStep
<1>. HIDE DEF a
<1>2. Runs(<<a>> \o t, V, V, k + 1, own)
    BY <1>1, JumpRuns
<1>. QED BY <1>1, <1>2 DEF Keeps

LEMMA MaybeKeeps ==
    ASSUME NEW V \in SUBSET Slots, NEW own \in BOOLEAN, NEW k \in Nat, k <= 98, NEW body,
           Keeps(body, V, k, own), NEW m \in Nat, m = k + 1
    PROVE  Keeps(Maybe(body), V, m, own)
<1>1. Len(body) \in Nat /\ Len(body) <= 100
    <2>1. Len(body) \in Nat /\ Len(body) <= k
        BY RunsIsSeq DEF Keeps
    <2>. QED BY <2>1
<1>2. NoPool \in Pool \cup {NoPool} /\ 0 \in 0..2
    OBVIOUS
<1>. DEFINE a == Step("branch", NoPool, 0, Len(body))[1]
<1>3. a \in Steps /\ Branch(Len(body)) = <<a>> /\ a.op = "branch" /\ a.jump = Len(body)
    <2>1. /\ a \in Steps /\ Step("branch", NoPool, 0, Len(body)) = <<a>>
          /\ a.op = "branch" /\ a.jump = Len(body)
        <3>. DEFINE j == Len(body)
        <3>1. j \in Nat /\ j <= 100
            BY <1>1
        <3>. HIDE DEF j
        <3>2. LET b == Step("branch", NoPool, 0, j)[1]
              IN  /\ b \in Steps /\ Step("branch", NoPool, 0, j) = <<b>>
                  /\ b.op = "branch" /\ b.jump = j
            BY <1>2, <3>1, StepIsStep
        <3>. QED BY <3>2 DEF j
    <2>. HIDE DEF a
    <2>. QED BY <2>1 DEF Branch
<1>. HIDE DEF a
<1>4. Runs(<<a>> \o body, V, V, k + 1, own)
    BY <1>3, JumpRuns DEF Keeps
<1>. QED BY <1>3, <1>4 DEF Keeps, Maybe

LEMMA HoldKeeps ==
    ASSUME NEW p \in Pool, NEW v \in 1..2, NEW V \in SUBSET Slots, Fresh(V, v, p), NEW own \in BOOLEAN,
           NEW k \in Nat, k <= 96, NEW body, Keeps(body, V \cup {<<v, p>>}, k, own), NEW m \in Nat, m = k + 2
    PROVE  Keeps(Hold(p, v, body), V, m, own)
<1>. DEFINE U == V \cup {<<v, p>>}
            rel == Step("rel", p, v, 0)
            get == Step("get", p, v, Len(body) + 1)
<1>1. U \in SUBSET Slots /\ <<v, p>> \in U /\ Without(U, v) = V
    BY TakenAndGivenBack DEF Slots
<1>2. Runs(rel, U, V, 1, own)
    BY <1>1, RelRuns
<1>3. Runs(body \o rel, U, V, k + 1, own)
    BY <1>2, ConcatRuns DEF Keeps
<1>4. body \in Seq(Steps) /\ rel \in Seq(Steps) /\ Len(body) \in Nat /\ Len(body) <= 96
    <2>1. body \in Seq(Steps) /\ Len(body) \in Nat /\ Len(body) <= k
        BY RunsIsSeq DEF Keeps
    <2>2. rel \in Seq(Steps)
        BY <1>2, RunsIsSeq
    <2>. HIDE DEF rel
    <2>. QED BY <2>1, <2>2
<1>5. Len(rel) = 1
    BY DEF Step
<1>6. Len(body \o rel) = Len(body) + 1
    <2>1. Len(body \o rel) = Len(body) + Len(rel)
        <3>. HIDE DEF rel
        <3>. QED BY <1>4, ConcatProperties
    <2>. HIDE DEF rel
    <2>. QED BY <1>4, <1>5, <2>1
<1>7. Keeps(get \o (body \o rel), V, k + 2, own)
    <2>. DEFINE t == body \o rel
                j == Len(body) + 1
                l == k + 1
    <2>1. j \in Nat /\ j <= 100 /\ l \in Nat /\ l <= 98 /\ k + 2 \in Nat /\ k + 2 = l + 1
        BY <1>4
    <2>2. Runs(t, U, V, l, own) /\ j = Len(t) /\ U = V \cup {<<v, p>>} /\ U \in SUBSET Slots
        BY <1>1, <1>3, <1>6
    <2>3. get = Step("get", p, v, j)
        OBVIOUS
    <2>. HIDE DEF t, j, l, get, U
    <2>4. Keeps(Step("get", p, v, j) \o t, V, k + 2, own)
        BY ZenonT(30), <2>1, <2>2, GetKeeps
    <2>. QED BY <2>3, <2>4 DEF t
<1>8. get \in Seq(Steps)
    <2>1. get[1] \in Steps /\ get = <<get[1]>>
        <3>1. Len(body) + 1 \in Nat /\ Len(body) + 1 <= 100
            BY <1>4
        <3>. QED BY <3>1, StepIsStep
    <2>2. PICK b \in Steps : get = <<b>>
        BY <2>1
    <2>. HIDE DEF get
    <2>. QED BY <2>2
<1>9. (get \o body) \o rel = get \o (body \o rel)
    <2>. HIDE DEF get, rel
    <2>. QED BY SMTT(30), <1>4, <1>8, ConcatAssociative
<1>. QED BY <1>7, <1>9 DEF Hold

LEMMA FirstKeeps ==
    ASSUME NEW p \in Pool, NEW v \in 1..2, NEW V \in SUBSET Slots, Fresh(V, v, p), NEW own \in BOOLEAN,
           NEW k \in Nat, k <= 96, NEW rest, Keeps(rest, V, k, own), NEW m \in Nat, m = k + 2
    PROVE  Keeps(First(p, v, rest), V, m, own)
<1>. DEFINE U == V \cup {<<v, p>>}
            rel == Step("rel", p, v, 0)
            get == Step("get", p, v, Len(rest) + 1)
<1>1. U \in SUBSET Slots /\ <<v, p>> \in U /\ Without(U, v) = V
    BY TakenAndGivenBack DEF Slots
<1>2. Runs(rel, U, V, 1, own)
    BY <1>1, RelRuns
<1>3. Runs(rel \o rest, U, V, 1 + k, own)
    BY <1>2, ConcatRuns DEF Keeps
<1>4. rest \in Seq(Steps) /\ rel \in Seq(Steps) /\ Len(rest) \in Nat /\ Len(rest) <= 96
    <2>1. rest \in Seq(Steps) /\ Len(rest) \in Nat /\ Len(rest) <= k
        BY RunsIsSeq DEF Keeps
    <2>2. rel \in Seq(Steps)
        BY <1>2, RunsIsSeq
    <2>. HIDE DEF rel
    <2>. QED BY <2>1, <2>2
<1>5. Len(rel) = 1
    BY DEF Step
<1>6. Len(rel \o rest) = Len(rest) + 1
    <2>1. Len(rel \o rest) = Len(rel) + Len(rest)
        <3>. HIDE DEF rel
        <3>. QED BY <1>4, ConcatProperties
    <2>. HIDE DEF rel
    <2>. QED BY <1>4, <1>5, <2>1
<1>7. Keeps(get \o (rel \o rest), V, k + 2, own)
    <2>. DEFINE t == rel \o rest
                j == Len(rest) + 1
                l == 1 + k
    <2>1. j \in Nat /\ j <= 100 /\ l \in Nat /\ l <= 98 /\ k + 2 \in Nat /\ k + 2 = l + 1
        BY <1>4
    <2>2. Runs(t, U, V, l, own) /\ j = Len(t) /\ U = V \cup {<<v, p>>} /\ U \in SUBSET Slots
        BY <1>1, <1>3, <1>6
    <2>3. get = Step("get", p, v, j)
        OBVIOUS
    <2>. HIDE DEF t, j, l, get, U
    <2>4. Keeps(Step("get", p, v, j) \o t, V, k + 2, own)
        BY ZenonT(30), <2>1, <2>2, GetKeeps
    <2>. QED BY <2>3, <2>4 DEF t
<1>8. get \in Seq(Steps)
    <2>1. get[1] \in Steps /\ get = <<get[1]>>
        <3>1. Len(rest) + 1 \in Nat /\ Len(rest) + 1 <= 100
            BY <1>4
        <3>. QED BY <3>1, StepIsStep
    <2>2. PICK b \in Steps : get = <<b>>
        BY <2>1
    <2>. HIDE DEF get
    <2>. QED BY <2>2
<1>9. (get \o rel) \o rest = get \o (rel \o rest)
    <2>. HIDE DEF get, rel
    <2>. QED BY SMTT(30), <1>4, <1>8, ConcatAssociative
<1>. QED BY <1>7, <1>9 DEF First

LEMMA NeedsKeeps ==
    ASSUME NEW p \in Pool, NEW v \in 1..2, NEW V \in SUBSET Slots, Fresh(V, v, p), NEW own \in BOOLEAN,
           NEW k \in Nat, k <= 95, NEW rest, Keeps(rest, V, k, own), NEW m \in Nat, m = k + 3
    PROVE  Keeps(Needs(p, v, rest), V, m, own)
<1>1. Keeps(Maybe(rest), V, k + 1, own)
    BY MaybeKeeps
<1>2. k + 1 \in Nat /\ k + 1 <= 96 /\ m = (k + 1) + 2
    OBVIOUS
<1>. QED BY <1>1, <1>2, FirstKeeps DEF Needs

LEMMA OnceKeeps ==
    ASSUME NEW p \in Pool, NEW own \in BOOLEAN
    PROVE  Keeps(Once(p), {}, 2, own)
<1>1. Keeps(<<>>, {<<1, p>>}, 0, own)
    BY EmptyRuns DEF Keeps, Slots
<1>2. {} \cup {<<1, p>>} = {<<1, p>>} /\ {} \in SUBSET Slots /\ Fresh({}, 1, p)
    BY DEF Fresh
<1>. QED BY <1>1, <1>2, HoldKeeps DEF Once

LEMMA MustBeKeeps ==
    ASSUME NEW own \in BOOLEAN
    PROVE  Keeps(MustBe, {}, 3, own)
<1>. DEFINE get == Step("get", GroupMember, 1, Return)
            rel == Step("rel", GroupMember, 1, 0)
            W == {<<1, GroupMember>>}
<1>1. /\ GroupMember \in Pool /\ Return = 100 /\ {} \cup W = W /\ Without(W, 1) = {}
      /\ Fresh({}, 1, GroupMember) /\ W \in SUBSET Slots /\ <<1, GroupMember>> \in W
    BY PoolNames DEF Return, Without, Fresh, Slots
<1>. HIDE DEF W
<1>2. Runs(rel, W, {}, 1, own)
    <2>1. Runs(rel, W, Without(W, 1), 1, own)
        BY <1>1, RelRuns, PoolFacts
    <2>. QED BY <1>1, <2>1
<1>. DEFINE a == Step("branch", NoPool, 0, Return)[1]
<1>3. a \in Steps /\ Branch(Return) = <<a>> /\ a.op = "branch" /\ a.jump = Return
    <2>1. NoPool \in Pool \cup {NoPool} /\ 0 \in 0..2 /\ Return \in Nat /\ Return <= 100
        BY <1>1
    <2>2. /\ a \in Steps /\ Step("branch", NoPool, 0, Return) = <<a>>
          /\ a.op = "branch" /\ a.jump = Return
        BY <2>1, StepIsStep
    <2>. HIDE DEF a
    <2>. QED BY <2>2 DEF Branch
<1>. HIDE DEF a
<1>4. Runs(<<a>> \o <<>>, {}, {}, 0 + 1, own)
    <2>1. Runs(<<>>, {}, {}, 0, own)
        BY EmptyRuns
    <2>. QED BY <1>3, <2>1, JumpRuns
<1>5. <<a>> \o <<>> = <<a>>
    BY ConcatEmptySeq
<1>6. Runs(rel \o Branch(Return), W, {}, 2, own)
    <2>1. Runs(Branch(Return), {}, {}, 1, own)
        BY <1>3, <1>4, <1>5
    <2>2. Runs(rel \o Branch(Return), W, {}, 1 + 1, own)
        BY <1>2, <2>1, ConcatRuns
    <2>. QED BY <2>2
<1>7. Keeps(get \o (rel \o Branch(Return)), {}, 3, own)
    <2>1. /\ Return \in Nat /\ Return <= 100 /\ 1 \in 1..2
        BY <1>1
    <2>. DEFINE t == rel \o Branch(Return)
    <2>2. Runs(t, W, {}, 2, own)
        BY <1>6
    <2>. DEFINE U == W
                V == {}
                k == 2
                m == 3
    <2>3. /\ Runs(t, U, V, k, own) /\ U \in SUBSET Slots /\ V \in SUBSET Slots
          /\ Fresh(V, 1, GroupMember) /\ U = V \cup {<<1, GroupMember>>} /\ V = {}
          /\ k \in Nat /\ k <= 98 /\ m \in Nat /\ m = k + 1
        BY <1>1, <2>1, <2>2 DEF W
    <2>. HIDE DEF t, U, V, k, m
    <2>4. Keeps(Step("get", GroupMember, 1, Return) \o t, V, m, own)
        BY <1>1, <2>1, <2>3, GetKeeps
    <2>. QED BY <2>3, <2>4 DEF t, m
<1>8. get \in Seq(Steps) /\ rel \in Seq(Steps) /\ Branch(Return) \in Seq(Steps)
    <2>1. get[1] \in Steps /\ get = <<get[1]>>
        BY <1>1, StepIsStep
    <2>2. rel \in Seq(Steps)
        BY <1>2, RunsIsSeq
    <2>3. PICK b \in Steps : get = <<b>>
        BY <2>1
    <2>. HIDE DEF get, rel
    <2>. QED BY <1>3, <2>2, <2>3
<1>9. (get \o rel) \o Branch(Return) = get \o (rel \o Branch(Return))
    BY <1>8, ConcatAssociative
<1>. QED BY <1>7, <1>9 DEF MustBe

-----------------------------------------------------------------------------
(***************************************************************************)
(* The handlers, one by one, as they are put together.                     *)
(***************************************************************************)
\* With a connection of q in variable 1, and nothing else.
InFirst(q) == {<<1, q>>}

LEMMA InFirstFact == \A q \in Pool : InFirst(q) \in SUBSET Slots
BY PoolFacts DEF InFirst

LEMMA FreshSecond ==
    ASSUME NEW q, NEW p, Before(q, p)
    PROVE  Fresh({<<1, q>>}, 2, p)
<1>. SUFFICES ASSUME NEW x \in {<<1, q>>} PROVE x[1] # 2 /\ Before(x[2], p)
    BY DEF Fresh
<1>1. x[1] = 1 /\ x[2] = q
    OBVIOUS
<1>. QED BY <1>1

\* With a connection of q in variable 1, one of p is taken into variable 2 and given back.
LEMMA HoldSecondKeeps ==
    ASSUME NEW q \in Pool, NEW p \in Pool, Before(q, p), NEW own \in BOOLEAN
    PROVE  Keeps(Hold(p, 2, <<>>), InFirst(q), 2, own)
<1>. DEFINE V == {<<1, q>>}
            W == V \cup {<<2, p>>}
            body == <<>>
<1>1. V \in SUBSET Slots /\ W \in SUBSET Slots /\ 2 \in 1..2 /\ Fresh(V, 2, p)
    <2>1. <<1, q>> \in Slots /\ <<2, p>> \in Slots
        BY PoolFacts
    <2>. QED BY <2>1, FreshSecond
<1>. HIDE DEF V, W
<1>2. Keeps(body, W, 0, own)
    BY <1>1, EmptyRuns DEF Keeps
<1>. HIDE DEF body
<1>3. Keeps(body, V \cup {<<2, p>>}, 0, own)
    BY <1>2 DEF W
<1>4. Keeps(Hold(p, 2, body), V, 2, own)
    BY <1>1, <1>3, HoldKeeps
<1>. QED BY <1>4 DEF V, body, InFirst

LEMMA HoldFirstKeeps ==
    ASSUME NEW p \in Pool, NEW own \in BOOLEAN, NEW k \in Nat, k <= 96, NEW m \in Nat, m = k + 2,
           NEW body, Keeps(body, InFirst(p), k, own)
    PROVE  Keeps(Hold(p, 1, body), {}, m, own)
<1>. DEFINE V == {}
            W == InFirst(p)
<1>1. V \in SUBSET Slots /\ V \cup {<<1, p>>} = W /\ Fresh(V, 1, p) /\ 1 \in 1..2
    BY DEF Fresh, InFirst
<1>2. Keeps(body, W, k, own)
    OBVIOUS
<1>. HIDE DEF V, W
<1>3. Keeps(Hold(p, 1, body), V, m, own)
    BY <1>1, <1>2, HoldKeeps
<1>. QED BY <1>3 DEF V

LEMMA NeedsFirstKeeps ==
    ASSUME NEW p \in Pool, NEW own \in BOOLEAN, NEW k \in Nat, k <= 95, NEW m \in Nat, m = k + 3,
           NEW rest, Keeps(rest, {}, k, own)
    PROVE  Keeps(Needs(p, 1, rest), {}, m, own)
<1>. DEFINE V == {}
<1>1. V \in SUBSET Slots /\ 1 \in 1..2 /\ Fresh(V, 1, p)
    BY DEF Fresh
<1>2. Keeps(rest, V, k, own)
    OBVIOUS
<1>. HIDE DEF V
<1>3. Keeps(Needs(p, 1, rest), V, m, own)
    BY <1>1, <1>2, NeedsKeeps
<1>. QED BY <1>3 DEF V

\* The operators of handlers at the two places they are used: with nothing held, and with
\* a connection of q in variable 1.
LEMMA MaybeNoneKeeps ==
    ASSUME NEW own \in BOOLEAN, NEW k \in Nat, k <= 98, NEW m \in Nat, m = k + 1,
           NEW body, Keeps(body, {}, k, own)
    PROVE  Keeps(Maybe(body), {}, m, own)
<1>. DEFINE V == {}
<1>1. V \in SUBSET Slots
    OBVIOUS
<1>2. Keeps(body, V, k, own)
    OBVIOUS
<1>. HIDE DEF V
<1>3. Keeps(Maybe(body), V, m, own)
    BY <1>1, <1>2, MaybeKeeps
<1>. QED BY <1>3 DEF V

LEMMA MaybeOneKeeps ==
    ASSUME NEW q \in Pool, NEW own \in BOOLEAN, NEW k \in Nat, k <= 98, NEW m \in Nat, m = k + 1,
           NEW body, Keeps(body, InFirst(q), k, own)
    PROVE  Keeps(Maybe(body), InFirst(q), m, own)
<1>. DEFINE V == {<<1, q>>}
<1>1. V \in SUBSET Slots
    BY PoolFacts
<1>2. Keeps(body, V, k, own)
    BY DEF InFirst
<1>. HIDE DEF V
<1>3. Keeps(Maybe(body), V, m, own)
    BY <1>1, <1>2, MaybeKeeps
<1>. QED BY <1>3 DEF V, InFirst

LEMMA FirstNoneKeeps ==
    ASSUME NEW p \in Pool, NEW own \in BOOLEAN, NEW k \in Nat, k <= 96, NEW m \in Nat, m = k + 2,
           NEW rest, Keeps(rest, {}, k, own)
    PROVE  Keeps(First(p, 1, rest), {}, m, own)
<1>. DEFINE V == {}
<1>1. V \in SUBSET Slots /\ 1 \in 1..2 /\ Fresh(V, 1, p)
    BY DEF Fresh
<1>2. Keeps(rest, V, k, own)
    OBVIOUS
<1>. HIDE DEF V
<1>3. Keeps(First(p, 1, rest), V, m, own)
    BY <1>1, <1>2, FirstKeeps
<1>. QED BY <1>3 DEF V

LEMMA NeedsSecondKeeps ==
    ASSUME NEW q \in Pool, NEW p \in Pool, Before(q, p), NEW own \in BOOLEAN, NEW k \in Nat, k <= 95, NEW m \in Nat, m = k + 3,
           NEW rest, Keeps(rest, InFirst(q), k, own)
    PROVE  Keeps(Needs(p, 2, rest), InFirst(q), m, own)
<1>. DEFINE V == {<<1, q>>}
<1>1. V \in SUBSET Slots /\ 2 \in 1..2 /\ Fresh(V, 2, p)
    <2>1. <<1, q>> \in Slots
        BY PoolFacts
    <2>. QED BY <2>1, FreshSecond
<1>2. Keeps(rest, V, k, own)
    BY DEF InFirst
<1>. HIDE DEF V
<1>3. Keeps(Needs(p, 2, rest), V, m, own)
    BY <1>1, <1>2, NeedsKeeps
<1>. QED BY <1>3 DEF V, InFirst

LEMMA AddSessionKeeps ==
    ASSUME NEW own \in BOOLEAN
    PROVE  Keeps(AddSession, {}, 4, own)
BY OnceKeeps, ThenKeeps, PoolFacts DEF AddSession

LEMMA WriteMembersKeeps ==
    ASSUME NEW own \in BOOLEAN
    PROVE  Keeps(WriteMembers, {}, 4, own)
<1>1. Keeps(Hold(GroupMember, 2, <<>>), InFirst(Master), 2, own)
    BY HoldSecondKeeps, PoolFacts, OrderFacts
<1>. QED BY <1>1, HoldFirstKeeps, PoolFacts DEF WriteMembers

LEMMA StoreGroupMessageKeeps ==
    ASSUME NEW own \in BOOLEAN
    PROVE  Keeps(StoreGroupMessage, {}, 11, own)
<1>1. Keeps(UpdateGroupChat, InFirst(Master), 2, own) /\ Keeps(IncMessageCount, InFirst(Master), 2, own)
    BY HoldSecondKeeps, PoolFacts, OrderFacts DEF UpdateGroupChat, IncMessageCount
<1>2. Keeps(ClearMessageCount, InFirst(Master), 4, own)
    <2>1. Keeps(Step("use", Unread, 2, 0), InFirst(Master), 1, own)
        BY UseKeeps, PoolFacts, InFirstFact
    <2>. QED BY <2>1, NeedsSecondKeeps, PoolFacts, OrderFacts DEF ClearMessageCount
<1>3. Keeps(UpdateGroupChat \o IncMessageCount, InFirst(Master), 4, own)
    BY <1>1, ThenKeeps
<1>4. Keeps(UpdateGroupChat \o IncMessageCount \o ClearMessageCount, InFirst(Master), 8, own)
    BY <1>2, <1>3, ThenKeeps
<1>5. Keeps(Maybe(UpdateGroupChat \o IncMessageCount \o ClearMessageCount), InFirst(Master), 9, own)
    BY <1>4, MaybeOneKeeps, PoolFacts
<1>. QED BY <1>5, HoldFirstKeeps, PoolFacts DEF StoreGroupMessage

LEMMA GroupSendKeeps ==
    ASSUME NEW own \in BOOLEAN
    PROVE  Keeps(GroupSend, {}, 34, own)
<1>. DEFINE send == Needs(GroupMember, 1, StoreGroupMessage) \o Once(Master)
<1>1. Keeps(send, {}, 16, own)
    <2>1. Keeps(Needs(GroupMember, 1, StoreGroupMessage), {}, 14, own)
        BY StoreGroupMessageKeeps, NeedsFirstKeeps, PoolFacts
    <2>. QED BY <2>1, OnceKeeps, ThenKeeps, PoolFacts
<1>. HIDE DEF send
<1>2. Keeps(MustBe \o MustBe, {}, 6, own)
    BY MustBeKeeps, ThenKeeps
<1>3. Keeps(MustBe \o MustBe \o Once(Slave), {}, 8, own)
    BY <1>2, OnceKeeps, ThenKeeps, PoolFacts
<1>4. Keeps(Maybe(AddSession), {}, 5, own)
    BY AddSessionKeeps, MaybeNoneKeeps, PoolFacts
<1>5. Keeps(MustBe \o MustBe \o Once(Slave) \o Maybe(AddSession), {}, 13, own)
    BY <1>3, <1>4, ThenKeeps
<1>6. Keeps(Needs(Unread, 1, send), {}, 19, own)
    BY <1>1, NeedsFirstKeeps, PoolFacts
<1>7. Keeps(Maybe(Needs(Unread, 1, send)), {}, 20, own)
    BY <1>6, MaybeNoneKeeps, PoolFacts
<1>8. Keeps(MustBe \o MustBe \o Once(Slave) \o Maybe(AddSession) \o Maybe(Needs(Unread, 1, send)),
            {}, 33, own)
    BY <1>5, <1>7, ThenKeeps
<1>9. Keeps(MustBe \o MustBe \o Once(Slave) \o Maybe(AddSession) \o Maybe(Needs(Unread, 1, send))
                \o Answer, {}, 34, own)
    BY <1>8, AnswerKeeps, ThenKeeps
<1>. QED BY <1>9, Zenon DEF GroupSend, send

LEMMA SingleSendKeeps ==
    ASSUME NEW own \in BOOLEAN
    PROVE  Keeps(SingleSend, {}, 36, own)
<1>. DEFINE send == Needs(Master, 1, Once(Unread)) \o Once(Master) \o Once(Master)
            look == Once(Slave) \o Maybe(AddSession)
<1>1. Keeps(send, {}, 9, own)
    <2>1. Keeps(Needs(Master, 1, Once(Unread)), {}, 5, own)
        BY OnceKeeps, NeedsFirstKeeps, PoolFacts
    <2>2. Keeps(Needs(Master, 1, Once(Unread)) \o Once(Master), {}, 7, own)
        BY <2>1, OnceKeeps, ThenKeeps, PoolFacts
    <2>. QED BY <2>2, OnceKeeps, ThenKeeps, PoolFacts
<1>2. Keeps(Needs(Slave, 1, AddRelation), {}, 8, own)
    <2>1. Keeps(Maybe(Hold(Unread, 2, <<>>)), InFirst(Master), 3, own)
        <3>1. Keeps(Hold(Unread, 2, <<>>), InFirst(Master), 2, own)
            BY HoldSecondKeeps, PoolFacts, OrderFacts
        <3>. QED BY <3>1, MaybeOneKeeps, PoolFacts
    <2>2. Keeps(AddRelation, {}, 5, own)
        BY <2>1, HoldFirstKeeps, PoolFacts DEF AddRelation
    <2>. QED BY <2>2, NeedsFirstKeeps, PoolFacts
<1>. HIDE DEF send
<1>3. Keeps(Maybe(AddSession), {}, 5, own)
    BY AddSessionKeeps, MaybeNoneKeeps, PoolFacts
<1>4. Keeps(Once(Slave) \o Maybe(AddSession), {}, 7, own)
    BY <1>3, OnceKeeps, ThenKeeps, PoolFacts
<1>5. Keeps(Once(Slave) \o Maybe(AddSession) \o Once(Slave), {}, 9, own)
    BY <1>4, OnceKeeps, ThenKeeps, PoolFacts
<1>6. Keeps(Once(Slave) \o Maybe(AddSession) \o Once(Slave) \o Maybe(AddSession), {}, 14, own)
    BY <1>3, <1>5, ThenKeeps
<1>7. Keeps(Once(Slave) \o Maybe(AddSession) \o Once(Slave) \o Maybe(AddSession)
                \o Needs(Slave, 1, AddRelation), {}, 22, own)
    BY <1>2, <1>6, ThenKeeps
<1>8. Keeps(Needs(Unread, 1, send), {}, 12, own)
    BY <1>1, NeedsFirstKeeps, PoolFacts
<1>9. Keeps(Maybe(Needs(Unread, 1, send)), {}, 13, own)
    BY <1>8, MaybeNoneKeeps, PoolFacts
<1>10. Keeps(Once(Slave) \o Maybe(AddSession) \o Once(Slave) \o Maybe(AddSession)
                \o Needs(Slave, 1, AddRelation) \o Maybe(Needs(Unread, 1, send)), {}, 35, own)
    BY <1>7, <1>9, ThenKeeps
<1>11. Keeps(Once(Slave) \o Maybe(AddSession) \o Once(Slave) \o Maybe(AddSession)
                \o Needs(Slave, 1, AddRelation) \o Maybe(Needs(Unread, 1, send)) \o Answer,
             {}, 36, own)
    BY <1>10, AnswerKeeps, ThenKeeps
<1>. QED BY <1>11, Zenon DEF SingleSend, send

LEMMA UnreadCountKeeps ==
    ASSUME NEW own \in BOOLEAN
    PROVE  Keeps(UnreadCount, {}, 16, own)
<1>1. Keeps(Needs(Slave, 1, Once(Slave)), {}, 5, own)
    BY OnceKeeps, NeedsFirstKeeps, PoolFacts
<1>2. Keeps(Needs(Unread, 1, Needs(Slave, 1, Once(Slave))), {}, 8, own)
    BY <1>1, NeedsFirstKeeps, PoolFacts
<1>3. Keeps(Needs(Unread, 1, Needs(Slave, 1, Once(Slave))) \o Once(Slave), {}, 10, own)
    BY <1>2, OnceKeeps, ThenKeeps, PoolFacts
<1>4. Keeps(Maybe(Hold(Slave, 2, <<>>)), InFirst(Unread), 3, own)
    <2>1. Keeps(Hold(Slave, 2, <<>>), InFirst(Unread), 2, own)
        BY HoldSecondKeeps, PoolFacts, OrderFacts
    <2>. QED BY <2>1, MaybeOneKeeps, PoolFacts
<1>5. Keeps(Hold(Unread, 1, Maybe(Hold(Slave, 2, <<>>))), {}, 5, own)
    BY <1>4, HoldFirstKeeps, PoolFacts
<1>6. Keeps(Needs(Unread, 1, Needs(Slave, 1, Once(Slave))) \o Once(Slave)
                \o Hold(Unread, 1, Maybe(Hold(Slave, 2, <<>>))), {}, 15, own)
    BY <1>3, <1>5, ThenKeeps
<1>. QED BY <1>6, AnswerKeeps, ThenKeeps DEF UnreadCount

LEMMA HistoryKeeps ==
    ASSUME NEW own \in BOOLEAN
    PROVE  Keeps(History, {}, 11, own)
<1>1. Keeps(Hold(Slave, 1, Hold(GroupMember, 2, <<>>)), {}, 4, own)
    BY HoldSecondKeeps, HoldFirstKeeps, PoolFacts, OrderFacts
<1>2. Keeps(Maybe(Once(Slave)), {}, 3, own)
    BY OnceKeeps, MaybeNoneKeeps, PoolFacts
<1>3. Keeps(Hold(Slave, 1, Hold(GroupMember, 2, <<>>)) \o Maybe(Once(Slave)), {}, 7, own)
    BY <1>1, <1>2, ThenKeeps
<1>4. Keeps(Needs(GroupMember, 1, Hold(Slave, 1, Hold(GroupMember, 2, <<>>)) \o Maybe(Once(Slave))),
            {}, 10, own)
    BY <1>3, NeedsFirstKeeps, PoolFacts
<1>. QED BY <1>4, AnswerKeeps, ThenKeeps DEF History

\* Given back once for one id, and, so far as labels go, twice for two.
LEMMA RemoveRepeatUserKeeps ==
    ASSUME NEW own \in BOOLEAN, NEW ids, own => ids = 1
    PROVE  Keeps(RemoveRepeatUser(ids), {}, 4, own)
<1>1. CASE ids = 1
    <2>1. Keeps(<<>>, {}, 0, own)
        BY EmptyRuns, PoolFacts DEF Keeps
    <2>2. Keeps(First(GroupMember, 1, <<>>), {}, 2, own)
        BY <2>1, FirstNoneKeeps, PoolFacts
    <2>3. Len(First(GroupMember, 1, <<>>)) \in Nat
        BY <2>2, RunsIsSeq DEF Keeps
    <2>4. Keeps(First(GroupMember, 1, <<>>), {}, 4, own)
        BY <2>2, <2>3 DEF Keeps, Runs
    <2>. QED BY <1>1, <2>4 DEF RemoveRepeatUser
<1>2. CASE ids # 1
    <2>1. Keeps(Step("use", GroupMember, 1, 0), {}, 1, own)
        BY UseKeeps, PoolFacts
    <2>2. Keeps(Step("rel", GroupMember, 1, 0), {}, 1, own)
        <3>1. Without({}, 1) = {}
            BY DEF Without
        <3>2. Runs(Step("rel", GroupMember, 1, 0), {}, Without({}, 1), 1, own)
            BY <1>2, RelRuns, PoolFacts
        <3>. QED BY <3>1, <3>2 DEF Keeps
    <2>3. Keeps(Step("use", GroupMember, 1, 0) \o Step("rel", GroupMember, 1, 0), {}, 2, own)
        BY <2>1, <2>2, ThenKeeps
    <2>4. Keeps(First(GroupMember, 1, Step("use", GroupMember, 1, 0) \o Step("rel", GroupMember, 1, 0)),
                {}, 4, own)
        BY <2>3, FirstNoneKeeps, PoolFacts
    <2>. QED BY <1>2, <2>4 DEF RemoveRepeatUser
<1>. QED BY <1>1, <1>2

LEMMA AddMemberKeeps ==
    ASSUME NEW own \in BOOLEAN, NEW ids, own => ids = 1
    PROVE  Keeps(AddMember(ids), {}, 25, own)
<1>. DEFINE change == RemoveRepeatUser(ids) \o Maybe(First(Slave, 1, WriteMembers))
                        \o Once(GroupMember) \o Maybe(Once(Master) \o Once(Unread))
<1>1. Keeps(change, {}, 18, own)
    <2>1. Keeps(First(Slave, 1, WriteMembers), {}, 6, own)
        BY WriteMembersKeeps, FirstNoneKeeps, PoolFacts
    <2>2. Keeps(Maybe(First(Slave, 1, WriteMembers)), {}, 7, own)
        BY <2>1, MaybeNoneKeeps, PoolFacts
    <2>3. Keeps(RemoveRepeatUser(ids) \o Maybe(First(Slave, 1, WriteMembers)), {}, 11, own)
        BY <2>2, RemoveRepeatUserKeeps, ThenKeeps
    <2>4. Keeps(RemoveRepeatUser(ids) \o Maybe(First(Slave, 1, WriteMembers)) \o Once(GroupMember),
                {}, 13, own)
        BY <2>3, OnceKeeps, ThenKeeps, PoolFacts
    <2>5. Keeps(Once(Master) \o Once(Unread), {}, 4, own)
        BY OnceKeeps, ThenKeeps, PoolFacts
    <2>6. Keeps(Maybe(Once(Master) \o Once(Unread)), {}, 5, own)
        BY <2>5, MaybeNoneKeeps, PoolFacts
    <2>. QED BY <2>4, <2>6, ThenKeeps
<1>. HIDE DEF change
<1>2. Keeps(Needs(Slave, 1, change), {}, 21, own)
    BY <1>1, NeedsFirstKeeps, PoolFacts
<1>3. Keeps(MustBe \o Needs(Slave, 1, change), {}, 24, own)
    BY <1>2, MustBeKeeps, ThenKeeps
<1>4. Keeps(MustBe \o Needs(Slave, 1, change) \o Answer, {}, 25, own)
    BY <1>3, AnswerKeeps, ThenKeeps
<1>. QED BY <1>4, Zenon DEF AddMember, change

LEMMA DelMemberKeeps ==
    ASSUME NEW own \in BOOLEAN
    PROVE  Keeps(DelMember, {}, 23, own)
<1>. DEFINE change == WriteMembers \o Maybe(Once(GroupMember)) \o Once(Slave) \o Once(Master)
                        \o Maybe(Once(Master) \o Once(Unread))
<1>1. Keeps(change, {}, 16, own)
    <2>1. Keeps(Maybe(Once(GroupMember)), {}, 3, own)
        BY OnceKeeps, MaybeNoneKeeps, PoolFacts
    <2>2. Keeps(WriteMembers \o Maybe(Once(GroupMember)), {}, 7, own)
        BY <2>1, WriteMembersKeeps, ThenKeeps
    <2>3. Keeps(WriteMembers \o Maybe(Once(GroupMember)) \o Once(Slave), {}, 9, own)
        BY <2>2, OnceKeeps, ThenKeeps, PoolFacts
    <2>4. Keeps(WriteMembers \o Maybe(Once(GroupMember)) \o Once(Slave) \o Once(Master), {}, 11, own)
        BY <2>3, OnceKeeps, ThenKeeps, PoolFacts
    <2>5. Keeps(Once(Master) \o Once(Unread), {}, 4, own)
        BY OnceKeeps, ThenKeeps, PoolFacts
    <2>6. Keeps(Maybe(Once(Master) \o Once(Unread)), {}, 5, own)
        BY <2>5, MaybeNoneKeeps, PoolFacts
    <2>. QED BY <2>4, <2>6, ThenKeeps
<1>. HIDE DEF change
<1>2. Keeps(Needs(Slave, 1, change), {}, 19, own)
    BY <1>1, NeedsFirstKeeps, PoolFacts
<1>3. Keeps(MustBe \o Needs(Slave, 1, change), {}, 22, own)
    BY <1>2, MustBeKeeps, ThenKeeps
<1>4. Keeps(MustBe \o Needs(Slave, 1, change) \o Answer, {}, 23, own)
    BY <1>3, AnswerKeeps, ThenKeeps
<1>. QED BY <1>4, Zenon DEF DelMember, change

LEMMA CreateGroupKeeps ==
    ASSUME NEW own \in BOOLEAN
    PROVE  Keeps(CreateGroup, {}, 18, own)
<1>. DEFINE rest == Once(Unread) \o Once(Master) \o Once(GroupMember) \o First(Slave, 1, WriteMembers)
<1>1. Keeps(rest, {}, 14, own)
    <2>1. Keeps(Once(Unread) \o Once(Master), {}, 4, own)
        BY OnceKeeps, ThenKeeps, PoolFacts
    <2>2. Keeps(Once(Unread) \o Once(Master) \o Once(GroupMember), {}, 6, own)
        BY <2>1, OnceKeeps, ThenKeeps, PoolFacts
    <2>3. Keeps(First(Slave, 1, WriteMembers), {}, 6, own)
        BY WriteMembersKeeps, FirstNoneKeeps, PoolFacts
    <2>. QED BY <2>2, <2>3, ThenKeeps
<1>. HIDE DEF rest
<1>2. Keeps(Needs(Master, 1, rest), {}, 17, own)
    BY <1>1, NeedsFirstKeeps, PoolFacts
<1>3. Keeps(Needs(Master, 1, rest) \o Answer, {}, 18, own)
    BY <1>2, AnswerKeeps, ThenKeeps
<1>. QED BY <1>3, Zenon DEF CreateGroup, rest

-----------------------------------------------------------------------------
\* A labelling of the handler of each kind.
SlotLabel(k) ==
    CHOOSE L : /\ Fits(Script[k], L, k # "addTwo")
               /\ L[1] = {} /\ L[Len(Script[k]) + 1] = {}

\* Every handler comes to its end with all it took given back; all but the one that
\* removes two ids give back only what they hold.
LEMMA SlotFact ==
    ASSUME NEW k \in DOMAIN Script
    PROVE  /\ Script[k] \in Seq(Steps) /\ Len(Script[k]) <= 100
           /\ Fits(Script[k], SlotLabel(k), k # "addTwo")
           /\ SlotLabel(k)[1] = {} /\ SlotLabel(k)[Len(Script[k]) + 1] = {}
<1>. DEFINE own == k # "addTwo"
<1>1. own \in BOOLEAN
    OBVIOUS
<1>2. \E n \in Nat : n <= 100 /\ Keeps(Script[k], {}, n, own)
    <2>1. CASE k = "groupSend"
        <3>1. Keeps(GroupSend, {}, 34, own)
            BY <1>1, <2>1, GroupSendKeeps
        <3>. QED BY <2>1, <3>1 DEF Script
    <2>2. CASE k = "singleSend"
        <3>1. Keeps(SingleSend, {}, 36, own)
            BY <1>1, <2>2, SingleSendKeeps
        <3>. QED BY <2>2, <3>1 DEF Script
    <2>3. CASE k = "unreadCount"
        <3>1. Keeps(UnreadCount, {}, 16, own)
            BY <1>1, <2>3, UnreadCountKeeps
        <3>. QED BY <2>3, <3>1 DEF Script
    <2>4. CASE k = "history"
        <3>1. Keeps(History, {}, 11, own)
            BY <1>1, <2>4, HistoryKeeps
        <3>. QED BY <2>4, <3>1 DEF Script
    <2>5. CASE k = "addOne"
        <3>1. Keeps(AddMember(1), {}, 25, own)
            BY <1>1, <2>5, AddMemberKeeps
        <3>. QED BY <2>5, <3>1 DEF Script
    <2>6. CASE k = "addTwo"
        <3>1. Keeps(AddMember(2), {}, 25, own)
            BY <1>1, <2>6, AddMemberKeeps
        <3>. QED BY <2>6, <3>1 DEF Script
    <2>7. CASE k = "delMember"
        <3>1. Keeps(DelMember, {}, 23, own)
            BY <1>1, <2>7, DelMemberKeeps
        <3>. QED BY <2>7, <3>1 DEF Script
    <2>8. CASE k = "createGroup"
        <3>1. Keeps(CreateGroup, {}, 18, own)
            BY <1>1, <2>8, CreateGroupKeeps
        <3>. QED BY <2>8, <3>1 DEF Script
    <2>9. CASE k = "readAck"
        <3>1. Keeps(Once(Unread), {}, 2, own)
            BY <1>1, <2>9, OnceKeeps, PoolFacts
        <3>. QED BY <2>9, <3>1 DEF Script
    <2>10. k \in {"groupSend", "singleSend", "unreadCount", "history", "addOne", "addTwo", "delMember", "createGroup", "readAck"}
        BY DEF Script
    <2>. HIDE DEF own
    <2>. QED BY <2>1, <2>2, <2>3, <2>4, <2>5, <2>6, <2>7, <2>8, <2>9, <2>10
<1>3. PICK n \in Nat : n <= 100 /\ Keeps(Script[k], {}, n, own)
    BY <1>2
<1>4. Script[k] \in Seq(Steps) /\ Len(Script[k]) <= 100
    <2>1. Script[k] \in Seq(Steps) /\ Len(Script[k]) <= n
        BY <1>3 DEF Keeps, Runs
    <2>. QED BY <1>3, <2>1
<1>5. \E L : Fits(Script[k], L, own) /\ L[1] = {} /\ L[Len(Script[k]) + 1] = {}
    BY <1>3 DEF Keeps, Runs
<1>. HIDE DEF own
<1>6. SlotLabel(k) = CHOOSE L : Fits(Script[k], L, own) /\ L[1] = {} /\ L[Len(Script[k]) + 1] = {}
    BY Zenon DEF SlotLabel, own
<1>. QED BY <1>4, <1>5, <1>6, Zenon DEF own

-----------------------------------------------------------------------------
\* Where a handler of kind k may be with the slots of V in use.
SlotPlaces(k, V) == {i \in 1..(Len(Script[k]) + 1) : SlotLabel(k)[i] = V}

\* What the data decide, and the jumps this takes, leave the label as it is.
LEMMA LandsOnSlots ==
    ASSUME NEW k \in DOMAIN Script, NEW n \in 1..(Len(Script[k]) + 1)
    PROVE  Landings[k][n] \subseteq SlotPlaces(k, SlotLabel(k)[n])
<1>. DEFINE s == Script[k]
            L == SlotLabel(k)
            F == Landings[k]
            last == Len(s) + 1
            Bad == {m \in Nat : \E p \in 1..last : p = last - m /\ ~(F[p] \subseteq SlotPlaces(k, L[p]))}
<1>1. /\ s \in Seq(Steps) /\ Len(s) <= 100 /\ Len(s) \in Nat
      /\ L \in [1..last -> SUBSET Slots] /\ L[last] = {}
      /\ \A p \in 1..Len(s) : StepFits(s, L, p, k # "addTwo")
    BY SlotFact DEF Fits
<1>2. Lands(s, F, 1)
    BY <1>1, LandingsSolve
<1>3. \A p \in 1..(last + Return) : F[p] = LandsAt(s, F, p)
    BY <1>2 DEF Lands
<1>. HIDE DEF s, L, F
<1>4. SUFFICES ASSUME Bad # {} PROVE FALSE
    <2>. SUFFICES ASSUME ~(F[n] \subseteq SlotPlaces(k, L[n])) PROVE FALSE
        BY DEF s, L, F
    <2>1. last - n \in Nat /\ n \in 1..last /\ n = last - (last - n)
        BY <1>1 DEF s
    <2>2. last - n \in Bad
        BY <2>1
    <2>. QED BY <2>2
<1>5. PICK m \in Bad : \A y \in Bad : m <= y
    <2>1. Bad \in SUBSET Nat
        OBVIOUS
    <2>. HIDE DEF Bad
    <2>. QED BY <1>4, <2>1, LeastNatural
<1>6. PICK p \in 1..last : m \in Nat /\ p = last - m /\ ~(F[p] \subseteq SlotPlaces(k, L[p]))
    BY <1>5
<1>7. \A q \in 1..last : p < q => F[q] \subseteq SlotPlaces(k, L[q])
    <2>. SUFFICES ASSUME NEW q \in 1..last, p < q, ~(F[q] \subseteq SlotPlaces(k, L[q])) PROVE FALSE
        OBVIOUS
    <2>1. last - q \in Nat /\ last - q < m /\ q = last - (last - q)
        BY <1>1, <1>6
    <2>2. last - q \in Bad
        BY <2>1
    <2>3. m <= last - q
        BY <1>5, <2>2
    <2>. QED BY <1>6, <2>1, <2>3
<1>8. last \in Nat /\ p \in 1..(last + Return) /\ last = Len(s) + 1
    BY <1>1, <1>6 DEF Return
<1>9. SlotPlaces(k, L[p]) = {i \in 1..last : L[i] = L[p]}
    BY DEF SlotPlaces, s, L
<1>. HIDE DEF last, Bad
<1>10. F[p] = LandsAt(s, F, p) /\ p \in Nat
    BY <1>3, <1>8
<1>11. CASE p = last
    <2>1. F[p] = {last}
        BY <1>8, <1>11, <1>10 DEF LandsAt
    <2>2. last \in 1..last
        BY <1>6, <1>11
    <2>. QED BY <1>6, <1>9, <1>11, <2>1, <2>2
<1>12. CASE p # last /\ s[p].op # "branch"
    <2>1. p < last
        BY <1>6, <1>8, <1>12
    <2>2. F[p] = {p}
        <3>1. ~(p >= Len(s) + 1)
            BY <1>8, <1>10, <2>1
        <3>. QED BY <1>12, <1>10, <3>1 DEF LandsAt
    <2>. QED BY <1>6, <1>9, <2>2
<1>13. CASE p # last /\ s[p].op = "branch"
    <2>. DEFINE j == s[p].jump
    <2>1. p \in 1..Len(s) /\ p < last
        BY <1>6, <1>8, <1>13
    <2>2. s[p] \in Steps
        BY <1>1, <2>1
    <2>3. j \in Nat
        BY <2>2, StepJump
    <2>4. StepFits(s, L, p, k # "addTwo")
        BY <1>1, <2>1
    <2>5. L[p + 1] = L[p] /\ JumpFits(s, L, p)
        BY <1>13, <2>4 DEF StepFits
    <2>6. F[p] = F[p + 1] \cup F[p + 1 + j]
        <3>1. ~(p >= Len(s) + 1)
            BY <1>8, <1>10, <2>1
        <3>. QED BY <1>13, <1>10, <3>1 DEF LandsAt
    <2>7. F[p + 1] \subseteq SlotPlaces(k, L[p])
        <3>1. p + 1 \in 1..last /\ p < p + 1
            BY <1>8, <2>1
        <3>. QED BY <1>7, <2>5, <3>1
    <2>8. F[p + 1 + j] \subseteq SlotPlaces(k, L[p])
        <3>1. CASE s[p].jump = Return /\ L[p] = {}
            <4>1. p + 1 + j \in 1..(last + Return) /\ p + 1 + j >= Len(s) + 1
                BY <1>1, <1>8, <2>1, <2>3, <3>1 DEF Return
            <4>2. F[p + 1 + j] = {last}
                BY <1>3, <1>8, <4>1 DEF LandsAt
            <4>3. last \in 1..last
                BY <1>1, <1>8
            <4>. QED BY <1>1, <1>9, <3>1, <4>2, <4>3
        <3>2. CASE p + 1 + j <= Len(s) + 1 /\ L[p + 1 + j] = L[p]
            <4>1. p + 1 + j \in 1..last /\ p < p + 1 + j
                BY <1>8, <2>1, <2>3, <3>2
            <4>. QED BY <1>7, <3>2, <4>1
        <3>. QED BY <2>5, <3>1, <3>2 DEF JumpFits
    <2>. QED BY <1>6, <2>6, <2>7, <2>8
<1>. QED BY <1>11, <1>12, <1>13

\* A jump may also lead out of the handler.
LEMMA JumpsToSlots ==
    ASSUME NEW k \in DOMAIN Script, NEW n \in 1..Len(Script[k]), Script[k][n].op = "get"
    PROVE  Landings[k][n + 1 + Script[k][n].jump] \subseteq SlotPlaces(k, SlotLabel(k)[n])
<1>. DEFINE s == Script[k]
            L == SlotLabel(k)
            F == Landings[k]
            j == s[n].jump
<1>1. /\ s \in Seq(Steps) /\ Len(s) <= 100 /\ Len(s) \in Nat /\ n \in 1..Len(s)
      /\ L[Len(s) + 1] = {}
      /\ \A p \in 1..Len(s) : StepFits(s, L, p, k # "addTwo")
    BY SlotFact DEF Fits
<1>2. Lands(s, F, 1)
    BY <1>1, LandingsSolve
<1>3. \A p \in 1..(Len(s) + 1 + Return) : F[p] = LandsAt(s, F, p)
    BY <1>2 DEF Lands
<1>4. s[n] \in Steps /\ s[n].op = "get"
    BY <1>1
<1>5. j \in Nat
    BY <1>4, StepJump
<1>6. \A q \in 1..(Len(s) + 1) : F[q] \subseteq SlotPlaces(k, L[q])
    BY LandsOnSlots
<1>7. SlotPlaces(k, L[n]) = {i \in 1..(Len(s) + 1) : L[i] = L[n]}
    BY DEF SlotPlaces
<1>. HIDE DEF s, L, F
<1>8. StepFits(s, L, n, k # "addTwo")
    BY <1>1
<1>9. JumpFits(s, L, n)
    BY <1>4, <1>8 DEF StepFits
<1>10. F[n + 1 + j] \subseteq SlotPlaces(k, L[n])
    <2>1. CASE s[n].jump = Return /\ L[n] = {}
        <3>1. n + 1 + j \in 1..(Len(s) + 1 + Return) /\ n + 1 + j >= Len(s) + 1
            BY <1>1, <1>5, <2>1 DEF Return
        <3>2. F[n + 1 + j] = {Len(s) + 1}
            BY <1>3, <3>1 DEF LandsAt
        <3>3. Len(s) + 1 \in 1..(Len(s) + 1)
            BY <1>1
        <3>. QED BY <1>1, <1>7, <2>1, <3>2, <3>3
    <2>2. CASE n + 1 + j <= Len(s) + 1 /\ L[n + 1 + j] = L[n]
        <3>1. n + 1 + j \in 1..(Len(s) + 1)
            BY <1>1, <1>5, <2>2
        <3>. QED BY <1>6, <2>2, <3>1
    <2>. QED BY <1>9, <2>1, <2>2 DEF JumpFits
<1>. QED BY <1>10 DEF s, L, F

\* What a handler does at step n to its slots.
LEMMA HandlerSlots ==
    ASSUME NEW k \in DOMAIN Script, NEW n \in 1..Len(Script[k])
    PROVE  LET o == Script[k][n]
               V == SlotLabel(k)[n]
           IN  /\ V \subseteq Slots
               /\ o.op \in {"get", "rel", "use"} => o.pool \in Pool /\ o.var \in 1..2
               /\ o.op = "get" =>
                    /\ Fresh(V, o.var, o.pool)
                    /\ Landings[k][n + 1] \subseteq SlotPlaces(k, V \cup {<<o.var, o.pool>>})
                    /\ Landings[k][n + 1 + o.jump] \subseteq SlotPlaces(k, V)
               /\ o.op = "rel" =>
                    /\ k # "addTwo" => <<o.var, o.pool>> \in V
                    /\ Landings[k][n + 1] \subseteq SlotPlaces(k, Without(V, o.var))
               /\ o.op = "use" => Landings[k][n + 1] \subseteq SlotPlaces(k, V)
               /\ o.op = "answer" => V = {}
<1>. DEFINE s == Script[k]
            L == SlotLabel(k)
<1>1. /\ Len(s) \in Nat /\ L \in [1..(Len(s) + 1) -> SUBSET Slots]
      /\ StepFits(s, L, n, k # "addTwo")
    BY SlotFact DEF Fits
<1>2. n + 1 \in 1..(Len(s) + 1) /\ n \in 1..(Len(s) + 1)
    BY <1>1
<1>3. Landings[k][n + 1] \subseteq SlotPlaces(k, L[n + 1])
    BY <1>2, LandsOnSlots
<1>4. s[n].op = "get" => Landings[k][n + 1 + s[n].jump] \subseteq SlotPlaces(k, L[n])
    BY JumpsToSlots
<1>. HIDE DEF s, L
<1>. QED BY <1>1, <1>2, <1>3, <1>4 DEF StepFits, s, L

\* The variables of slots in use.
Names(V) == {x[1] : x \in V}

LEMMA NamesFact ==
    ASSUME NEW V \in SUBSET Slots, NEW v \in 1..2, NEW p
    PROVE  /\ Names(V) \subseteq 1..2
           /\ Names(V \cup {<<v, p>>}) = Names(V) \cup {v}
           /\ Names(Without(V, v)) = Names(V) \ {v}
           /\ <<v, p>> \in V => v \in Names(V)
           /\ Fresh(V, v, p) => v \notin Names(V)
<1>1. Names(V) \subseteq 1..2
    BY DEF Names, Slots
<1>2. Names(V \cup {<<v, p>>}) = Names(V) \cup {v}
    <2>. DEFINE x == <<v, p>>
    <2>1. x[1] = v
        OBVIOUS
    <2>. HIDE DEF x
    <2>2. Names(V \cup {x}) = Names(V) \cup {v}
        BY <2>1 DEF Names
    <2>. QED BY <2>2 DEF x
<1>3. Names(Without(V, v)) = Names(V) \ {v}
    BY DEF Names, Without
<1>4. <<v, p>> \in V => v \in Names(V)
    BY DEF Names
<1>5. Fresh(V, v, p) => v \notin Names(V)
    BY DEF Names, Fresh
<1>. QED BY <1>1, <1>2, <1>3, <1>4, <1>5

\* The variables that hold a connection at each step, and where a handler may be with
\* those of V holding one.
Label(k) == [i \in 1..(Len(Script[k]) + 1) |-> Names(SlotLabel(k)[i])]
Places(k, V) == {i \in 1..(Len(Script[k]) + 1) : Label(k)[i] = V}

LEMMA PlacesFact ==
    ASSUME NEW k, NEW V
    PROVE  SlotPlaces(k, V) \subseteq Places(k, Names(V))
BY DEF SlotPlaces, Places, Label

\* What a handler does at step n to what it holds.
LEMMA HandlerFact ==
    ASSUME NEW k \in DOMAIN Script, NEW n \in 1..Len(Script[k])
    PROVE  LET o == Script[k][n]
               V == Label(k)[n]
           IN  /\ V \subseteq 1..2
               /\ o.op \in {"get", "rel", "use"} => o.pool \in Pool /\ o.var \in 1..2
               /\ o.op = "get" =>
                    /\ o.var \notin V
                    /\ Landings[k][n + 1] \subseteq Places(k, V \cup {o.var})
                    /\ Landings[k][n + 1 + o.jump] \subseteq Places(k, V)
               /\ o.op = "rel" =>
                    /\ k # "addTwo" => o.var \in V
                    /\ Landings[k][n + 1] \subseteq Places(k, V \ {o.var})
               /\ o.op = "use" => Landings[k][n + 1] \subseteq Places(k, V)
               /\ o.op = "answer" => V = {}
<1>. DEFINE o == Script[k][n]
            S == SlotLabel(k)[n]
            V == Label(k)[n]
            F == Landings[k]
            v == o.var
            p == o.pool
<1>1. V = Names(S)
    <2>1. Len(Script[k]) \in Nat
        BY SlotFact
    <2>2. n \in 1..(Len(Script[k]) + 1)
        BY <2>1
    <2>. QED BY <2>2 DEF Label
<1>2. /\ S \subseteq Slots
      /\ o.op \in {"get", "rel", "use"} => p \in Pool /\ v \in 1..2
      /\ o.op = "get" =>
           /\ Fresh(S, v, p)
           /\ F[n + 1] \subseteq SlotPlaces(k, S \cup {<<v, p>>})
           /\ F[n + 1 + o.jump] \subseteq SlotPlaces(k, S)
      /\ o.op = "rel" =>
           /\ k # "addTwo" => <<v, p>> \in S
           /\ F[n + 1] \subseteq SlotPlaces(k, Without(S, v))
      /\ o.op = "use" => F[n + 1] \subseteq SlotPlaces(k, S)
      /\ o.op = "answer" => S = {}
    BY HandlerSlots
<1>. HIDE DEF o, S, V, F, v, p
<1>3. V \subseteq 1..2 /\ (S = {} => V = {})
    BY <1>1, <1>2 DEF Names, Slots
<1>4. v \in 1..2 =>
        /\ Names(S \cup {<<v, p>>}) = V \cup {v} /\ Names(Without(S, v)) = V \ {v}
        /\ <<v, p>> \in S => v \in V
        /\ Fresh(S, v, p) => v \notin V
    BY <1>1, <1>2, NamesFact
<1>5. \A X : SlotPlaces(k, X) \subseteq Places(k, Names(X))
    BY PlacesFact
<1>6. o.op = "get" =>
        /\ v \notin V
        /\ F[n + 1] \subseteq Places(k, V \cup {v})
        /\ F[n + 1 + o.jump] \subseteq Places(k, V)
    <2>. SUFFICES ASSUME o.op = "get"
                  PROVE  /\ v \notin V
                         /\ F[n + 1] \subseteq Places(k, V \cup {v})
                         /\ F[n + 1 + o.jump] \subseteq Places(k, V)
        OBVIOUS
    <2>1. SlotPlaces(k, S \cup {<<v, p>>}) \subseteq Places(k, V \cup {v})
        BY <1>2, <1>4, <1>5
    <2>2. SlotPlaces(k, S) \subseteq Places(k, V)
        BY <1>1, <1>5
    <2>. QED BY <1>2, <1>4, <2>1, <2>2
<1>7. o.op = "rel" =>
        /\ k # "addTwo" => v \in V
        /\ F[n + 1] \subseteq Places(k, V \ {v})
    <2>. SUFFICES ASSUME o.op = "rel"
                  PROVE  /\ k # "addTwo" => v \in V
                         /\ F[n + 1] \subseteq Places(k, V \ {v})
        OBVIOUS
    <2>1. SlotPlaces(k, Without(S, v)) \subseteq Places(k, V \ {v})
        BY <1>2, <1>4, <1>5
    <2>. QED BY <1>2, <1>4, <2>1
<1>8. o.op = "use" => F[n + 1] \subseteq Places(k, V)
    BY <1>1, <1>2, <1>5
<1>. QED BY <1>2, <1>3, <1>6, <1>7, <1>8, Zenon DEF o, V, F, v, p

\* A handler begins and ends with nothing.
LEMMA HandlerEnds ==
    ASSUME NEW k \in DOMAIN Script
    PROVE  /\ Landings[k][1] \subseteq SlotPlaces(k, {}) /\ Landings[k][1] \subseteq Places(k, {})
           /\ Label(k)[Len(Script[k]) + 1] = {} /\ Len(Script[k]) \in Nat
           /\ \A i \in 1..(Len(Script[k]) + 1) : Label(k)[i] \subseteq 1..2
<1>1. /\ Len(Script[k]) \in Nat /\ SlotLabel(k)[1] = {} /\ SlotLabel(k)[Len(Script[k]) + 1] = {}
      /\ SlotLabel(k) \in [1..(Len(Script[k]) + 1) -> SUBSET Slots]
    BY SlotFact DEF Fits
<1>2. 1 \in 1..(Len(Script[k]) + 1) /\ Len(Script[k]) + 1 \in 1..(Len(Script[k]) + 1)
    BY <1>1
<1>3. Landings[k][1] \subseteq SlotPlaces(k, {})
    BY <1>1, <1>2, LandsOnSlots
<1>4. Names({}) = {}
    BY DEF Names
<1>5. Landings[k][1] \subseteq Places(k, {})
    BY <1>3, <1>4, PlacesFact
<1>6. Label(k)[Len(Script[k]) + 1] = {}
    BY <1>1, <1>2, <1>4 DEF Label
<1>7. \A i \in 1..(Len(Script[k]) + 1) : Label(k)[i] \subseteq 1..2
    BY <1>1 DEF Label, Names, Slots
<1>. QED BY <1>1, <1>3, <1>5, <1>6, <1>7

-----------------------------------------------------------------------------
(***************************************************************************)
(* The answers.  Of a request that is done and was not silently dropped,   *)
(* the connection got the answer or is gone, and a connection that is gone *)
(* is not there again: s_uuid_alloctor gives every one a new number.       *)
(***************************************************************************)
Open == {uuid[h] : h \in Handle}

\* The shape of the records in work; EXCEPT keeps it.
WorkShape == DOMAIN work = Worker /\ \A w \in Worker : "req" \in DOMAIN work[w]

AskTypeOK ==
    /\ lastUuid \in Nat
    /\ uuid \in [Handle -> 0..lastUuid]
    /\ asked \in Seq([uuid : 1..lastUuid, kind : Kind, handle : Handle])
    /\ Len(asked) <= MaxRequest
    /\ queue \in [Worker -> Seq(Requests)]
    /\ WorkShape
    /\ \A w \in Worker : work[w].req \in Requests \cup {NoRequest}
    /\ resp \in Seq(Requests)
    /\ got \in [1..MaxRequest -> SUBSET Nat]

Answered(r) == r \in silent \/ got[r] = {asked[r].uuid} \/ asked[r].uuid \notin Open

AskInv ==
    /\ AskTypeOK
    /\ \A r \in Requests : got[r] \subseteq {asked[r].uuid} /\ (Unfinished(r) \/ Answered(r))
    /\ \A r \in 1..MaxRequest : r \notin Requests => got[r] = {}

LEMMA RequestsFact ==
    ASSUME AskTypeOK
    PROVE  /\ Requests = 1..Len(asked) /\ Len(asked) \in Nat /\ Requests \subseteq 1..MaxRequest
           /\ Requests \subseteq Nat \ {NoRequest}
           /\ \A r \in Requests : asked[r].uuid \in 1..lastUuid
<1>1. Requests = 1..Len(asked) /\ Len(asked) \in Nat
    BY DEF AskTypeOK, Requests
<1>. DEFINE R == [uuid : 1..lastUuid, kind : Kind, handle : Handle]
<1>2. asked \in Seq(R)
    BY DEF AskTypeOK
<1>. HIDE DEF R
<1>3. \A r \in Requests : asked[r] \in R
    BY <1>2 DEF Requests
<1>4. \A r \in Requests : asked[r].uuid \in 1..lastUuid
    BY <1>3 DEF R
<1>. QED BY <1>1, <1>4, BoundAssumption DEF AskTypeOK, NoRequest

LEMMA AskInit == Init => AskInv
<1>. SUFFICES ASSUME Init PROVE AskInv
    OBVIOUS
<1>1. work = [w \in Worker |-> Idle] /\ Idle = [req |-> 0, pc |-> 0, var |-> <<NoVar, NoVar>>]
    BY DEF Init, Idle, NoRequest
<1>2. WorkShape /\ \A w \in Worker : work[w].req = NoRequest
    BY <1>1 DEF WorkShape, NoRequest
<1>3. AskTypeOK
    BY <1>2, BoundAssumption DEF Init, AskTypeOK
<1>4. Requests = {}
    BY DEF Init, Requests
<1>. QED BY <1>3, <1>4 DEF AskInv, Init

\* A step of a worker at its handler.
SameAsk == UNCHANGED <<lastUuid, uuid, asked, queue, resp, got, silent>>

LEMMA HandlerKeepsAsk ==
    ASSUME AskInv, NEW w \in Worker, SameAsk,
           \/ work' = work
           \/ \E i : work' = [work EXCEPT ![w].pc = i]
           \/ \E i, v, x : work' = [work EXCEPT ![w].pc = i, ![w].var[v] = x]
    PROVE  AskInv'
<1>1. WorkShape /\ Requests' = Requests
    BY DEF AskInv, AskTypeOK, SameAsk, Requests
<1>2. WorkShape' /\ \A v \in Worker : work'[v].req = work[v].req
    <2>1. CASE work' = work
        BY <1>1, <2>1 DEF WorkShape
    <2>2. CASE \E i : work' = [work EXCEPT ![w].pc = i]
        <3>1. PICK i : work' = [work EXCEPT ![w].pc = i]
            BY <2>2
        <3>. QED BY <1>1, <3>1 DEF WorkShape
    <2>3. CASE \E i, v, x : work' = [work EXCEPT ![w].pc = i, ![w].var[v] = x]
        <3>1. PICK i, v, x : work' = [work EXCEPT ![w].pc = i, ![w].var[v] = x]
            BY <2>3
        <3>. QED BY <1>1, <3>1 DEF WorkShape
    <2>. QED BY <2>1, <2>2, <2>3
<1>3. AskTypeOK'
    BY <1>1, <1>2 DEF AskInv, AskTypeOK, SameAsk
<1>4. \A r : Unfinished(r)' <=> Unfinished(r)
    BY <1>2 DEF Unfinished, SameAsk
<1>. QED BY <1>1, <1>3, <1>4 DEF AskInv, Answered, Open, SameAsk

LEMMA OnConnectKeepsAsk ==
    ASSUME AskInv, NEW h \in Handle, OnConnect(h)
    PROVE  AskInv'
<1>1. /\ lastUuid' = lastUuid + 1 /\ uuid' = [uuid EXCEPT ![h] = lastUuid + 1]
      /\ UNCHANGED <<asked, queue, work, resp, got, silent>>
    BY DEF OnConnect
<1>2. lastUuid \in Nat /\ uuid \in [Handle -> 0..lastUuid]
    BY DEF AskInv, AskTypeOK
<1>3. uuid' \in [Handle -> 0..(lastUuid + 1)]
    BY <1>1, <1>2
<1>4. asked \in Seq([uuid : 1..(lastUuid + 1), kind : Kind, handle : Handle])
    <2>. DEFINE R == [uuid : 1..lastUuid, kind : Kind, handle : Handle]
                S == [uuid : 1..(lastUuid + 1), kind : Kind, handle : Handle]
    <2>1. asked \in Seq(R)
        BY DEF AskInv, AskTypeOK
    <2>2. R \subseteq S
        BY <1>2
    <2>. HIDE DEF R, S
    <2>3. asked \in Seq(S)
        BY <2>1, <2>2
    <2>. QED BY <2>3 DEF S
<1>5. AskTypeOK'
    BY <1>1, <1>2, <1>3, <1>4 DEF AskInv, AskTypeOK, Requests, WorkShape
<1>6. \A r \in Requests : asked[r].uuid \in 1..lastUuid
    BY RequestsFact DEF AskInv
<1>7. \A r \in Requests : asked[r].uuid \in Open' => asked[r].uuid \in Open
    BY <1>1, <1>2, <1>6 DEF Open
<1>. QED BY <1>1, <1>5, <1>7 DEF AskInv, Answered, Unfinished, Requests

LEMMA CloseKeepsAsk ==
    ASSUME AskInv, NEW h \in Handle, Close(h)
    PROVE  AskInv'
<1>1. uuid' = [uuid EXCEPT ![h] = 0] /\ UNCHANGED <<lastUuid, asked, queue, work, resp, got, silent>>
    BY DEF Close
<1>2. lastUuid \in Nat /\ uuid \in [Handle -> 0..lastUuid]
    BY DEF AskInv, AskTypeOK
<1>3. AskTypeOK'
    BY <1>1, <1>2 DEF AskInv, AskTypeOK, Requests, WorkShape
<1>4. \A r \in Requests : asked[r].uuid \in Open' => asked[r].uuid \in Open
    BY <1>1, <1>2, RequestsFact DEF Open, AskInv
<1>. QED BY <1>1, <1>3, <1>4 DEF AskInv, Answered, Unfinished, Requests

LEMMA HandlePduBufKeepsAsk ==
    ASSUME AskInv, NEW h \in Handle, NEW k \in Kind, NEW w \in Worker, HandlePduBuf(h, k, w)
    PROVE  AskInv'
<1>. DEFINE a == [uuid |-> uuid[h], kind |-> k, handle |-> h]
            R == [uuid : 1..lastUuid, kind : Kind, handle : Handle]
<1>. PICK n : n = Len(asked) + 1
    OBVIOUS
<1>1. /\ uuid[h] # 0 /\ Len(asked) < MaxRequest /\ asked' = Append(asked, a)
      /\ UNCHANGED <<lastUuid, uuid, work, resp, got, silent>>
    BY DEF HandlePduBuf
<1>2. /\ lastUuid \in Nat /\ uuid \in [Handle -> 0..lastUuid]
      /\ asked \in Seq([uuid : 1..lastUuid, kind : Kind, handle : Handle])
      /\ queue \in [Worker -> Seq(Requests)] /\ resp \in Seq(Requests)
    BY DEF AskInv, AskTypeOK
<1>3. a \in R /\ asked \in Seq(R)
    BY <1>1, <1>2
<1>. HIDE DEF a, R
<1>4. /\ asked' \in Seq(R)
      /\ Len(asked') = n /\ \A r \in Requests : asked'[r] = asked[r]
      /\ Requests' = 1..n /\ Requests = 1..Len(asked) /\ Len(asked) \in Nat
    BY <1>1, <1>2, <1>3 DEF Requests
<1>5. Requests \subseteq Requests' /\ n \in Requests' /\ Requests' = Requests \cup {n}
    BY <1>4
<1>6. queue' = [queue EXCEPT ![w] = Append(queue[w], n)]
    BY <1>4 DEF HandlePduBuf
<1>7. queue' \in [Worker -> Seq(Requests')] /\ resp' \in Seq(Requests')
    <2>1. \A v \in Worker : queue[v] \in Seq(Requests')
        BY <1>2, <1>5
    <2>2. Append(queue[w], n) \in Seq(Requests')
        BY <1>5, <2>1
    <2>3. resp \in Seq(Requests')
        BY <1>2, <1>5
    <2>. QED BY <1>1, <1>2, <1>6, <2>1, <2>2, <2>3
<1>8. AskTypeOK'
    <2>1. Len(asked') <= MaxRequest
        BY <1>1, <1>4, BoundAssumption
    <2>. QED BY <1>1, <1>2, <1>4, <1>5, <1>7, <2>1 DEF AskInv, AskTypeOK, WorkShape, R
<1>9. \A v \in Worker : \A i \in DOMAIN queue[v] :
            i \in DOMAIN queue'[v] /\ queue'[v][i] = queue[v][i]
    BY <1>2, <1>6
<1>10. \A r : Unfinished(r) => Unfinished(r)'
    BY <1>1, <1>9 DEF Unfinished
<1>11. Unfinished(n)'
    <2>1. Len(queue[w]) + 1 \in DOMAIN queue'[w] /\ queue'[w][Len(queue[w]) + 1] = n
        BY <1>2, <1>6
    <2>. QED BY <2>1 DEF Unfinished
<1>12. \A r \in Requests : Answered(r) => Answered(r)'
    BY <1>1, <1>4 DEF Answered, Open
<1>13. n \in 1..MaxRequest /\ n \notin Requests
    BY <1>1, <1>4, BoundAssumption
<1>14. ASSUME NEW r \in Requests'
       PROVE  got'[r] \subseteq {asked'[r].uuid} /\ (Unfinished(r)' \/ Answered(r)')
    <2>1. CASE r \in Requests
        BY <1>1, <1>4, <1>10, <1>12, <2>1 DEF AskInv
    <2>2. CASE r = n
        BY <1>1, <1>11, <1>13, <2>2 DEF AskInv
    <2>. QED BY <1>5, <2>1, <2>2
<1>. QED BY <1>1, <1>5, <1>8, <1>14 DEF AskInv

LEMMA SendKeepsAsk ==
    ASSUME AskInv, SendResponsePduList
    PROVE  AskInv'
<1>1. /\ resp' = <<>> /\ UNCHANGED <<lastUuid, uuid, asked, queue, work, silent>>
      /\ got' = [r \in DOMAIN got |->
                    IF \E i \in DOMAIN resp : resp[i] = r THEN got[r] \cup GetConn(r) ELSE got[r]]
    BY DEF SendResponsePduList, connVars
<1>2. /\ got \in [1..MaxRequest -> SUBSET Nat] /\ resp \in Seq(Requests) /\ Requests' = Requests
      /\ \A r \in Requests : asked[r].uuid \in Nat /\ r \in 1..MaxRequest
    BY <1>1, RequestsFact DEF AskInv, AskTypeOK, Requests
<1>3. \A r \in Requests : GetConn(r) = {asked[r].uuid} \cap Open
    BY DEF GetConn, Open
<1>4. \A i \in DOMAIN resp : resp[i] \in Requests
    BY <1>2
<1>5. got' \in [1..MaxRequest -> SUBSET Nat]
    BY <1>1, <1>2, <1>3, <1>4
<1>6. AskTypeOK'
    BY <1>1, <1>2, <1>5 DEF AskInv, AskTypeOK, WorkShape
<1>7. ASSUME NEW r \in Requests
      PROVE  got'[r] \subseteq {asked'[r].uuid} /\ (Unfinished(r)' \/ Answered(r)')
    <2>1. got[r] \subseteq {asked[r].uuid} /\ (Unfinished(r) \/ Answered(r)) /\ r \in DOMAIN got
        BY <1>2 DEF AskInv
    <2>2. CASE \E i \in DOMAIN resp : resp[i] = r
        <3>1. got'[r] = got[r] \cup ({asked[r].uuid} \cap Open)
            BY <1>1, <1>3, <2>1, <2>2
        <3>2. Answered(r)'
            BY <1>1, <2>1, <3>1 DEF Answered, Open
        <3>. QED BY <1>1, <2>1, <3>1, <3>2
    <2>3. CASE ~\E i \in DOMAIN resp : resp[i] = r
        <3>1. got'[r] = got[r]
            BY <1>1, <2>1, <2>3
        <3>2. Unfinished(r) => Unfinished(r)'
            BY <1>1, <2>3 DEF Unfinished
        <3>3. Answered(r) => Answered(r)'
            BY <1>1, <3>1 DEF Answered, Open
        <3>. QED BY <1>1, <2>1, <3>1, <3>2, <3>3
    <2>. QED BY <2>2, <2>3
<1>8. ASSUME NEW r \in 1..MaxRequest, r \notin Requests PROVE got'[r] = {}
    BY <1>1, <1>2, <1>4, <1>8 DEF AskInv
<1>. QED BY <1>2, <1>6, <1>7, <1>8 DEF AskInv

LEMMA ExecuteKeepsAsk ==
    ASSUME AskInv, NEW w \in Worker, Execute(w)
    PROVE  AskInv'
<1>1. PICK i : work' = [work EXCEPT ![w] = [Idle EXCEPT !.req = Head(queue[w]), !.pc = i]]
    BY DEF Execute
<1>2. /\ ~Busy(w) /\ queue[w] # <<>> /\ queue' = [queue EXCEPT ![w] = Tail(queue[w])]
      /\ UNCHANGED <<lastUuid, uuid, asked, resp, got, silent>>
    BY DEF Execute, connVars
<1>3. /\ queue \in [Worker -> Seq(Requests)] /\ Requests' = Requests /\ WorkShape
    BY <1>2 DEF AskInv, AskTypeOK, Requests
<1>4. Head(queue[w]) \in Requests /\ Tail(queue[w]) \in Seq(Requests) /\ Head(queue[w]) = queue[w][1]
    BY <1>2, <1>3
<1>5. /\ WorkShape' /\ work'[w].req = Head(queue[w])
      /\ \A v \in Worker \ {w} : work'[v].req = work[v].req
    BY <1>1, <1>3 DEF WorkShape, Idle
<1>6. AskTypeOK'
    BY <1>2, <1>3, <1>4, <1>5 DEF AskInv, AskTypeOK
<1>7. ASSUME NEW r \in Requests, Unfinished(r) PROVE Unfinished(r)'
    <2>1. CASE \E v \in Worker : work[v].req = r
        <3>1. PICK v \in Worker : work[v].req = r
            BY <2>1
        <3>2. v # w
            BY <1>2, <3>1, RequestsFact DEF Busy, AskInv
        <3>. QED BY <1>5, <3>1, <3>2 DEF Unfinished
    <2>2. CASE \E i_1 \in DOMAIN resp : resp[i_1] = r
        BY <1>2, <2>2 DEF Unfinished
    <2>3. CASE \E v \in Worker : \E j \in DOMAIN queue[v] : queue[v][j] = r
        <3>. PICK v \in Worker : \E j \in DOMAIN queue[v] : queue[v][j] = r
            BY <2>3
        <3>1. PICK j \in DOMAIN queue[v] : queue[v][j] = r
            OBVIOUS
        <3>2. CASE v # w
            BY <1>2, <1>3, <3>1, <3>2 DEF Unfinished
        <3>3. CASE v = w /\ j = 1
            BY <1>4, <1>5, <3>1, <3>3 DEF Unfinished
        <3>4. CASE v = w /\ j # 1
            <4>1. queue'[w] = Tail(queue[w]) /\ queue[w] \in Seq(Requests)
                BY <1>2, <1>3
            <4>2. j - 1 \in DOMAIN Tail(queue[w]) /\ Tail(queue[w])[j - 1] = queue[w][j]
                BY <1>2, <3>1, <3>4, <4>1
            <4>. QED BY <3>1, <3>4, <4>1, <4>2 DEF Unfinished
        <3>. QED BY <3>2, <3>3, <3>4
    <2>. QED BY <1>7, <2>1, <2>2, <2>3 DEF Unfinished
<1>. QED BY <1>2, <1>3, <1>6, <1>7 DEF AskInv, Answered, Open

\* A handler that ends, with an answer or without.
LEMMA EndKeepsAsk ==
    ASSUME AskInv, NEW w \in Worker, AddResponsePdu(w) \/ Finish(w)
    PROVE  AskInv'
<1>. PICK q : q = work[w].req
    OBVIOUS
<1>1. /\ work' = [work EXCEPT ![w] = Idle] /\ Busy(w)
      /\ UNCHANGED <<lastUuid, uuid, asked, queue, got>>
      /\ \/ resp' = Append(resp, q) /\ silent' = silent
         \/ resp' = resp /\ silent' = silent \cup {q}
    BY DEF AddResponsePdu, Finish, connVars, At
<1>2. q \in Requests /\ Requests' = Requests /\ WorkShape /\ resp \in Seq(Requests)
    BY <1>1 DEF Busy, AskInv, AskTypeOK, Requests
<1>3. /\ WorkShape' /\ work'[w].req = NoRequest
      /\ \A v \in Worker \ {w} : work'[v].req = work[v].req
    BY <1>1, <1>2 DEF WorkShape, Idle
<1>4. resp' \in Seq(Requests)
    BY <1>1, <1>2
<1>5. AskTypeOK'
    BY <1>1, <1>2, <1>3, <1>4 DEF AskInv, AskTypeOK
<1>6. /\ \A j \in DOMAIN resp : j \in DOMAIN resp' /\ resp'[j] = resp[j]
      /\ silent \subseteq silent'
      /\ q \in silent' \/ \E j \in DOMAIN resp' : resp'[j] = q
    <2>1. CASE resp' = Append(resp, q) /\ silent' = silent
        <3>1. /\ \A j \in DOMAIN resp : j \in DOMAIN resp' /\ resp'[j] = resp[j]
              /\ Len(resp) + 1 \in DOMAIN resp' /\ resp'[Len(resp) + 1] = q
            BY <1>2, <2>1
        <3>. QED BY <2>1, <3>1
    <2>2. CASE resp' = resp /\ silent' = silent \cup {q}
        BY <2>2
    <2>. QED BY <1>1, <2>1, <2>2
<1>7. \A r \in Requests : Unfinished(r) => r = q \/ Unfinished(r)'
    BY <1>1, <1>3, <1>6 DEF Unfinished
<1>8. Unfinished(q)' \/ q \in silent'
    BY <1>6 DEF Unfinished
<1>. QED BY <1>1, <1>2, <1>5, <1>6, <1>7, <1>8 DEF AskInv, Answered, Open

LEMMA AskStep == AskInv /\ [Next]_vars => AskInv'
<1>. SUFFICES ASSUME AskInv, [Next]_vars PROVE AskInv'
    OBVIOUS
<1>1. CASE SendResponsePduList
    BY <1>1, SendKeepsAsk
<1>2. ASSUME NEW h \in Handle, OnConnect(h) \/ Close(h) PROVE AskInv'
    BY <1>2, OnConnectKeepsAsk, CloseKeepsAsk
<1>3. ASSUME NEW h \in Handle, NEW k \in Kind, NEW w \in Worker, HandlePduBuf(h, k, w)
      PROVE  AskInv'
    BY <1>3, HandlePduBufKeepsAsk
<1>4. ASSUME NEW w \in Worker, Execute(w) \/ AddResponsePdu(w) \/ Finish(w) PROVE AskInv'
    BY <1>4, ExecuteKeepsAsk, EndKeepsAsk
<1>5. ASSUME NEW w \in Worker, GetDBConn(w) \/ RelDBConn(w) \/ UseDBConn(w) \/ WakesUp(w)
      PROVE  AskInv'
    <2>1. SameAsk
        BY <1>5 DEF GetDBConn, RelDBConn, UseDBConn, WakesUp, connVars, SameAsk
    <2>2. \/ work' = work
          \/ \E i : work' = [work EXCEPT ![w].pc = i]
          \/ \E i, v, x : work' = [work EXCEPT ![w].pc = i, ![w].var[v] = x]
        BY <1>5, Zenon DEF GetDBConn, RelDBConn, UseDBConn, WakesUp, Skip, Assign
    <2>. QED BY <2>1, <2>2, HandlerKeepsAsk
<1>6. CASE UNCHANGED vars
    <2>1. UNCHANGED <<lastUuid, uuid, asked, queue, work, resp, got, silent>>
        BY <1>6 DEF vars, connVars
    <2>2. Requests' = Requests /\ Open' = Open /\ (WorkShape' <=> WorkShape)
        BY <2>1 DEF Requests, Open, WorkShape
    <2>3. \A r : (Unfinished(r)' <=> Unfinished(r)) /\ (Answered(r)' <=> Answered(r))
        BY <2>1, <2>2 DEF Unfinished, Answered
    <2>4. AskTypeOK'
        BY <2>1, <2>2 DEF AskInv, AskTypeOK
    <2>. QED BY <2>1, <2>2, <2>3, <2>4 DEF AskInv
<1>. QED BY <1>1, <1>2, <1>3, <1>4, <1>5, <1>6 DEF Next, Work

LEMMA SpecAskInv == Spec => []AskInv
BY AskInit, AskStep, PTL DEF Spec

\* An answer goes to the connection that asked and to no other, however often sockets
\* are reused while workers are busy, and it does go there if that connection is open.
THEOREM AnswerReachesAskerCorrect == Spec => []AnswerReachesAsker
<1>1. AskInv => AnswerReachesAsker
    BY DEF AskInv, AnswerReachesAsker, Answered, GetConn, Open
<1>. QED BY <1>1, SpecAskInv, PTL

-----------------------------------------------------------------------------
(***************************************************************************)
(* No connection is forgotten: what a worker holds is in the variables the *)
(* label of its place names, and nothing is named at the end.              *)
(***************************************************************************)
InPlace(k, x, H) ==
    /\ DOMAIN x = {"req", "pc", "var"} /\ DOMAIN x.var = 1..2
    /\ \A i \in 1..2 : x.var[i] = <<x.var[i][1], x.var[i][2]>>
    /\ x.pc \in 1..(Len(Script[k]) + 1)
    /\ H \subseteq {x.var[i] : i \in Label(k)[x.pc]}

HeldInv ==
    /\ DOMAIN work = Worker /\ DOMAIN held = Worker /\ DOMAIN created = Pool
    /\ \A w \in Worker : IF Busy(w) THEN InPlace(KindOf(w), work[w], held[w]) ELSE held[w] = {}

\* A handler that goes on with V held, and one that puts c into variable v.
LEMMA SkipStaysInPlace ==
    ASSUME NEW k, NEW x, NEW H, InPlace(k, x, H), NEW V, NEW i \in Places(k, V), NEW G,
           G \subseteq {x.var[j] : j \in V}
    PROVE  InPlace(k, [x EXCEPT !.pc = i], G)
<1>. DEFINE y == [x EXCEPT !.pc = i]
<1>1. DOMAIN x = {"req", "pc", "var"}
    BY DEF InPlace
<1>2. DOMAIN y = {"req", "pc", "var"} /\ y.pc = i /\ y.var = x.var
    BY <1>1
<1>3. i \in 1..(Len(Script[k]) + 1) /\ Label(k)[i] = V
    BY DEF Places
<1>. HIDE DEF y
<1>4. InPlace(k, y, G)
    BY <1>2, <1>3 DEF InPlace
<1>. QED BY <1>4 DEF y

LEMMA AssignStaysInPlace ==
    ASSUME NEW k, NEW x, NEW H, InPlace(k, x, H), NEW V, V \subseteq 1..2,
           H \subseteq {x.var[j] : j \in V},
           NEW v \in 1..2, v \notin V, NEW i \in Places(k, V \cup {v}), NEW a, NEW b
    PROVE  InPlace(k, [x EXCEPT !.pc = i, !.var[v] = <<a, b>>], H \cup {<<a, b>>})
<1>. DEFINE y == [x EXCEPT !.pc = i, !.var[v] = <<a, b>>]
            z == [x.var EXCEPT ![v] = <<a, b>>]
            c == <<a, b>>
<1>1. DOMAIN x = {"req", "pc", "var"} /\ DOMAIN x.var = 1..2
    BY DEF InPlace
<1>2. DOMAIN y = {"req", "pc", "var"} /\ y.pc = i /\ y.var = z
    BY <1>1
<1>3. i \in 1..(Len(Script[k]) + 1) /\ Label(k)[i] = V \cup {v}
    BY DEF Places
<1>4. DOMAIN z = 1..2 /\ z[v] = c /\ \A j \in 1..2 \ {v} : z[j] = x.var[j]
    BY <1>1
<1>5. c = <<c[1], c[2]>>
    OBVIOUS
<1>6. \A j \in 1..2 : x.var[j] = <<x.var[j][1], x.var[j][2]>>
    BY DEF InPlace
<1>. HIDE DEF y, z, c
<1>7. \A j \in 1..2 : z[j] = <<z[j][1], z[j][2]>>
    BY <1>4, <1>5, <1>6
<1>8. \A j \in V : z[j] = x.var[j]
    BY <1>4
<1>9. H \cup {c} \subseteq {z[j] : j \in V \cup {v}}
    BY <1>4, <1>8
<1>10. InPlace(k, y, H \cup {c})
    BY <1>2, <1>3, <1>4, <1>7, <1>9 DEF InPlace
<1>. QED BY <1>10 DEF y, c

LEMMA KindFact ==
    ASSUME AskTypeOK, NEW w \in Worker, Busy(w)
    PROVE  KindOf(w) \in DOMAIN Script /\ KindOf(w) \in Kind /\ work[w].req \in Requests
<1>1. work[w].req \in Requests
    BY DEF AskTypeOK, Busy
<1>. DEFINE R == [uuid : 1..lastUuid, kind : Kind, handle : Handle]
<1>2. asked \in Seq(R)
    BY DEF AskTypeOK
<1>3. asked[work[w].req] \in R
    <2>. HIDE DEF R
    <2>. QED BY <1>1, <1>2 DEF Requests
<1>. QED BY <1>1, <1>3, KindAssumption DEF KindOf

LEMMA HeldInit == Init => HeldInv
<1>. SUFFICES ASSUME Init PROVE HeldInv
    OBVIOUS
<1>1. work = [w \in Worker |-> Idle] /\ Idle.req = NoRequest /\ held = [w \in Worker |-> {}]
    BY DEF Init, Idle, PoolInit, Worker
<1>2. DOMAIN created = Pool
    BY LimitAssumption DEF Init, PoolInit
<1>. QED BY <1>1, <1>2 DEF HeldInv, Busy

\* A step of one worker.
LEMMA OneWorker ==
    ASSUME HeldInv, AskTypeOK, NEW w \in Worker, UNCHANGED asked,
           DOMAIN work' = Worker, DOMAIN held' = Worker, DOMAIN created' = Pool,
           \A u \in Worker \ {w} : work'[u] = work[u] /\ held'[u] = held[u],
           IF Busy(w)' THEN InPlace(KindOf(w)', work'[w], held'[w]) ELSE held'[w] = {}
    PROVE  HeldInv'
<1>1. ASSUME NEW u \in Worker \ {w}
      PROVE  IF Busy(u)' THEN InPlace(KindOf(u)', work'[u], held'[u]) ELSE held'[u] = {}
    <2>1. /\ Busy(u)' <=> Busy(u)
          /\ KindOf(u)' = KindOf(u) /\ work'[u] = work[u] /\ held'[u] = held[u]
        BY DEF Busy, KindOf
    <2>. QED BY <2>1 DEF HeldInv
<1>2. \A u \in Worker : IF Busy(u)' THEN InPlace(KindOf(u)', work'[u], held'[u]) ELSE held'[u] = {}
    BY <1>1
<1>3. (\A u \in Worker : IF Busy(u) THEN InPlace(KindOf(u), work[u], held[u]) ELSE held[u] = {})'
    BY <1>2 DEF InPlace, Worker
<1>. QED BY <1>3 DEF HeldInv, Worker

\* What a worker at a step of its handler knows.
LEMMA AtFact ==
    ASSUME HeldInv, AskTypeOK, NEW w \in Worker, NEW op, At(w, op)
    PROVE  /\ Busy(w) /\ KindOf(w) \in DOMAIN Script /\ KindOf(w) \in Kind
           /\ work[w].pc \in 1..Len(Script[KindOf(w)])
           /\ Current(w) = Script[KindOf(w)][work[w].pc] /\ Current(w).op = op
           /\ InPlace(KindOf(w), work[w], held[w])
<1>1. Busy(w) /\ work[w].pc <= Len(Handler(w)) /\ Handler(w)[work[w].pc].op = op
    BY DEF At
<1>2. InPlace(KindOf(w), work[w], held[w])
    BY <1>1 DEF HeldInv
<1>3. KindOf(w) \in DOMAIN Script /\ KindOf(w) \in Kind
    BY <1>1, KindFact
<1>4. work[w].pc \in 1..(Len(Script[KindOf(w)]) + 1) /\ Len(Script[KindOf(w)]) \in Nat
    BY <1>2, <1>3, HandlerEnds DEF InPlace
<1>. QED BY <1>1, <1>2, <1>3, <1>4 DEF Handler, Current

\* Skip and Assign, seen from the worker.
LEMMA SkipResult ==
    ASSUME HeldInv, NEW w \in Worker, NEW n, Skip(w, n)
    PROVE  /\ DOMAIN work' = Worker /\ \A u \in Worker \ {w} : work'[u] = work[u]
           /\ \E i \in Landings[KindOf(w)][work[w].pc + 1 + n] : work'[w] = [work[w] EXCEPT !.pc = i]
<1>1. PICK i \in Landings[KindOf(w)][work[w].pc + 1 + n] : work' = [work EXCEPT ![w].pc = i]
    BY DEF Skip
<1>. QED BY <1>1 DEF HeldInv

LEMMA AssignResult ==
    ASSUME HeldInv, NEW w \in Worker, NEW x, Assign(w, x)
    PROVE  /\ DOMAIN work' = Worker /\ \A u \in Worker \ {w} : work'[u] = work[u]
           /\ \E i \in Landings[KindOf(w)][work[w].pc + 1] :
                work'[w] = [work[w] EXCEPT !.pc = i, !.var[Current(w).var] = x]
<1>1. PICK i \in Landings[KindOf(w)][work[w].pc + 1] :
        work' = [work EXCEPT ![w].pc = i, ![w].var[Current(w).var] = x]
    BY DEF Assign
<1>. QED BY <1>1 DEF HeldInv

\* A step of a handler leaves the request of its worker.
LEMMA SameRequest ==
    ASSUME NEW w \in Worker, UNCHANGED asked, work'[w].req = work[w].req
    PROVE  (Busy(w)' <=> Busy(w)) /\ KindOf(w)' = KindOf(w)
BY DEF Busy, KindOf

\* What it is about to do, by the labels.
LEMMA AtStep ==
    ASSUME HeldInv, AskTypeOK, NEW w \in Worker, NEW op, At(w, op)
    PROVE  LET k == KindOf(w)
               n == work[w].pc
               o == Current(w)
               V == Label(k)[n]
           IN  /\ V \subseteq 1..2
               /\ op \in {"get", "rel", "use"} => o.pool \in Pool /\ o.var \in 1..2
               /\ op = "get" =>
                    /\ o.var \notin V
                    /\ Landings[k][n + 1] \subseteq Places(k, V \cup {o.var})
                    /\ Landings[k][n + 1 + o.jump] \subseteq Places(k, V)
               /\ op = "rel" =>
                    /\ k # "addTwo" => o.var \in V
                    /\ Landings[k][n + 1] \subseteq Places(k, V \ {o.var})
               /\ op = "use" => Landings[k][n + 1] \subseteq Places(k, V)
               /\ op = "answer" => V = {}
<1>. DEFINE k == KindOf(w)
            n == work[w].pc
            o == Current(w)
<1>1. /\ k \in DOMAIN Script /\ n \in 1..Len(Script[k])
      /\ o = Script[k][n] /\ o.op = op
    BY AtFact
<1>. DEFINE V == Label(k)[n]
<1>. HIDE DEF k, n, o
<1>2. /\ V \subseteq 1..2
      /\ o.op \in {"get", "rel", "use"} => o.pool \in Pool /\ o.var \in 1..2
      /\ o.op = "get" =>
            /\ o.var \notin V
            /\ Landings[k][n + 1] \subseteq Places(k, V \cup {o.var})
            /\ Landings[k][n + 1 + o.jump] \subseteq Places(k, V)
      /\ o.op = "rel" =>
            /\ k # "addTwo" => o.var \in V
            /\ Landings[k][n + 1] \subseteq Places(k, V \ {o.var})
      /\ o.op = "use" => Landings[k][n + 1] \subseteq Places(k, V)
      /\ o.op = "answer" => V = {}
    BY <1>1, HandlerFact
<1>. QED BY <1>1, <1>2, Zenon DEF k, n, o, V

LEMMA TakeKeepsHeld ==
    ASSUME HeldInv, AskTypeOK, NEW w \in Worker, At(w, "get"), UNCHANGED asked,
           NEW p, NEW c, held' = [held EXCEPT ![w] = @ \cup {<<p, c>>}], Assign(w, <<p, c>>), DOMAIN created' = Pool
    PROVE  HeldInv'
<1>. DEFINE k == KindOf(w)
            n == work[w].pc
            v == Current(w).var
            V == Label(k)[n]
<1>1. /\ Busy(w) /\ k \in DOMAIN Script /\ n \in 1..Len(Script[k])
      /\ Current(w) = Script[k][n] /\ Current(w).op = "get" /\ InPlace(k, work[w], held[w])
    BY AtFact
<1>2. /\ V \subseteq 1..2 /\ v \in 1..2 /\ v \notin V
      /\ Landings[k][n + 1] \subseteq Places(k, V \cup {v})
    BY AtStep
<1>3. DOMAIN work' = Worker /\ \A u \in Worker \ {w} : work'[u] = work[u]
    BY AssignResult
<1>4. PICK i \in Landings[k][n + 1] : work'[w] = [work[w] EXCEPT !.pc = i, !.var[v] = <<p, c>>]
    BY AssignResult
<1>5. i \in Places(k, V \cup {v})
    BY <1>2, <1>4
<1>6. held[w] \subseteq {work[w].var[j] : j \in V}
    BY <1>1 DEF InPlace
<1>. HIDE DEF V, v
<1>7. InPlace(k, [work[w] EXCEPT !.pc = i, !.var[v] = <<p, c>>], held[w] \cup {<<p, c>>})
    BY <1>1, <1>2, <1>5, <1>6, AssignStaysInPlace
<1>8. DOMAIN held' = Worker /\ held'[w] = held[w] \cup {<<p, c>>}
      /\ \A u \in Worker \ {w} : held'[u] = held[u]
    BY DEF HeldInv
<1>9. work'[w].req = work[w].req
    BY <1>1, <1>4 DEF InPlace
<1>10. Busy(w)' /\ KindOf(w)' = k
    BY <1>1, <1>9, SameRequest
<1>11. InPlace(KindOf(w)', work'[w], held'[w])
    BY <1>4, <1>7, <1>8, <1>10
<1>. QED BY <1>3, <1>8, <1>10, <1>11, OneWorker

\* A step that takes nothing.
LEMMA SkipKeepsHeld ==
    ASSUME HeldInv, AskTypeOK, NEW w \in Worker, NEW op, At(w, op), UNCHANGED asked,
           NEW n, Skip(w, n), NEW V,
           Landings[KindOf(w)][work[w].pc + 1 + n] \subseteq Places(KindOf(w), V),
           DOMAIN held' = Worker, DOMAIN created' = Pool,
           \A u \in Worker \ {w} : held'[u] = held[u],
           held'[w] \subseteq {work[w].var[j] : j \in V}
    PROVE  HeldInv'
<1>. DEFINE k == KindOf(w)
<1>1. Busy(w) /\ InPlace(k, work[w], held[w])
    BY AtFact
<1>2. DOMAIN work' = Worker /\ \A u \in Worker \ {w} : work'[u] = work[u]
    BY SkipResult
<1>3. PICK i \in Landings[k][work[w].pc + 1 + n] : work'[w] = [work[w] EXCEPT !.pc = i]
    BY SkipResult
<1>4. i \in Places(k, V)
    BY <1>3
<1>5. InPlace(k, [work[w] EXCEPT !.pc = i], held'[w])
    BY <1>1, <1>4, SkipStaysInPlace
<1>6. work'[w].req = work[w].req
    BY <1>1, <1>3 DEF InPlace
<1>7. Busy(w)' /\ KindOf(w)' = k
    BY <1>1, <1>6, SameRequest
<1>. QED BY <1>2, <1>3, <1>5, <1>7, OneWorker

LEMMA SameWorkKeepsHeld ==
    ASSUME HeldInv, UNCHANGED <<asked, work, held, created>>
    PROVE  HeldInv'
<1>1. \A u \in Worker : (Busy(u)' <=> Busy(u)) /\ KindOf(u)' = KindOf(u)
    BY DEF Busy, KindOf
<1>2. \A u \in Worker : IF Busy(u)' THEN InPlace(KindOf(u)', work'[u], held'[u]) ELSE held'[u] = {}
    BY <1>1 DEF HeldInv
<1>3. (\A u \in Worker : IF Busy(u) THEN InPlace(KindOf(u), work[u], held[u]) ELSE held[u] = {})'
    BY <1>2 DEF InPlace, Worker
<1>. QED BY <1>3 DEF HeldInv, Worker

LEMMA GetKeepsHeld ==
    ASSUME HeldInv, AskTypeOK, NEW w \in Worker, GetDBConn(w)
    PROVE  HeldInv'
<1>. DEFINE p == Current(w).pool
            k == KindOf(w)
            n == work[w].pc
            j == Current(w).jump
<1>1. At(w, "get") /\ UNCHANGED asked
    BY DEF GetDBConn, connVars
<1>2. CASE \E c \in free[p] : Take(w, p, c) /\ Assign(w, <<p, c>>)
    <2>1. PICK c \in free[p] : Take(w, p, c) /\ Assign(w, <<p, c>>)
        BY <1>2
    <2>2. held' = [held EXCEPT ![w] = @ \cup {<<p, c>>}] /\ DOMAIN created' = Pool
        BY <2>1 DEF Take, HeldInv
    <2>. HIDE DEF p
    <2>. QED BY <1>1, <2>1, <2>2, TakeKeepsHeld
<1>3. CASE Grow(w, p) /\ Assign(w, <<p, created'[p]>>)
    <2>. DEFINE c == created[p] + 1
    <2>0. p \in Pool
        BY <1>1, AtStep
    <2>1. held' = [held EXCEPT ![w] = @ \cup {<<p, c>>}] /\ created' = [created EXCEPT ![p] = c]
        BY <1>3 DEF Grow
    <2>2. Assign(w, <<p, created'[p]>>)
        BY <1>3
    <2>3. created'[p] = c /\ DOMAIN created' = Pool
        BY <2>0, <2>1 DEF HeldInv
    <2>4. Assign(w, <<p, c>>)
        BY <2>2, <2>3
    <2>. HIDE DEF p, c
    <2>. QED BY <1>1, <2>1, <2>3, <2>4, TakeKeepsHeld
<1>4. CASE GrowFails(w, p) /\ Skip(w, j)
    <2>. DEFINE V == Label(k)[n]
    <2>1. /\ k \in DOMAIN Script /\ n \in 1..Len(Script[k]) /\ Current(w) = Script[k][n]
          /\ Current(w).op = "get" /\ InPlace(k, work[w], held[w])
        BY <1>1, AtFact
    <2>2. Landings[k][n + 1 + j] \subseteq Places(k, V)
        BY <1>1, AtStep
    <2>3. held' = held /\ DOMAIN created' = Pool
        BY <1>4 DEF GrowFails, HeldInv
    <2>4. DOMAIN held' = Worker /\ held'[w] \subseteq {work[w].var[i] : i \in V}
        BY <2>1, <2>3 DEF InPlace, HeldInv
    <2>. HIDE DEF V, j, n, k
    <2>5. At(w, "get") /\ Skip(w, j) /\ UNCHANGED asked /\ \A u \in Worker \ {w} : held'[u] = held[u]
        BY <1>1, <1>4, <2>3
    <2>. QED BY <2>2, <2>3, <2>4, <2>5, SkipKeepsHeld DEF k, n
<1>5. CASE Wait(w, p) /\ UNCHANGED work
    BY <1>1, <1>5, SameWorkKeepsHeld DEF Wait
<1>. QED BY <1>2, <1>3, <1>4, <1>5 DEF GetDBConn

LEMMA RelKeepsHeld ==
    ASSUME HeldInv, AskTypeOK, NEW w \in Worker, RelDBConn(w)
    PROVE  HeldInv'
<1>. DEFINE k == KindOf(w)
            n == work[w].pc
            v == Current(w).var
            V == Label(k)[n]
            x == work[w].var
<1>1. /\ At(w, "rel") /\ UNCHANGED <<asked, created>> /\ Skip(w, 0)
      /\ held' = [held EXCEPT ![w] = @ \ {<<Local(w)[1], Local(w)[2]>>}]
    BY DEF RelDBConn, connVars, Rel
<1>2. InPlace(k, work[w], held[w])
    BY <1>1, AtFact
<1>3. v \in 1..2 /\ Landings[k][n + 1] \subseteq Places(k, V \ {v})
    BY <1>1, AtStep
<1>4. <<Local(w)[1], Local(w)[2]>> = x[v]
    BY <1>2, <1>3 DEF Local, InPlace
<1>5. held'[w] = held[w] \ {x[v]} /\ DOMAIN held' = Worker
      /\ \A u \in Worker \ {w} : held'[u] = held[u]
    BY <1>1, <1>4 DEF HeldInv
<1>6. held[w] \subseteq {x[j] : j \in V}
    BY <1>2 DEF InPlace
<1>7. held'[w] \subseteq {x[j] : j \in V \ {v}}
    BY <1>5, <1>6
<1>8. n + 1 + 0 = n + 1
    <2>1. n \in Int
        BY <1>1, AtFact
    <2>. QED BY <2>1
<1>9. DOMAIN created' = Pool
    BY <1>1 DEF HeldInv
<1>. DEFINE U == V \ {v}
<1>10. Landings[k][n + 1 + 0] \subseteq Places(k, U) /\ held'[w] \subseteq {x[j] : j \in U}
    BY <1>3, <1>7, <1>8
<1>. HIDE DEF U, V, v
<1>. QED BY <1>1, <1>5, <1>9, <1>10, SkipKeepsHeld

LEMMA UseKeepsHeld ==
    ASSUME HeldInv, AskTypeOK, NEW w \in Worker, UseDBConn(w)
    PROVE  HeldInv'
<1>. DEFINE k == KindOf(w)
            n == work[w].pc
            V == Label(k)[n]
<1>1. At(w, "use") /\ UNCHANGED <<asked, created, held>> /\ Skip(w, 0)
    BY DEF UseDBConn, connVars, poolVars
<1>2. InPlace(k, work[w], held[w])
    BY <1>1, AtFact
<1>3. Landings[k][n + 1] \subseteq Places(k, V)
    BY <1>1, AtStep
<1>4. n + 1 + 0 = n + 1
    <2>1. n \in Int
        BY <1>1, AtFact
    <2>. QED BY <2>1
<1>5. /\ Landings[k][n + 1 + 0] \subseteq Places(k, V)
      /\ held'[w] \subseteq {work[w].var[j] : j \in V}
      /\ DOMAIN held' = Worker /\ DOMAIN created' = Pool
      /\ \A u \in Worker \ {w} : held'[u] = held[u]
    BY <1>1, <1>2, <1>3, <1>4 DEF InPlace, HeldInv
<1>. HIDE DEF V
<1>. QED BY <1>1, <1>5, SkipKeepsHeld

LEMMA EndKeepsHeld ==
    ASSUME HeldInv, AskTypeOK, NEW w \in Worker, AddResponsePdu(w) \/ Finish(w)
    PROVE  HeldInv'
<1>. DEFINE k == KindOf(w)
            n == work[w].pc
<1>1. /\ Busy(w) /\ UNCHANGED <<asked, created, held>> /\ work' = [work EXCEPT ![w] = Idle]
      /\ At(w, "answer") \/ n > Len(Handler(w))
    BY DEF AddResponsePdu, Finish, connVars, poolVars, At
<1>2. InPlace(k, work[w], held[w]) /\ k \in DOMAIN Script
    BY <1>1, KindFact DEF HeldInv
<1>3. Label(k)[n] = {}
    <2>1. CASE At(w, "answer")
        BY <2>1, AtStep
    <2>2. CASE n > Len(Handler(w))
        <3>1. n \in 1..(Len(Script[k]) + 1) /\ Len(Script[k]) \in Nat /\ n > Len(Script[k])
            BY <1>2, <2>2, HandlerEnds DEF InPlace, Handler
        <3>2. n = Len(Script[k]) + 1
            BY <3>1
        <3>. QED BY <1>2, <3>2, HandlerEnds
    <2>. QED BY <1>1, <2>1, <2>2
<1>4. held[w] = {}
    BY <1>2, <1>3 DEF InPlace
<1>5. DOMAIN work' = Worker /\ work'[w] = Idle /\ \A u \in Worker \ {w} : work'[u] = work[u]
    BY <1>1 DEF HeldInv
<1>6. ~Busy(w)'
    BY <1>5 DEF Busy, Idle
<1>7. DOMAIN held' = Worker /\ DOMAIN created' = Pool
    BY <1>1 DEF HeldInv
<1>. QED BY <1>1, <1>4, <1>5, <1>6, <1>7, OneWorker

\* The next request of a worker has a handler.
LEMMA NextKind ==
    ASSUME AskTypeOK, NEW w \in Worker, queue[w] # <<>>
    PROVE  Head(queue[w]) \in Requests /\ asked[Head(queue[w])].kind \in DOMAIN Script
<1>. DEFINE R == [uuid : 1..lastUuid, kind : Kind, handle : Handle]
            r == Head(queue[w])
<1>1. queue[w] \in Seq(Requests)
    BY DEF AskTypeOK
<1>2. r \in Requests
    BY <1>1
<1>3. asked \in Seq(R)
    BY DEF AskTypeOK
<1>4. asked[r] \in R
    <2>. HIDE DEF R, r
    <2>. QED BY <1>2, <1>3 DEF Requests
<1>. QED BY <1>2, <1>4, KindAssumption

LEMMA ExecuteKeepsHeld ==
    ASSUME HeldInv, AskTypeOK, NEW w \in Worker, Execute(w)
    PROVE  HeldInv'
<1>. DEFINE r == Head(queue[w])
            k == asked[r].kind
<1>1. ~Busy(w) /\ queue[w] # <<>> /\ UNCHANGED <<asked, created, held>>
    BY DEF Execute, connVars, poolVars
<1>2. PICK i \in Landings[k][1] : work' = [work EXCEPT ![w] = [Idle EXCEPT !.req = r, !.pc = i]]
    BY DEF Execute
<1>3. r \in Requests /\ k \in DOMAIN Script
    BY <1>1, NextKind
<1>5. i \in Places(k, {}) /\ r \in Nat \ {NoRequest}
    BY <1>2, <1>3, HandlerEnds, RequestsFact
<1>. HIDE DEF r, k
<1>. DEFINE y == [Idle EXCEPT !.req = r, !.pc = i]
<1>. DEFINE x == <<NoVar, NoVar>>
<1>6. DOMAIN Idle = {"req", "pc", "var"} /\ Idle.var = x
    BY DEF Idle
<1>7. DOMAIN x = 1..2 /\ \A j \in 1..2 : x[j] = <<x[j][1], x[j][2]>>
    BY DEF NoVar
<1>. HIDE DEF x
<1>8. DOMAIN y = {"req", "pc", "var"} /\ y.req = r /\ y.pc = i /\ y.var = x
    BY <1>6
<1>9. held[w] = {} /\ i \in 1..(Len(Script[k]) + 1)
    BY <1>1, <1>5 DEF HeldInv, Places
<1>. HIDE DEF y
<1>10. InPlace(k, y, held[w])
    BY <1>7, <1>8, <1>9 DEF InPlace
<1>11. DOMAIN work' = Worker /\ work'[w] = y /\ \A u \in Worker \ {w} : work'[u] = work[u]
    BY <1>2 DEF HeldInv, y
<1>12. Busy(w)' /\ KindOf(w)' = k
    BY <1>1, <1>5, <1>8, <1>11 DEF Busy, KindOf, k
<1>13. InPlace(KindOf(w)', work'[w], held'[w])
    BY <1>1, <1>10, <1>11, <1>12
<1>14. DOMAIN held' = Worker /\ DOMAIN created' = Pool
    BY <1>1 DEF HeldInv
<1>. QED BY <1>1, <1>11, <1>12, <1>13, <1>14, OneWorker

\* A new request changes none of those before it.
LEMMA AskedGrows ==
    ASSUME AskTypeOK, NEW h \in Handle, NEW j \in Kind, NEW w \in Worker, HandlePduBuf(h, j, w)
    PROVE  \A r \in Requests : asked'[r] = asked[r]
<1>. DEFINE R == [uuid : 1..lastUuid, kind : Kind, handle : Handle]
            a == [uuid |-> uuid[h], kind |-> j, handle |-> h]
<1>1. asked' = Append(asked, a)
    BY DEF HandlePduBuf
<1>2. asked \in Seq(R) /\ a \in R
    <2>1. uuid[h] \in 0..lastUuid /\ uuid[h] # 0 /\ lastUuid \in Nat
        BY DEF AskTypeOK, HandlePduBuf
    <2>. QED BY <2>1 DEF AskTypeOK
<1>. HIDE DEF R, a
<1>. QED BY <1>1, <1>2 DEF Requests

LEMMA HandlePduBufKeepsHeld ==
    ASSUME HeldInv, AskTypeOK, NEW h \in Handle, NEW j \in Kind, NEW w \in Worker, HandlePduBuf(h, j, w)
    PROVE  HeldInv'
<1>1. UNCHANGED <<work, held, created>>
    BY DEF HandlePduBuf, poolVars
<1>2. \A r \in Requests : asked'[r] = asked[r]
    BY AskedGrows
<1>3. ASSUME NEW u \in Worker
      PROVE  IF Busy(u)' THEN InPlace(KindOf(u)', work'[u], held'[u]) ELSE held'[u] = {}
    <2>1. (Busy(u)' <=> Busy(u)) /\ (Busy(u) => KindOf(u)' = KindOf(u))
        BY <1>1, <1>2, KindFact DEF Busy, KindOf
    <2>. QED BY <1>1, <2>1 DEF HeldInv
<1>4. (\A u \in Worker : IF Busy(u) THEN InPlace(KindOf(u), work[u], held[u]) ELSE held[u] = {})'
    BY <1>3 DEF InPlace, Worker
<1>. QED BY <1>1, <1>4 DEF HeldInv, Worker

LEMMA HeldStep == HeldInv /\ AskInv /\ [Next]_vars => HeldInv'
<1>. SUFFICES ASSUME HeldInv, AskInv, [Next]_vars PROVE HeldInv'
    OBVIOUS
<1>0. AskTypeOK
    BY DEF AskInv
<1>1. CASE UNCHANGED <<asked, work, held, created>>
    BY <1>1, SameWorkKeepsHeld
<1>2. ASSUME NEW h \in Handle, NEW k \in Kind, NEW w \in Worker, HandlePduBuf(h, k, w)
      PROVE  HeldInv'
    BY <1>0, <1>2, HandlePduBufKeepsHeld
<1>3. ASSUME NEW w \in Worker, Work(w) PROVE HeldInv'
    BY <1>0, <1>3, ExecuteKeepsHeld, GetKeepsHeld, RelKeepsHeld, UseKeepsHeld, EndKeepsHeld DEF Work
<1>4. ASSUME NEW h \in Handle, OnConnect(h) \/ Close(h) PROVE HeldInv'
    BY <1>1, <1>4 DEF OnConnect, Close, poolVars
<1>5. ASSUME NEW w \in Worker, WakesUp(w) PROVE HeldInv'
    BY <1>1, <1>5 DEF WakesUp, SpuriousWake, connVars
<1>6. CASE SendResponsePduList \/ UNCHANGED vars
    BY <1>1, <1>6 DEF SendResponsePduList, vars, poolVars, connVars
<1>. QED BY <1>2, <1>3, <1>4, <1>5, <1>6 DEF Next

LEMMA SpecHeldInv == Spec => []HeldInv
<1>. QED BY SpecAskInv, HeldInit, HeldStep, PTL DEF Spec

\* A worker between two requests holds no connection, and one at work holds what its
\* variables name: on no path through a handler is a connection forgotten, whatever the
\* pools answer and the data say.
THEOREM NothingForgottenCorrect == Spec => []NothingForgotten
<1>1. HeldInv /\ AskInv => NothingForgotten
    <2>. SUFFICES ASSUME HeldInv, AskInv, NEW w \in Worker
                  PROVE  IF Busy(w) THEN held[w] \subseteq {work[w].var[i] : i \in 1..2} ELSE held[w] = {}
        BY DEF NothingForgotten
    <2>1. CASE Busy(w)
        <3>1. InPlace(KindOf(w), work[w], held[w]) /\ KindOf(w) \in DOMAIN Script
            BY <2>1, KindFact DEF HeldInv, AskInv
        <3>2. Label(KindOf(w))[work[w].pc] \subseteq 1..2
            BY <3>1, HandlerEnds DEF InPlace
        <3>. QED BY <2>1, <3>1, <3>2 DEF InPlace
    <2>2. CASE ~Busy(w)
        BY <2>2 DEF HeldInv
    <2>. QED BY <2>1, <2>2
<1>. QED BY <1>1, SpecAskInv, SpecHeldInv, PTL

-----------------------------------------------------------------------------
(***************************************************************************)
(* The rule of the pools.  A handler that gives back only what it holds    *)
(* (every one but the one that removes two ids) holds all that its label   *)
(* names, each in a variable of its own, and sleeps nowhere but where it   *)
(* takes a connection.                                                     *)
(***************************************************************************)
Owns(k, x, H) ==
    \A i \in Label(k)[x.pc] :
        /\ x.var[i] \in H
        /\ \A j \in Label(k)[x.pc] : x.var[i] = x.var[j] => i = j

OwnInv ==
    /\ \A w \in Worker : Busy(w) => Owns(KindOf(w), work[w], held[w])
    /\ \A w \in Worker : waiting[w] # NoPool => At(w, "get")
    /\ \A w \in woken : waiting[w] # NoPool

\* A worker that does nothing is where it was.
LEMMA SameAt ==
    ASSUME NEW w \in Worker, NEW op, UNCHANGED asked, work'[w] = work[w]
    PROVE  /\ Busy(w)' <=> Busy(w)
           /\ KindOf(w)' = KindOf(w)
           /\ At(w, op) => At(w, op)'
BY DEF Busy, KindOf, At, Handler

\* A step of one worker.
LEMMA OneWorkerOwns ==
    ASSUME OwnInv, NEW w \in Worker, UNCHANGED asked,
           \A u \in Worker \ {w} : work'[u] = work[u] /\ held'[u] = held[u] /\ waiting'[u] = waiting[u],
           Busy(w)' => Owns(KindOf(w)', work'[w], held'[w]),
           waiting'[w] # NoPool => At(w, "get")',
           \A u \in woken' : waiting'[u] # NoPool
    PROVE  OwnInv'
<1>1. ASSUME NEW u \in Worker
      PROVE  Busy(u)' => Owns(KindOf(u)', work'[u], held'[u])
    <2>1. CASE u # w
        <3>1. (Busy(u)' <=> Busy(u)) /\ KindOf(u)' = KindOf(u)
            BY <2>1, SameAt
        <3>. QED BY <2>1, <3>1 DEF OwnInv
    <2>. QED BY <2>1
<1>2. ASSUME NEW u \in Worker
      PROVE  waiting'[u] # NoPool => At(u, "get")'
    <2>1. CASE u # w
        BY <2>1, SameAt DEF OwnInv
    <2>. QED BY <2>1
<1>3. (\A u \in Worker : Busy(u) => Owns(KindOf(u), work[u], held[u]))'
    BY <1>1 DEF Owns, Worker
<1>4. (\A u \in Worker : waiting[u] # NoPool => At(u, "get"))'
    BY <1>2 DEF Worker
<1>. QED BY <1>3, <1>4 DEF OwnInv, Worker

\* Nobody works but the pools may wake.
LEMMA NobodyWorksOwns ==
    ASSUME OwnInv, UNCHANGED <<asked, work, held>>,
           NEW w \in Worker, \A u \in Worker \ {w} : waiting'[u] = waiting[u],
           waiting'[w] # NoPool => At(w, "get"),
           \A u \in woken' : waiting'[u] # NoPool
    PROVE  OwnInv'
<1>1. Busy(w)' => Owns(KindOf(w)', work'[w], held'[w])
    BY SameAt DEF OwnInv
<1>2. waiting'[w] # NoPool => At(w, "get")'
    BY SameAt
<1>. QED BY <1>1, <1>2, OneWorkerOwns

\* A handler goes on with V of what it held.
LEMMA SkipOwns ==
    ASSUME NEW k, NEW x, NEW H, InPlace(k, x, H), Owns(k, x, H), NEW G,
           NEW V, V \subseteq Label(k)[x.pc], NEW i \in Places(k, V),
           \A j \in V : x.var[j] \in G
    PROVE  Owns(k, [x EXCEPT !.pc = i], G)
<1>. DEFINE y == [x EXCEPT !.pc = i]
<1>1. y.pc = i /\ y.var = x.var
    BY DEF InPlace
<1>2. Label(k)[i] = V
    BY DEF Places
<1>. HIDE DEF y
<1>3. Owns(k, y, G)
    BY <1>1, <1>2 DEF Owns
<1>. QED BY <1>3 DEF y

\* One takes a connection it does not hold yet.
LEMMA AssignOwns ==
    ASSUME NEW k, NEW x, NEW H, InPlace(k, x, H), Owns(k, x, H), NEW c, c \notin H,
           NEW V, V = Label(k)[x.pc], V \subseteq 1..2,
           NEW v \in 1..2, v \notin V, NEW i \in Places(k, V \cup {v})
    PROVE  Owns(k, [x EXCEPT !.pc = i, !.var[v] = c], H \cup {c})
<1>. DEFINE y == [x EXCEPT !.pc = i, !.var[v] = c]
<1>1. DOMAIN x = {"req", "pc", "var"} /\ DOMAIN x.var = 1..2
    BY DEF InPlace
<1>2. y.pc = i /\ y.var = [x.var EXCEPT ![v] = c]
    BY <1>1
<1>3. y.var[v] = c /\ \A j \in V : y.var[j] = x.var[j]
    BY <1>1, <1>2
<1>4. Label(k)[i] = V \cup {v}
    BY DEF Places
<1>. HIDE DEF y
<1>5. \A j \in V : x.var[j] \in H /\ \A l \in V : x.var[j] = x.var[l] => j = l
    BY DEF Owns
<1>6. \A j \in V \cup {v} : y.var[j] \in H \cup {c}
    BY <1>3, <1>5
<1>7. \A j, l \in V \cup {v} : y.var[j] = y.var[l] => j = l
    BY <1>3, <1>5
<1>8. Owns(k, y, H \cup {c})
    BY <1>2, <1>4, <1>6, <1>7 DEF Owns
<1>. QED BY <1>8 DEF y

\* A worker leaves the pool it slept on.
LEMMA LeaveOwns ==
    ASSUME OwnInv, PoolTypeOK, NEW w \in Worker, Leave(w)
    PROVE  /\ \A u \in Worker \ {w} : waiting'[u] = waiting[u]
           /\ waiting'[w] = NoPool
           /\ \A u \in woken' : waiting'[u] # NoPool
<1>1. waiting \in [Worker -> Pool \cup {NoPool}] /\ woken \subseteq Worker
    BY DEF PoolTypeOK, Worker
<1>. QED BY <1>1 DEF OwnInv, Leave

LEMMA TakeKeepsOwn ==
    ASSUME OwnInv, HeldInv, AskTypeOK, PoolTypeOK, NEW w \in Worker, At(w, "get"), UNCHANGED asked,
           NEW p, NEW c, <<p, c>> \notin held[w], Leave(w),
           held' = [held EXCEPT ![w] = @ \cup {<<p, c>>}], Assign(w, <<p, c>>)
    PROVE  OwnInv'
<1>. DEFINE k == KindOf(w)
            n == work[w].pc
            v == Current(w).var
            V == Label(k)[n]
            a == <<p, c>>
<1>1. Busy(w) /\ InPlace(k, work[w], held[w]) /\ Owns(k, work[w], held[w])
    BY AtFact DEF OwnInv
<1>2. /\ V \subseteq 1..2 /\ v \in 1..2 /\ v \notin V
      /\ Landings[k][n + 1] \subseteq Places(k, V \cup {v})
    BY AtStep
<1>3. \A u \in Worker \ {w} : work'[u] = work[u]
    BY AssignResult
<1>4. PICK i \in Landings[k][n + 1] : work'[w] = [work[w] EXCEPT !.pc = i, !.var[v] = a]
    BY AssignResult
<1>5. i \in Places(k, V \cup {v})
    BY <1>2, <1>4
<1>6. held'[w] = held[w] \cup {a} /\ \A u \in Worker \ {w} : held'[u] = held[u]
    BY DEF HeldInv
<1>7. work'[w].req = work[w].req
    BY <1>1, <1>4 DEF InPlace
<1>8. a \notin held[w]
    OBVIOUS
<1>9. V = Label(k)[work[w].pc]
    OBVIOUS
<1>. HIDE DEF V, v, a
<1>10. Owns(k, [work[w] EXCEPT !.pc = i, !.var[v] = a], held[w] \cup {a})
    BY <1>1, <1>2, <1>5, <1>8, <1>9, AssignOwns
<1>11. KindOf(w)' = k
    BY <1>7, SameRequest
<1>12. Busy(w)' => Owns(KindOf(w)', work'[w], held'[w])
    BY <1>4, <1>6, <1>10, <1>11
<1>. QED BY <1>3, <1>6, <1>12, LeaveOwns, OneWorkerOwns

LEMMA SkipKeepsOwn ==
    ASSUME OwnInv, HeldInv, AskTypeOK, NEW w \in Worker, NEW op, At(w, op), UNCHANGED asked,
           NEW n, Skip(w, n), NEW V, V \subseteq Label(KindOf(w))[work[w].pc],
           Landings[KindOf(w)][work[w].pc + 1 + n] \subseteq Places(KindOf(w), V),
           \A u \in Worker \ {w} : held'[u] = held[u] /\ waiting'[u] = waiting[u],
           \A j \in V : work[w].var[j] \in held'[w],
           waiting'[w] = NoPool, \A u \in woken' : waiting'[u] # NoPool
    PROVE  OwnInv'
<1>. DEFINE k == KindOf(w)
<1>1. Busy(w) /\ InPlace(k, work[w], held[w]) /\ Owns(k, work[w], held[w])
    BY AtFact DEF OwnInv
<1>2. \A u \in Worker \ {w} : work'[u] = work[u]
    BY SkipResult
<1>3. PICK i \in Landings[k][work[w].pc + 1 + n] : work'[w] = [work[w] EXCEPT !.pc = i]
    BY SkipResult
<1>4. i \in Places(k, V)
    BY <1>3
<1>5. Owns(k, [work[w] EXCEPT !.pc = i], held'[w])
    BY <1>1, <1>4, SkipOwns
<1>6. work'[w].req = work[w].req
    BY <1>1, <1>3 DEF InPlace
<1>7. KindOf(w)' = k
    BY <1>6, SameRequest
<1>8. Busy(w)' => Owns(KindOf(w)', work'[w], held'[w])
    BY <1>3, <1>5, <1>7
<1>. QED BY <1>2, <1>8, OneWorkerOwns

LEMMA GetKeepsOwn ==
    ASSUME OwnInv, HeldInv, AskTypeOK, PoolIInv, NEW w \in Worker, GetDBConn(w)
    PROVE  OwnInv'
<1>. DEFINE p == Current(w).pool
            k == KindOf(w)
            n == work[w].pc
            j == Current(w).jump
<1>1. At(w, "get") /\ UNCHANGED asked /\ PoolTypeOK /\ OneOwner /\ p \in Pool
    BY AtStep DEF GetDBConn, connVars, PoolIInv
<1>2. w \in Thread
    BY DEF Worker
<1>3. CASE \E c \in free[p] : Take(w, p, c) /\ Assign(w, <<p, c>>)
    <2>1. PICK c \in free[p] : Take(w, p, c) /\ Assign(w, <<p, c>>)
        BY <1>3
    <2>2. held' = [held EXCEPT ![w] = @ \cup {<<p, c>>}] /\ Leave(w)
        BY <2>1 DEF Take
    <2>3. <<p, c>> \notin held[w]
        BY <1>1, <1>2 DEF OneOwner
    <2>. HIDE DEF p
    <2>. QED BY <1>1, <2>1, <2>2, <2>3, TakeKeepsOwn
<1>4. CASE Grow(w, p) /\ Assign(w, <<p, created'[p]>>)
    <2>. DEFINE c == created[p] + 1
    <2>1. held' = [held EXCEPT ![w] = @ \cup {<<p, c>>}] /\ created' = [created EXCEPT ![p] = c] /\ Leave(w)
        BY <1>4 DEF Grow
    <2>2. created'[p] = c
        BY <1>1, <2>1 DEF HeldInv
    <2>3. Assign(w, <<p, c>>)
        BY <1>4, <2>2
    <2>4. <<p, c>> \notin held[w]
        <3>1. created[p] \in Nat /\ c \notin 1..created[p]
            BY <1>1 DEF PoolTypeOK
        <3>. QED BY <1>1, <1>2, <3>1 DEF OneOwner
    <2>. HIDE DEF p, c
    <2>. QED BY <1>1, <2>1, <2>3, <2>4, TakeKeepsOwn
<1>5. CASE GrowFails(w, p) /\ Skip(w, j)
    <2>. DEFINE V == Label(k)[n]
    <2>1. Owns(k, work[w], held[w])
        BY <1>1, AtFact DEF OwnInv
    <2>2. Landings[k][n + 1 + j] \subseteq Places(k, V) /\ V \subseteq Label(k)[n]
        BY <1>1, AtStep
    <2>3. held' = held /\ Leave(w)
        BY <1>5 DEF GrowFails
    <2>4. \A i \in V : work[w].var[i] \in held'[w]
        BY <2>1, <2>3 DEF Owns
    <2>5. /\ At(w, "get") /\ Skip(w, j) /\ UNCHANGED asked
          /\ \A u \in Worker \ {w} : held'[u] = held[u] /\ waiting'[u] = waiting[u]
          /\ waiting'[w] = NoPool
          /\ \A u \in woken' : waiting'[u] # NoPool
        BY <1>1, <1>5, <2>3, LeaveOwns
    <2>. HIDE DEF V, j, n, k
    <2>. QED BY <2>2, <2>4, <2>5, SkipKeepsOwn DEF k, n
<1>6. CASE Wait(w, p) /\ UNCHANGED work
    <2>1. waiting \in [Worker -> Pool \cup {NoPool}] /\ woken \subseteq Worker
        BY <1>1 DEF PoolTypeOK, Worker
    <2>2. UNCHANGED <<asked, work, held>> /\ (\A u \in Worker \ {w} : waiting'[u] = waiting[u])
        BY <1>1, <1>6, <2>1 DEF Wait
    <2>3. \A u \in woken' : waiting'[u] # NoPool
        BY <1>6, <2>1, <2>2 DEF Wait, OwnInv
    <2>. QED BY <1>1, <2>2, <2>3, NobodyWorksOwns
<1>. QED BY <1>3, <1>4, <1>5, <1>6 DEF GetDBConn

\* Whoever does something else than take a connection is awake.
LEMMA Awake ==
    ASSUME OwnInv, NEW w \in Worker, ~At(w, "get")
    PROVE  waiting[w] = NoPool /\ w \notin woken
BY DEF OwnInv

LEMMA AtOne ==
    ASSUME NEW w, NEW op, At(w, op), op # "get"
    PROVE  ~At(w, "get")
BY DEF At

\* What is given back is held.
LEMMA RelIsRelease ==
    ASSUME OwnInv, HeldInv, AskTypeOK, PoolIInv, "addTwo" \notin Kind, NEW w \in Worker, RelDBConn(w)
    PROVE  LET x == Local(w)
           IN  /\ x = <<x[1], x[2]>> /\ x \in held[w]
               /\ x = work[w].var[Current(w).var]
               /\ x[1] \in Pool /\ x[2] \in 1..created[x[1]]
               /\ Release(w, x[1], x[2])
<1>. DEFINE x == Local(w)
            v == Current(w).var
            k == KindOf(w)
<1>1. At(w, "rel") /\ Rel(w, x[1], x[2])
    BY DEF RelDBConn
<1>2. Busy(w) /\ InPlace(k, work[w], held[w]) /\ k \in Kind /\ Owns(k, work[w], held[w])
    BY <1>1, AtFact DEF OwnInv
<1>3. v \in 1..2 /\ v \in Label(k)[work[w].pc]
    BY <1>1, <1>2, AtStep
<1>4. x = work[w].var[v]
    BY DEF Local
<1>5. x \in held[w]
    BY <1>2, <1>3, <1>4 DEF Owns
<1>6. x = <<x[1], x[2]>>
    BY <1>2, <1>3, <1>4 DEF InPlace
<1>7. waiting[w] = NoPool /\ w \notin woken
    BY <1>1, Awake, AtOne
<1>8. w \in Sleepers(NoPool)
    BY <1>7 DEF Sleepers, Worker
<1>9. held[w] \subseteq Pool \X Nat /\ w \in Thread
    BY DEF PoolIInv, PoolTypeOK, Worker
<1>10. x[1] \in Pool /\ x[2] \in 1..created[x[1]]
    BY <1>5, <1>9 DEF PoolIInv, OneOwner
<1>. HIDE DEF x
<1>11. Release(w, x[1], x[2])
    BY <1>1, <1>5, <1>6, <1>8 DEF Release
<1>. QED BY <1>4, <1>5, <1>6, <1>10, <1>11 DEF x

LEMMA RelKeepsOwn ==
    ASSUME OwnInv, HeldInv, AskTypeOK, PoolIInv, "addTwo" \notin Kind, NEW w \in Worker, RelDBConn(w)
    PROVE  OwnInv'
<1>. DEFINE k == KindOf(w)
            n == work[w].pc
            v == Current(w).var
            U == Label(k)[n]
            V == U \ {v}
            x == Local(w)
<1>1. /\ At(w, "rel") /\ UNCHANGED <<asked, waiting>> /\ Skip(w, 0) /\ Signal(x[1])
      /\ held' = [held EXCEPT ![w] = @ \ {<<x[1], x[2]>>}]
    BY DEF RelDBConn, connVars, Rel
<1>2. x = <<x[1], x[2]>> /\ x[1] \in Pool /\ x = work[w].var[v]
    BY RelIsRelease
<1>3. Busy(w) /\ Owns(k, work[w], held[w])
    BY <1>1, AtFact DEF OwnInv
<1>4. v \in U /\ Landings[k][n + 1] \subseteq Places(k, V) /\ n \in Int /\ V \subseteq U
    <2>1. n \in Int /\ k # "addTwo"
        BY <1>1, AtFact
    <2>2. v \in U /\ Landings[k][n + 1] \subseteq Places(k, V)
        BY <1>1, <2>1, AtStep
    <2>. QED BY <2>1, <2>2
<1>5. Landings[k][n + 1 + 0] \subseteq Places(k, V)
    <2>1. n + 1 + 0 = n + 1
        BY <1>4
    <2>. QED BY <1>4, <2>1
<1>6. \A u \in Worker \ {w} : held'[u] = held[u] /\ waiting'[u] = waiting[u]
    BY <1>1 DEF HeldInv
<1>7. held'[w] = held[w] \ {x}
    BY <1>1, <1>2 DEF HeldInv
<1>8. \A j \in V : work[w].var[j] \in held'[w]
    <2>. SUFFICES ASSUME NEW j \in V PROVE work[w].var[j] \in held[w] /\ work[w].var[j] # x
        BY <1>7
    <2>1. j \in U /\ j # v /\ v \in U
        BY <1>4
    <2>. QED BY <1>2, <1>3, <2>1 DEF Owns
<1>9. waiting'[w] = NoPool
    BY <1>1, Awake, AtOne
<1>10. \A u \in woken' : waiting'[u] # NoPool
    <2>1. x[1] # NoPool
        BY <1>2, PoolAssumption
    <2>2. woken' \subseteq woken \cup Sleepers(x[1])
        BY <1>1 DEF Signal
    <2>3. \A u \in Sleepers(x[1]) : waiting[u] # NoPool
        BY <2>1 DEF Sleepers
    <2>. QED BY <1>1, <2>2, <2>3 DEF OwnInv
<1>. HIDE DEF V
<1>11. V \subseteq Label(KindOf(w))[work[w].pc]
    BY <1>4
<1>. HIDE DEF U, v, x
<1>. QED BY <1>1, <1>5, <1>6, <1>8, <1>9, <1>10, <1>11, SkipKeepsOwn

LEMMA UseKeepsOwn ==
    ASSUME OwnInv, HeldInv, AskTypeOK, NEW w \in Worker, UseDBConn(w)
    PROVE  OwnInv'
<1>. DEFINE k == KindOf(w)
            n == work[w].pc
            V == Label(k)[n]
<1>1. At(w, "use") /\ UNCHANGED <<asked, held, waiting, woken>> /\ Skip(w, 0)
    BY DEF UseDBConn, connVars, poolVars
<1>2. Busy(w) /\ Owns(k, work[w], held[w])
    BY <1>1, AtFact DEF OwnInv
<1>3. Landings[k][n + 1] \subseteq Places(k, V) /\ n \in Int
    <2>1. n \in Int
        BY <1>1, AtFact
    <2>. QED BY <1>1, <2>1, AtStep
<1>4. Landings[k][n + 1 + 0] \subseteq Places(k, V)
    <2>1. n + 1 + 0 = n + 1
        BY <1>3
    <2>. QED BY <1>3, <2>1
<1>5. \A j \in V : work[w].var[j] \in held'[w]
    BY <1>1, <1>2 DEF Owns
<1>6. waiting'[w] = NoPool /\ \A u \in woken' : waiting'[u] # NoPool
    BY <1>1, Awake, AtOne DEF OwnInv
<1>7. \A u \in Worker \ {w} : held'[u] = held[u] /\ waiting'[u] = waiting[u]
    BY <1>1
<1>8. V \subseteq Label(KindOf(w))[work[w].pc]
    OBVIOUS
<1>. HIDE DEF V
<1>. QED BY <1>1, <1>4, <1>5, <1>6, <1>7, <1>8, SkipKeepsOwn

LEMMA EndKeepsOwn ==
    ASSUME OwnInv, HeldInv, AskTypeOK, NEW w \in Worker, AddResponsePdu(w) \/ Finish(w)
    PROVE  OwnInv'
<1>1. /\ UNCHANGED <<asked, held, waiting, woken>> /\ work' = [work EXCEPT ![w] = Idle]
      /\ ~At(w, "get")
    <2>1. CASE AddResponsePdu(w)
        BY <2>1, AtOne DEF AddResponsePdu, connVars, poolVars
    <2>2. CASE Finish(w)
        <3>1. Busy(w) /\ work[w].pc > Len(Handler(w))
            BY <2>2 DEF Finish
        <3>2. work[w].pc \in 1..(Len(Handler(w)) + 1) /\ Len(Handler(w)) \in Nat
            BY <3>1, KindFact, HandlerEnds DEF HeldInv, InPlace, Handler
        <3>3. ~At(w, "get")
            BY <3>1, <3>2 DEF At
        <3>. QED BY <2>2, <3>3 DEF Finish, connVars, poolVars
    <2>. QED BY <2>1, <2>2
<1>2. work'[w] = Idle /\ \A u \in Worker \ {w} : work'[u] = work[u]
    BY <1>1 DEF HeldInv
<1>3. ~Busy(w)'
    BY <1>2 DEF Busy, Idle
<1>4. waiting'[w] = NoPool /\ \A u \in woken' : waiting'[u] # NoPool
    BY <1>1, Awake DEF OwnInv
<1>. QED BY <1>1, <1>2, <1>3, <1>4, OneWorkerOwns

LEMMA ExecuteKeepsOwn ==
    ASSUME OwnInv, HeldInv, AskTypeOK, NEW w \in Worker, Execute(w)
    PROVE  OwnInv'
<1>. DEFINE r == Head(queue[w])
            k == asked[r].kind
<1>1. ~Busy(w) /\ queue[w] # <<>> /\ UNCHANGED <<asked, held, waiting, woken>>
    BY DEF Execute, connVars, poolVars
<1>2. PICK i \in Landings[k][1] : work' = [work EXCEPT ![w] = [Idle EXCEPT !.req = r, !.pc = i]]
    BY DEF Execute
<1>3. k \in DOMAIN Script
    BY <1>1, NextKind
<1>4. Label(k)[i] = {}
    BY <1>2, <1>3, HandlerEnds DEF Places
<1>. HIDE DEF k, r
<1>. DEFINE y == [Idle EXCEPT !.req = r, !.pc = i]
<1>5. y.req = r /\ y.pc = i
    <2>1. DOMAIN Idle = {"req", "pc", "var"}
        BY DEF Idle
    <2>. QED BY <2>1
<1>. HIDE DEF y
<1>6. work'[w] = y /\ \A u \in Worker \ {w} : work'[u] = work[u]
    BY <1>2 DEF HeldInv, y
<1>7. KindOf(w)' = k
    BY <1>1, <1>5, <1>6 DEF KindOf, k
<1>8. Busy(w)' => Owns(KindOf(w)', work'[w], held'[w])
    BY <1>4, <1>5, <1>6, <1>7 DEF Owns
<1>9. ~At(w, "get")
    BY <1>1 DEF At
<1>10. waiting'[w] = NoPool /\ \A u \in woken' : waiting'[u] # NoPool
    BY <1>1, <1>9, Awake DEF OwnInv
<1>. QED BY <1>1, <1>6, <1>8, <1>10, OneWorkerOwns

LEMMA HandlePduBufKeepsOwn ==
    ASSUME OwnInv, AskTypeOK, NEW h \in Handle, NEW j \in Kind, NEW w \in Worker, HandlePduBuf(h, j, w)
    PROVE  OwnInv'
<1>1. UNCHANGED <<work, held, waiting, woken>>
    BY DEF HandlePduBuf, poolVars
<1>2. \A r \in Requests : asked'[r] = asked[r]
    BY AskedGrows
<1>3. ASSUME NEW u \in Worker
      PROVE  /\ Busy(u)' <=> Busy(u)
             /\ Busy(u) => KindOf(u)' = KindOf(u)
             /\ At(u, "get") => At(u, "get")'
    BY <1>1, <1>2, KindFact DEF Busy, KindOf, At, Handler
<1>4. \A u \in Worker : Busy(u)' => Owns(KindOf(u)', work'[u], held'[u])
    BY <1>1, <1>3 DEF OwnInv
<1>5. \A u \in Worker : waiting'[u] # NoPool => At(u, "get")'
    BY <1>1, <1>3 DEF OwnInv
<1>6. (\A u \in Worker : Busy(u) => Owns(KindOf(u), work[u], held[u]))'
    BY <1>4 DEF Owns, Worker
<1>7. (\A u \in Worker : waiting[u] # NoPool => At(u, "get"))'
    BY <1>5 DEF Worker
<1>. QED BY <1>1, <1>6, <1>7 DEF OwnInv, Worker

-----------------------------------------------------------------------------
\* Every step of the proxy is one of its pools, or leaves them alone.
LEMMA StepIsPoolStep ==
    ASSUME OwnInv, HeldInv, AskTypeOK, PoolIInv, "addTwo" \notin Kind, [Next]_vars
    PROVE  [PoolNext]_poolVars
<1>1. ASSUME NEW w \in Worker, GetDBConn(w) PROVE PoolNext
    <2>. DEFINE p == Current(w).pool
    <2>1. At(w, "get") /\ p \in Pool /\ w \in Thread
        BY <1>1, AtStep DEF GetDBConn, Worker
    <2>2. free[p] \subseteq 1..created[p]
        BY <2>1 DEF PoolIInv, OneOwner
    <2>3. \/ \E c \in free[p] : Take(w, p, c)
          \/ Grow(w, p) \/ GrowFails(w, p) \/ Wait(w, p)
        BY <1>1 DEF GetDBConn
    <2>. HIDE DEF p
    <2>. QED BY <2>1, <2>2, <2>3 DEF PoolNext
<1>2. ASSUME NEW w \in Worker, RelDBConn(w) PROVE PoolNext
    <2>. DEFINE x == Local(w)
    <2>1. x[1] \in Pool /\ x[2] \in 1..created[x[1]] /\ Release(w, x[1], x[2]) /\ w \in Thread
        BY <1>2, RelIsRelease DEF Worker
    <2>. HIDE DEF x
    <2>. QED BY <2>1 DEF PoolNext
<1>3. ASSUME NEW w \in Worker, WakesUp(w) PROVE PoolNext
    BY <1>3 DEF WakesUp, PoolNext, Worker
<1>4. ASSUME NEW w \in Worker, Execute(w) \/ UseDBConn(w) \/ AddResponsePdu(w) \/ Finish(w)
      PROVE  UNCHANGED poolVars
    BY <1>4 DEF Execute, UseDBConn, AddResponsePdu, Finish
<1>5. ASSUME NEW h \in Handle,
             OnConnect(h) \/ Close(h) \/ \E k \in Kind, w \in Worker : HandlePduBuf(h, k, w)
      PROVE  UNCHANGED poolVars
    BY <1>5 DEF OnConnect, Close, HandlePduBuf
<1>6. CASE SendResponsePduList \/ UNCHANGED vars
    BY <1>6 DEF SendResponsePduList, vars
<1>. QED BY <1>1, <1>2, <1>3, <1>4, <1>5, <1>6 DEF Next, Work

LEMMA OwnStep ==
    ASSUME OwnInv, HeldInv, AskTypeOK, PoolIInv, "addTwo" \notin Kind, [Next]_vars
    PROVE  OwnInv'
<1>1. CASE UNCHANGED <<asked, work, held, waiting, woken>>
    <2>1. \A u \in Worker : /\ (Busy(u)' <=> Busy(u)) /\ KindOf(u)' = KindOf(u)
                            /\ At(u, "get") => At(u, "get")'
        BY <1>1, SameAt
    <2>2. (\A u \in Worker : Busy(u) => Owns(KindOf(u), work[u], held[u]))'
        BY <1>1, <2>1 DEF OwnInv, Owns, Worker
    <2>3. (\A u \in Worker : waiting[u] # NoPool => At(u, "get"))'
        BY <1>1, <2>1 DEF OwnInv, Worker
    <2>. QED BY <1>1, <2>2, <2>3 DEF OwnInv, Worker
<1>2. ASSUME NEW h \in Handle, NEW k \in Kind, NEW w \in Worker, HandlePduBuf(h, k, w)
      PROVE  OwnInv'
    BY <1>2, HandlePduBufKeepsOwn
<1>3. ASSUME NEW w \in Worker, Work(w) PROVE OwnInv'
    BY <1>3, ExecuteKeepsOwn, GetKeepsOwn, RelKeepsOwn, UseKeepsOwn, EndKeepsOwn DEF Work
<1>4. ASSUME NEW h \in Handle, OnConnect(h) \/ Close(h) PROVE OwnInv'
    BY <1>1, <1>4 DEF OnConnect, Close, poolVars
<1>5. ASSUME NEW w \in Worker, WakesUp(w) PROVE OwnInv'
    <2>1. /\ UNCHANGED <<asked, work, held, waiting>>
          /\ waiting[w] # NoPool /\ woken' = woken \cup {w}
        BY <1>5 DEF WakesUp, SpuriousWake, connVars
    <2>2. (waiting'[w] # NoPool => At(w, "get")) /\ \A u \in woken' : waiting'[u] # NoPool
        BY <2>1 DEF OwnInv
    <2>. QED BY <2>1, <2>2, NobodyWorksOwns
<1>6. CASE SendResponsePduList \/ UNCHANGED vars
    BY <1>1, <1>6 DEF SendResponsePduList, vars, poolVars, connVars
<1>. QED BY <1>2, <1>3, <1>4, <1>5, <1>6 DEF Next

LEMMA OwnInit == Init => OwnInv
<1>. SUFFICES ASSUME Init PROVE OwnInv
    OBVIOUS
<1>1. work = [w \in Worker |-> Idle] /\ Idle.req = NoRequest
      /\ waiting = [w \in Worker |-> NoPool] /\ woken = {}
    BY DEF Init, Idle, PoolInit, Worker
<1>. QED BY <1>1 DEF OwnInv, Busy

RuleInv == OwnInv /\ PoolIInv

LEMMA SpecRuleInv ==
    ASSUME "addTwo" \notin Kind
    PROVE  Spec => [](RuleInv /\ HeldInv /\ AskInv)
<1>1. Init => RuleInv
    BY OwnInit, InitPoolIInv DEF Init, RuleInv
<1>2. RuleInv /\ HeldInv /\ AskInv /\ [Next]_vars => RuleInv'
    BY OwnStep, StepIsPoolStep, NextPoolIInv DEF RuleInv, AskInv
<1>. QED BY <1>1, <1>2, SpecAskInv, SpecHeldInv, PTL DEF Spec

\* The handlers keep to the rule of the pools: whatever the pools answer and the data say,
\* a worker gives back only what it took and has not given back.  The one that adds two
\* members does not, and is the one left out.
THEOREM UsesThePoolsCorrect ==
    ASSUME "addTwo" \notin Kind
    PROVE  Spec => UsesThePools
<1>1. Init => PoolInit
    BY DEF Init
<1>2. RuleInv /\ HeldInv /\ AskInv /\ [Next]_vars => [PoolNext]_poolVars
    BY StepIsPoolStep DEF RuleInv, AskInv
<1>. QED BY <1>1, <1>2, SpecRuleInv, PTL DEF Spec, UsesThePools, PoolSpec

\* So no two workers of the proxy are handed the same connection, and none is lost.
THEOREM ProxyOneOwnerCorrect ==
    ASSUME "addTwo" \notin Kind
    PROVE  Spec => []OneOwner
<1>. QED BY UsesThePoolsCorrect, OneOwnerCorrect, PTL DEF UsesThePools

\* And none of them sleeps beside a connection nobody is coming for.
THEOREM ProxyNoMissedSignalCorrect ==
    ASSUME "addTwo" \notin Kind
    PROVE  Spec => []NoMissedSignal
<1>. QED BY UsesThePoolsCorrect, NoMissedSignalCorrect, PTL DEF UsesThePools

-----------------------------------------------------------------------------
(***************************************************************************)
(* The order of the pools.  The slots in use say of which pool the         *)
(* connection in each variable is, and a worker that sleeps does so where  *)
(* it takes one of the pool it sleeps on.                                  *)
(***************************************************************************)
Named(k, x) == \A y \in SlotLabel(k)[x.pc] : x.var[y[1]][1] = y[2]

WaitsAt(w) == waiting[w] # NoPool => At(w, "get") /\ Current(w).pool = waiting[w]

OrderInv ==
    /\ DOMAIN waiting = Worker
    /\ \A w \in Worker : WaitsAt(w)
    /\ \A w \in Worker : Busy(w) => Named(KindOf(w), work[w])

LEMMA OrderInit == Init => OrderInv
<1>. SUFFICES ASSUME Init PROVE OrderInv
    OBVIOUS
<1>1. /\ work = [w \in Worker |-> Idle] /\ Idle.req = NoRequest
      /\ waiting = [w \in Worker |-> NoPool]
    BY DEF Init, Idle, PoolInit, Worker
<1>. QED BY <1>1 DEF OrderInv, WaitsAt, Busy

LEMMA SkipNamed ==
    ASSUME NEW k, NEW x, NEW H, InPlace(k, x, H), Named(k, x),
           NEW V, V \subseteq SlotLabel(k)[x.pc], NEW i \in SlotPlaces(k, V)
    PROVE  Named(k, [x EXCEPT !.pc = i])
<1>. DEFINE y == [x EXCEPT !.pc = i]
<1>1. y.pc = i /\ y.var = x.var
    BY DEF InPlace
<1>2. SlotLabel(k)[i] = V
    BY DEF SlotPlaces
<1>. HIDE DEF y
<1>3. Named(k, y)
    BY <1>1, <1>2 DEF Named
<1>. QED BY <1>3 DEF y

LEMMA AssignNamed ==
    ASSUME NEW k, NEW x, NEW H, InPlace(k, x, H), Named(k, x),
           NEW V, V = SlotLabel(k)[x.pc], V \subseteq Slots, NEW v \in 1..2, NEW p, NEW c,
           Fresh(V, v, p), NEW i \in SlotPlaces(k, V \cup {<<v, p>>})
    PROVE  Named(k, [x EXCEPT !.pc = i, !.var[v] = <<p, c>>])
<1>. DEFINE z == [x EXCEPT !.pc = i, !.var[v] = <<p, c>>]
            a == <<p, c>>
            e == <<v, p>>
<1>1. DOMAIN x = {"req", "pc", "var"} /\ DOMAIN x.var = 1..2
    BY DEF InPlace
<1>2. z.pc = i /\ z.var = [x.var EXCEPT ![v] = a]
    BY <1>1
<1>3. SlotLabel(k)[i] = V \cup {e}
    BY DEF SlotPlaces
<1>4. a[1] = p /\ e[1] = v /\ e[2] = p
    OBVIOUS
<1>5. z.var[v] = a /\ \A j \in 1..2 \ {v} : z.var[j] = x.var[j]
    BY <1>1, <1>2
<1>6. \A y \in V : y[1] \in 1..2 \ {v} /\ x.var[y[1]][1] = y[2]
    BY DEF Slots, Fresh, Named
<1>. HIDE DEF z, a, e
<1>7. \A y \in V \cup {e} : z.var[y[1]][1] = y[2]
    BY <1>4, <1>5, <1>6
<1>8. Named(k, z)
    BY <1>2, <1>3, <1>7 DEF Named
<1>. QED BY <1>8 DEF z, a

\* What a worker is about to do, by the slots in use.
LEMMA AtSlots ==
    ASSUME HeldInv, AskTypeOK, NEW w \in Worker, NEW op, At(w, op)
    PROVE  LET k == KindOf(w)
               n == work[w].pc
               o == Current(w)
               V == SlotLabel(k)[n]
           IN  /\ V \subseteq Slots /\ Label(k)[n] = Names(V)
               /\ op = "get" =>
                    /\ Fresh(V, o.var, o.pool)
                    /\ Landings[k][n + 1] \subseteq SlotPlaces(k, V \cup {<<o.var, o.pool>>})
                    /\ Landings[k][n + 1 + o.jump] \subseteq SlotPlaces(k, V)
               /\ op = "rel" => Landings[k][n + 1] \subseteq SlotPlaces(k, Without(V, o.var))
               /\ op = "use" => Landings[k][n + 1] \subseteq SlotPlaces(k, V)
<1>. DEFINE k == KindOf(w)
            n == work[w].pc
            o == Current(w)
<1>1. /\ k \in DOMAIN Script /\ n \in 1..Len(Script[k])
      /\ o = Script[k][n] /\ o.op = op
    BY AtFact
<1>. DEFINE V == SlotLabel(k)[n]
<1>. HIDE DEF k, n, o
<1>2. /\ V \subseteq Slots
      /\ o.op = "get" =>
            /\ Fresh(V, o.var, o.pool)
            /\ Landings[k][n + 1] \subseteq SlotPlaces(k, V \cup {<<o.var, o.pool>>})
            /\ Landings[k][n + 1 + o.jump] \subseteq SlotPlaces(k, V)
      /\ o.op = "rel" => Landings[k][n + 1] \subseteq SlotPlaces(k, Without(V, o.var))
      /\ o.op = "use" => Landings[k][n + 1] \subseteq SlotPlaces(k, V)
    BY <1>1, HandlerSlots
<1>3. Label(k)[n] = Names(V)
    <2>1. Len(Script[k]) \in Nat
        BY <1>1, HandlerEnds
    <2>2. n \in 1..(Len(Script[k]) + 1)
        BY <1>1, <2>1
    <2>. QED BY <2>2 DEF Label
<1>. QED BY <1>1, <1>2, <1>3, Zenon DEF k, n, o, V

\* Those who do nothing wait where they waited.
LEMMA SameWaitsAt ==
    ASSUME NEW w \in Worker, UNCHANGED asked, work'[w] = work[w], waiting'[w] = waiting[w], WaitsAt(w)
    PROVE  WaitsAt(w)'
BY DEF WaitsAt, At, Current, Handler, KindOf, Busy

\* A step of one worker.
LEMMA OneWorkerOrder ==
    ASSUME OrderInv, NEW w \in Worker, UNCHANGED asked, DOMAIN waiting' = Worker,
           \A u \in Worker \ {w} : work'[u] = work[u] /\ waiting'[u] = waiting[u],
           WaitsAt(w)', Busy(w)' => Named(KindOf(w)', work'[w])
    PROVE  OrderInv'
<1>1. ASSUME NEW u \in Worker
      PROVE  WaitsAt(u)' /\ (Busy(u)' => Named(KindOf(u)', work'[u]))
    <2>1. CASE u # w
        <3>1. (Busy(u)' <=> Busy(u)) /\ KindOf(u)' = KindOf(u)
            BY <2>1, SameAt
        <3>2. WaitsAt(u)'
            BY <2>1, SameWaitsAt DEF OrderInv
        <3>. QED BY <2>1, <3>1, <3>2 DEF OrderInv
    <2>. QED BY <2>1
<1>2. (\A u \in Worker : WaitsAt(u))'
    BY <1>1 DEF Worker
<1>3. (\A u \in Worker : Busy(u) => Named(KindOf(u), work[u]))'
    BY <1>1 DEF Named, Worker
<1>. QED BY <1>2, <1>3 DEF OrderInv, Worker

\* A step that takes nothing, of a worker that does not sleep afterwards.
LEMMA SkipKeepsOrder ==
    ASSUME OrderInv, HeldInv, AskTypeOK, NEW w \in Worker, NEW op, At(w, op), UNCHANGED asked,
           NEW n, Skip(w, n), NEW V, V \subseteq SlotLabel(KindOf(w))[work[w].pc],
           Landings[KindOf(w)][work[w].pc + 1 + n] \subseteq SlotPlaces(KindOf(w), V),
           DOMAIN waiting' = Worker, waiting'[w] = NoPool,
           \A u \in Worker \ {w} : waiting'[u] = waiting[u]
    PROVE  OrderInv'
<1>. DEFINE k == KindOf(w)
<1>1. Busy(w) /\ InPlace(k, work[w], held[w]) /\ Named(k, work[w])
    BY AtFact DEF OrderInv
<1>2. \A u \in Worker \ {w} : work'[u] = work[u]
    BY SkipResult
<1>3. PICK i \in Landings[k][work[w].pc + 1 + n] : work'[w] = [work[w] EXCEPT !.pc = i]
    BY SkipResult
<1>4. i \in SlotPlaces(k, V)
    BY <1>3
<1>5. Named(k, [work[w] EXCEPT !.pc = i])
    BY <1>1, <1>4, SkipNamed
<1>6. work'[w].req = work[w].req
    BY <1>1, <1>3 DEF InPlace
<1>7. KindOf(w)' = k
    BY <1>6, SameRequest
<1>8. Busy(w)' => Named(KindOf(w)', work'[w])
    BY <1>3, <1>5, <1>7
<1>9. WaitsAt(w)'
    BY DEF WaitsAt
<1>. QED BY <1>2, <1>8, <1>9, OneWorkerOrder

LEMMA TakeKeepsOrder ==
    ASSUME OrderInv, HeldInv, AskTypeOK, NEW w \in Worker, At(w, "get"), UNCHANGED asked,
           NEW c, Assign(w, <<Current(w).pool, c>>), waiting' = [waiting EXCEPT ![w] = NoPool]
    PROVE  OrderInv'
<1>. DEFINE k == KindOf(w)
            n == work[w].pc
            v == Current(w).var
            p == Current(w).pool
            V == SlotLabel(k)[n]
<1>1. Busy(w) /\ InPlace(k, work[w], held[w]) /\ Named(k, work[w])
    BY AtFact DEF OrderInv
<1>2. /\ V \subseteq Slots /\ v \in 1..2 /\ Fresh(V, v, p)
      /\ Landings[k][n + 1] \subseteq SlotPlaces(k, V \cup {<<v, p>>})
    BY AtSlots, AtStep
<1>3. \A u \in Worker \ {w} : work'[u] = work[u]
    BY AssignResult
<1>4. PICK i \in Landings[k][n + 1] : work'[w] = [work[w] EXCEPT !.pc = i, !.var[v] = <<p, c>>]
    BY AssignResult
<1>5. i \in SlotPlaces(k, V \cup {<<v, p>>}) /\ V = SlotLabel(k)[work[w].pc]
    BY <1>2, <1>4
<1>6. work'[w].req = work[w].req
    BY <1>1, <1>4 DEF InPlace
<1>. HIDE DEF V, v, p
<1>7. Named(k, [work[w] EXCEPT !.pc = i, !.var[v] = <<p, c>>])
    BY <1>1, <1>2, <1>5, AssignNamed
<1>8. KindOf(w)' = k
    BY <1>6, SameRequest
<1>9. Busy(w)' => Named(KindOf(w)', work'[w])
    BY <1>4, <1>7, <1>8
<1>10. DOMAIN waiting' = Worker /\ waiting'[w] = NoPool /\ \A u \in Worker \ {w} : waiting'[u] = waiting[u]
    BY DEF OrderInv
<1>11. WaitsAt(w)'
    BY <1>10 DEF WaitsAt
<1>. QED BY <1>3, <1>9, <1>10, <1>11, OneWorkerOrder

LEMMA GetKeepsOrder ==
    ASSUME OrderInv, HeldInv, AskTypeOK, NEW w \in Worker, GetDBConn(w)
    PROVE  OrderInv'
<1>. DEFINE p == Current(w).pool
            k == KindOf(w)
            n == work[w].pc
            j == Current(w).jump
<1>1. At(w, "get") /\ UNCHANGED asked
    BY DEF GetDBConn, connVars
<1>2. ASSUME NEW c, Assign(w, <<p, c>>), Leave(w) PROVE OrderInv'
    BY <1>1, <1>2, TakeKeepsOrder DEF Leave
<1>3. CASE \E c \in free[p] : Take(w, p, c) /\ Assign(w, <<p, c>>)
    BY <1>2, <1>3 DEF Take
<1>4. CASE Grow(w, p) /\ Assign(w, <<p, created'[p]>>)
    BY <1>2, <1>4 DEF Grow
<1>5. CASE GrowFails(w, p) /\ Skip(w, j)
    <2>. DEFINE V == SlotLabel(k)[n]
    <2>1. Landings[k][n + 1 + j] \subseteq SlotPlaces(k, V) /\ V \subseteq SlotLabel(k)[n]
        BY <1>1, AtSlots
    <2>2. /\ Skip(w, j) /\ DOMAIN waiting' = Worker /\ waiting'[w] = NoPool
          /\ \A u \in Worker \ {w} : waiting'[u] = waiting[u]
        BY <1>5 DEF GrowFails, Leave, OrderInv
    <2>. HIDE DEF V, j, n, k
    <2>. QED BY <1>1, <2>1, <2>2, SkipKeepsOrder DEF k, n
<1>6. CASE Wait(w, p) /\ UNCHANGED work
    <2>1. waiting' = [waiting EXCEPT ![w] = p]
        BY <1>6 DEF Wait
    <2>2. /\ DOMAIN waiting' = Worker /\ waiting'[w] = p
          /\ \A u \in Worker \ {w} : waiting'[u] = waiting[u]
        BY <2>1 DEF OrderInv
    <2>3. WaitsAt(w)'
        BY <1>1, <1>6, <2>2 DEF WaitsAt, At, Current, Handler, KindOf, Busy
    <2>4. Busy(w)' => Named(KindOf(w)', work'[w])
        BY <1>1, <1>6, SameAt DEF OrderInv
    <2>. QED BY <1>1, <1>6, <2>2, <2>3, <2>4, OneWorkerOrder
<1>. QED BY <1>3, <1>4, <1>5, <1>6 DEF GetDBConn

\* Who does something else than take a connection does not sleep.
LEMMA NotWaiting ==
    ASSUME OrderInv, NEW w \in Worker, ~At(w, "get")
    PROVE  DOMAIN waiting = Worker /\ waiting[w] = NoPool
BY DEF OrderInv, WaitsAt

LEMMA GoOnKeepsOrder ==
    ASSUME OrderInv, HeldInv, AskTypeOK, NEW w \in Worker, RelDBConn(w) \/ UseDBConn(w)
    PROVE  OrderInv'
<1>. DEFINE k == KindOf(w)
            n == work[w].pc
            U == SlotLabel(k)[n]
<1>1. PICK op \in {"rel", "use"} : At(w, op)
    BY DEF RelDBConn, UseDBConn
<1>2. UNCHANGED <<asked, waiting>> /\ Skip(w, 0)
    BY DEF RelDBConn, UseDBConn, connVars, poolVars, Rel
<1>3. PICK V : V \subseteq U /\ Landings[k][n + 1] \subseteq SlotPlaces(k, V)
    <2>1. CASE op = "rel"
        <3>1. Without(U, Current(w).var) \subseteq U
            BY DEF Without
        <3>2. Landings[k][n + 1] \subseteq SlotPlaces(k, Without(U, Current(w).var))
            BY <1>1, <2>1, AtSlots
        <3>. QED BY <3>1, <3>2
    <2>2. CASE op = "use"
        BY <1>1, <2>2, AtSlots
    <2>. QED BY <1>1, <2>1, <2>2
<1>4. n + 1 + 0 = n + 1
    <2>1. n \in Int
        BY <1>1, AtFact
    <2>. QED BY <2>1
<1>5. /\ DOMAIN waiting' = Worker /\ waiting'[w] = NoPool
      /\ \A u \in Worker \ {w} : waiting'[u] = waiting[u]
    BY <1>1, <1>2, AtOne, NotWaiting
<1>6. Landings[k][n + 1 + 0] \subseteq SlotPlaces(k, V)
    BY <1>3, <1>4
<1>. QED BY <1>1, <1>2, <1>3, <1>5, <1>6, SkipKeepsOrder

LEMMA EndKeepsOrder ==
    ASSUME OrderInv, HeldInv, AskTypeOK, NEW w \in Worker, AddResponsePdu(w) \/ Finish(w)
    PROVE  OrderInv'
<1>1. /\ UNCHANGED <<asked, waiting>> /\ work' = [work EXCEPT ![w] = Idle]
      /\ ~At(w, "get")
    <2>1. CASE AddResponsePdu(w)
        BY <2>1, AtOne DEF AddResponsePdu, connVars, poolVars
    <2>2. CASE Finish(w)
        <3>1. Busy(w) /\ work[w].pc > Len(Handler(w))
            BY <2>2 DEF Finish
        <3>2. work[w].pc \in 1..(Len(Handler(w)) + 1) /\ Len(Handler(w)) \in Nat
            BY <3>1, KindFact, HandlerEnds DEF HeldInv, InPlace, Handler
        <3>3. ~At(w, "get")
            BY <3>1, <3>2 DEF At
        <3>. QED BY <2>2, <3>3 DEF Finish, connVars, poolVars
    <2>. QED BY <2>1, <2>2
<1>2. work'[w] = Idle /\ \A u \in Worker \ {w} : work'[u] = work[u]
    BY <1>1 DEF HeldInv
<1>3. ~Busy(w)'
    BY <1>2 DEF Busy, Idle
<1>4. DOMAIN waiting' = Worker /\ waiting'[w] = NoPool /\ \A u \in Worker : waiting'[u] = waiting[u]
    BY <1>1 DEF OrderInv, WaitsAt
<1>5. WaitsAt(w)'
    BY <1>4 DEF WaitsAt
<1>. QED BY <1>1, <1>2, <1>3, <1>4, <1>5, OneWorkerOrder

LEMMA ExecuteKeepsOrder ==
    ASSUME OrderInv, HeldInv, AskTypeOK, NEW w \in Worker, Execute(w)
    PROVE  OrderInv'
<1>. DEFINE r == Head(queue[w])
            k == asked[r].kind
<1>1. ~Busy(w) /\ queue[w] # <<>> /\ UNCHANGED <<asked, waiting>>
    BY DEF Execute, connVars, poolVars
<1>2. PICK i \in Landings[k][1] : work' = [work EXCEPT ![w] = [Idle EXCEPT !.req = r, !.pc = i]]
    BY DEF Execute
<1>3. k \in DOMAIN Script
    BY <1>1, NextKind
<1>4. SlotLabel(k)[i] = {}
    BY <1>2, <1>3, HandlerEnds DEF SlotPlaces
<1>. HIDE DEF k, r
<1>. DEFINE y == [Idle EXCEPT !.req = r, !.pc = i]
<1>5. y.req = r /\ y.pc = i
    <2>1. DOMAIN Idle = {"req", "pc", "var"}
        BY DEF Idle
    <2>. QED BY <2>1
<1>. HIDE DEF y
<1>6. work'[w] = y /\ \A u \in Worker \ {w} : work'[u] = work[u]
    BY <1>2 DEF HeldInv, y
<1>7. KindOf(w)' = k
    BY <1>1, <1>5, <1>6 DEF KindOf, k
<1>8. Busy(w)' => Named(KindOf(w)', work'[w])
    BY <1>4, <1>5, <1>6, <1>7 DEF Named
<1>9. ~At(w, "get")
    BY <1>1 DEF At
<1>10. DOMAIN waiting' = Worker /\ waiting'[w] = NoPool /\ \A u \in Worker : waiting'[u] = waiting[u]
    BY <1>1, <1>9 DEF OrderInv, WaitsAt
<1>11. WaitsAt(w)'
    BY <1>10 DEF WaitsAt
<1>. QED BY <1>1, <1>6, <1>8, <1>10, <1>11, OneWorkerOrder

\* A step in which no worker does anything.
LEMMA NobodyWorksOrder ==
    ASSUME OrderInv, AskTypeOK, UNCHANGED <<work, waiting>>, \A r \in Requests : asked'[r] = asked[r]
    PROVE  OrderInv'
<1>1. ASSUME NEW u \in Worker
      PROVE  /\ Busy(u)' <=> Busy(u)
             /\ Busy(u) => KindOf(u)' = KindOf(u)
             /\ At(u, "get") => At(u, "get")' /\ Current(u)' = Current(u)
    BY KindFact DEF Busy, KindOf, At, Handler, Current
<1>2. \A u \in Worker : WaitsAt(u)' /\ (Busy(u)' => Named(KindOf(u)', work'[u]))
    BY <1>1 DEF OrderInv, WaitsAt
<1>3. (\A u \in Worker : WaitsAt(u))'
    BY <1>2 DEF Worker
<1>4. (\A u \in Worker : Busy(u) => Named(KindOf(u), work[u]))'
    BY <1>2 DEF Named, Worker
<1>. QED BY <1>3, <1>4 DEF OrderInv, Worker

LEMMA OrderStep == OrderInv /\ HeldInv /\ AskInv /\ [Next]_vars => OrderInv'
<1>. SUFFICES ASSUME OrderInv, HeldInv, AskTypeOK, [Next]_vars PROVE OrderInv'
    BY DEF AskInv
<1>1. CASE UNCHANGED <<asked, work, waiting>>
    BY <1>1, NobodyWorksOrder
<1>2. ASSUME NEW h \in Handle, NEW k \in Kind, NEW w \in Worker, HandlePduBuf(h, k, w)
      PROVE  OrderInv'
    <2>1. UNCHANGED <<work, waiting>>
        BY <1>2 DEF HandlePduBuf, poolVars
    <2>. QED BY <1>2, <2>1, AskedGrows, NobodyWorksOrder
<1>3. ASSUME NEW w \in Worker, Work(w) PROVE OrderInv'
    BY <1>3, ExecuteKeepsOrder, GetKeepsOrder, GoOnKeepsOrder, EndKeepsOrder DEF Work
<1>4. ASSUME NEW h \in Handle, OnConnect(h) \/ Close(h) PROVE OrderInv'
    BY <1>1, <1>4 DEF OnConnect, Close, poolVars
<1>5. ASSUME NEW w \in Worker, WakesUp(w) PROVE OrderInv'
    BY <1>1, <1>5 DEF WakesUp, SpuriousWake, connVars
<1>6. CASE SendResponsePduList \/ UNCHANGED vars
    BY <1>1, <1>6 DEF SendResponsePduList, vars, poolVars, connVars
<1>. QED BY <1>2, <1>3, <1>4, <1>5, <1>6 DEF Next

LEMMA InOrder ==
    ASSUME HeldInv, AskTypeOK, OrderInv, NEW w \in Worker, waiting[w] # NoPool, NEW x \in held[w]
    PROVE  Before(x[1], waiting[w])
<1>. DEFINE k == KindOf(w)
            n == work[w].pc
            V == SlotLabel(k)[n]
<1>1. At(w, "get") /\ Current(w).pool = waiting[w]
    BY DEF OrderInv, WaitsAt
<1>2. Busy(w) /\ InPlace(k, work[w], held[w]) /\ Named(k, work[w])
    BY <1>1, AtFact DEF OrderInv
<1>3. Label(k)[n] = Names(V) /\ Fresh(V, Current(w).var, waiting[w])
    BY <1>1, AtSlots
<1>4. PICK i \in Label(k)[n] : x = work[w].var[i]
    BY <1>2 DEF InPlace
<1>5. PICK y \in V : i = y[1]
    BY <1>3, <1>4 DEF Names
<1>6. x[1] = y[2]
    BY <1>2, <1>4, <1>5 DEF Named
<1>. QED BY <1>3, <1>5, <1>6 DEF Fresh

LEMMA SpecOrderInv == Spec => []OrderInv
<1>. QED BY SpecAskInv, SpecHeldInv, OrderInit, OrderStep, PTL DEF Spec

\* Nobody waits for a connection of a pool while it holds one of that pool or of a later
\* one, the master pool excepted: no handler reverses the order in which another takes its
\* connections, on any path.
THEOREM WaitsInOrderCorrect == Spec => []WaitsInOrder
<1>1. OrderInv /\ HeldInv /\ AskInv => WaitsInOrder
    BY InOrder DEF WaitsInOrder, AskInv
<1>. QED BY <1>1, SpecAskInv, SpecHeldInv, SpecOrderInv, PTL

-----------------------------------------------------------------------------
\* No pool is without connections: it is created with some, and none is closed.
Opened == \A p \in Pool : created[p] \in Nat \ {0}

LEMMA SpecOpened == PoolSpec => []Opened
<1>1. PoolInit => Opened
    BY LimitAssumption DEF PoolInit, Opened
<1>2. Opened /\ PoolTypeOK /\ [PoolNext]_poolVars => Opened'
    <2>. SUFFICES ASSUME Opened, PoolTypeOK, [PoolNext]_poolVars PROVE Opened'
        OBVIOUS
    <2>1. CASE UNCHANGED created
        BY <2>1 DEF Opened
    <2>2. ASSUME NEW t \in Thread, NEW q \in Pool, Grow(t, q) PROVE Opened'
        <3>1. created' = [created EXCEPT ![q] = created[q] + 1] /\ created \in [Pool -> Nat]
            BY <2>2 DEF Grow, PoolTypeOK
        <3>2. \A p \in Pool : created'[p] \in Nat \ {0}
            BY <3>1 DEF Opened
        <3>. QED BY <3>2 DEF Opened
    <2>3. PoolNext \/ UNCHANGED poolVars
        OBVIOUS
    <2>. QED BY <2>1, <2>2, <2>3 DEF PoolNext, SpuriousWake, GrowFails, Wait, Take, Release, Rel, poolVars
<1>. QED BY <1>1, <1>2, PoolTypeCorrect, PTL DEF PoolSpec

\* Where one sleeps and nobody runs, every connection of the pool is with a sleeper that
\* wants one of a later pool.
LEMMA AllAsleep ==
    ASSUME RuleInv, HeldInv, AskTypeOK, OrderInv,
           \A v \in Worker : Busy(v) => Asleep(v),
           NEW w \in Worker, Asleep(w), NEW c \in 1..created[waiting[w]]
    PROVE  \E v \in Worker : /\ Asleep(v) /\ <<waiting[w], c>> \in held[v]
                             /\ Before(waiting[w], waiting[v])
<1>. DEFINE p == waiting[w]
<1>1. /\ waiting \in [Worker -> Pool \cup {NoPool}] /\ woken \subseteq Worker
      /\ free \in [Pool -> SUBSET Nat] /\ created \in [Pool -> Nat]
    BY DEF RuleInv, PoolIInv, PoolTypeOK, Worker
<1>2. p \in Pool
    BY <1>1 DEF Asleep
<1>3. w \in Sleepers(p)
    BY DEF Sleepers, Asleep, Worker
<1>4. Woken(p) = {}
    <2>. SUFFICES ASSUME NEW v \in Woken(p) PROVE FALSE
        OBVIOUS
    <2>1. v \in Worker /\ waiting[v] = p /\ v \in woken /\ p # NoPool
        BY <1>2, PoolAssumption DEF Woken, Worker
    <2>2. At(v, "get")
        BY <2>1 DEF OrderInv, WaitsAt
    <2>3. Busy(v)
        BY <2>2 DEF At
    <2>. QED BY <2>1, <2>3 DEF Asleep
<1>. HIDE DEF p
<1>5. free[p] = {}
    <2>1. Cardinality(free[p]) <= Cardinality(Woken(p))
        BY <1>2, <1>3 DEF RuleInv, PoolIInv, NoMissedSignal
    <2>2. Cardinality(Woken(p)) = 0
        BY <1>4, FS_EmptySet
    <2>3. IsFiniteSet(free[p])
        BY <1>2, FreeIsFinite DEF RuleInv, PoolIInv
    <2>4. Cardinality(free[p]) \in Nat
        BY <2>3, FS_CardinalityType
    <2>5. Cardinality(free[p]) = 0
        BY <2>1, <2>2, <2>4
    <2>. QED BY <2>3, <2>5, FS_EmptySet
<1>6. PICK v \in Worker : <<p, c>> \in held[v]
    BY <1>2, <1>5 DEF RuleInv, PoolIInv, OneOwner, Worker, p
<1>7. Busy(v)
    BY <1>6 DEF HeldInv
<1>8. Asleep(v) /\ waiting[v] # NoPool
    BY <1>7 DEF Asleep
<1>9. Before(p, waiting[v])
    <2>. DEFINE x == <<p, c>>
    <2>1. x \in held[v] /\ x[1] = p
        BY <1>6
    <2>. HIDE DEF x
    <2>. QED BY <1>8, <2>1, InOrder
<1>. QED BY <1>6, <1>8, <1>9 DEF p

\* Workers never wait for each other: while one is asleep another one is awake in a
\* handler, or every connection of the master pool is with a worker that waits for one
\* more.
THEOREM SomeoneRunsCorrect ==
    ASSUME "addTwo" \notin Kind
    PROVE  Spec => []SomeoneRuns
<1>1. RuleInv /\ HeldInv /\ AskInv /\ OrderInv /\ Opened => SomeoneRuns
    <2>. SUFFICES ASSUME RuleInv, HeldInv, AskTypeOK, OrderInv, Opened,
                         NEW w \in Worker, Asleep(w),
                         \A v \in Worker : Busy(v) => Asleep(v)
                  PROVE  MasterExhausted
        BY DEF SomeoneRuns, AskInv
    <2>1. waiting \in [Worker -> Pool \cup {NoPool}]
        BY DEF RuleInv, PoolIInv, PoolTypeOK, Worker
    <2>2. ASSUME NEW u \in Worker, Asleep(u)
          PROVE  \E v \in Worker : Asleep(v) /\ Before(waiting[u], waiting[v])
        <3>1. waiting[u] \in Pool
            BY <2>1, <2>2 DEF Asleep
        <3>2. 1 \in 1..created[waiting[u]]
            BY <3>1 DEF Opened
        <3>. QED BY <2>2, <3>2, AllAsleep
    <2>3. \A u \in Worker : Asleep(u) => waiting[u] # GroupMember
        BY <2>2, PoolsDiffer DEF Before
    <2>4. \A u \in Worker : Asleep(u) => waiting[u] # Slave
        BY <2>2, <2>3, PoolsDiffer DEF Before
    <2>5. \A u \in Worker : Asleep(u) => waiting[u] # Unread
        BY <2>2, <2>3, <2>4, PoolsDiffer DEF Before
    <2>6. \A u \in Worker : Asleep(u) => waiting[u] = Master
        BY <2>2, <2>3, <2>4, <2>5 DEF Before
    <2>7. ASSUME NEW c \in 1..created[Master]
          PROVE  \E v \in Worker : waiting[v] = Master /\ <<Master, c>> \in held[v]
        <3>1. waiting[w] = Master
            BY <2>6
        <3>2. PICK v \in Worker : Asleep(v) /\ <<Master, c>> \in held[v]
            BY <2>7, <3>1, AllAsleep
        <3>. QED BY <2>6, <3>2
    <2>. QED BY <2>7 DEF MasterExhausted
<1>2. Spec => []Opened
    BY UsesThePoolsCorrect, SpecOpened, PTL DEF UsesThePools
<1>. QED BY <1>1, <1>2, SpecRuleInv, SpecOrderInv, PTL
=============================================================================
