--------------------------- MODULE MonitorProofs ----------------------------
(***************************************************************************)
(* Theorems of module Monitor, for every number of threads, items and       *)
(* nested locks: no signal of a condition variable is lost, its waiters     *)
(* come back with the mutex, and a recursive mutex implements the reentrant *)
(* lock of module Reentrant.                                                *)
(***************************************************************************)
EXTENDS Monitor, MutexProofs

-----------------------------------------------------------------------------
(* The threads that a signal wakes up                                       *)

(* _cond_signal() from thread to thread: a fact that holds before the first *)
(* and that each of them keeps holds for all numbers of threads. The least  *)
(* number for which it did not would have one before it for which it does.  *)
LEMMA UpTo ==
  ASSUME NEW n \in Nat, NEW Bad \in SUBSET (0 .. n), 0 \notin Bad,
         \A i \in 0 .. n : i # 0 /\ i - 1 \notin Bad => i \notin Bad
  PROVE  Bad = {}
<1> SUFFICES ASSUME Bad # {} PROVE FALSE
  OBVIOUS
<1>1. Bad \in SUBSET Nat
  OBVIOUS
<1>2. PICK i \in Bad : \A j \in Bad : i <= j
  BY <1>1, SetMinimum
<1>3. i \in Nat /\ i # 0 /\ i - 1 < i
  BY <1>1, <1>2
<1> QED BY <1>2, <1>3

(* What the loop of _cond_signal() has computed after n threads.            *)
WokenStep(f, s, q, n) == IF n = 0 THEN s ELSE SetStatus(f[n - 1], q[n], "PENDING")

(* The loop is defined for any list: with the states after each of the      *)
(* first threads there is one after the next.                               *)
LEMMA WokenIs ==
  ASSUME NEW s, NEW q \in Seq(Threads)
  PROVE  \E f : /\ f = [n \in 0 .. Len(q) |-> WokenStep(f, s, q, n)]
                /\ Woken(s, q) = f[Len(q)]
<1> DEFINE L == Len(q)
           Bad == {m \in 0 .. L : ~\E f : f = [n \in 0 .. m |-> WokenStep(f, s, q, n)]}
<1>1. L \in Nat
  OBVIOUS
<1>2. 0 \notin Bad
  <2> DEFINE f == [n \in 0 .. 0 |-> s]
  <2>1. f = [n \in 0 .. 0 |-> WokenStep(f, s, q, n)]
    BY DEF WokenStep
  <2> QED BY <2>1
<1>3. ASSUME NEW m \in 0 .. L, m # 0, m - 1 \notin Bad
      PROVE  m \notin Bad
  <2>1. m - 1 \in 0 .. L /\ m \in Nat /\ m \notin 0 .. m - 1
    BY <1>1, <1>3
  <2>2. PICK g : g = [n \in 0 .. m - 1 |-> WokenStep(g, s, q, n)]
    BY <1>3, <2>1
  <2> DEFINE f == [n \in 0 .. m |-> IF n = m THEN SetStatus(g[m - 1], q[m], "PENDING") ELSE g[n]]
  <2>3. \A n \in 0 .. m : f[n] = WokenStep(f, s, q, n)
    <3> TAKE n \in 0 .. m
    <3>1. CASE n = m
      <4>1. m - 1 \in 0 .. m /\ m - 1 # m /\ m \in 0 .. m
        BY <2>1, <1>3
      <4>2. f[m - 1] = g[m - 1] /\ f[m] = SetStatus(g[m - 1], q[m], "PENDING")
        BY <4>1
      <4> HIDE DEF f
      <4> QED BY <1>3, <3>1, <4>2 DEF WokenStep
    <3>2. CASE n # m
      <4>1. n \in 0 .. m - 1 /\ (n = 0 \/ (n - 1 \in 0 .. m /\ n - 1 # m))
        BY <2>1, <3>2
      <4>2. f[n] = g[n] /\ (n = 0 \/ f[n - 1] = g[n - 1])
        BY <3>2, <4>1
      <4>3. g[n] = WokenStep(g, s, q, n)
        BY <2>2, <4>1
      <4> HIDE DEF f
      <4> QED BY <4>2, <4>3 DEF WokenStep
    <3> QED BY <3>1, <3>2
  <2>4. f = [n \in 0 .. m |-> f[n]]
    OBVIOUS
  <2> HIDE DEF f
  <2>5. f = [n \in 0 .. m |-> WokenStep(f, s, q, n)]
    BY <2>3, <2>4
  <2> QED BY <2>5
<1>4. Bad = {}
  <2>1. Bad \in SUBSET (0 .. L)
    OBVIOUS
  <2> HIDE DEF Bad
  <2> QED BY <1>1, <1>2, <1>3, <2>1, UpTo
<1>5. \E f : f = [n \in 0 .. L |-> WokenStep(f, s, q, n)]
  <2>1. L \in 0 .. L
    BY <1>1
  <2> QED BY <1>4, <2>1
<1> DEFINE w == CHOOSE f : f = [n \in 0 .. L |-> WokenStep(f, s, q, n)]
<1>6. w = [n \in 0 .. L |-> WokenStep(w, s, q, n)]
  BY <1>5
<1>7. Woken(s, q) = w[L]
  BY DEF Woken, WokenStep
<1> QED BY <1>6, <1>7

(* All threads of the list are ready, no other status changes, and neither  *)
(* the active thread nor a priority does.                                   *)
LEMMA WokenEffect ==
  ASSUME NEW s, KernelInv(s), NEW q \in Seq(Threads)
  PROVE  LET n == Woken(s, q)
         IN /\ KernelInv(n) /\ n.active = s.active /\ n.idle = s.idle
            /\ n.pendsv = s.pendsv /\ n.prio = s.prio
            /\ \A t \in Threads :
                 n.status[t] = IF t \in Elems(q) THEN "PENDING" ELSE s.status[t]
<1> DEFINE L == Len(q)
<1>1. L \in Nat /\ \A i \in 1 .. L : q[i] \in Threads
  OBVIOUS
<1>2. PICK f : f = [n \in 0 .. L |-> WokenStep(f, s, q, n)] /\ Woken(s, q) = f[L]
  BY WokenIs
<1> DEFINE Good(n) ==
      /\ KernelInv(f[n]) /\ f[n].active = s.active /\ f[n].idle = s.idle
      /\ f[n].pendsv = s.pendsv /\ f[n].prio = s.prio
      /\ \A t \in Threads :
           f[n].status[t] = IF \E i \in 1 .. n : q[i] = t THEN "PENDING" ELSE s.status[t]
    Bad == {n \in 0 .. L : ~Good(n)}
<1>3. 0 \notin Bad
  <2>1. f[0] = s
    BY <1>1, <1>2 DEF WokenStep
  <2> QED BY <2>1
<1>4. ASSUME NEW n \in 0 .. L, n # 0, n - 1 \notin Bad
      PROVE  n \notin Bad
  <2> DEFINE r == f[n - 1]
             u == q[n]
  <2>1. /\ n \in Nat /\ n - 1 \in 0 .. L /\ n \in 1 .. L
        /\ \A i : i \in 1 .. n <=> i \in 1 .. n - 1 \/ i = n
    BY <1>1, <1>4
  <2>2. /\ KernelInv(r) /\ r.active = s.active /\ r.idle = s.idle
        /\ r.pendsv = s.pendsv /\ r.prio = s.prio
        /\ \A t \in Threads :
             r.status[t] = IF \E i \in 1 .. n - 1 : q[i] = t THEN "PENDING" ELSE s.status[t]
    BY <1>4, <2>1
  <2>3. f[n] = SetStatus(r, u, "PENDING") /\ u \in Threads
    BY <1>1, <1>2, <1>4, <2>1 DEF WokenStep
  <2> HIDE DEF r, u
  <2>4. "PENDING" \in Status \ {"RUNNING"} /\ r \in KernelType /\ RunqueueOK(r)
    BY <2>2 DEF Status, OnRunqueue, KernelInv
  <2>5. /\ KernelInv(f[n]) /\ f[n].status = [r.status EXCEPT ![u] = "PENDING"]
        /\ f[n].active = r.active /\ f[n].idle = r.idle /\ f[n].pendsv = r.pendsv
        /\ f[n].prio = r.prio
    <3> DEFINE v == SetStatus(r, u, "PENDING")
    <3>1. KernelInv(r) /\ u \in Threads /\ "PENDING" \in Status
      BY <2>2, <2>3, <2>4
    <3>2. KernelInv(v)
      BY <2>4, <3>1, SetStatusInv
    <3>3. /\ v.status = [r.status EXCEPT ![u] = "PENDING"]
          /\ v.active = r.active /\ v.idle = r.idle /\ v.pendsv = r.pendsv
      BY <3>1, SetStatusEffect
    <3>4. v.prio = r.prio
      BY <2>4, <3>1, SetStatusOK
    <3>5. f[n] = v
      BY <2>3
    <3> HIDE DEF v
    <3> QED BY <3>2, <3>3, <3>4, <3>5
  <2>6. r.status \in [Threads -> Status]
    BY <2>4 DEF KernelType
  <2>7. ASSUME NEW t \in Threads
        PROVE  f[n].status[t] = IF \E i \in 1 .. n : q[i] = t THEN "PENDING" ELSE s.status[t]
    <3>1. f[n].status[t] = IF t = u THEN "PENDING" ELSE r.status[t]
      BY <2>5, <2>6
    <3>2. (\E i \in 1 .. n : q[i] = t) <=> (\E i \in 1 .. n - 1 : q[i] = t) \/ t = u
      BY <2>1 DEF u
    <3> QED BY <2>2, <3>1, <3>2
  <2> QED BY <2>2, <2>5, <2>7
<1>5. Bad = {}
  <2>1. Bad \in SUBSET (0 .. L)
    OBVIOUS
  <2> HIDE DEF Bad
  <2> QED BY <1>1, <1>3, <1>4, <2>1, UpTo
<1>6. Good(L)
  <2>1. L \in 0 .. L
    BY <1>1
  <2> HIDE DEF Good
  <2> QED BY <1>5, <2>1
<1>7. \A t : t \in Elems(q) <=> \E i \in 1 .. L : q[i] = t
  BY DEF Elems
<1> QED BY <1>2, <1>6, <1>7

-----------------------------------------------------------------------------
(* The invariant                                                            *)

(* Where a thread is in the function around a mutex call tells where it is  *)
(* in the call, and which mutexes it holds: between two calls of the        *)
(* condition's user the mutex lock, except in cond_wait() and in between    *)
(* the second call and its return.                                          *)
InPlace(t) ==
  LET d == doing[t].at
      p == pc[t].at
  IN /\ p \in {"run", "block", "woken", "yield"}
     /\ p \in {"block", "woken"} => ~pc[t].mc
     /\ d \in {"test", "add"} => IF p = "run" THEN lock \in held[t] ELSE InCall(t, lock)
     /\ d \in {"signal", "switch", "leave", "wait"} => p = "run" /\ lock \in held[t]
     /\ d = "store" => IF p = "run" THEN rec \in held[t] ELSE InCall(t, rec) /\ nest[t] = 0
     /\ d \in {"load", "tryload", "await", "count", "reset", "release"} => p = "run"
     /\ d \in {"app", "relock"} => p \in {"run", "yield"}

(* A thread holds rec while it has something to unlock, and in the steps    *)
(* before it counts and after it has counted down. The owner is named from  *)
(* the store to the reset, and the counter is the holder's.                 *)
Counted(t) ==
  LET d == doing[t].at
  IN /\ rec \in held[t] <=> \/ nest[t] > 0 \/ d \in {"count", "reset", "release"}
                            \/ d = "store" /\ pc[t].at = "run"
     /\ nest[t] > 0 => rm.owner = t
     /\ rm.owner = t => rec \in held[t] /\ d # "release"
     /\ rec \in held[t] => rm.refcount = nest[t]
     /\ d \in {"reset", "release", "await"} => nest[t] = 0
     /\ d = "count" => rm.owner = t
     /\ d \in {"load", "tryload", "await", "store", "count"} => nest[t] < MaxDepth

Unused == (\A t \in Threads : rec \notin held[t]) => rm.refcount = 0

(* The waiters of the condition are in cond_wait(); who enters it has just  *)
(* seen that there is no item.                                              *)
Waits ==
  /\ Once(waiting)
  /\ \A t \in Threads : t \in Waiting <=> k.status[t] = "COND_BLOCKED"
  /\ \A t \in Waiting : doing[t].at = "relock"
  /\ \A t \in Threads : doing[t].at = "wait" => items = 0

MonitorTypes ==
  /\ waiting \in Seq(Threads)
  /\ items \in 0 .. MaxItems /\ nest \in [Threads -> 0 .. MaxDepth]
  /\ rm \in [owner : Threads \cup {NoThread}, refcount : 0 .. MaxDepth]
  /\ doing \in [Threads -> Doing]

MonitorInv ==
  /\ MutexInv /\ MonitorTypes /\ Waits /\ NoLostWakeup /\ Unused
  /\ \A t \in Threads : InPlace(t) /\ Counted(t)

-----------------------------------------------------------------------------
(* What the steps of module Mutex leave alone                               *)

(* Nobody begins or ends to wait for the condition, and without priority    *)
(* inheritance no priority changes.                                         *)
SameWaits ==
  /\ \A u \in Threads : k'.status[u] = "COND_BLOCKED" <=> k.status[u] = "COND_BLOCKED"
  /\ ~PI => k'.prio = k.prio

(* Nobody begins or ends to wait for a mutex, but the threads of S.         *)
SameBlocked(S) == \A u \in Threads \ S :
  k'.status[u] = "MUTEX_BLOCKED" <=> k.status[u] = "MUTEX_BLOCKED"

SameOthers(t) == \A u \in Threads \ {t} : pc'[u] = pc[u] /\ held'[u] = held[u]

(* sched_run() changes no priority, and no status of a blocked thread.      *)
LEMMA RunKeeps ==
  ASSUME MutexInv, PendSV \/ EndIdle
  PROVE  SameWaits /\ SameBlocked({}) /\ UNCHANGED <<mtx, mc, pc, held>>
<1>1. KernelInv(k)
  BY DEF MutexInv
<1>2. \A u \in Threads : /\ k'.status[u] \in OnRunqueue <=> k.status[u] \in OnRunqueue
                         /\ k'.status[u] \notin OnRunqueue => k'.status[u] = k.status[u]
  <2>1. CASE PendSV
    BY <1>1, <2>1, SchedRunEffect DEF PendSV
  <2>2. CASE EndIdle
    BY <1>1, <2>2, DispatchEffect DEF EndIdle, IdleReturn
  <2> QED BY <2>1, <2>2
<1>3. \A u \in Threads : \A v \in {"COND_BLOCKED", "MUTEX_BLOCKED"} :
        k'.status[u] = v <=> k.status[u] = v
  BY <1>2 DEF OnRunqueue
<1>4. k'.prio = k.prio
  BY <1>1, RunPrio
<1> QED BY <1>3, <1>4 DEF SameWaits, SameBlocked, PendSV, EndIdle

(* A lock call takes a mutex that nobody holds, or blocks for it.           *)
LEMMA LockEffect ==
  ASSUME MutexInv, NEW t \in Threads, NEW m \in Mutexes, LockFree(t, m) \/ LockBlocks(t, m)
  PROVE  /\ MutexInv' /\ SameWaits /\ SameOthers(t)
         /\ Executes(k, t) /\ pc[t].at = "run" /\ m \notin held[t]
         /\ SameBlocked({t}) /\ k.status[t] # "MUTEX_BLOCKED"
         /\ \/ /\ pc'[t] = pc[t] /\ held'[t] = held[t] \cup {m}
               /\ \A u \in Threads : m \notin held[u]
            \/ /\ pc'[t].at = "block" /\ pc'[t].mutex = m /\ ~pc'[t].mc
               /\ held'[t] = held[t] /\ k'.status[t] = "MUTEX_BLOCKED"
<1>0. m \in All
  BY DEF All
<1>1. MutexInv'
  BY <1>0, LockKeeps
<1>2. KernelInv(k) /\ TypeOK /\ k.status[t] # "MUTEX_BLOCKED"
  BY Working DEF MutexInv, LockFree, LockBlocks, Calling, At
<1>3. CASE LockFree(t, m)
  <2>1. \A u \in Threads : m \notin held[u]
    BY <1>3 DEF LockFree, MutexInv, Owned, Owner
  <2>2. UNCHANGED <<k, pc>> /\ held' = [held EXCEPT ![t] = held[t] \cup {m}]
    BY <1>3 DEF LockFree, Keep
  <2> QED BY <1>1, <1>2, <1>3, <2>1, <2>2 DEF LockFree, Calling, At, TypeOK, SameWaits,
                                                SameBlocked, SameOthers
<1>4. CASE LockBlocks(t, m)
  <2> DEFINE blocked == SetStatus(k, t, "MUTEX_BLOCKED")
  <2>1. /\ Executes(k, t) /\ pc[t].at = "run" /\ m \notin held[t] /\ held' = held
        /\ k' = Inherit(blocked, mtx[m], t)
        /\ pc' = [pc EXCEPT ![t] = [at |-> "block", mutex |-> m, mc |-> FALSE]]
    BY <1>4 DEF LockBlocks, Block, Calling, At, Go
  <2>2. /\ KernelInv(blocked) /\ blocked.prio = k.prio
        /\ \A u \in Threads :
             blocked.status[u] = IF u = t THEN "MUTEX_BLOCKED" ELSE k.status[u]
    BY <1>2, StatusSet, KernelTypes
  <2>3. k.status[t] # "COND_BLOCKED"
    BY <2>1, Working DEF IsActive, OnRunqueue
  <2> HIDE DEF blocked
  <2>4. k'.status = blocked.status /\ (~PI => k' = blocked)
    <3>1. mtx[m].owner \in Threads \cup {NoThread} /\ blocked.prio[t] \in Prios
      BY <1>0, <1>2, <2>2 DEF TypeOK, KernelInv, KernelType
    <3>2. \/ k' = blocked
          \/ PI /\ \E u \in Threads, p \in Prios : k' = ChangePriority(blocked, u, p)
      BY <2>1, <3>1 DEF Inherit
    <3> QED BY <2>2, <3>2, ChangePriorityEffect
  <2>5. SameWaits
    BY <2>2, <2>3, <2>4 DEF SameWaits
  <2>6. SameOthers(t) /\ pc'[t] = [at |-> "block", mutex |-> m, mc |-> FALSE]
    BY <1>2, <2>1 DEF TypeOK, SameOthers
  <2>7. SameBlocked({t}) /\ k'.status[t] = "MUTEX_BLOCKED"
    BY <2>2, <2>4 DEF SameBlocked
  <2> QED BY <1>1, <1>2, <2>1, <2>5, <2>6, <2>7
<1> QED BY <1>3, <1>4

(* An unlock gives the mutex up and changes no wait for the condition.      *)
LEMMA UnlockEffect ==
  ASSUME MutexInv, NEW t \in Threads, NEW m \in Mutexes, ThreadUnlock(t, m)
  PROVE  /\ MutexInv' /\ SameWaits /\ SameOthers(t)
         /\ Executes(k, t) /\ m \in held[t] /\ pc'[t].at \in {"run", "yield"}
         /\ held'[t] = held[t] \ {m}
         /\ IF mtx[m].queue = <<>> THEN SameBlocked({})
            ELSE LET w == Head(mtx[m].queue)
                 IN w \in Waiters(m) /\ k'.status[w] # "MUTEX_BLOCKED" /\ SameBlocked({w})
<1> DEFINE n == Wake(k, mtx[m])
<1>1. MutexInv' /\ m \in All /\ TypeOK
  BY ThreadUnlockKeeps DEF All, MutexInv
<1>2. /\ Executes(k, t) /\ m \in held[t] /\ held' = [held EXCEPT ![t] = held[t] \ {m}]
      /\ \E p \in {"run", "yield"} : pc' = [pc EXCEPT ![t] = Simple(p)]
      /\ k' = (IF mtx[m].queue = <<>> THEN k ELSE Restore(n, mtx[m]))
  BY DEF ThreadUnlock, Calling, At, Unlock, Go
<1>3. SameOthers(t) /\ held'[t] = held[t] \ {m} /\ pc'[t].at \in {"run", "yield"}
  BY <1>1, <1>2 DEF TypeOK, SameOthers, Simple
<1>4. SameWaits /\ IF mtx[m].queue = <<>> THEN SameBlocked({})
                   ELSE LET w == Head(mtx[m].queue)
                        IN /\ w \in Waiters(m) /\ k'.status[w] # "MUTEX_BLOCKED"
                           /\ SameBlocked({w})
  <2>1. CASE mtx[m].queue = <<>>
    BY <1>2, <2>1 DEF SameWaits, SameBlocked
  <2>2. CASE mtx[m].queue # <<>>
    <3> DEFINE w == Head(mtx[m].queue)
    <3>1. w \in Threads /\ k.status[w] = "MUTEX_BLOCKED" /\ w \in Waiters(m)
      BY <1>1, <2>2, FirstWaiter
    <3>2. n = SetStatus(k, w, "PENDING")
      BY <2>2 DEF Wake
    <3>3. KernelInv(k) /\ "PENDING" \in Status \ {"RUNNING"}
      BY KernelTypes DEF MutexInv
    <3> HIDE DEF n, w
    <3>4. /\ KernelInv(n) /\ n.prio = k.prio
          /\ \A u \in Threads : n.status[u] = IF u = w THEN "PENDING" ELSE k.status[u]
      BY <3>1, <3>2, <3>3, StatusSet
    <3>5. k'.status = n.status
      BY <1>1, <1>2, <2>2, <3>4, RestoreEffect
    <3>6. ~PI => k' = n
      BY <1>2, <2>2 DEF Restore
    <3>7. SameWaits /\ k'.status[w] # "MUTEX_BLOCKED" /\ SameBlocked({w})
      BY <3>1, <3>4, <3>5, <3>6 DEF SameWaits, SameBlocked
    <3> QED BY <2>2, <3>1, <3>7 DEF w
  <2> QED BY <2>1, <2>2
<1> QED BY <1>1, <1>2, <1>3, <1>4

(* A lock call that blocked returns with the mutex, which nobody else has.  *)
LEMMA ReturnEffect ==
  ASSUME MutexInv, NEW t \in Threads, Return(t), ~pc[t].mc
  PROVE  /\ MutexInv' /\ SameWaits /\ SameOthers(t)
         /\ pc[t].at = "woken" /\ pc'[t].at = "run" /\ pc[t].mutex \in All
         /\ held'[t] = held[t] \cup ({pc[t].mutex} \cap Mutexes)
         /\ pc[t].mutex \in Mutexes => \A u \in Threads \ {t} : pc[t].mutex \notin held[u]
         /\ SameBlocked({}) /\ k.status[t] # "MUTEX_BLOCKED"
<1>1. MutexInv'
  BY ReturnKeeps
<1>2. /\ Executes(k, t) /\ pc[t].at = "woken" /\ UNCHANGED k
      /\ pc' = [pc EXCEPT ![t] = Simple("run")]
      /\ held' = [held EXCEPT ![t] = held[t] \cup ({pc[t].mutex} \cap Mutexes)]
  BY DEF Return, At, Go, Keep
<1>3. pc[t].mutex \in All
  BY <1>2 DEF MutexInv, TypeOK, Places, Simple
<1>4. Granted(t, pc[t].mutex)
  BY <1>2, <1>3, Working DEF Granted, InCall
<1>5. pc[t].mutex \in Mutexes => \A u \in Threads \ {t} : pc[t].mutex \notin held[u]
  BY <1>4 DEF MutexInv, Owned, Owner
<1>6. k.status[t] # "MUTEX_BLOCKED"
  BY <1>2, Working
<1> QED BY <1>1, <1>2, <1>3, <1>5, <1>6 DEF MutexInv, TypeOK, Simple, SameWaits, SameBlocked,
                                            SameOthers

(* A yield leaves the thread in its call, or ends it.                       *)
LEMMA YieldsEffect ==
  ASSUME MutexInv, NEW t \in Threads, DoYield(t)
  PROVE  /\ MutexInv' /\ SameWaits /\ SameBlocked({}) /\ SameOthers(t) /\ held' = held
         /\ IF pc[t].at = "block"
            THEN pc'[t].at = "woken" /\ pc'[t].mutex = pc[t].mutex /\ pc'[t].mc = pc[t].mc
            ELSE pc[t].at = "yield" /\ pc'[t].at = "run"
<1>1. MutexInv'
  BY DoYieldKeeps
<1>2. /\ pc[t].at \in {"block", "yield"} /\ k' = YieldHigher(k) /\ KernelInv(k) /\ held' = held
      /\ pc' = [pc EXCEPT ![t] = IF pc[t].at = "block" THEN [pc[t] EXCEPT !.at = "woken"]
                                 ELSE Simple("run")]
      /\ pc \in [Threads -> Places]
  BY DEF DoYield, MutexInv, TypeOK, Go
<1>3. SameWaits /\ SameBlocked({})
  BY <1>2, YieldEffect, PrioKept DEF SameWaits, SameBlocked
<1>4. SameOthers(t)
  BY <1>2 DEF SameOthers
<1>5. CASE pc[t].at = "block"
  <2>1. pc[t] \in [at : {"block", "woken"}, mutex : All, mc : BOOLEAN]
    BY <1>2, <1>5 DEF Places, Simple
  <2>2. pc'[t] = [pc[t] EXCEPT !.at = "woken"]
    BY <1>2, <1>5
  <2> QED BY <1>1, <1>2, <1>3, <1>4, <1>5, <2>1, <2>2
<1>6. CASE pc[t].at = "yield"
  BY <1>1, <1>2, <1>3, <1>4, <1>6 DEF Simple
<1> QED BY <1>2, <1>5, <1>6

(* thread_sleep() and thread_wakeup() concern no thread that waits.         *)
LEMMA SleepEffect ==
  ASSUME MutexInv, NEW t \in Threads, Sleep(t)
  PROVE  /\ MutexInv' /\ SameWaits /\ SameBlocked({}) /\ SameOthers(t) /\ held' = held
         /\ pc[t].at = "run" /\ pc'[t].at = "yield"
<1>1. MutexInv'
  BY SleepKeeps
<1>2. /\ pc[t].at = "run" /\ Executes(k, t) /\ k' = SetStatus(k, t, "SLEEPING") /\ held' = held
      /\ pc' = [pc EXCEPT ![t] = Simple("yield")]
  BY DEF Sleep, At, Go
<1>3. /\ KernelInv(k) /\ "SLEEPING" \in Status \ {"RUNNING"}
      /\ k.status[t] \notin {"COND_BLOCKED", "MUTEX_BLOCKED"}
  BY <1>2, Working, KernelTypes DEF MutexInv, IsActive, OnRunqueue
<1>4. k'.prio = k.prio /\ \A u \in Threads :
        k'.status[u] = IF u = t THEN "SLEEPING" ELSE k.status[u]
  BY <1>2, <1>3, StatusSet
<1>5. SameWaits /\ SameBlocked({})
  BY <1>3, <1>4 DEF SameWaits, SameBlocked
<1> QED BY <1>1, <1>2, <1>5 DEF MutexInv, TypeOK, SameOthers, Simple

LEMMA WakeupEffect ==
  ASSUME MutexInv, NEW t \in Threads, IsrWakeup(t)
  PROVE  MutexInv' /\ SameWaits /\ SameBlocked({}) /\ UNCHANGED <<pc, held>>
<1> DEFINE n == SetStatus(k, t, "PENDING")
<1>1. MutexInv'
  BY IsrWakeupKeeps
<1>2. /\ k.status[t] = "SLEEPING" /\ UNCHANGED <<pc, held>>
      /\ \E test \in BOOLEAN : k' = IsrSwitch(n, test)
  BY DEF IsrWakeup, SwitchTests
<1>3. KernelInv(k) /\ "PENDING" \in Status \ {"RUNNING"}
  BY KernelTypes DEF MutexInv
<1>4. KernelInv(n) /\ n.prio = k.prio /\ \A u \in Threads :
        n.status[u] = IF u = t THEN "PENDING" ELSE k.status[u]
  BY <1>3, StatusSet
<1> HIDE DEF n
<1>5. k'.status = n.status /\ k'.prio = n.prio
  BY <1>2, <1>4, SwitchEffect, PrioKept
<1> QED BY <1>1, <1>2, <1>4, <1>5 DEF SameWaits, SameBlocked

-----------------------------------------------------------------------------
(* What a step of one thread leaves alone                                   *)

(* A thread goes on to another place of its function.                       *)
LEMMA DoEffect ==
  ASSUME MonitorTypes, NEW t \in Threads, NEW p \in Doing, Do(t, p)
  PROVE  /\ doing' \in [Threads -> Doing] /\ doing'[t] = p
         /\ \A u \in Threads \ {t} : doing'[u] = doing[u]
BY DEF MonitorTypes, Do

(* The places of the other threads are the same.                            *)
LEMMA PlacesKept ==
  ASSUME NEW t \in Threads, \A u \in Threads : InPlace(u), InPlace(t)', SameOthers(t),
         \A u \in Threads \ {t} : doing'[u] = doing[u] /\ nest'[u] = nest[u]
  PROVE  \A u \in Threads : InPlace(u)'
<1> TAKE u \in Threads
<1>1. CASE u = t
  BY <1>1
<1>2. CASE u # t
  BY <1>2 DEF InPlace, SameOthers, InCall
<1> QED BY <1>1, <1>2

(* A step that has nothing to do with the condition.                        *)
AtCondition == {"relock", "test", "signal", "wait"}
LEMMA WaitsKept ==
  ASSUME MonitorTypes, Waits, NoLostWakeup, SameWaits, UNCHANGED <<waiting, items>>,
         \A u \in Threads : \/ doing'[u].at = doing[u].at
                            \/ doing[u].at \notin AtCondition /\ doing'[u].at \notin AtCondition
  PROVE  Waits' /\ NoLostWakeup'
<1>1. Waiting' = Waiting
  BY DEF Waiting
<1>2. \A u \in Threads : \A p \in AtCondition : doing'[u].at = p <=> doing[u].at = p
  OBVIOUS
<1>3. OnTheWay' = OnTheWay
  BY <1>1, <1>2 DEF OnTheWay, AtCondition
<1>4. NoLostWakeup'
  BY <1>3 DEF NoLostWakeup
<1>5. \A u \in Threads : /\ doing[u].at = "relock" => doing'[u].at = "relock"
                         /\ doing'[u].at = "wait" => doing[u].at = "wait"
  BY <1>2 DEF AtCondition
<1>6. Waiting \subseteq Threads
  BY ElemsEmpty DEF MonitorTypes, Waiting
<1>7. Waits'
  BY <1>1, <1>5, <1>6 DEF Waits, SameWaits
<1> QED BY <1>4, <1>7

(* A step that has nothing to do with the recursive mutex.                  *)
AtRecursive == {"load", "tryload", "await", "store", "count", "reset", "release"}
LEMMA CountsKept ==
  ASSUME \A u \in Threads : Counted(u), Unused, UNCHANGED <<rm, nest>>,
         \A u \in Threads : rec \in held'[u] <=> rec \in held[u],
         \A u \in Threads :
           \/ /\ doing'[u].at = doing[u].at
              /\ doing[u].at = "store" => (pc'[u].at = "run" <=> pc[u].at = "run")
           \/ doing[u].at \notin AtRecursive /\ doing'[u].at \notin AtRecursive
  PROVE  Unused' /\ \A u \in Threads : Counted(u)'
<1>1. Unused'
  BY DEF Unused
<1>2. ASSUME NEW u \in Threads
      PROVE  Counted(u)'
  <2>1. CASE /\ doing'[u].at = doing[u].at
             /\ doing[u].at = "store" => (pc'[u].at = "run" <=> pc[u].at = "run")
    BY <2>1 DEF Counted
  <2>2. CASE doing[u].at \notin AtRecursive /\ doing'[u].at \notin AtRecursive
    BY <2>2 DEF Counted, AtRecursive
  <2> QED BY <2>1, <2>2
<1> QED BY <1>1, <1>2

(* A step of the thread that has the recursive mutex, or takes it.          *)
LEMMA CountsOthers ==
  ASSUME \A u \in Threads : Counted(u), NEW t \in Threads, Counted(t)', SameOthers(t),
         \A u \in Threads \ {t} : /\ doing'[u] = doing[u] /\ nest'[u] = nest[u]
                                  /\ rec \notin held[u],
         rm'.owner \in {rm.owner, t, NoThread}
  PROVE  \A u \in Threads : Counted(u)'
<1> TAKE u \in Threads
<1>1. CASE u = t
  BY <1>1
<1>2. CASE u # t
  <2>1. rm'.owner = u => rm.owner = u
    BY <1>2, KernelAssumption
  <2>2. Counted(u) /\ rec \notin held[u] /\ held'[u] = held[u] /\ pc'[u] = pc[u]
        /\ doing'[u] = doing[u] /\ nest'[u] = nest[u]
    BY <1>2 DEF SameOthers
  <2> QED BY <2>1, <2>2 DEF Counted
<1> QED BY <1>1, <1>2

(* One thread has the mutex.                                                *)
LEMMA OneHolder ==
  ASSUME MutexInv, NEW m \in Mutexes, NEW t \in Threads, m \in held[t]
  PROVE  \A u \in Threads \ {t} : m \notin held[u]
BY DEF MutexInv, Owned, Owner

(* Between two mutex calls the state of module Mutex does not change.       *)
LEMMA MutexUnchanged ==
  ASSUME MutexInv, UNCHANGED vars
  PROVE  MutexInv' /\ SameWaits /\ \A t \in Threads : SameOthers(t)
BY DEF vars, MutexInv, TypeOK, Lists, Owned, Owner, Rests, AtWork, Cancelling,
       Waiters, InCall, Granted, SameWaits, SameOthers

(* The two mutexes are different ones of the kernel's.                      *)
LEMMA TheMutexes == lock \in Mutexes /\ rec \in Mutexes /\ lock # rec
                    /\ MaxItems \in Nat \ {0} /\ MaxDepth \in Nat \ {0}
BY MonitorAssumption DEF MonitorAssumption

-----------------------------------------------------------------------------
(* The recursive mutex                                                      *)

(* The mutex_lock() or mutex_trylock() inside, of a thread whose next step  *)
(* is the store of the owner.                                               *)
LEMMA RecLockKeeps ==
  ASSUME MonitorInv, NEW t \in Threads, LockFree(t, rec) \/ LockBlocks(t, rec),
         doing[t].at \in {"app", "await"}, nest[t] < MaxDepth,
         LockBlocks(t, rec) => nest[t] = 0, Do(t, Simple("store")),
         UNCHANGED <<waiting, rm, items, nest>>
  PROVE  MonitorInv'
<1>1. Simple("store") \in Doing /\ Simple("store").at = "store"
  BY DEF Doing, Simple
<1>2. /\ MutexInv' /\ SameWaits /\ SameOthers(t)
      /\ pc[t].at = "run" /\ rec \notin held[t]
      /\ \/ /\ pc'[t] = pc[t] /\ held'[t] = held[t] \cup {rec}
            /\ \A u \in Threads : rec \notin held[u]
         \/ /\ pc'[t].at = "block" /\ pc'[t].mutex = rec /\ ~pc'[t].mc
            /\ held'[t] = held[t]
  BY LockEffect, TheMutexes DEF MonitorInv
<1>3. /\ doing' \in [Threads -> Doing] /\ doing'[t].at = "store"
      /\ \A u \in Threads \ {t} : doing'[u] = doing[u] /\ nest'[u] = nest[u]
  BY <1>1, DoEffect DEF MonitorInv
<1>4. nest[t] = 0 /\ nest'[t] = 0
  <2>1. nest[t] \in Nat /\ ~(nest[t] > 0)
    BY <1>2 DEF MonitorInv, Counted, MonitorTypes
  <2> QED BY <2>1
<1>5. MonitorTypes'
  BY <1>3 DEF MonitorInv, MonitorTypes
<1>6. \A u \in Threads : InPlace(u)'
  <2>1. InPlace(t)'
    BY <1>2, <1>3, <1>4 DEF InPlace, InCall
  <2> QED BY <1>2, <1>3, <2>1, PlacesKept DEF MonitorInv
<1>7. Waits' /\ NoLostWakeup'
  <2>1. \A u \in Threads : \/ doing'[u].at = doing[u].at
                           \/ doing[u].at \notin AtCondition /\ doing'[u].at \notin AtCondition
    BY <1>3 DEF AtCondition
  <2> QED BY <1>2, <2>1, WaitsKept DEF MonitorInv
<1>8. Unused' /\ \A u \in Threads : Counted(u)'
  <2>1. CASE /\ pc'[t] = pc[t] /\ held'[t] = held[t] \cup {rec}
             /\ \A u \in Threads : rec \notin held[u]
    <3>1. rm.refcount = 0 /\ rm.owner # t
      BY <2>1 DEF MonitorInv, Unused, Counted
    <3>2. Counted(t)'
      BY <1>2, <1>3, <1>4, <2>1, <3>1 DEF Counted
    <3>3. Unused'
      BY <2>1 DEF Unused
    <3> QED BY <1>2, <1>3, <2>1, <3>2, <3>3, CountsOthers DEF MonitorInv
  <2>2. CASE pc'[t].at = "block" /\ held'[t] = held[t]
    <3>1. rm.owner # t
      BY <1>2 DEF MonitorInv, Counted
    <3>2. Counted(t)'
      BY <1>2, <1>3, <1>4, <2>2, <3>1 DEF Counted
    <3>3. \A u \in Threads \ {t} : Counted(u)'
      BY <1>2, <1>3 DEF MonitorInv, Counted, SameOthers
    <3>4. Unused'
      BY <1>2, <2>2 DEF MonitorInv, Unused, SameOthers
    <3> QED BY <3>2, <3>3, <3>4
  <2> QED BY <1>2, <2>1, <2>2
<1> QED BY <1>2, <1>5, <1>6, <1>7, <1>8 DEF MonitorInv

(* A step between the mutex calls. Only the holder changes owner or counter. *)
LEMMA RecMoves ==
  ASSUME MonitorInv, NEW t \in Threads, UNCHANGED <<vars, waiting, items>>,
         NEW p \in Doing, Do(t, p), p.at \notin AtCondition, doing[t].at \notin AtCondition,
         rm' \in [owner : Threads \cup {NoThread}, refcount : 0 .. MaxDepth],
         nest' \in [Threads -> 0 .. MaxDepth],
         \A u \in Threads \ {t} : nest'[u] = nest[u],
         rm' = rm \/ (rec \in held[t] /\ rm'.owner \in {rm.owner, t, NoThread}),
         InPlace(t)', Counted(t)'
  PROVE  MonitorInv'
<1>1. MutexInv' /\ SameWaits /\ SameOthers(t) /\ held' = held
  BY MutexUnchanged DEF MonitorInv, vars
<1>2. /\ doing' \in [Threads -> Doing] /\ doing'[t] = p
      /\ \A u \in Threads \ {t} : doing'[u] = doing[u]
  BY DoEffect DEF MonitorInv
<1>3. MonitorTypes'
  BY <1>2 DEF MonitorInv, MonitorTypes
<1>4. \A u \in Threads : InPlace(u)'
  BY <1>1, <1>2, PlacesKept DEF MonitorInv
<1>5. Waits' /\ NoLostWakeup'
  <2>1. \A u \in Threads : \/ doing'[u].at = doing[u].at
                           \/ doing[u].at \notin AtCondition /\ doing'[u].at \notin AtCondition
    BY <1>2
  <2> QED BY <1>1, <2>1, WaitsKept DEF MonitorInv
<1>6. Unused' /\ \A u \in Threads : Counted(u)'
  <2>1. CASE rm' = rm
    <3>1. \A u \in Threads \ {t} : Counted(u)'
      BY <1>1, <1>2, <2>1 DEF MonitorInv, Counted, SameOthers
    <3> QED BY <1>1, <2>1, <3>1 DEF MonitorInv, Unused
  <2>2. CASE rec \in held[t] /\ rm'.owner \in {rm.owner, t, NoThread}
    <3>1. \A u \in Threads \ {t} : rec \notin held[u]
      BY <2>2, OneHolder, TheMutexes DEF MonitorInv
    <3>2. Unused'
      BY <1>1, <2>2 DEF Unused
    <3> QED BY <1>1, <1>2, <2>2, <3>1, <3>2, CountsOthers DEF MonitorInv
  <2> QED BY <2>1, <2>2
<1> QED BY <1>1, <1>3, <1>4, <1>5, <1>6 DEF MonitorInv

(* The places between the mutex calls are places.                           *)
LEMMA SimplePlaces ==
  ASSUME NEW p \in {"app", "test", "wait", "relock", "add", "signal", "leave",
                    "load", "tryload", "await", "store", "count", "reset", "release"}
  PROVE  Simple(p) \in Doing /\ Simple(p).at = p
BY DEF Doing, Simple

LEMMA AtSomePlace ==
  ASSUME MonitorInv, NEW t \in Threads
  PROVE  doing[t].at \in {"app", "test", "wait", "relock", "add", "signal", "leave", "load",
                          "tryload", "await", "store", "count", "reset", "release", "switch"}
<1>1. doing[t] \in Doing
  BY DEF MonitorInv, MonitorTypes
<1> QED BY <1>1 DEF Doing, Simple

(* rmutex_lock() and rmutex_trylock() of a thread: the attempt.             *)
LEMMA RecTryKeeps ==
  ASSUME MonitorInv, NEW t \in Threads, NEW trylock \in BOOLEAN, RecTry(t, trylock)
  PROVE  MonitorInv'
<1>1. /\ pc[t].at = "run" /\ doing[t].at = "app" /\ nest[t] < MaxDepth
      /\ UNCHANGED <<waiting, rm, items, nest>>
  BY DEF RecTry, Outside, At
<1>2. CASE LockFree(t, rec) /\ Do(t, Simple("store"))
  <2>1. LockBlocks(t, rec) => FALSE
    BY <1>2 DEF LockFree, LockBlocks
  <2> QED BY <1>1, <1>2, <2>1, RecLockKeeps
<1>3. CASE UNCHANGED vars /\ Do(t, Simple(IF trylock THEN "tryload" ELSE "load"))
  <2>1. PICK p \in {"tryload", "load"} : Do(t, Simple(p))
    BY <1>3
  <2>2. Simple(p) \in Doing /\ Simple(p).at = p
    BY SimplePlaces
  <2>3. doing'[t] = Simple(p)
    BY <2>1, <2>2, DoEffect DEF MonitorInv
  <2>4. pc' = pc /\ held' = held
    BY <1>3 DEF vars
  <2>5. InPlace(t)'
    BY <1>1, <2>2, <2>3, <2>4 DEF MonitorInv, InPlace
  <2>6. Counted(t)'
    BY <1>1, <2>2, <2>3, <2>4 DEF MonitorInv, Counted
  <2> QED BY <1>1, <1>3, <2>1, <2>2, <2>5, <2>6, RecMoves DEF MonitorInv, MonitorTypes, AtCondition
<1> QED BY <1>2, <1>3 DEF RecTry

(* The load of the owner after a failed attempt.                            *)
LEMMA RecLoadKeeps ==
  ASSUME MonitorInv, NEW t \in Threads, RecLoad(t)
  PROVE  MonitorInv'
<1>1. /\ pc[t].at = "run" /\ doing[t].at \in {"load", "tryload"}
      /\ UNCHANGED <<vars, waiting, rm, items, nest>> /\ pc' = pc /\ held' = held
  BY DEF RecLoad, Outside, At, vars
<1>2. PICK p \in {"store", "await", "app"} :
        Do(t, Simple(p)) /\ (p = "store" <=> rm.owner = t)
  BY DEF RecLoad
<1>3. Simple(p) \in Doing /\ Simple(p).at = p
  BY SimplePlaces
<1>4. doing'[t] = Simple(p)
  BY <1>2, <1>3, DoEffect DEF MonitorInv
<1>5. p # "store" => ~(nest[t] > 0) /\ nest[t] = 0
  BY <1>2 DEF MonitorInv, Counted, MonitorTypes
<1>6. InPlace(t)'
  BY <1>1, <1>2, <1>3, <1>4 DEF MonitorInv, InPlace, Counted
<1>7. Counted(t)'
  BY <1>1, <1>2, <1>3, <1>4, <1>5 DEF MonitorInv, Counted
<1> QED BY <1>1, <1>2, <1>3, <1>6, <1>7, RecMoves DEF MonitorInv, MonitorTypes, AtCondition

(* The store of the owner.                                                  *)
LEMMA RecStoreKeeps ==
  ASSUME MonitorInv, NEW t \in Threads, RecStore(t)
  PROVE  MonitorInv'
<1>1. /\ pc[t].at = "run" /\ doing[t].at = "store" /\ Do(t, Simple("count"))
      /\ UNCHANGED <<vars, waiting, items, nest>> /\ pc' = pc /\ held' = held
      /\ rm' = [rm EXCEPT !.owner = t]
  BY DEF RecStore, Outside, At, vars
<1>2. Simple("count") \in Doing /\ Simple("count").at = "count"
  BY SimplePlaces
<1>3. doing'[t] = Simple("count")
  BY <1>1, <1>2, DoEffect DEF MonitorInv
<1>4. /\ rm' \in [owner : Threads \cup {NoThread}, refcount : 0 .. MaxDepth]
      /\ rm'.owner = t /\ rm'.refcount = rm.refcount
  BY <1>1 DEF MonitorInv, MonitorTypes
<1>5. rec \in held[t]
  BY <1>1 DEF MonitorInv, InPlace
<1>6. InPlace(t)'
  BY <1>1, <1>2, <1>3 DEF MonitorInv, InPlace
<1>7. Counted(t)'
  BY <1>1, <1>2, <1>3, <1>4, <1>5 DEF MonitorInv, Counted
<1> QED BY <1>1, <1>2, <1>4, <1>5, <1>6, <1>7, RecMoves DEF MonitorInv, MonitorTypes, AtCondition

(* The increment of the counter.                                            *)
LEMMA RecCountKeeps ==
  ASSUME MonitorInv, NEW t \in Threads, RecCount(t)
  PROVE  MonitorInv'
<1>1. /\ pc[t].at = "run" /\ doing[t].at = "count" /\ Do(t, Simple("app"))
      /\ UNCHANGED <<vars, waiting, items>> /\ pc' = pc /\ held' = held
      /\ rm' = [rm EXCEPT !.refcount = rm.refcount + 1]
      /\ nest' = [nest EXCEPT ![t] = nest[t] + 1]
  BY DEF RecCount, Outside, At, vars
<1>2. Simple("app") \in Doing /\ Simple("app").at = "app"
  BY SimplePlaces
<1>3. doing'[t] = Simple("app")
  BY <1>1, <1>2, DoEffect DEF MonitorInv
<1>4. /\ rec \in held[t] /\ rm.owner = t /\ rm.refcount = nest[t] /\ nest[t] < MaxDepth
      /\ nest[t] \in 0 .. MaxDepth /\ MaxDepth \in Nat
  BY <1>1, TheMutexes DEF MonitorInv, Counted, MonitorTypes
<1>5. nest[t] + 1 \in 0 .. MaxDepth /\ nest[t] + 1 > 0
  BY <1>4
<1>6. /\ rm' \in [owner : Threads \cup {NoThread}, refcount : 0 .. MaxDepth]
      /\ rm'.owner = t /\ rm'.refcount = nest[t] + 1
  BY <1>1, <1>4, <1>5 DEF MonitorInv, MonitorTypes
<1>7. /\ nest' \in [Threads -> 0 .. MaxDepth] /\ nest'[t] = nest[t] + 1
      /\ \A u \in Threads \ {t} : nest'[u] = nest[u]
  BY <1>1, <1>5 DEF MonitorInv, MonitorTypes
<1>8. InPlace(t)'
  BY <1>1, <1>2, <1>3 DEF MonitorInv, InPlace
<1>9. Counted(t)'
  BY <1>1, <1>2, <1>3, <1>4, <1>5, <1>6, <1>7 DEF MonitorInv, Counted
<1> QED BY <1>1, <1>2, <1>4, <1>6, <1>7, <1>8, <1>9, RecMoves DEF AtCondition

(* rmutex_unlock(): the counter is the caller's own, and the last decrement *)
(* goes on to the reset of the owner.                                       *)
LEMMA RecUnlockKeeps ==
  ASSUME MonitorInv, NEW t \in Threads, RecUnlock(t)
  PROVE  MonitorInv'
<1>1. /\ pc[t].at = "run" /\ doing[t].at = "app" /\ nest[t] > 0
      /\ Do(t, Simple(IF rm.refcount = 1 THEN "reset" ELSE "app"))
      /\ UNCHANGED <<vars, waiting, items>> /\ pc' = pc /\ held' = held
      /\ rm' = [rm EXCEPT !.refcount = rm.refcount - 1]
      /\ nest' = [nest EXCEPT ![t] = nest[t] - 1]
  BY DEF RecUnlock, Outside, At, vars
<1>2. PICK p \in {"reset", "app"} : Do(t, Simple(p)) /\ (p = "reset" <=> rm.refcount = 1)
  BY <1>1
<1>3. Simple(p) \in Doing /\ Simple(p).at = p
  BY SimplePlaces
<1>4. doing'[t] = Simple(p)
  BY <1>2, <1>3, DoEffect DEF MonitorInv
<1>5. /\ rec \in held[t] /\ rm.owner = t /\ rm.refcount = nest[t]
      /\ nest[t] \in 0 .. MaxDepth /\ MaxDepth \in Nat
  BY <1>1, TheMutexes DEF MonitorInv, Counted, MonitorTypes
<1>6. /\ nest[t] - 1 \in 0 .. MaxDepth
      /\ IF p = "reset" THEN nest[t] - 1 = 0 ELSE nest[t] - 1 > 0
  BY <1>1, <1>2, <1>5
<1>7. /\ rm' \in [owner : Threads \cup {NoThread}, refcount : 0 .. MaxDepth]
      /\ rm'.owner = t /\ rm'.refcount = nest[t] - 1
  BY <1>1, <1>5, <1>6 DEF MonitorInv, MonitorTypes
<1>8. /\ nest' \in [Threads -> 0 .. MaxDepth] /\ nest'[t] = nest[t] - 1
      /\ \A u \in Threads \ {t} : nest'[u] = nest[u]
  BY <1>1, <1>6 DEF MonitorInv, MonitorTypes
<1>9. InPlace(t)'
  BY <1>1, <1>2, <1>3, <1>4 DEF MonitorInv, InPlace
<1>10. Counted(t)'
  BY <1>1, <1>2, <1>3, <1>4, <1>5, <1>6, <1>7, <1>8 DEF MonitorInv, Counted
<1> QED BY <1>1, <1>2, <1>3, <1>5, <1>7, <1>8, <1>9, <1>10, RecMoves DEF AtCondition

(* The reset of the owner.                                                  *)
LEMMA OwnerResetKeeps ==
  ASSUME MonitorInv, NEW t \in Threads, RecReset(t)
  PROVE  MonitorInv'
<1>1. /\ pc[t].at = "run" /\ doing[t].at = "reset" /\ Do(t, Simple("release"))
      /\ UNCHANGED <<vars, waiting, items, nest>> /\ pc' = pc /\ held' = held
      /\ rm' = [rm EXCEPT !.owner = NoThread]
  BY DEF RecReset, Outside, At, vars
<1>2. Simple("release") \in Doing /\ Simple("release").at = "release"
  BY SimplePlaces
<1>3. doing'[t] = Simple("release")
  BY <1>1, <1>2, DoEffect DEF MonitorInv
<1>4. /\ rm' \in [owner : Threads \cup {NoThread}, refcount : 0 .. MaxDepth]
      /\ rm'.owner = NoThread /\ rm'.owner # t /\ rm'.refcount = rm.refcount
  BY <1>1, KernelAssumption DEF MonitorInv, MonitorTypes
<1>5. rec \in held[t] /\ nest[t] = 0
  BY <1>1 DEF MonitorInv, Counted
<1>6. InPlace(t)'
  BY <1>1, <1>2, <1>3 DEF MonitorInv, InPlace
<1>7. Counted(t)'
  BY <1>1, <1>2, <1>3, <1>4, <1>5 DEF MonitorInv, Counted
<1> QED BY <1>1, <1>2, <1>4, <1>5, <1>6, <1>7, RecMoves DEF MonitorInv, MonitorTypes, AtCondition

(* The mutex_lock() inside rmutex_lock().                                   *)
LEMMA RecAwaitKeeps ==
  ASSUME MonitorInv, NEW t \in Threads, RecAwait(t)
  PROVE  MonitorInv'
<1>1. /\ doing[t].at = "await" /\ (LockFree(t, rec) \/ LockBlocks(t, rec))
      /\ Do(t, Simple("store")) /\ UNCHANGED <<waiting, rm, items, nest>>
  BY DEF RecAwait, Outside
<1>2. nest[t] = 0 /\ nest[t] < MaxDepth
  BY <1>1 DEF MonitorInv, Counted
<1> QED BY <1>1, <1>2, RecLockKeeps

(* The mutex_unlock() inside rmutex_unlock(): the counter is zero again and *)
(* no owner is named, for the next holder or for nobody.                    *)
LEMMA RecReleaseKeeps ==
  ASSUME MonitorInv, NEW t \in Threads, RecRelease(t)
  PROVE  MonitorInv'
<1>1. /\ doing[t].at = "release" /\ ThreadUnlock(t, rec) /\ Do(t, Simple("app"))
      /\ UNCHANGED <<waiting, rm, items, nest>>
  BY DEF RecRelease, Outside
<1>2. /\ MutexInv' /\ SameWaits /\ SameOthers(t) /\ rec \in held[t]
      /\ pc'[t].at \in {"run", "yield"} /\ held'[t] = held[t] \ {rec}
  BY <1>1, UnlockEffect, TheMutexes DEF MonitorInv
<1>3. Simple("app") \in Doing /\ Simple("app").at = "app"
  BY SimplePlaces
<1>4. /\ doing' \in [Threads -> Doing] /\ doing'[t] = Simple("app")
      /\ \A u \in Threads \ {t} : doing'[u] = doing[u]
  BY <1>1, <1>3, DoEffect DEF MonitorInv
<1>5. MonitorTypes'
  BY <1>1, <1>4 DEF MonitorInv, MonitorTypes
<1>6. nest[t] = 0 /\ nest'[t] = 0 /\ rm.refcount = 0 /\ rm.owner # t
  BY <1>1, <1>2 DEF MonitorInv, Counted
<1>7. \A u \in Threads : InPlace(u)'
  <2>1. InPlace(t)'
    BY <1>2, <1>3, <1>4 DEF InPlace
  <2> QED BY <1>1, <1>2, <1>4, <2>1, PlacesKept DEF MonitorInv
<1>8. Waits' /\ NoLostWakeup'
  <2>1. \A u \in Threads : \/ doing'[u].at = doing[u].at
                           \/ doing[u].at \notin AtCondition /\ doing'[u].at \notin AtCondition
    BY <1>1, <1>3, <1>4 DEF AtCondition
  <2> QED BY <1>1, <1>2, <2>1, WaitsKept DEF MonitorInv
<1>9. \A u \in Threads : Counted(u)'
  <2>1. Counted(t)'
    BY <1>1, <1>2, <1>3, <1>4, <1>6 DEF Counted
  <2>2. \A u \in Threads \ {t} : rec \notin held[u]
    BY <1>2, OneHolder, TheMutexes DEF MonitorInv
  <2> QED BY <1>1, <1>2, <1>4, <2>1, <2>2, CountsOthers DEF MonitorInv
<1>10. Unused'
  BY <1>1, <1>6 DEF Unused
<1> QED BY <1>2, <1>5, <1>7, <1>8, <1>9, <1>10 DEF MonitorInv

-----------------------------------------------------------------------------
(* The calls of module Mutex, inside and between the functions              *)

(* A step after which the functions are where they were.                    *)
LEMMA OwnUnchanged ==
  ASSUME MonitorInv, UNCHANGED own, MutexInv', SameWaits,
         \A u \in Threads : rec \in held'[u] <=> rec \in held[u],
         \A u \in Threads : doing[u].at = "store" => (pc'[u].at = "run" <=> pc[u].at = "run"),
         \A u \in Threads : InPlace(u)'
  PROVE  MonitorInv'
<1>1. doing' = doing /\ UNCHANGED <<waiting, rm, items, nest>>
  BY DEF own
<1>2. MonitorTypes'
  BY <1>1 DEF MonitorInv, MonitorTypes
<1>3. Waits' /\ NoLostWakeup'
  BY <1>1, WaitsKept DEF MonitorInv
<1>4. Unused' /\ \A u \in Threads : Counted(u)'
  BY <1>1, CountsKept DEF MonitorInv
<1> QED BY <1>2, <1>3, <1>4 DEF MonitorInv

(* The scheduler, a handler that wakes a sleeping thread, and a thread that *)
(* goes to sleep.                                                           *)
LEMMA ProcessorKeeps ==
  ASSUME MonitorInv, Processor
  PROVE  MonitorInv'
<1>1. (PendSV \/ EndIdle) /\ UNCHANGED own
  BY DEF Processor
<1>2. MutexInv' /\ SameWaits /\ UNCHANGED <<mtx, mc, pc, held>>
  BY <1>1, PendSVKeeps, EndIdleKeeps, RunKeeps DEF MonitorInv
<1>3. \A u \in Threads : InPlace(u)'
  BY <1>1, <1>2 DEF MonitorInv, InPlace, InCall, own
<1> QED BY <1>1, <1>2, <1>3, OwnUnchanged

LEMMA WakeupKeeps ==
  ASSUME MonitorInv, NEW t \in Threads, Wakeup(t)
  PROVE  MonitorInv'
<1>1. IsrWakeup(t) /\ UNCHANGED own
  BY DEF Wakeup
<1>2. MutexInv' /\ SameWaits /\ UNCHANGED <<pc, held>>
  BY <1>1, WakeupEffect DEF MonitorInv
<1>3. \A u \in Threads : InPlace(u)'
  BY <1>1, <1>2 DEF MonitorInv, InPlace, InCall, own
<1> QED BY <1>1, <1>2, <1>3, OwnUnchanged

LEMMA RestKeeps ==
  ASSUME MonitorInv, NEW t \in Threads, Rest(t)
  PROVE  MonitorInv'
<1>1. Sleep(t) /\ doing[t].at = "app" /\ UNCHANGED own
      /\ doing' = doing /\ nest' = nest
  BY DEF Rest, Outside, own
<1>2. /\ MutexInv' /\ SameWaits /\ SameOthers(t) /\ held' = held
      /\ pc[t].at = "run" /\ pc'[t].at = "yield"
  BY <1>1, SleepEffect DEF MonitorInv
<1>3. InPlace(t)'
  BY <1>1, <1>2 DEF InPlace
<1>4. \A u \in Threads : InPlace(u)'
  BY <1>1, <1>2, <1>3, PlacesKept DEF MonitorInv
<1>5. \A u \in Threads : doing[u].at = "store" => (pc'[u].at = "run" <=> pc[u].at = "run")
  BY <1>1, <1>2 DEF SameOthers
<1> QED BY <1>1, <1>2, <1>4, <1>5, OwnUnchanged

(* The end of a lock call that blocked: the thread that was handed the      *)
(* recursive mutex finds it unused.                                         *)
LEMMA InMutexKeeps ==
  ASSUME MonitorInv, NEW t \in Threads, InMutex(t)
  PROVE  MonitorInv'
<1>1. (Return(t) \/ DoYield(t)) /\ UNCHANGED own /\ doing' = doing
      /\ UNCHANGED <<waiting, rm, items, nest>>
  BY DEF InMutex, own
<1>2. CASE DoYield(t)
  <2>1. /\ MutexInv' /\ SameWaits /\ SameOthers(t) /\ held' = held
        /\ IF pc[t].at = "block"
           THEN pc'[t].at = "woken" /\ pc'[t].mutex = pc[t].mutex /\ pc'[t].mc = pc[t].mc
           ELSE pc[t].at = "yield" /\ pc'[t].at = "run"
    BY <1>2, YieldsEffect DEF MonitorInv
  <2>2. InPlace(t)
    BY DEF MonitorInv
  <2>3. InPlace(t)' /\ (doing[t].at = "store" => (pc'[t].at = "run" <=> pc[t].at = "run"))
    <3>1. CASE pc[t].at = "block"
      BY <1>1, <2>1, <2>2, <3>1 DEF InPlace, InCall
    <3>2. CASE pc[t].at = "yield"
      BY <1>1, <2>1, <2>2, <3>2 DEF InPlace, InCall
    <3> QED BY <2>1, <3>1, <3>2
  <2>4. \A u \in Threads : InPlace(u)'
    BY <1>1, <2>1, <2>3, PlacesKept DEF MonitorInv
  <2>5. \A u \in Threads : doing[u].at = "store" => (pc'[u].at = "run" <=> pc[u].at = "run")
    BY <2>1, <2>3 DEF SameOthers
  <2> QED BY <1>1, <2>1, <2>4, <2>5, OwnUnchanged
<1>3. CASE Return(t)
  <2>1. InPlace(t) /\ pc[t].at = "woken" /\ ~pc[t].mc
    BY <1>3 DEF MonitorInv, InPlace, Return, At
  <2>2. /\ MutexInv' /\ SameWaits /\ SameOthers(t)
        /\ pc[t].at = "woken" /\ pc'[t].at = "run" /\ pc[t].mutex \in All
        /\ held'[t] = held[t] \cup ({pc[t].mutex} \cap Mutexes)
        /\ pc[t].mutex \in Mutexes => \A u \in Threads \ {t} : pc[t].mutex \notin held[u]
    BY <1>3, <2>1, ReturnEffect DEF MonitorInv
  <2>3. doing[t].at \in {"test", "add", "store"}
    BY <2>1, AtSomePlace DEF InPlace
  <2>4. InPlace(t)'
    BY <1>1, <2>1, <2>2, <2>3, TheMutexes DEF InPlace, InCall
  <2>5. \A u \in Threads : InPlace(u)'
    BY <1>1, <2>2, <2>4, PlacesKept DEF MonitorInv
  <2>6. CASE doing[t].at \in {"test", "add"}
    <3>1. pc[t].mutex = lock
      BY <2>1, <2>6 DEF InPlace, InCall
    <3>2. \A u \in Threads : rec \in held'[u] <=> rec \in held[u]
      BY <2>2, <3>1, TheMutexes DEF SameOthers
    <3>3. \A u \in Threads : doing[u].at = "store" => (pc'[u].at = "run" <=> pc[u].at = "run")
      BY <2>2, <2>6 DEF SameOthers
    <3> QED BY <1>1, <2>2, <2>5, <3>2, <3>3, OwnUnchanged
  <2>7. CASE doing[t].at = "store"
    <3>1. pc[t].mutex = rec /\ nest[t] = 0
      BY <2>1, <2>7 DEF InPlace, InCall
    <3>2. rec \notin held[t] /\ \A u \in Threads : rec \notin held[u]
      BY <2>1, <2>2, <2>7, <3>1, TheMutexes DEF MonitorInv, Counted
    <3>3. rm.refcount = 0 /\ rm.owner # t
      BY <3>2 DEF MonitorInv, Unused, Counted
    <3>4. nest[t] < MaxDepth /\ rec \in held'[t]
      BY <2>2, <2>7, <3>1, TheMutexes DEF MonitorInv, Counted
    <3>5. Counted(t)'
      BY <1>1, <2>2, <2>7, <3>1, <3>3, <3>4 DEF Counted
    <3>6. \A u \in Threads : Counted(u)'
      BY <1>1, <2>2, <3>2, <3>5, CountsOthers DEF MonitorInv
    <3>7. Unused'
      BY <3>4 DEF Unused
    <3>8. MonitorTypes'
      BY <1>1 DEF MonitorInv, MonitorTypes
    <3>9. Waits' /\ NoLostWakeup'
      BY <1>1, <2>2, WaitsKept DEF MonitorInv
    <3> QED BY <2>2, <2>5, <3>6, <3>7, <3>8, <3>9 DEF MonitorInv
  <2> QED BY <2>3, <2>6, <2>7
<1> QED BY <1>1, <1>2, <1>3

-----------------------------------------------------------------------------
(* The condition variable                                                   *)

(* A thread that executes its own code waits for nothing, and is alone      *)
(* between two calls when it holds the condition's mutex.                   *)
LEMMA Executing ==
  ASSUME MonitorInv, NEW t \in Threads, Executes(k, t), pc[t].at = "run"
  PROVE  /\ t \notin Waiting /\ IsActive(k, t)
         /\ lock \in held[t] => \A u \in Threads \ {t} :
              doing[u].at \notin {"signal", "switch", "leave", "wait"}
<1>1. IsActive(k, t)
  BY Working DEF MonitorInv
<1>2. t \notin Waiting
  BY <1>1 DEF MonitorInv, Waits, IsActive, OnRunqueue
<1>3. ASSUME lock \in held[t], NEW u \in Threads \ {t}
      PROVE  doing[u].at \notin {"signal", "switch", "leave", "wait"}
  <2>1. lock \notin held[u]
    BY <1>3, OneHolder, TheMutexes DEF MonitorInv
  <2> QED BY <2>1 DEF MonitorInv, InPlace
<1> QED BY <1>1, <1>2, <1>3

(* The threads on the way are finitely many.                                *)
LEMMA OnTheWayFinite ==
  /\ OnTheWay \subseteq Threads /\ IsFiniteSet(OnTheWay) /\ Cardinality(OnTheWay) \in Nat
  /\ \A t \in Threads : /\ IsFiniteSet(OnTheWay \cup {t}) /\ IsFiniteSet(OnTheWay \ {t})
                        /\ t \notin OnTheWay =>
                             Cardinality(OnTheWay \cup {t}) = Cardinality(OnTheWay) + 1
                        /\ t \in OnTheWay =>
                             Cardinality(OnTheWay \ {t}) = Cardinality(OnTheWay) - 1
<1>1. IsFiniteSet(Threads) /\ OnTheWay \subseteq Threads
  BY MutexAssumption DEF MutexAssumption, OnTheWay
<1>2. IsFiniteSet(OnTheWay) /\ Cardinality(OnTheWay) \in Nat
  BY <1>1, FS_Subset, FS_CardinalityType
<1> QED BY <1>1, <1>2, FS_AddElement, FS_RemoveElement

(* The invariant after a step of the condition's user, from what the step   *)
(* does to the condition.                                                   *)
LEMMA ConditionStep ==
  ASSUME MonitorInv, NEW t \in Threads, MutexInv', SameOthers(t),
         rec \in held'[t] <=> rec \in held[t], UNCHANGED <<rm, nest>>,
         NEW p \in Doing, Do(t, p), p.at \notin AtRecursive, doing[t].at \notin AtRecursive,
         InPlace(t)', items' \in 0 .. MaxItems, waiting' \in Seq(Threads),
         Waits', NoLostWakeup'
  PROVE  MonitorInv'
<1>1. /\ doing' \in [Threads -> Doing] /\ doing'[t] = p
      /\ \A u \in Threads \ {t} : doing'[u] = doing[u]
  BY DoEffect DEF MonitorInv
<1>2. MonitorTypes'
  BY <1>1 DEF MonitorInv, MonitorTypes
<1>3. \A u \in Threads : InPlace(u)'
  BY <1>1, PlacesKept DEF MonitorInv
<1>4. Unused' /\ \A u \in Threads : Counted(u)'
  <2>1. \A u \in Threads : rec \in held'[u] <=> rec \in held[u]
    BY DEF SameOthers
  <2>2. \A u \in Threads :
          \/ /\ doing'[u].at = doing[u].at
             /\ doing[u].at = "store" => (pc'[u].at = "run" <=> pc[u].at = "run")
          \/ doing[u].at \notin AtRecursive /\ doing'[u].at \notin AtRecursive
    BY <1>1 DEF SameOthers
  <2> QED BY <2>1, <2>2, CountsKept DEF MonitorInv
<1> QED BY <1>2, <1>3, <1>4 DEF MonitorInv

(* A thread that does not wait goes on, and the waiters stay.               *)
LEMMA WaitersStay ==
  ASSUME MonitorInv, NEW t \in Threads, t \notin Waiting, SameWaits, UNCHANGED waiting,
         NEW p \in Doing, Do(t, p),
         p.at = "wait" => items' = 0,
         items' = items \/ \A u \in Threads \ {t} : doing[u].at # "wait"
  PROVE  /\ Waits' /\ waiting' \in Seq(Threads)
         /\ OnTheWay' = IF p.at \in {"relock", "test", "signal"} THEN OnTheWay \cup {t}
                        ELSE OnTheWay \ {t}
<1>1. doing'[t] = p /\ \A u \in Threads \ {t} : doing'[u] = doing[u]
  BY DoEffect DEF MonitorInv
<1>2. Waiting' = Waiting /\ waiting \in Seq(Threads) /\ Waiting \subseteq Threads
  BY ElemsEmpty DEF Waiting, MonitorInv, MonitorTypes
<1>3. \A u \in Threads : doing'[u].at = "wait" => items' = 0
  BY <1>1 DEF MonitorInv, Waits
<1>4. \A u \in Waiting : doing'[u].at = "relock"
  BY <1>1, <1>2 DEF MonitorInv, Waits
<1>5. Waits'
  BY <1>2, <1>3, <1>4 DEF MonitorInv, Waits, SameWaits
<1>6. OnTheWay' = IF p.at \in {"relock", "test", "signal"} THEN OnTheWay \cup {t}
                  ELSE OnTheWay \ {t}
  BY <1>1, <1>2 DEF OnTheWay
<1> QED BY <1>2, <1>5, <1>6

(* mutex_lock() of the condition's mutex, before the test, at the end of    *)
(* cond_wait(), or before the item is added.                                *)
LEMMA CondLockKeeps ==
  ASSUME MonitorInv, NEW t \in Threads, LockFree(t, lock) \/ LockBlocks(t, lock),
         doing[t].at \in {"app", "relock"}, NEW p \in {"test", "add"}, Do(t, Simple(p)),
         doing[t].at = "relock" => p = "test",
         UNCHANGED <<waiting, rm, items, nest>>
  PROVE  MonitorInv'
<1>1. Simple(p) \in Doing /\ Simple(p).at = p
  BY SimplePlaces
<1>2. /\ MutexInv' /\ SameWaits /\ SameOthers(t)
      /\ Executes(k, t) /\ pc[t].at = "run"
      /\ \/ pc'[t] = pc[t] /\ held'[t] = held[t] \cup {lock}
         \/ /\ pc'[t].at = "block" /\ pc'[t].mutex = lock /\ ~pc'[t].mc
            /\ held'[t] = held[t]
  BY LockEffect, TheMutexes DEF MonitorInv
<1>3. t \notin Waiting
  BY <1>2, Executing
<1>4. /\ Waits' /\ waiting' \in Seq(Threads)
      /\ OnTheWay' = IF p = "test" THEN OnTheWay \cup {t} ELSE OnTheWay \ {t}
  BY <1>1, <1>2, <1>3, WaitersStay
<1>5. NoLostWakeup'
  <2>1. OnTheWay \subseteq OnTheWay'
    BY <1>3, <1>4 DEF OnTheWay
  <2>2. IsFiniteSet(OnTheWay')
    BY <1>4, OnTheWayFinite
  <2>3. Cardinality(OnTheWay) <= Cardinality(OnTheWay') /\ Cardinality(OnTheWay') \in Nat
    BY <2>1, <2>2, FS_Subset, FS_CardinalityType
  <2>4. items \in Nat /\ Cardinality(OnTheWay) \in Nat
    BY OnTheWayFinite DEF MonitorInv, MonitorTypes
  <2> QED BY <2>3, <2>4 DEF MonitorInv, NoLostWakeup
<1>6. InPlace(t)'
  <2>1. doing'[t].at = p
    BY <1>1, DoEffect DEF MonitorInv
  <2> QED BY <1>2, <2>1 DEF InPlace, InCall
<1>7. rec \in held'[t] <=> rec \in held[t]
  BY <1>2, TheMutexes
<1>8. items' \in 0 .. MaxItems
  BY DEF MonitorInv, MonitorTypes
<1> QED BY <1>1, <1>2, <1>4, <1>5, <1>6, <1>7, <1>8, ConditionStep DEF AtRecursive

LEMMA EnterKeeps ==
  ASSUME MonitorInv, NEW t \in Threads, Enter(t)
  PROVE  MonitorInv'
<1>1. PICK p \in {"test", "add"} : Do(t, Simple(p))
  BY DEF Enter
<1> QED BY <1>1, CondLockKeeps DEF Enter, Outside

LEMMA RelockKeeps ==
  ASSUME MonitorInv, NEW t \in Threads, Relock(t)
  PROVE  MonitorInv'
BY CondLockKeeps DEF Relock, Outside

(* mutex_unlock() after the critical section.                               *)
LEMMA LeaveKeeps ==
  ASSUME MonitorInv, NEW t \in Threads, Leave(t)
  PROVE  MonitorInv'
<1>1. /\ doing[t].at = "leave" /\ ThreadUnlock(t, lock) /\ Do(t, Simple("app"))
      /\ pc[t].at = "run" /\ UNCHANGED <<waiting, rm, items, nest>>
  BY DEF Leave, Outside, At
<1>2. /\ MutexInv' /\ SameWaits /\ SameOthers(t) /\ Executes(k, t)
      /\ pc'[t].at \in {"run", "yield"} /\ held'[t] = held[t] \ {lock}
  BY <1>1, UnlockEffect, TheMutexes DEF MonitorInv
<1>3. Simple("app") \in Doing /\ Simple("app").at = "app"
  BY SimplePlaces
<1>4. doing'[t] = Simple("app")
  BY <1>1, <1>3, DoEffect DEF MonitorInv
<1>5. InPlace(t)'
  BY <1>2, <1>3, <1>4 DEF InPlace
<1>6. t \notin Waiting
  BY <1>1, <1>2, Executing
<1>7. Waits' /\ waiting' \in Seq(Threads) /\ OnTheWay' = OnTheWay \ {t}
  BY <1>1, <1>2, <1>3, <1>6, WaitersStay
<1>8. NoLostWakeup'
  <2>1. OnTheWay' = OnTheWay
    BY <1>1, <1>7 DEF OnTheWay
  <2> QED BY <1>1, <2>1 DEF MonitorInv, NoLostWakeup
<1>9. rec \in held'[t] <=> rec \in held[t]
  BY <1>2, TheMutexes
<1>10. items' \in 0 .. MaxItems
  BY <1>1 DEF MonitorInv, MonitorTypes
<1> QED BY <1>1, <1>2, <1>3, <1>5, <1>7, <1>8, <1>9, <1>10, ConditionStep DEF AtRecursive

(* The test of the condition: an item is taken, or there is none.           *)
LEMMA TestKeeps ==
  ASSUME MonitorInv, NEW t \in Threads, Test(t)
  PROVE  MonitorInv'
<1>1. /\ doing[t].at = "test" /\ pc[t].at = "run" /\ Executes(k, t)
      /\ UNCHANGED <<vars, waiting, rm, nest>> /\ pc' = pc /\ held' = held
  BY DEF Test, Outside, At, vars
<1>2. PICK p \in {"leave", "wait"} :
        /\ Do(t, Simple(p))
        /\ IF p = "leave" THEN items > 0 /\ items' = items - 1
                          ELSE ~(items > 0) /\ items' = items
  BY DEF Test
<1>3. Simple(p) \in Doing /\ Simple(p).at = p
  BY SimplePlaces
<1>4. doing'[t] = Simple(p)
  BY <1>2, <1>3, DoEffect DEF MonitorInv
<1>5. /\ items \in 0 .. MaxItems /\ MaxItems \in Nat /\ items' \in 0 .. MaxItems
      /\ p = "wait" => items' = 0
  BY <1>2, TheMutexes DEF MonitorInv, MonitorTypes
<1>6. MutexInv' /\ SameWaits /\ SameOthers(t)
  BY <1>1, MutexUnchanged DEF MonitorInv
<1>7. lock \in held[t]
  BY <1>1 DEF MonitorInv, InPlace
<1>8. t \notin Waiting /\ \A u \in Threads \ {t} : doing[u].at # "wait"
  BY <1>1, <1>7, Executing
<1>9. Waits' /\ waiting' \in Seq(Threads) /\ OnTheWay' = OnTheWay \ {t}
  BY <1>1, <1>2, <1>3, <1>5, <1>6, <1>8, WaitersStay
<1>10. t \in OnTheWay
  BY <1>1, <1>8 DEF OnTheWay
<1>11. Cardinality(OnTheWay') = Cardinality(OnTheWay) - 1 /\ Cardinality(OnTheWay) \in Nat
       /\ Cardinality(OnTheWay') \in Nat
  BY <1>9, <1>10, OnTheWayFinite, FS_CardinalityType
<1>12. NoLostWakeup'
  <2>1. CASE p = "leave"
    BY <1>1, <1>2, <1>5, <1>11, <2>1 DEF MonitorInv, NoLostWakeup
  <2>2. CASE p = "wait"
    BY <1>5, <1>11, <2>2 DEF NoLostWakeup
  <2> QED BY <2>1, <2>2
<1>13. InPlace(t)'
  BY <1>1, <1>3, <1>4, <1>7 DEF InPlace
<1> QED BY <1>1, <1>2, <1>3, <1>5, <1>6, <1>9, <1>12, <1>13, ConditionStep DEF AtRecursive

(* An item is added: whoever added it will signal.                          *)
LEMMA AddKeeps ==
  ASSUME MonitorInv, NEW t \in Threads, Add(t)
  PROVE  MonitorInv'
<1>1. /\ doing[t].at = "add" /\ pc[t].at = "run" /\ Executes(k, t)
      /\ UNCHANGED <<vars, waiting, rm, nest>> /\ pc' = pc /\ held' = held
  BY DEF Add, Outside, At, vars
<1>2. PICK p \in {"signal", "leave"} :
        /\ Do(t, Simple(p))
        /\ IF p = "signal" THEN items < MaxItems /\ items' = items + 1 ELSE items' = items
  BY DEF Add
<1>3. Simple(p) \in Doing /\ Simple(p).at = p
  BY SimplePlaces
<1>4. doing'[t] = Simple(p)
  BY <1>2, <1>3, DoEffect DEF MonitorInv
<1>5. items \in 0 .. MaxItems /\ MaxItems \in Nat /\ items' \in 0 .. MaxItems
  BY <1>2, TheMutexes DEF MonitorInv, MonitorTypes
<1>6. MutexInv' /\ SameWaits /\ SameOthers(t)
  BY <1>1, MutexUnchanged DEF MonitorInv
<1>7. lock \in held[t]
  BY <1>1 DEF MonitorInv, InPlace
<1>8. t \notin Waiting /\ \A u \in Threads \ {t} : doing[u].at # "wait"
  BY <1>1, <1>7, Executing
<1>9. /\ Waits' /\ waiting' \in Seq(Threads)
      /\ OnTheWay' = IF p = "signal" THEN OnTheWay \cup {t} ELSE OnTheWay \ {t}
  BY <1>1, <1>2, <1>3, <1>6, <1>8, WaitersStay
<1>10. t \notin OnTheWay /\ OnTheWay \ {t} = OnTheWay
  BY <1>1 DEF OnTheWay
<1>11. NoLostWakeup'
  <2>1. CASE p = "signal"
    <3>1. Cardinality(OnTheWay') = Cardinality(OnTheWay) + 1 /\ Cardinality(OnTheWay) \in Nat
      BY <1>9, <1>10, <2>1, OnTheWayFinite
    <3> QED BY <1>1, <1>2, <1>5, <2>1, <3>1 DEF MonitorInv, NoLostWakeup
  <2>2. CASE p = "leave"
    <3>1. OnTheWay' = OnTheWay /\ items' = items
      BY <1>2, <1>9, <1>10, <2>2
    <3> QED BY <1>1, <3>1 DEF MonitorInv, NoLostWakeup
  <2> QED BY <2>1, <2>2
<1>12. InPlace(t)'
  BY <1>1, <1>3, <1>4, <1>7 DEF InPlace
<1> QED BY <1>1, <1>2, <1>3, <1>5, <1>6, <1>9, <1>11, <1>12, ConditionStep DEF AtRecursive

(* cond_wait(): the mutex goes to its first waiter, and the caller blocks,  *)
(* in one critical section.                                                 *)
LEMMA CondWaitMutex ==
  ASSUME MonitorInv, NEW t \in Threads, CondWait(t)
  PROVE  /\ MutexInv' /\ SameOthers(t) /\ held'[t] = held[t] \ {lock} /\ pc'[t].at = "yield"
         /\ \A u \in Threads : k'.status[u] = "COND_BLOCKED" <=>
                                 k.status[u] = "COND_BLOCKED" \/ u = t
         /\ ~PI => k'.prio = k.prio
         /\ \A u \in Threads : u \notin Waiters(lock) =>
              (k'.status[u] = "MUTEX_BLOCKED" <=> k.status[u] = "MUTEX_BLOCKED")
<1> DEFINE x == mtx[lock]
           n == Wake(k, x)
           r == Restore(n, x)
           y == IF x.queue = <<>> THEN k ELSE YieldHigher(r)
<1>1. /\ Executes(k, t) /\ pc[t].at = "run" /\ doing[t].at = "wait" /\ UNCHANGED mc
      /\ k' = SetStatus(y, t, "COND_BLOCKED")
      /\ mtx' = [mtx EXCEPT ![lock] = Passed(x)]
      /\ held' = [held EXCEPT ![t] = held[t] \ {lock}]
      /\ pc' = [pc EXCEPT ![t] = [at |-> "yield"]]
  BY DEF CondWait, Outside, At, Go
<1>2. lock \in held[t] /\ lock \in All /\ lock \in Mutexes /\ MutexInv /\ TypeOK
  BY <1>1, TheMutexes DEF MonitorInv, InPlace, All, MutexInv
<1>3. /\ KernelInv(n) /\ n.active = k.active /\ n.idle = k.idle /\ n.pendsv = k.pendsv
      /\ \A u \in Threads :
           n.status[u] = IF x.queue # <<>> /\ u = Head(x.queue)
                         THEN "PENDING" ELSE k.status[u]
  BY <1>2, WakeEffect
<1>4. x.queue = <<>> => n = k
  BY DEF Wake
<1>5. n.prio = k.prio
  <2>1. CASE x.queue = <<>>
    BY <1>4, <2>1
  <2>2. CASE x.queue # <<>>
    <3>1. Head(x.queue) \in Threads /\ n = SetStatus(k, Head(x.queue), "PENDING")
      BY <1>2, <2>2, FirstWaiter DEF Wake
    <3>2. KernelInv(k) /\ "PENDING" \in Status \ {"RUNNING"}
      BY <1>2, KernelTypes DEF MutexInv
    <3> QED BY <3>1, <3>2, StatusSet
  <2> QED BY <2>1, <2>2
<1> HIDE DEF n
<1>6. /\ KernelInv(r) /\ r.status = n.status /\ r.active = n.active /\ r.idle = n.idle
      /\ ~PI => r = n
  BY <1>2, <1>3, RestoreEffect DEF Restore
<1> HIDE DEF r
<1>7. /\ KernelInv(y) /\ y.status = n.status /\ y.active = k.active /\ y.idle = k.idle
      /\ k.pendsv => y.pendsv
      /\ ~PI => y.prio = k.prio
  <2>1. CASE x.queue = <<>>
    BY <1>3, <1>4, <2>1
  <2>2. CASE x.queue # <<>>
    BY <1>3, <1>5, <1>6, <2>2, YieldHigherInv, YieldEffect, PrioKept
  <2> QED BY <2>1, <2>2
<1> HIDE DEF y
<1>8. "COND_BLOCKED" \in Status \ {"RUNNING"}
  BY DEF Status, Blocked, OnRunqueue
<1>9. /\ KernelInv(k') /\ k'.active = k.active /\ k'.idle = k.idle
      /\ k.pendsv => k'.pendsv
      /\ ~PI => k'.prio = k.prio
      /\ \A u \in Threads : k'.status[u] = IF u = t THEN "COND_BLOCKED" ELSE y.status[u]
  BY <1>1, <1>7, <1>8, StatusSet
<1>10. \A u \in Threads :
         k'.status[u] = IF u = t THEN "COND_BLOCKED"
                        ELSE IF x.queue # <<>> /\ u = Head(x.queue)
                        THEN "PENDING" ELSE k.status[u]
  BY <1>3, <1>7, <1>9
<1>11. x.queue # <<>> => /\ k.status[Head(x.queue)] = "MUTEX_BLOCKED"
                         /\ Head(x.queue) \in Waiters(lock)
  BY <1>2, FirstWaiter
<1>12. k.status[t] # "MUTEX_BLOCKED"
  BY <1>1, <1>2, Working
<1>13. /\ pc' \in [Threads -> Places] /\ pc'[t].at = "yield"
       /\ \A u \in Threads \ {t} : pc'[u] = pc[u]
  BY <1>1, <1>2 DEF Simple, Places, TypeOK
<1>14. /\ held' \in [Threads -> SUBSET Mutexes] /\ held'[t] = held[t] \ {lock}
       /\ \A u \in Threads \ {t} : held'[u] = held[u]
  BY <1>1, <1>2 DEF TypeOK
<1>15. \A u \in Threads :
         k'.status[u] = "MUTEX_BLOCKED" <=>
           k.status[u] = "MUTEX_BLOCKED" /\ ~(x.queue # <<>> /\ u = Head(x.queue))
  BY <1>10, <1>12
<1>16. \A u \in Threads : pc'[u] = pc[u] \/ (pc[u].at = "run" /\ pc'[u].at \in {"run", "yield"})
  BY <1>1, <1>13
<1>17. /\ mtx' \in [All -> [locked : BOOLEAN, queue : Seq(Threads),
                            owner : Threads \cup {NoThread}, orig : Prios]]
       /\ Lists' /\ Owned'
  BY <1>1, <1>2, <1>14, <1>15, <1>16, PassedKeeps
<1>18. Rests' /\ AtWork' /\ Cancelling'
  <2>1. \A u \in Threads :
           \/ k'.status[u] \in {k.status[u], "PENDING"}
           \/ k'.status[u] # "MUTEX_BLOCKED" /\ pc[u].at = "run" /\ pc'[u].at = "yield"
    BY <1>1, <1>10, <1>13
  <2> QED BY <1>1, <1>2, <1>9, <1>16, <2>1, ReadierKeeps
<1>19. MutexInv'
  BY <1>1, <1>2, <1>9, <1>13, <1>14, <1>17, <1>18 DEF MutexInv, TypeOK, KernelInv
<1>20. \A u \in Threads : k'.status[u] = "COND_BLOCKED" <=>
                            k.status[u] = "COND_BLOCKED" \/ u = t
  BY <1>10, <1>11
<1>21. \A u \in Threads : u \notin Waiters(lock) =>
         (k'.status[u] = "MUTEX_BLOCKED" <=> k.status[u] = "MUTEX_BLOCKED")
  BY <1>11, <1>15
<1> QED BY <1>9, <1>13, <1>14, <1>19, <1>20, <1>21 DEF SameOthers

(* cond_wait(): the caller is in the list before anybody can have the mutex *)
(* and signal, and there is no item yet.                                    *)
LEMMA CondWaitKeeps ==
  ASSUME MonitorInv, NEW t \in Threads, CondWait(t)
  PROVE  MonitorInv'
<1>1. /\ Executes(k, t) /\ pc[t].at = "run" /\ doing[t].at = "wait"
      /\ waiting' = AddToList(k', waiting, t)
      /\ Do(t, Simple("relock")) /\ UNCHANGED <<rm, items, nest>>
  BY DEF CondWait, Outside, At, Join
<1>2. /\ MutexInv' /\ SameOthers(t) /\ held'[t] = held[t] \ {lock} /\ pc'[t].at = "yield"
      /\ \A u \in Threads : k'.status[u] = "COND_BLOCKED" <=>
                              k.status[u] = "COND_BLOCKED" \/ u = t
  BY CondWaitMutex
<1>3. Simple("relock") \in Doing /\ Simple("relock").at = "relock"
  BY SimplePlaces
<1>4. doing'[t] = Simple("relock") /\ \A u \in Threads \ {t} : doing'[u] = doing[u]
  BY <1>1, <1>3, DoEffect DEF MonitorInv
<1>5. t \notin Waiting
  BY <1>1, Executing
<1>6. waiting' \in Seq(Threads) /\ Waiting' = Waiting \cup {t} /\ Once(waiting')
  <2>1. waiting \in Seq(Threads) /\ Once(waiting) /\ t \notin Elems(waiting)
    BY <1>5 DEF MonitorInv, MonitorTypes, Waits, Waiting
  <2> DEFINE n == k'
  <2>2. waiting' = AddToList(n, waiting, t)
    BY <1>1
  <2> HIDE DEF n
  <2>3. /\ AddToList(n, waiting, t) \in Seq(Threads)
        /\ Elems(AddToList(n, waiting, t)) = Elems(waiting) \cup {t}
        /\ Once(AddToList(n, waiting, t))
    BY <2>1, ElemsAdd
  <2> QED BY <2>2, <2>3 DEF Waiting
<1>7. items = 0 /\ items' = 0
  BY <1>1 DEF MonitorInv, Waits
<1>8. Waits'
  <2>1. \A u \in Threads : u \in Waiting' <=> k'.status[u] = "COND_BLOCKED"
    BY <1>2, <1>6 DEF MonitorInv, Waits
  <2>2. Waiting \subseteq Threads
    BY ElemsEmpty DEF Waiting, MonitorInv, MonitorTypes
  <2>3. \A u \in Waiting' : doing'[u].at = "relock"
    BY <1>3, <1>4, <1>6, <2>2 DEF MonitorInv, Waits
  <2> QED BY <1>6, <1>7, <2>1, <2>3 DEF Waits
<1>9. NoLostWakeup'
  <2>1. OnTheWay' \subseteq Threads
    BY DEF OnTheWay
  <2>2. Cardinality(OnTheWay') \in Nat
    BY <2>1, MutexAssumption, FS_Subset, FS_CardinalityType DEF MutexAssumption
  <2> QED BY <1>7, <2>2 DEF NoLostWakeup
<1>10. InPlace(t)'
  BY <1>2, <1>3, <1>4 DEF InPlace
<1>11. rec \in held'[t] <=> rec \in held[t]
  BY <1>2, TheMutexes
<1>12. items' \in 0 .. MaxItems
  BY <1>1 DEF MonitorInv, MonitorTypes
<1> QED BY <1>1, <1>2, <1>3, <1>6, <1>8, <1>9, <1>10, <1>11, <1>12, ConditionStep DEF AtRecursive

(* A part of the list is taken from its head, all of it by a broadcast, and *)
(* at least one thread if there is one.                                     *)
LEMMA SignalSplits ==
  ASSUME MonitorInv, NEW broadcast \in BOOLEAN
  PROVE  LET q == Signalled(broadcast)
             r == SubSeq(waiting, Len(q) + 1, Len(waiting))
         IN /\ q \in Seq(Threads) /\ r \in Seq(Threads) /\ Once(r)
            /\ Elems(q) \subseteq Waiting /\ Elems(r) = Waiting \ Elems(q)
            /\ waiting # <<>> => waiting[1] \in Elems(q)
            /\ broadcast \/ waiting = <<>> => r = <<>>
<1> DEFINE w == waiting
           L == Len(w)
           n == WokenBy(broadcast)
           q == SubSeq(w, 1, n)
           r == SubSeq(w, n + 1, L)
<1>1. w \in Seq(Threads) /\ L \in Nat /\ (w = <<>> <=> L = 0)
  BY DEF MonitorInv, MonitorTypes
<1>2. \A i, j \in 1 .. L : w[i] = w[j] => i = j
  BY <1>1 DEF MonitorInv, Waits, Once
<1>3. n \in 0 .. L /\ (w # <<>> => n > 0) /\ (broadcast \/ w = <<>> => n = L)
  BY <1>1 DEF WokenBy
<1>4. \A i \in 1 .. L : w[i] \in Threads
  BY <1>1
<1> HIDE DEF w, L, n
<1>5. q \in Seq(Threads) /\ Len(q) = n /\ \A i \in 1 .. n : q[i] = w[i]
  <2>1. 1 \in Int /\ n \in Int /\ \A i \in 1 .. n : w[i] \in Threads
    BY <1>1, <1>3, <1>4
  <2>2. /\ q \in Seq(Threads) /\ Len(q) = IF 1 <= n THEN n - 1 + 1 ELSE 0
        /\ \A i \in 1 .. n - 1 + 1 : q[i] = w[1 + i - 1]
    BY <2>1, SubSeqProperties
  <2>3. Len(q) = n /\ n - 1 + 1 = n
    BY <1>1, <1>3, <2>2
  <2>4. \A i \in 1 .. n : 1 + i - 1 = i
    OBVIOUS
  <2> QED BY <2>2, <2>3, <2>4
<1>6. r \in Seq(Threads) /\ Len(r) = L - n /\ \A i \in 1 .. L - n : r[i] = w[n + i]
  <2>1. n + 1 \in Int /\ L \in Int /\ \A i \in n + 1 .. L : w[i] \in Threads
    BY <1>1, <1>3, <1>4
  <2>2. /\ r \in Seq(Threads) /\ Len(r) = IF n + 1 <= L THEN L - (n + 1) + 1 ELSE 0
        /\ \A i \in 1 .. L - (n + 1) + 1 : r[i] = w[(n + 1) + i - 1]
    BY <2>1, SubSeqProperties
  <2>3. Len(r) = L - n /\ L - (n + 1) + 1 = L - n
    BY <1>1, <1>3, <2>2
  <2>4. \A i \in 1 .. L - n : (n + 1) + i - 1 = n + i
    BY <1>1, <1>3
  <2> QED BY <2>2, <2>3, <2>4
<1> HIDE DEF q, r
<1>7. /\ Elems(w) = {w[i] : i \in 1 .. L}
      /\ Elems(q) = {q[i] : i \in 1 .. n}
      /\ Elems(r) = {r[i] : i \in 1 .. L - n}
  <2>1. \A s \in Seq(Threads) : Elems(s) = {s[i] : i \in 1 .. Len(s)}
    BY DEF Elems
  <2>2. Len(w) = L
    BY DEF L
  <2> QED BY <1>1, <1>5, <1>6, <2>1, <2>2
<1>8. Elems(q) = {w[i] : i \in 1 .. n}
  BY <1>5, <1>7
<1>9. Elems(r) = {w[i] : i \in n + 1 .. L}
  <2>1. ASSUME NEW i \in 1 .. L - n
        PROVE  r[i] \in {w[j] : j \in n + 1 .. L}
    BY <1>1, <1>3, <1>6
  <2>2. ASSUME NEW j \in n + 1 .. L
        PROVE  w[j] \in {r[i] : i \in 1 .. L - n}
    <3>1. j - n \in 1 .. L - n /\ n + (j - n) = j
      BY <1>1, <1>3
    <3>2. r[j - n] = w[j]
      BY <1>6, <3>1
    <3> QED BY <3>1, <3>2
  <2>3. {r[i] : i \in 1 .. L - n} \subseteq {w[j] : j \in n + 1 .. L}
    BY <2>1
  <2>4. {w[j] : j \in n + 1 .. L} \subseteq {r[i] : i \in 1 .. L - n}
    BY <2>2
  <2>5. {r[i] : i \in 1 .. L - n} = {w[j] : j \in n + 1 .. L}
    BY <2>3, <2>4
  <2> QED BY <1>7, <2>5
<1>10. Elems(q) \subseteq Elems(w)
  <2>1. \A i \in 1 .. n : i \in 1 .. L
    BY <1>1, <1>3
  <2> QED BY <1>7, <1>8, <2>1
<1>11. Elems(r) = Elems(w) \ Elems(q)
  <2>1. ASSUME NEW i \in 1 .. n, NEW j \in n + 1 .. L
        PROVE  w[i] # w[j]
    <3>1. i \in 1 .. L /\ j \in 1 .. L /\ i # j
      BY <1>1, <1>3
    <3> QED BY <1>2, <3>1
  <2>2. \A i : i \in 1 .. L <=> i \in 1 .. n \/ i \in n + 1 .. L
    BY <1>1, <1>3
  <2> QED BY <1>7, <1>8, <1>9, <2>1, <2>2
<1>12. Once(r)
  <2> SUFFICES ASSUME NEW i \in 1 .. L - n, NEW j \in 1 .. L - n, r[i] = r[j]
               PROVE  i = j
    BY <1>6 DEF Once
  <2>1. n + i \in 1 .. L /\ n + j \in 1 .. L /\ w[n + i] = w[n + j]
    BY <1>1, <1>3, <1>6
  <2>2. n + i = n + j
    BY <1>2, <2>1
  <2> QED BY <1>1, <1>3, <2>2
<1>13. w # <<>> => w[1] \in Elems(q)
  <2>1. w # <<>> => 1 \in 1 .. n
    BY <1>1, <1>3
  <2> QED BY <1>8, <2>1
<1>14. broadcast \/ w = <<>> => r = <<>>
  BY <1>1, <1>3, <1>6
<1>15. Signalled(broadcast) = q /\ SubSeq(waiting, Len(q) + 1, Len(waiting)) = r
  BY <1>5 DEF Signalled, q, r, w, L, n
<1> QED BY <1>5, <1>6, <1>10, <1>11, <1>12, <1>13, <1>14, <1>15 DEF Waiting, w

(* min_prio of _cond_signal() is a priority.                                *)
LEMMA MinPrioIs ==
  ASSUME MonitorInv, NEW q \in Seq(Threads), q # <<>>
  PROVE  MinPrio(q) \in Prios
<1> DEFINE S == {k.prio[t] : t \in Elems(q)}
<1>1. Elems(q) \subseteq Threads /\ Elems(q) # {}
  BY ElemsEmpty
<1>2. S \subseteq Prios /\ S # {} /\ Prios \subseteq Nat
  BY <1>1, KernelTypes, KernelAssumption DEF MonitorInv, MutexInv, Prios
<1>3. \E p \in S : \A n \in S : p <= n
  BY <1>2, SetMinimum
<1>4. \E p \in S : \A t \in Elems(q) : p <= k.prio[t]
  BY <1>3
<1>5. MinPrio(q) = CHOOSE p \in S : \A t \in Elems(q) : p <= k.prio[t]
  BY DEF MinPrio
<1> HIDE DEF S
<1>6. MinPrio(q) \in S
  BY <1>4, <1>5
<1> QED BY <1>2, <1>6

(* The signal readies threads that wait for the condition, and is nothing   *)
(* to the mutexes.                                                          *)
LEMMA SignalMutex ==
  ASSUME MonitorInv, NEW q \in Seq(Threads), Elems(q) \subseteq Waiting,
         UNCHANGED <<mtx, mc, pc, held>>,
         \/ k' = Woken(k, q)
         \/ \E test \in BOOLEAN : k' = IsrSwitch(Woken(k, q), test)
  PROVE  /\ MutexInv'
         /\ \A u \in Threads : k'.status[u] = "COND_BLOCKED" <=>
                                 k.status[u] = "COND_BLOCKED" /\ u \notin Elems(q)
         /\ k'.prio = k.prio /\ SameBlocked({})
<1> DEFINE n == Woken(k, q)
<1>1. KernelInv(k) /\ MutexInv /\ TypeOK
  BY DEF MonitorInv, MutexInv
<1>2. /\ KernelInv(n) /\ n.active = k.active /\ n.idle = k.idle
      /\ n.pendsv = k.pendsv /\ n.prio = k.prio
      /\ \A u \in Threads : n.status[u] = IF u \in Elems(q) THEN "PENDING" ELSE k.status[u]
  BY <1>1, WokenEffect
<1> HIDE DEF n
<1>3. /\ KernelInv(k') /\ k'.active = k.active /\ k'.idle = k.idle
      /\ k.pendsv => k'.pendsv
      /\ k'.status = n.status /\ k'.prio = k.prio
  <2>1. CASE k' = n
    BY <1>2, <2>1
  <2>2. CASE \E test \in BOOLEAN : k' = IsrSwitch(n, test)
    BY <1>2, <2>2, SwitchInv, SwitchEffect, PrioKept
  <2> QED BY <2>1, <2>2 DEF n
<1>4. \A u \in Elems(q) : u \in Threads => k.status[u] = "COND_BLOCKED"
  BY DEF MonitorInv, Waits
<1>5. \A u \in Threads : k'.status[u] = IF u \in Elems(q) THEN "PENDING" ELSE k.status[u]
  BY <1>2, <1>3
<1>6. \A u \in Threads : k'.status[u] = "MUTEX_BLOCKED" <=> k.status[u] = "MUTEX_BLOCKED"
  BY <1>4, <1>5
<1>7. Lists' /\ Owned'
  BY <1>1, <1>6, ListsKept
<1>8. Rests' /\ AtWork' /\ Cancelling'
  BY <1>1, <1>3, <1>5, ReadierKeeps
<1>9. MutexInv'
  BY <1>1, <1>3, <1>7, <1>8 DEF MutexInv, TypeOK, KernelInv
<1>10. \A u \in Threads : k'.status[u] = "COND_BLOCKED" <=>
                            k.status[u] = "COND_BLOCKED" /\ u \notin Elems(q)
  BY <1>5
<1> QED BY <1>3, <1>6, <1>9, <1>10 DEF SameBlocked

(* The threads that were taken are no longer listed, and on their way.      *)
LEMMA SignalWaits ==
  ASSUME MonitorInv, NEW broadcast \in BOOLEAN, NEW t, t \notin Waiting,
         waiting' = SubSeq(waiting, Len(Signalled(broadcast)) + 1, Len(waiting)),
         \A u \in Threads : k'.status[u] = "COND_BLOCKED" <=>
                              k.status[u] = "COND_BLOCKED" /\ u \notin Elems(Signalled(broadcast)),
         items' = items,
         \A u \in Threads \ {t} : doing'[u] = doing[u],
         t \in Threads => doing[t].at = "signal" /\ doing'[t].at # "wait"
  PROVE  Waits' /\ NoLostWakeup' /\ waiting' \in Seq(Threads)
<1> DEFINE q == Signalled(broadcast)
<1>1. /\ waiting' \in Seq(Threads) /\ Once(waiting')
      /\ Elems(q) \subseteq Waiting /\ Waiting' = Waiting \ Elems(q)
      /\ waiting # <<>> => waiting[1] \in Elems(q)
      /\ broadcast \/ waiting = <<>> => waiting' = <<>>
  BY SignalSplits DEF Waiting
<1> HIDE DEF q
<1>2. Waiting \subseteq Threads
  BY ElemsEmpty DEF Waiting, MonitorInv, MonitorTypes
<1>3. Waits'
  <2>1. \A u \in Threads : u \in Waiting' <=> k'.status[u] = "COND_BLOCKED"
    BY <1>1 DEF MonitorInv, Waits, q
  <2>2. \A u \in Waiting' : doing'[u].at = "relock"
    BY <1>1, <1>2 DEF MonitorInv, Waits
  <2>3. \A u \in Threads : doing'[u].at = "wait" => doing[u].at = "wait"
    OBVIOUS
  <2> QED BY <1>1, <2>1, <2>2, <2>3 DEF MonitorInv, Waits
<1>4. NoLostWakeup'
  <2> SUFFICES ASSUME waiting' # <<>>
               PROVE  items <= Cardinality(OnTheWay')
    BY DEF NoLostWakeup
  <2> DEFINE h == waiting[1]
             D == (OnTheWay \ {t}) \cup {h}
  <2>1. waiting # <<>> /\ h \in Elems(q) /\ h \in Waiting /\ h \in Threads
    BY <1>1, <1>2
  <2>2. items <= Cardinality(OnTheWay) /\ items \in Nat
    BY <2>1 DEF MonitorInv, NoLostWakeup, MonitorTypes
  <2>3. h \notin OnTheWay /\ h # t /\ doing[h].at = "relock"
    BY <2>1 DEF OnTheWay, MonitorInv, Waits
  <2> HIDE DEF h
  <2>4. D \subseteq OnTheWay'
    BY <1>1, <2>1, <2>3 DEF OnTheWay
  <2> DEFINE O == OnTheWay \ {t}
  <2>5. IsFiniteSet(O) /\ Cardinality(O) \in Nat /\ Cardinality(O) >= Cardinality(OnTheWay) - 1
    <3>1. IsFiniteSet(OnTheWay) /\ Cardinality(OnTheWay) \in Nat
      BY OnTheWayFinite
    <3>2. CASE t \in OnTheWay
      <4>1. Cardinality(O) = Cardinality(OnTheWay) - 1 /\ IsFiniteSet(O)
        BY <3>1, <3>2, FS_RemoveElement
      <4>2. Cardinality(O) \in Nat
        BY <4>1, FS_CardinalityType
      <4> HIDE DEF O
      <4> QED BY <3>1, <4>1, <4>2
    <3>3. CASE t \notin OnTheWay
      <4>1. O = OnTheWay
        BY <3>3
      <4> HIDE DEF O
      <4> QED BY <3>1, <4>1
    <3> QED BY <3>2, <3>3
  <2>6. Cardinality(D) = Cardinality(O) + 1
    <3>1. h \notin O /\ D = O \cup {h}
      BY <2>3
    <3> HIDE DEF O, D
    <3> QED BY <2>5, <3>1, FS_AddElement
  <2>7. IsFiniteSet(OnTheWay')
    <3>1. OnTheWay' \subseteq Threads
      BY DEF OnTheWay
    <3> QED BY <3>1, MutexAssumption, FS_Subset DEF MutexAssumption
  <2> HIDE DEF O, D
  <2>8. Cardinality(D) <= Cardinality(OnTheWay') /\ Cardinality(OnTheWay') \in Nat
    BY <2>4, <2>7, FS_Subset, FS_CardinalityType
  <2> QED BY <2>2, <2>5, <2>6, <2>8, OnTheWayFinite
<1> QED BY <1>1, <1>3, <1>4

(* _cond_signal(): with the condition's mutex held, the item that was added *)
(* is matched by the thread that is woken up.                               *)
LEMMA CondSignalKeeps ==
  ASSUME MonitorInv, NEW t \in Threads, NEW broadcast \in BOOLEAN, CondSignal(t, broadcast)
  PROVE  MonitorInv'
<1> DEFINE q == Signalled(broadcast)
<1>1. /\ doing[t].at = "signal" /\ pc[t].at = "run" /\ Executes(k, t)
      /\ UNCHANGED <<mtx, mc, pc, held, rm, items, nest>>
      /\ k' = Woken(k, q)
      /\ waiting' = SubSeq(waiting, Len(q) + 1, Len(waiting))
      /\ Do(t, IF q = <<>> THEN Simple("leave") ELSE [at |-> "switch", prio |-> MinPrio(q)])
  BY DEF CondSignal, Outside, At
<1>2. q \in Seq(Threads) /\ Elems(q) \subseteq Waiting
  BY SignalSplits
<1>3. PICK p \in Doing : Do(t, p) /\ p.at \in {"leave", "switch"}
  <2>1. CASE q = <<>>
    BY <1>1, <2>1, SimplePlaces
  <2>2. CASE q # <<>>
    <3>1. MinPrio(q) \in Prios
      BY <1>2, <2>2, MinPrioIs
    <3>2. [at |-> "switch", prio |-> MinPrio(q)] \in Doing
      BY <3>1 DEF Doing
    <3> QED BY <1>1, <2>2, <3>2
  <2> QED BY <2>1, <2>2
<1>4. doing'[t] = p /\ \A u \in Threads \ {t} : doing'[u] = doing[u]
  BY <1>3, DoEffect DEF MonitorInv
<1>5. /\ MutexInv'
      /\ \A u \in Threads : k'.status[u] = "COND_BLOCKED" <=>
                              k.status[u] = "COND_BLOCKED" /\ u \notin Elems(q)
  BY <1>1, <1>2, SignalMutex
<1>6. t \notin Waiting
  BY <1>1, Executing
<1>7. Waits' /\ NoLostWakeup' /\ waiting' \in Seq(Threads)
  BY <1>1, <1>3, <1>4, <1>5, <1>6, SignalWaits
<1>8. InPlace(t)'
  BY <1>1, <1>3, <1>4 DEF MonitorInv, InPlace
<1>9. SameOthers(t) /\ held'[t] = held[t] /\ items' \in 0 .. MaxItems
  BY <1>1 DEF SameOthers, MonitorInv, MonitorTypes
<1> QED BY <1>1, <1>3, <1>5, <1>7, <1>8, <1>9, ConditionStep DEF AtRecursive

(* The request for a switch to a thread that was woken up.                  *)
LEMMA SignalSwitchKeeps ==
  ASSUME MonitorInv, NEW t \in Threads, SignalSwitch(t)
  PROVE  MonitorInv'
<1>1. /\ doing[t].at = "switch" /\ pc[t].at = "run" /\ Executes(k, t)
      /\ UNCHANGED <<mtx, mc, pc, held, waiting, rm, items, nest>>
      /\ Do(t, Simple("leave"))
  BY DEF SignalSwitch, Outside, At
<1>2. PICK test \in BOOLEAN : k' = ThreadSwitch(k, test)
  BY DEF SignalSwitch, SwitchTests
<1>3. KernelInv(k) /\ MutexInv /\ TypeOK
  BY DEF MonitorInv, MutexInv
<1>4. /\ KernelInv(k') /\ k'.status = k.status /\ k'.active = k.active
      /\ k'.idle = k.idle /\ k'.prio = k.prio
      /\ k.pendsv => k'.pendsv
  BY <1>2, <1>3, SwitchInv, SwitchEffect, PrioKept
<1>5. Lists' /\ Owned'
  BY <1>1, <1>3, <1>4, ListsKept
<1>6. Rests' /\ AtWork' /\ Cancelling'
  BY <1>1, <1>3, <1>4, ReadierKeeps
<1>7. MutexInv'
  BY <1>1, <1>3, <1>4, <1>5, <1>6 DEF MutexInv, TypeOK, KernelInv
<1>8. SameWaits /\ SameOthers(t) /\ held'[t] = held[t]
  BY <1>1, <1>4 DEF SameWaits, SameOthers
<1>9. Simple("leave") \in Doing /\ Simple("leave").at = "leave"
  BY SimplePlaces
<1>10. doing'[t] = Simple("leave")
  BY <1>1, <1>9, DoEffect DEF MonitorInv
<1>11. t \notin Waiting
  BY <1>1, Executing
<1>12. Waits' /\ waiting' \in Seq(Threads) /\ OnTheWay' = OnTheWay \ {t}
  BY <1>1, <1>8, <1>9, <1>11, WaitersStay
<1>13. NoLostWakeup'
  <2>1. OnTheWay' = OnTheWay
    BY <1>1, <1>12 DEF OnTheWay
  <2> QED BY <1>1, <2>1 DEF MonitorInv, NoLostWakeup
<1>14. InPlace(t)'
  BY <1>1, <1>9, <1>10 DEF MonitorInv, InPlace
<1>15. items' \in 0 .. MaxItems
  BY <1>1 DEF MonitorInv, MonitorTypes
<1> QED BY <1>1, <1>7, <1>8, <1>9, <1>12, <1>13, <1>14, <1>15, ConditionStep DEF AtRecursive

(* cond_signal() and cond_broadcast() of a handler, who has no item to add. *)
LEMMA IsrSignalKeeps ==
  ASSUME MonitorInv, NEW broadcast \in BOOLEAN, IsrSignal(broadcast)
  PROVE  MonitorInv'
<1> DEFINE q == Signalled(broadcast)
<1>1. /\ UNCHANGED <<mtx, mc, pc, held, rm, items, nest, doing>>
      /\ waiting' = SubSeq(waiting, Len(q) + 1, Len(waiting))
      /\ waiting # <<>>
  BY DEF IsrSignal
<1>2. q \in Seq(Threads) /\ Elems(q) \subseteq Waiting /\ waiting[1] \in Elems(q)
  BY <1>1, SignalSplits
<1>3. \E test \in BOOLEAN : k' = IsrSwitch(Woken(k, q), test)
  <2>1. q # <<>>
    BY <1>2, ElemsEmpty
  <2> QED BY <2>1 DEF IsrSignal, SwitchTests
<1>4. /\ MutexInv'
      /\ \A u \in Threads : k'.status[u] = "COND_BLOCKED" <=>
                              k.status[u] = "COND_BLOCKED" /\ u \notin Elems(q)
  BY <1>1, <1>2, <1>3, SignalMutex
<1>5. Waits' /\ NoLostWakeup' /\ waiting' \in Seq(Threads)
  <2>1. NoThread \notin Threads /\ NoThread \notin Waiting
    BY KernelAssumption, ElemsEmpty DEF Waiting, MonitorInv, MonitorTypes
  <2> QED BY <1>1, <1>4, <2>1, SignalWaits
<1>6. MonitorTypes'
  BY <1>1, <1>5 DEF MonitorInv, MonitorTypes
<1>7. \A u \in Threads : InPlace(u)' /\ Counted(u)'
  BY <1>1 DEF MonitorInv, InPlace, Counted, InCall
<1>8. Unused'
  BY <1>1 DEF MonitorInv, Unused
<1> QED BY <1>4, <1>5, <1>6, <1>7, <1>8 DEF MonitorInv

-----------------------------------------------------------------------------
(* The theorems                                                             *)

(* Nobody waits for the condition yet, and nobody has the recursive mutex.  *)
LEMMA MonitorInitInv == MonitorInit => MonitorInv
<1> SUFFICES ASSUME MonitorInit PROVE MonitorInv
  OBVIOUS
<1>1. /\ Init /\ waiting = <<>> /\ rm = [owner |-> NoThread, refcount |-> 0] /\ items = 0
      /\ nest = [t \in Threads |-> 0] /\ doing = [t \in Threads |-> Simple("app")]
  BY DEF MonitorInit
<1>2. MutexInv
  BY <1>1, InitInv
<1>3. /\ \A t \in Threads : k.status[t] \in {"PENDING", "SLEEPING"}
      /\ \A t \in Threads : pc[t].at = "run" /\ held[t] = {}
  BY <1>1, MutexAssumption, StartOK DEF Init, MutexAssumption, Simple
<1>4. Simple("app") \in Doing /\ Simple("app").at = "app"
  BY SimplePlaces
<1>5. MonitorTypes
  <2>1. <<>> \in Seq(Threads) /\ 0 \in 0 .. MaxItems /\ 0 \in 0 .. MaxDepth
    BY TheMutexes
  <2> QED BY <1>1, <1>4, <2>1 DEF MonitorTypes
<1>6. Waiting = {} /\ Once(waiting)
  BY <1>1 DEF Waiting, Elems, Once
<1>7. Waits /\ NoLostWakeup
  BY <1>1, <1>3, <1>4, <1>6 DEF Waits, NoLostWakeup
<1>8. \A t \in Threads : doing[t].at = "app" /\ nest[t] = 0 /\ rm.owner # t
  BY <1>1, <1>4, KernelAssumption
<1>9. \A t \in Threads : InPlace(t) /\ Counted(t)
  BY <1>3, <1>8 DEF InPlace, Counted
<1> QED BY <1>1, <1>2, <1>5, <1>7, <1>9 DEF MonitorInv, Unused

(* Every step, or none, keeps the invariant.                                *)
LEMMA MonitorStepInv == MonitorInv /\ [MonitorNext]_monitorVars => MonitorInv'
<1> SUFFICES ASSUME MonitorInv, [MonitorNext]_monitorVars PROVE MonitorInv'
  OBVIOUS
<1>1. CASE UNCHANGED monitorVars
  <2>1. UNCHANGED vars /\ UNCHANGED own /\ held' = held /\ pc' = pc /\ doing' = doing
        /\ nest' = nest
    BY <1>1 DEF monitorVars, vars, own
  <2>2. MutexInv' /\ SameWaits
    BY <2>1, MutexUnchanged DEF MonitorInv
  <2>3. \A u \in Threads : InPlace(u)'
    BY <2>1 DEF MonitorInv, InPlace, InCall
  <2> QED BY <2>1, <2>2, <2>3, OwnUnchanged
<1>2. ASSUME NEW t \in Threads, Continue(t)
      PROVE  MonitorInv'
  <2>1. CASE InMutex(t) \/ Test(t) \/ Add(t) \/ Relock(t) \/ Leave(t)
    BY <2>1, InMutexKeeps, TestKeeps, AddKeeps, RelockKeeps, LeaveKeeps
  <2>2. CASE \/ CondWait(t) \/ SignalSwitch(t)
             \/ \E broadcast \in BOOLEAN : CondSignal(t, broadcast)
    BY <2>2, CondWaitKeeps, SignalSwitchKeeps, CondSignalKeeps
  <2>3. CASE \/ RecLoad(t) \/ RecAwait(t) \/ RecStore(t) \/ RecCount(t)
             \/ RecReset(t) \/ RecRelease(t)
    BY <2>3, RecLoadKeeps, RecAwaitKeeps, RecStoreKeeps, RecCountKeeps, OwnerResetKeeps,
       RecReleaseKeeps
  <2> QED BY <1>2, <2>1, <2>2, <2>3 DEF Continue
<1>3. ASSUME NEW t \in Threads,
             \/ Enter(t) \/ RecUnlock(t) \/ Rest(t) \/ Wakeup(t)
             \/ \E trylock \in BOOLEAN : RecTry(t, trylock)
      PROVE  MonitorInv'
  BY <1>3, EnterKeeps, RecUnlockKeeps, RestKeeps, WakeupKeeps, RecTryKeeps
<1>4. CASE (\E broadcast \in BOOLEAN : IsrSignal(broadcast)) \/ Processor
  BY <1>4, IsrSignalKeeps, ProcessorKeeps
<1> QED BY <1>1, <1>2, <1>3, <1>4 DEF MonitorNext

(* Condition variables and recursive mutexes keep their lists, counters and *)
(* owners in step with the mutexes they are built from (core/cond.c,        *)
(* core/lib/rmutex.c).                                                      *)
THEOREM MonitorInvariant == MonitorSpec => []MonitorInv
BY MonitorInitInv, MonitorStepInv, PTL DEF MonitorSpec

(* cond_wait() misses no cond_signal() (core/cond.c): while a thread is in  *)
(* the list, every item is matched by a thread that was woken up or by one  *)
(* that is about to signal.                                                 *)
THEOREM NoWakeupLost == MonitorSpec => []NoLostWakeup
<1>1. MonitorInv => NoLostWakeup
  BY DEF MonitorInv
<1> QED BY <1>1, MonitorInvariant, PTL

(* Whoever tests or changes the condition, in cond_wait()'s loop or before  *)
(* cond_signal(), holds the mutex alone (core/cond.c).                      *)
THEOREM ConditionAlwaysGuarded == MonitorSpec => []ConditionGuarded
<1>1. MonitorInv => ConditionGuarded
  <2> SUFFICES ASSUME MonitorInv, NEW t \in Threads, pc[t].at = "run",
                      doing[t].at \in {"test", "add", "signal", "switch", "leave", "wait"}
               PROVE  lock \in held[t] /\ Owners(lock) = {t}
    BY DEF ConditionGuarded
  <2>1. lock \in held[t]
    BY DEF MonitorInv, InPlace
  <2>2. Owners(lock) = {t}
    BY <2>1, TheMutexes DEF MonitorInv, MutexInv, Owned, Owners, Owner
  <2> QED BY <2>1, <2>2
<1> QED BY <1>1, MonitorInvariant, PTL

(* The holder of a recursive mutex is not refused and does not wait for     *)
(* itself, and what it has to unlock is what the mutex has counted          *)
(* (core/lib/rmutex.c).                                                     *)
THEOREM HolderAlwaysNests == MonitorSpec => []HolderNests
<1>1. MonitorInv => HolderNests
  <2> SUFFICES ASSUME MonitorInv, NEW t \in Threads, nest[t] > 0
               PROVE  /\ Holder = t /\ rm.refcount = nest[t] /\ rm.owner = t
                      /\ doing[t].at # "await" /\ ~InCall(t, rec)
    BY DEF HolderNests
  <2>1. rec \in held[t] /\ rm.owner = t /\ rm.refcount = nest[t] /\ doing[t].at # "await"
    BY DEF MonitorInv, Counted
  <2>2. Owners(rec) = {t}
    BY <2>1, TheMutexes DEF MonitorInv, MutexInv, Owned, Owners, Owner
  <2>3. Holder = t
    BY <2>2 DEF Holder
  <2>4. ~InCall(t, rec)
    BY TheMutexes, AtSomePlace DEF MonitorInv, InPlace, InCall
  <2> QED BY <2>1, <2>3, <2>4
<1> QED BY <1>1, MonitorInvariant, PTL

-----------------------------------------------------------------------------
(* The order of the waiters                                                 *)

(* Without priority inheritance no step changes a priority, and the list of *)
(* the condition changes by thread_add_to_list() and from its head only.    *)
WaitsSame == k'.prio = k.prio /\ waiting' = waiting
LEMMA WaitersChange ==
  ASSUME MonitorInv, ~PI, [MonitorNext]_monitorVars
  PROVE  \/ WaitsSame
         \/ /\ k'.prio = k.prio
            /\ \/ \E t \in Threads : waiting' = AddToList(k', waiting, t)
               \/ \E broadcast \in BOOLEAN :
                    waiting' = SubSeq(waiting, Len(Signalled(broadcast)) + 1, Len(waiting))
<1>0. MutexInv /\ KernelInv(k)
  BY DEF MonitorInv, MutexInv
<1>1. CASE UNCHANGED monitorVars
  BY <1>1 DEF monitorVars, vars, own, WaitsSame
<1>2. ASSUME NEW t \in Threads, NEW m \in Mutexes, waiting' = waiting,
             LockFree(t, m) \/ LockBlocks(t, m) \/ ThreadUnlock(t, m)
      PROVE  WaitsSame
  BY <1>0, <1>2, LockEffect, UnlockEffect DEF SameWaits, WaitsSame
<1>3. ASSUME NEW t \in Threads,
             \/ Enter(t) \/ Relock(t) \/ Leave(t) \/ RecAwait(t) \/ RecRelease(t)
      PROVE  WaitsSame
  BY <1>2, <1>3, TheMutexes DEF Enter, Relock, Leave, RecAwait, RecRelease
<1>4. ASSUME NEW t \in Threads, NEW trylock \in BOOLEAN, RecTry(t, trylock)
      PROVE  WaitsSame
  <2>1. CASE LockFree(t, rec)
    BY <1>2, <1>4, <2>1, TheMutexes DEF RecTry
  <2>2. CASE UNCHANGED vars
    BY <1>4, <2>2 DEF RecTry, vars, WaitsSame
  <2> QED BY <1>4, <2>1, <2>2 DEF RecTry
<1>5. ASSUME NEW t \in Threads,
             \/ Test(t) \/ Add(t) \/ RecLoad(t) \/ RecStore(t) \/ RecCount(t)
             \/ RecReset(t) \/ RecUnlock(t)
      PROVE  WaitsSame
  <2>1. UNCHANGED <<vars, waiting>>
    BY <1>5 DEF Test, Add, RecLoad, RecStore, RecCount, RecReset, RecUnlock
  <2> QED BY <2>1 DEF vars, WaitsSame
<1>6. ASSUME NEW t \in Threads, InMutex(t) \/ Rest(t) \/ Wakeup(t)
      PROVE  WaitsSame
  <2>1. waiting' = waiting
    BY <1>6 DEF InMutex, Rest, Wakeup, own
  <2>2. CASE Return(t)
    BY <2>1, <2>2 DEF Return, Keep, WaitsSame
  <2>3. CASE DoYield(t) \/ Sleep(t) \/ IsrWakeup(t)
    BY <1>0, <2>1, <2>3, YieldsEffect, SleepEffect, WakeupEffect DEF SameWaits, WaitsSame
  <2> QED BY <1>6, <2>2, <2>3 DEF InMutex, Rest, Wakeup
<1>7. CASE Processor
  BY <1>0, <1>7, RunKeeps DEF Processor, SameWaits, WaitsSame, own
<1>8. ASSUME NEW t \in Threads, CondWait(t)
      PROVE  k'.prio = k.prio /\ waiting' = AddToList(k', waiting, t)
  BY <1>8, CondWaitMutex DEF CondWait, Join
<1>9. ASSUME NEW t \in Threads, SignalSwitch(t)
      PROVE  WaitsSame
  <2>1. PICK test \in BOOLEAN : k' = ThreadSwitch(k, test)
    BY <1>9 DEF SignalSwitch, SwitchTests
  <2> QED BY <1>0, <1>9, <2>1, PrioKept DEF SignalSwitch, WaitsSame
<1>10. ASSUME NEW broadcast \in BOOLEAN,
              (\E t \in Threads : CondSignal(t, broadcast)) \/ IsrSignal(broadcast)
       PROVE  /\ k'.prio = k.prio
              /\ waiting' = SubSeq(waiting, Len(Signalled(broadcast)) + 1, Len(waiting))
  <2> DEFINE q == Signalled(broadcast)
  <2>1. waiting' = SubSeq(waiting, Len(q) + 1, Len(waiting)) /\ UNCHANGED <<mtx, mc, pc, held>>
    BY <1>10 DEF CondSignal, IsrSignal
  <2>2. q \in Seq(Threads) /\ Elems(q) \subseteq Waiting
        /\ (waiting # <<>> => waiting[1] \in Elems(q))
    BY SignalSplits
  <2>3. CASE \E t \in Threads : CondSignal(t, broadcast)
    <3>1. k' = Woken(k, q)
      BY <2>3 DEF CondSignal
    <3> QED BY <2>1, <2>2, <3>1, SignalMutex
  <2>4. CASE IsrSignal(broadcast)
    <3>1. q # <<>>
      BY <2>2, <2>4, ElemsEmpty DEF IsrSignal
    <3>2. \E test \in BOOLEAN : k' = IsrSwitch(Woken(k, q), test)
      BY <2>4, <3>1 DEF IsrSignal, SwitchTests
    <3> QED BY <2>1, <2>2, <3>2, SignalMutex
  <2> QED BY <1>10, <2>3, <2>4
<1>11. ASSUME NEW t \in Threads, Continue(t)
       PROVE  \/ WaitsSame
              \/ CondWait(t)
              \/ \E broadcast \in BOOLEAN : CondSignal(t, broadcast)
  BY <1>3, <1>5, <1>6, <1>9, <1>11 DEF Continue
<1>12. ASSUME NEW t \in Threads,
              \/ Enter(t) \/ RecUnlock(t) \/ Rest(t) \/ Wakeup(t)
              \/ \E trylock \in BOOLEAN : RecTry(t, trylock)
       PROVE  WaitsSame
  BY <1>3, <1>4, <1>5, <1>6, <1>12
<1> QED BY <1>1, <1>7, <1>8, <1>10, <1>11, <1>12 DEF MonitorNext

(* What is left of a list in the order of the priorities is in that order.  *)
LEMMA RestSorted ==
  ASSUME NEW s, NEW w \in Seq(Threads), Sorted(s, w), NEW n \in Nat
  PROVE  Sorted(s, SubSeq(w, n + 1, Len(w)))
<1> DEFINE L == Len(w)
           r == SubSeq(w, n + 1, L)
<1>1. L \in Nat /\ DOMAIN w = 1 .. L
  BY LenProperties
<1>2. \A i \in n + 1 .. L : w[i] \in Threads
  BY <1>1
<1>3. n + 1 \in Int /\ L \in Int
  BY <1>1
<1> HIDE DEF L
<1>4. /\ r \in Seq(Threads) /\ Len(r) = IF n + 1 <= L THEN L - (n + 1) + 1 ELSE 0
      /\ \A i \in 1 .. L - (n + 1) + 1 : r[i] = w[(n + 1) + i - 1]
  BY <1>2, <1>3, SubSeqProperties
<1>5. DOMAIN r = 1 .. Len(r)
  BY <1>4, LenProperties
<1> HIDE DEF r
<1>6. ASSUME NEW i \in DOMAIN r, NEW j \in DOMAIN r, i < j
      PROVE  s.prio[r[i]] <= s.prio[r[j]]
  <2>1. n + i \in 1 .. L /\ n + j \in 1 .. L /\ n + i < n + j
    BY <1>1, <1>4, <1>5, <1>6
  <2>2. r[i] = w[n + i] /\ r[j] = w[n + j]
    <3>1. i \in 1 .. L - (n + 1) + 1 /\ j \in 1 .. L - (n + 1) + 1
      BY <1>1, <1>4, <1>5
    <3>2. (n + 1) + i - 1 = n + i /\ (n + 1) + j - 1 = n + j
      BY <3>1
    <3> QED BY <1>4, <3>1, <3>2
  <2> QED BY <1>1, <2>1, <2>2 DEF Sorted
<1> QED BY <1>6 DEF Sorted, r, L

(* cond_wait() and the signals keep the waiters in the order of their       *)
(* priorities.                                                              *)
LEMMA MonitorOrder ==
  ASSUME MonitorInv, ~PI, Sorted(k, waiting), [MonitorNext]_monitorVars, KernelInv(k')
  PROVE  Sorted(k, waiting)'
<1> DEFINE n == k'
<1>1. waiting \in Seq(Threads) /\ n.prio \in [Threads -> Prios]
  BY DEF MonitorInv, MonitorTypes, KernelInv, KernelType
<1>2. n.prio = k.prio => Sorted(n, waiting)
  BY DEF Sorted
<1>3. Sorted(n, waiting') => Sorted(k, waiting)'
  BY DEF Sorted
<1> HIDE DEF n
<1>4. CASE WaitsSame
  BY <1>2, <1>3, <1>4 DEF WaitsSame, n
<1>5. ASSUME NEW t \in Threads, n.prio = k.prio, waiting' = AddToList(n, waiting, t)
      PROVE  Sorted(k, waiting)'
  BY <1>1, <1>2, <1>3, <1>5, AddSorted
<1>6. ASSUME NEW broadcast \in BOOLEAN, n.prio = k.prio,
             waiting' = SubSeq(waiting, Len(Signalled(broadcast)) + 1, Len(waiting))
      PROVE  Sorted(k, waiting)'
  <2>1. Len(Signalled(broadcast)) \in Nat
    BY SignalSplits, LenProperties
  <2> QED BY <1>1, <1>2, <1>3, <1>6, <2>1, RestSorted
<1> QED BY <1>4, <1>5, <1>6, WaitersChange DEF n

(* Without priority inheritance, the list of a condition variable is in the *)
(* order of the priorities and holds the threads that are blocked for the   *)
(* condition, and the lists of the mutexes stay consistent (core/cond.c).   *)
THEOREM MonitorListsKept ==
  ASSUME ~PI
  PROVE  MonitorSpec => []MonitorLists
<1> DEFINE OrderInv == MonitorInv /\ Sorted(k, waiting)
<1>1. MonitorInit => OrderInv
  <2>1. MonitorInit => Sorted(k, waiting)
    BY DEF MonitorInit, Sorted
  <2> QED BY <2>1, MonitorInitInv
<1>2. OrderInv /\ [MonitorNext]_monitorVars => OrderInv'
  <2> SUFFICES ASSUME MonitorInv, Sorted(k, waiting), [MonitorNext]_monitorVars
               PROVE  MonitorInv' /\ Sorted(k, waiting)'
    OBVIOUS
  <2>1. MonitorInv'
    BY MonitorStepInv
  <2>2. KernelInv(k')
    BY <2>1 DEF MonitorInv, MutexInv, KernelInv
  <2> QED BY <2>1, <2>2, MonitorOrder
<1>3. OrderInv => MonitorLists
  <2> SUFFICES ASSUME MonitorInv, Sorted(k, waiting) PROVE MonitorLists
    OBVIOUS
  <2>1. ListsConsistent
    BY DEF MonitorInv, MutexInv, KernelInv, Lists, ListsConsistent, Once
  <2> QED BY <2>1 DEF MonitorInv, MonitorTypes, Waits, MonitorLists, Sorted
<1> QED BY <1>1, <1>2, <1>3, PTL DEF MonitorSpec

-----------------------------------------------------------------------------
(* The recursive mutex implements the reentrant lock                        *)

(* The owner of rec, with the thread that mutex_unlock() handed it to and   *)
(* that did not run yet.                                                    *)
Has(t) == rec \in held[t] \/ (InCall(t, rec) /\ k.status[t] # "MUTEX_BLOCKED")

(* Between two changes of the counter the holder has one lock more than the *)
(* mutex counts.                                                            *)
AtCounted == {"store", "count", "reset", "release"}
DepthOf(t) == rm.refcount + (IF doing[t].at \in AtCounted THEN 1 ELSE 0)

(* The holder of the reentrant lock is the owner of rec.                    *)
HolderFacts ==
  /\ \A t \in Threads : Holder = t <=> Has(t)
  /\ Holder \in Threads \cup {NoThread}
  /\ \A t, u \in Threads : Has(t) /\ Has(u) => t = u
  /\ \A t \in Threads : Holder = t => Depth = DepthOf(t)
  /\ (\A t \in Threads : ~Has(t)) => Holder = NoThread /\ Depth = 0
  /\ \A t \in Threads : t \in Waiters(rec) => ~Has(t)
  /\ \A t \in Threads : InCall(t, rec) => doing[t].at = "store"
  /\ \A t \in Threads : Has(t) => mtx[rec].locked

LEMMA HolderIs == MonitorInv => HolderFacts
<1> SUFFICES ASSUME MonitorInv PROVE HolderFacts
  OBVIOUS
<1>1. \A t \in Threads : InCall(t, rec) => ~pc[t].mc
  BY DEF MonitorInv, InPlace, InCall
<1>2. \A t \in Threads : t \in Waiters(rec) <=> k.status[t] = "MUTEX_BLOCKED" /\ InCall(t, rec)
  BY TheMutexes DEF MonitorInv, MutexInv, Lists, All
<1>3. \A t \in Threads : Has(t) <=> Owner(t, rec)
  <2>1. \A t \in Threads : InCall(t, rec) => ~(pc[t].mc /\ mc[t].cancelled)
    BY <1>1, Zenon
  <2>2. \A t \in Threads : Granted(t, rec) <=> InCall(t, rec) /\ k.status[t] # "MUTEX_BLOCKED"
    BY <1>2, <2>1, Zenon DEF Granted
  <2> QED BY <2>2, Zenon DEF Has, Owner
<1>4. \A t, u \in Threads : Has(t) /\ Has(u) => t = u
  BY <1>3, TheMutexes DEF MonitorInv, MutexInv, Owned
<1>5. Owners(rec) = {t \in Threads : Has(t)}
  BY <1>3 DEF Owners, Owner
<1>6. NoThread \notin Threads
  BY KernelAssumption
<1>7. /\ \A t \in Threads : Holder = t <=> Has(t)
      /\ Holder \in Threads \cup {NoThread}
      /\ (\A t \in Threads : ~Has(t)) => Holder = NoThread
  <2>1. CASE Owners(rec) = {}
    BY <1>5, <1>6, <2>1 DEF Holder
  <2>2. CASE Owners(rec) # {}
    <3>1. PICK h \in Threads : Has(h)
      BY <1>5, <2>2
    <3>2. Holder = h
      <4>1. \A t \in Threads : t \in Owners(rec) <=> t = h
        BY <1>4, <1>5, <3>1
      <4> QED BY <2>2, <4>1 DEF Holder
    <3> QED BY <1>4, <3>1, <3>2
  <2> QED BY <2>1, <2>2
<1>8. \A t \in Threads : Holder = t => Depth = DepthOf(t)
  BY <1>6 DEF Depth, DepthOf, AtCounted
<1>9. Holder = NoThread => Depth = 0
  BY DEF Depth
<1>10. \A t \in Threads : t \in Waiters(rec) => ~Has(t)
  <2>1. ASSUME NEW t \in Threads, t \in Waiters(rec), rec \in held[t]
        PROVE  FALSE
    <3>1. InCall(t, rec) /\ k.status[t] = "MUTEX_BLOCKED"
      BY <1>2, <2>1
    <3>2. doing[t].at = "store" /\ pc[t].at # "run"
      BY <3>1, TheMutexes, AtSomePlace DEF MonitorInv, InPlace, InCall
    <3> QED BY <2>1, <3>1, <3>2 DEF MonitorInv, Counted, InPlace
  <2> QED BY <1>2, <2>1 DEF Has
<1>11. \A t \in Threads : InCall(t, rec) => doing[t].at = "store"
  BY TheMutexes, AtSomePlace DEF MonitorInv, InPlace, InCall
<1>12. \A t \in Threads : Has(t) => mtx[rec].locked
  BY <1>3, TheMutexes DEF MonitorInv, MutexInv, Owned
<1> QED BY <1>4, <1>7, <1>8, <1>9, <1>10, <1>11, <1>12 DEF HolderFacts

LEMMA HolderIsNext == MonitorInv' => HolderFacts'
BY HolderIs, PTL

(* A step that changes neither owner nor depth.                             *)
LEMMA HolderStays ==
  ASSUME MonitorInv, MonitorInv',
         \A u \in Threads : Has(u)' <=> Has(u),
         \A u \in Threads : Has(u) => DepthOf(u)' = DepthOf(u)
  PROVE  UNCHANGED Abstract!vars
<1>1. CASE \A u \in Threads : ~Has(u)
  BY <1>1, HolderIs, HolderIsNext DEF HolderFacts, Abstract!vars
<1>2. ASSUME NEW u \in Threads, Has(u)
      PROVE  UNCHANGED Abstract!vars
  BY <1>2, HolderIs, HolderIsNext DEF HolderFacts, Abstract!vars
<1> QED BY <1>1, <1>2

(* The other threads have what they had, and a step between the mutex calls *)
(* changes no owner.                                                        *)
LEMMA HasOthers ==
  ASSUME NEW t \in Threads, SameOthers(t), NEW S, SameBlocked(S)
  PROVE  \A u \in Threads \ {t} : u \notin S \/ ~InCall(u, rec) => (Has(u)' <=> Has(u))
BY DEF SameOthers, SameBlocked, Has, InCall

LEMMA HasUnchanged ==
  ASSUME UNCHANGED <<k, pc, held>>
  PROVE  \A u \in Threads : Has(u)' <=> Has(u)
BY DEF Has, InCall

(* A step of a thread that stays in or out of the places between a change   *)
(* of the owner and one of the counter, or has nothing to do with rec.      *)
LEMMA DepthKept ==
  ASSUME MonitorInv, MonitorInv', NEW t \in Threads,
         \A u \in Threads : Has(u)' <=> Has(u),
         \A u \in Threads \ {t} : doing'[u] = doing[u],
         Has(t) => (doing'[t].at \in AtCounted <=> doing[t].at \in AtCounted),
         rm' = rm
  PROVE  UNCHANGED Abstract!vars
<1>1. \A u \in Threads : Has(u) => DepthOf(u)' = DepthOf(u)
  BY DEF DepthOf
<1> QED BY <1>1, HolderStays

(* mutex_lock() or mutex_trylock() inside, that takes rec or waits for it.  *)
LEMMA RecLocks ==
  ASSUME MonitorInv, MonitorInv', NEW t \in Threads, LockFree(t, rec) \/ LockBlocks(t, rec),
         Do(t, Simple("store")), rm' = rm
  PROVE  Abstract!Acquire(t) \/ UNCHANGED Abstract!vars
<1>1. /\ SameOthers(t) /\ SameBlocked({t}) /\ k.status[t] # "MUTEX_BLOCKED"
      /\ pc[t].at = "run" /\ rec \notin held[t]
      /\ \/ /\ pc'[t] = pc[t] /\ held'[t] = held[t] \cup {rec}
            /\ \A u \in Threads : rec \notin held[u]
         \/ /\ pc'[t].at = "block" /\ held'[t] = held[t]
            /\ k'.status[t] = "MUTEX_BLOCKED"
  BY LockEffect, TheMutexes DEF MonitorInv
<1>2. /\ doing'[t].at = "store"
      /\ \A u \in Threads \ {t} : doing'[u] = doing[u]
  BY SimplePlaces, DoEffect DEF MonitorInv
<1>3. ~Has(t)
  BY <1>1 DEF Has, InCall
<1>4. CASE LockFree(t, rec)
  <2>1. pc' = pc /\ ~mtx[rec].locked
    BY <1>4 DEF LockFree
  <2>2. rec \in held'[t] /\ \A u \in Threads : rec \notin held[u]
    BY <1>1, <2>1
  <2>3. \A u \in Threads : ~Has(u)
    BY <2>1, HolderIs DEF HolderFacts
  <2>4. Has(t)'
    BY <2>2 DEF Has
  <2>5. rm.refcount = 0 /\ DepthOf(t)' = 1
    BY <1>2, <2>2 DEF MonitorInv, Unused, DepthOf, AtCounted
  <2>6. Holder = NoThread /\ Holder' = t /\ Depth' = 1
    BY <2>3, <2>4, <2>5, HolderIs, HolderIsNext DEF HolderFacts
  <2> QED BY <2>6 DEF Abstract!Acquire
<1>5. CASE LockBlocks(t, rec)
  <2>1. held' = held
    BY <1>5 DEF LockBlocks, Block
  <2>2. k'.status[t] = "MUTEX_BLOCKED"
    BY <1>1, <2>1
  <2>3. ~Has(t)'
    BY <1>1, <2>1, <2>2 DEF Has
  <2>4. \A u \in Threads : Has(u)' <=> Has(u)
    BY <1>1, <1>3, <2>3, HasOthers
  <2> QED BY <1>2, <1>3, <2>4, DepthKept
<1> QED BY <1>4, <1>5

(* mutex_unlock() inside rmutex_unlock(): nobody holds rec, or its first    *)
(* waiter.                                                                  *)
LEMMA RecReleases ==
  ASSUME MonitorInv, MonitorInv', NEW t \in Threads, RecRelease(t)
  PROVE  Abstract!Free(t) \/ \E w \in Threads : Abstract!HandOver(t, w)
<1>1. /\ doing[t].at = "release" /\ ThreadUnlock(t, rec) /\ Do(t, Simple("app")) /\ rm' = rm
      /\ pc[t].at = "run"
  BY DEF RecRelease, Outside, At
<1>2. /\ SameOthers(t) /\ rec \in held[t] /\ held'[t] = held[t] \ {rec}
      /\ pc'[t].at \in {"run", "yield"}
      /\ IF mtx[rec].queue = <<>> THEN SameBlocked({})
         ELSE LET w == Head(mtx[rec].queue)
              IN w \in Waiters(rec) /\ k'.status[w] # "MUTEX_BLOCKED" /\ SameBlocked({w})
  BY <1>1, UnlockEffect, TheMutexes DEF MonitorInv
<1>3. \A u \in Threads \ {t} : doing'[u] = doing[u]
  BY <1>1, SimplePlaces, DoEffect DEF MonitorInv
<1>4. Has(t) /\ rm.refcount = 0 /\ DepthOf(t) = 1
  BY <1>1, <1>2 DEF MonitorInv, Counted, Has, DepthOf, AtCounted
<1>5. Holder = t /\ Depth = 1 /\ \A u \in Threads \ {t} : ~Has(u)
  BY <1>4, HolderIs DEF HolderFacts
<1>6. ~Has(t)'
  BY <1>2 DEF Has, InCall
<1>7. CASE mtx[rec].queue = <<>>
  <2>1. \A u \in Threads : ~Has(u)'
    BY <1>2, <1>5, <1>6, <1>7, HasOthers
  <2>2. Holder' = NoThread /\ Depth' = 0
    BY <2>1, HolderIsNext DEF HolderFacts
  <2> QED BY <1>5, <2>2 DEF Abstract!Free
<1>8. CASE mtx[rec].queue # <<>>
  <2>1. PICK w \in Threads : InCall(w, rec) /\ k'.status[w] # "MUTEX_BLOCKED"
    BY <1>2, <1>8, FirstWaiter, TheMutexes DEF MonitorInv, All
  <2>2. w # t
    BY <1>1, <2>1 DEF InCall
  <2>3. Has(w)'
    BY <1>2, <2>1, <2>2 DEF Has, InCall, SameOthers
  <2>4. doing'[w].at = "store"
    BY <1>3, <2>1, <2>2, HolderIs DEF HolderFacts
  <2>5. DepthOf(w)' = 1
    BY <1>1, <1>4, <2>4 DEF DepthOf, AtCounted
  <2>6. Holder' = w /\ Depth' = 1
    BY <2>1, <2>3, <2>5, HolderIsNext DEF HolderFacts
  <2> QED BY <1>5, <2>1, <2>2, <2>6 DEF Abstract!HandOver
<1> QED BY <1>7, <1>8

(* The load of the owner: the holder enters once more.                      *)
LEMMA RecLoads ==
  ASSUME MonitorInv, MonitorInv', NEW t \in Threads, RecLoad(t)
  PROVE  Abstract!Nest(t) \/ UNCHANGED Abstract!vars
<1>1. /\ doing[t].at \in {"load", "tryload"} /\ rm' = rm /\ UNCHANGED <<k, pc, held>>
  BY DEF RecLoad, Outside, vars
<1>2. PICK p \in {"store", "await", "app"} :
        Do(t, Simple(p)) /\ (p = "store" <=> rm.owner = t)
  BY DEF RecLoad
<1>3. doing'[t].at = p /\ \A u \in Threads \ {t} : doing'[u] = doing[u]
  BY <1>2, SimplePlaces, DoEffect DEF MonitorInv
<1>4. \A u \in Threads : Has(u)' <=> Has(u)
  BY <1>1, HasUnchanged
<1>5. CASE p = "store"
  <2>1. Has(t) /\ Has(t)'
    BY <1>2, <1>4, <1>5 DEF MonitorInv, Counted, Has
  <2>2. rm.refcount \in Nat
    BY DEF MonitorInv, MonitorTypes
  <2>3. DepthOf(t)' = DepthOf(t) + 1
    BY <1>1, <1>3, <1>5, <2>2 DEF DepthOf, AtCounted
  <2>4. Holder = t /\ Holder' = t /\ Depth' = Depth + 1
    BY <2>1, <2>3, HolderIs, HolderIsNext DEF HolderFacts
  <2> QED BY <2>4 DEF Abstract!Nest
<1>6. CASE p # "store"
  BY <1>1, <1>3, <1>4, <1>6, DepthKept DEF AtCounted
<1> QED BY <1>5, <1>6

(* The decrement: the holder leaves, but not yet for the last time.         *)
LEMMA RecUnlocks ==
  ASSUME MonitorInv, MonitorInv', NEW t \in Threads, RecUnlock(t)
  PROVE  Abstract!Unnest(t) \/ UNCHANGED Abstract!vars
<1>1. /\ doing[t].at = "app" /\ nest[t] > 0 /\ UNCHANGED <<k, pc, held>>
      /\ rm' = [rm EXCEPT !.refcount = rm.refcount - 1]
      /\ Do(t, Simple(IF rm.refcount = 1 THEN "reset" ELSE "app"))
  BY DEF RecUnlock, Outside, vars
<1>2. /\ rec \in held[t] /\ rm.refcount = nest[t] /\ rm.refcount \in Nat
      /\ rm'.refcount = rm.refcount - 1
  BY <1>1 DEF MonitorInv, Counted, MonitorTypes
<1>3. /\ doing'[t].at = (IF rm.refcount = 1 THEN "reset" ELSE "app")
      /\ \A u \in Threads \ {t} : doing'[u] = doing[u]
  BY <1>1, SimplePlaces, DoEffect DEF MonitorInv
<1>4. \A u \in Threads : Has(u)' <=> Has(u)
  BY <1>1, HasUnchanged
<1>5. Has(t) /\ Has(t)'
  BY <1>2, <1>4 DEF Has
<1>6. DepthOf(t) = rm.refcount /\ DepthOf(t)' =
        IF rm.refcount = 1 THEN rm.refcount ELSE rm.refcount - 1
  BY <1>1, <1>2, <1>3 DEF DepthOf, AtCounted
<1>7. Holder = t /\ Holder' = t /\ Depth = DepthOf(t) /\ Depth' = DepthOf(t)'
  BY <1>5, HolderIs, HolderIsNext DEF HolderFacts
<1>8. CASE rm.refcount = 1
  BY <1>6, <1>7, <1>8 DEF Abstract!vars
<1>9. CASE rm.refcount # 1
  <2>1. rm.refcount > 1
    BY <1>1, <1>2, <1>9
  <2> QED BY <1>6, <1>7, <1>9, <2>1 DEF Abstract!Unnest
<1> QED BY <1>8, <1>9

(* The stores of the owner and the increment change nothing that the        *)
(* reentrant lock has.                                                      *)
LEMMA RecSteps ==
  ASSUME MonitorInv, MonitorInv', NEW t \in Threads, RecStore(t) \/ RecCount(t) \/ RecReset(t)
  PROVE  UNCHANGED Abstract!vars
<1>1. UNCHANGED <<k, pc, held>>
  BY DEF RecStore, RecCount, RecReset, vars
<1>2. \A u \in Threads : Has(u)' <=> Has(u)
  BY <1>1, HasUnchanged
<1>3. rm.refcount \in Nat
  BY DEF MonitorInv, MonitorTypes
<1>4. /\ DepthOf(t)' = DepthOf(t)
      /\ \A u \in Threads \ {t} : doing'[u] = doing[u]
      /\ Has(t)
  <2>1. CASE RecStore(t) \/ RecReset(t)
    <3>1. PICK p \in {"count", "release"} : Do(t, Simple(p))
      BY <2>1 DEF RecStore, RecReset
    <3>2. doing'[t].at = p /\ \A u \in Threads \ {t} : doing'[u] = doing[u]
      BY <3>1, SimplePlaces, DoEffect DEF MonitorInv
    <3>3. rm'.refcount = rm.refcount
      BY <2>1 DEF RecStore, RecReset, MonitorInv, MonitorTypes
    <3>4. doing[t].at \in {"store", "reset"} /\ pc[t].at = "run"
      BY <2>1 DEF RecStore, RecReset, Outside, At
    <3>5. Has(t)
      BY <3>4 DEF MonitorInv, Counted, Has
    <3> QED BY <3>2, <3>3, <3>4, <3>5 DEF DepthOf, AtCounted
  <2>2. CASE RecCount(t)
    <3>1. doing[t].at = "count" /\ Do(t, Simple("app"))
          /\ rm' = [rm EXCEPT !.refcount = rm.refcount + 1]
      BY <2>2 DEF RecCount, Outside
    <3>2. doing'[t].at = "app" /\ \A u \in Threads \ {t} : doing'[u] = doing[u]
      BY <3>1, SimplePlaces, DoEffect DEF MonitorInv
    <3>3. rm'.refcount = rm.refcount + 1
      BY <3>1 DEF MonitorInv, MonitorTypes
    <3>4. Has(t)
      BY <3>1 DEF MonitorInv, Counted, Has
    <3> QED BY <1>3, <3>1, <3>2, <3>3, <3>4 DEF DepthOf, AtCounted
  <2> QED BY <2>1, <2>2
<1>5. \A u \in Threads : Has(u) => u = t
  BY <1>4, HolderIs DEF HolderFacts
<1> QED BY <1>2, <1>4, <1>5, HolderStays

(* The other calls of mutexes are not of rec, or change nothing about it    *)
(* but the place of their thread.                                           *)
LEMMA OtherLocks ==
  ASSUME MonitorInv, MonitorInv', NEW t \in Threads, Enter(t) \/ Relock(t)
  PROVE  UNCHANGED Abstract!vars
<1>1. /\ LockFree(t, lock) \/ LockBlocks(t, lock)
      /\ doing[t].at \in {"app", "relock"} /\ rm' = rm
      /\ \E p \in {"test", "add"} : Do(t, Simple(p))
  BY DEF Enter, Relock, Outside
<1>2. /\ doing'[t].at \in {"test", "add"}
      /\ \A u \in Threads \ {t} : doing'[u] = doing[u]
  BY <1>1, SimplePlaces, DoEffect DEF MonitorInv
<1>3. /\ SameOthers(t) /\ SameBlocked({t}) /\ pc[t].at = "run"
      /\ rec \in held'[t] <=> rec \in held[t]
      /\ ~InCall(t, rec)'
  <2>1. /\ SameOthers(t) /\ SameBlocked({t}) /\ pc[t].at = "run"
        /\ \/ pc'[t] = pc[t] /\ held'[t] = held[t] \cup {lock}
           \/ pc'[t].mutex = lock /\ held'[t] = held[t]
    BY <1>1, LockEffect, TheMutexes DEF MonitorInv
  <2> QED BY <2>1, TheMutexes DEF InCall
<1>4. Has(t)' <=> Has(t)
  BY <1>3 DEF Has, InCall
<1>5. \A u \in Threads : Has(u)' <=> Has(u)
  BY <1>3, <1>4, HasOthers
<1> QED BY <1>1, <1>2, <1>5, DepthKept DEF AtCounted

LEMMA OtherUnlocks ==
  ASSUME MonitorInv, MonitorInv', NEW t \in Threads, Leave(t) \/ CondWait(t)
  PROVE  UNCHANGED Abstract!vars
<1>1. /\ doing[t].at \in {"leave", "wait"} /\ rm' = rm /\ pc[t].at = "run"
      /\ \E p \in {"app", "relock"} : Do(t, Simple(p))
  BY DEF Leave, CondWait, Outside, At
<1>2. /\ doing'[t].at \in {"app", "relock"}
      /\ \A u \in Threads \ {t} : doing'[u] = doing[u]
  BY <1>1, SimplePlaces, DoEffect DEF MonitorInv
<1>3. \A u \in Threads : u \in Waiters(lock) => InCall(u, lock) /\ ~InCall(u, rec)
  BY TheMutexes DEF MonitorInv, MutexInv, Lists, All, InCall
<1>4. /\ SameOthers(t) /\ held'[t] = held[t] \ {lock} /\ pc'[t].at \in {"run", "yield"}
      /\ \A u \in Threads : u \notin Waiters(lock) =>
           (k'.status[u] = "MUTEX_BLOCKED" <=> k.status[u] = "MUTEX_BLOCKED")
  <2>1. CASE Leave(t)
    <3>1. ThreadUnlock(t, lock)
      BY <2>1 DEF Leave
    <3> QED BY <3>1, UnlockEffect, TheMutexes DEF MonitorInv, SameBlocked
  <2>2. CASE CondWait(t)
    BY <2>2, CondWaitMutex
  <2> QED BY <2>1, <2>2
<1>5. Has(t)' <=> Has(t)
  BY <1>1, <1>4, TheMutexes DEF Has, InCall
<1>6. SameBlocked(Waiters(lock))
  BY <1>4 DEF SameBlocked
<1>7. \A u \in Threads : Has(u)' <=> Has(u)
  BY <1>3, <1>4, <1>5, <1>6, HasOthers
<1> QED BY <1>1, <1>2, <1>7, DepthKept DEF AtCounted

(* A step after which the functions are where they were.                    *)
LEMMA OtherSteps ==
  ASSUME MonitorInv, MonitorInv',
         \/ Processor
         \/ \E t \in Threads : InMutex(t) \/ Rest(t) \/ Wakeup(t)
  PROVE  UNCHANGED Abstract!vars
<1>0. MutexInv /\ doing' = doing /\ rm' = rm
  BY DEF MonitorInv, Processor, InMutex, Rest, Wakeup, own
<1>1. ASSUME \A u \in Threads : Has(u)' <=> Has(u)
      PROVE  UNCHANGED Abstract!vars
  BY <1>0, <1>1, HolderStays DEF DepthOf
<1>2. CASE Processor
  <2>1. SameBlocked({}) /\ UNCHANGED <<pc, held>>
    BY <1>0, <1>2, RunKeeps DEF Processor
  <2> QED BY <1>1, <2>1 DEF SameBlocked, Has, InCall
<1>3. ASSUME NEW t \in Threads, DoYield(t) \/ Sleep(t) \/ IsrWakeup(t)
      PROVE  UNCHANGED Abstract!vars
  <2>1. /\ SameBlocked({}) /\ held' = held
        /\ \A u \in Threads : InCall(u, rec)' <=> InCall(u, rec)
    <3>1. CASE IsrWakeup(t)
      BY <1>0, <3>1, WakeupEffect DEF InCall
    <3>2. CASE Sleep(t)
      BY <1>0, <3>2, SleepEffect DEF InCall, SameOthers
    <3>3. CASE DoYield(t)
      <4>1. /\ SameBlocked({}) /\ SameOthers(t) /\ held' = held
            /\ IF pc[t].at = "block"
               THEN pc'[t].at = "woken" /\ pc'[t].mutex = pc[t].mutex
               ELSE pc[t].at = "yield" /\ pc'[t].at = "run"
        BY <1>0, <3>3, YieldsEffect
      <4>2. InCall(t, rec)' <=> InCall(t, rec)
        BY <4>1 DEF InCall
      <4> QED BY <4>1, <4>2 DEF InCall, SameOthers
    <3> QED BY <1>3, <3>1, <3>2, <3>3
  <2> QED BY <1>1, <2>1 DEF SameBlocked, Has
<1>4. ASSUME NEW t \in Threads, Return(t), InMutex(t)
      PROVE  UNCHANGED Abstract!vars
  <2>1. ~pc[t].mc
    BY <1>4 DEF Return, At, MonitorInv, InPlace
  <2>2. /\ SameOthers(t) /\ SameBlocked({}) /\ k.status[t] # "MUTEX_BLOCKED"
        /\ pc[t].at = "woken" /\ pc'[t].at = "run"
        /\ held'[t] = held[t] \cup ({pc[t].mutex} \cap Mutexes)
    BY <1>0, <1>4, <2>1, ReturnEffect
  <2>3. Has(t)' <=> Has(t)
    BY <2>2, TheMutexes DEF Has, InCall
  <2> QED BY <1>1, <2>2, <2>3, HasOthers
<1> QED BY <1>2, <1>3, <1>4 DEF InMutex, Rest, Wakeup

(* A step of the condition's user that is not a call of a mutex.            *)
LEMMA ConditionSteps ==
  ASSUME MonitorInv, MonitorInv', NEW t \in Threads,
         \/ Test(t) \/ Add(t) \/ SignalSwitch(t)
         \/ \E broadcast \in BOOLEAN : CondSignal(t, broadcast)
  PROVE  UNCHANGED Abstract!vars
<1>0. MutexInv /\ KernelInv(k)
  BY DEF MonitorInv, MutexInv
<1>1. PICK p \in Doing : Do(t, p) /\ p.at \notin AtCounted
  <2>1. CASE Test(t) \/ Add(t) \/ SignalSwitch(t)
    <3>1. PICK d \in {"leave", "wait", "signal"} : Do(t, Simple(d))
      BY <2>1 DEF Test, Add, SignalSwitch
    <3> QED BY <3>1, SimplePlaces DEF AtCounted
  <2>2. ASSUME NEW broadcast \in BOOLEAN, CondSignal(t, broadcast)
        PROVE  \E p \in Doing : Do(t, p) /\ p.at \notin AtCounted
    <3> DEFINE q == Signalled(broadcast)
    <3>1. Do(t, IF q = <<>> THEN Simple("leave") ELSE [at |-> "switch", prio |-> MinPrio(q)])
      BY <2>2 DEF CondSignal
    <3>2. q # <<>> => [at |-> "switch", prio |-> MinPrio(q)] \in Doing
      BY SignalSplits, MinPrioIs DEF Doing
    <3> HIDE DEF q
    <3> QED BY <3>1, <3>2, SimplePlaces DEF AtCounted
  <2> QED BY <2>1, <2>2
<1>2. doing'[t].at \notin AtCounted /\ \A u \in Threads \ {t} : doing'[u] = doing[u]
  BY <1>1, DoEffect DEF MonitorInv
<1>3. doing[t].at \notin AtCounted /\ rm' = rm
  BY DEF Test, Add, SignalSwitch, CondSignal, Outside, AtCounted
<1>4. SameBlocked({}) /\ UNCHANGED <<pc, held>>
  <2>1. CASE Test(t) \/ Add(t)
    <3>1. UNCHANGED <<k, pc, held>>
      BY <2>1 DEF Test, Add, vars
    <3> QED BY <3>1 DEF SameBlocked
  <2>2. CASE SignalSwitch(t)
    <3>1. PICK test \in BOOLEAN : k' = ThreadSwitch(k, test)
      BY <2>2 DEF SignalSwitch, SwitchTests
    <3>2. k'.status = k.status
      BY <1>0, <3>1, SwitchEffect
    <3> QED BY <2>2, <3>2 DEF SignalSwitch, SameBlocked
  <2>3. ASSUME NEW broadcast \in BOOLEAN, CondSignal(t, broadcast)
        PROVE  SameBlocked({}) /\ UNCHANGED <<pc, held>>
    BY <2>3, SignalSplits, SignalMutex DEF CondSignal
  <2> QED BY <2>1, <2>2, <2>3
<1>5. \A u \in Threads : Has(u)' <=> Has(u)
  BY <1>4 DEF SameBlocked, Has, InCall
<1> QED BY <1>2, <1>3, <1>5, DepthKept

LEMMA IsrSignals ==
  ASSUME MonitorInv, MonitorInv', NEW broadcast \in BOOLEAN, IsrSignal(broadcast)
  PROVE  UNCHANGED Abstract!vars
<1> DEFINE q == Signalled(broadcast)
<1>1. UNCHANGED <<mtx, mc, pc, held, rm, doing>> /\ waiting # <<>>
  BY DEF IsrSignal
<1>2. q \in Seq(Threads) /\ Elems(q) \subseteq Waiting /\ q # <<>>
  BY <1>1, SignalSplits, ElemsEmpty
<1>3. \E test \in BOOLEAN : k' = IsrSwitch(Woken(k, q), test)
  BY <1>2 DEF IsrSignal, SwitchTests
<1>4. SameBlocked({})
  BY <1>1, <1>2, <1>3, SignalMutex
<1>5. \A u \in Threads : Has(u)' <=> Has(u)
  BY <1>1, <1>4 DEF SameBlocked, Has, InCall
<1> QED BY <1>1, <1>5, HolderStays DEF DepthOf

(* rmutex_lock(), rmutex_trylock() and rmutex_unlock() implement the        *)
(* reentrant lock (core/lib/rmutex.c), whatever other threads do between    *)
(* their accesses to owner, counter and the mutex inside.                   *)
THEOREM RecursiveMutexIsReentrant == MonitorSpec => RecursiveMutex
<1>1. MonitorInit => Abstract!Init
  <2> SUFFICES ASSUME MonitorInit PROVE Abstract!Init
    OBVIOUS
  <2>1. \A t \in Threads : pc[t].at = "run" /\ held[t] = {}
    BY DEF MonitorInit, Init, Simple
  <2>2. \A t \in Threads : ~Has(t)
    BY <2>1 DEF Has, InCall
  <2> QED BY <2>2, MonitorInitInv, HolderIs DEF HolderFacts, Abstract!Init
<1>2. MonitorInv /\ MonitorInv' /\ [MonitorNext]_monitorVars => [Abstract!Next]_Abstract!vars
  <2> SUFFICES ASSUME MonitorInv, MonitorInv', [MonitorNext]_monitorVars
               PROVE  [Abstract!Next]_Abstract!vars
    OBVIOUS
  <2>1. CASE UNCHANGED monitorVars
    <3>1. UNCHANGED <<k, pc, held, rm, doing>>
      BY <2>1 DEF monitorVars, vars, own
    <3> QED BY <3>1, HasUnchanged, HolderStays DEF DepthOf
  <2>2. ASSUME NEW t \in Threads, Continue(t)
        PROVE  [Abstract!Next]_Abstract!vars
    <3>1. CASE Relock(t) \/ Leave(t) \/ CondWait(t) \/ InMutex(t)
      BY <3>1, OtherLocks, OtherUnlocks, OtherSteps
    <3>2. CASE \/ Test(t) \/ Add(t) \/ SignalSwitch(t)
               \/ \E broadcast \in BOOLEAN : CondSignal(t, broadcast)
      BY <3>2, ConditionSteps
    <3>3. CASE RecAwait(t)
      BY <3>3, RecLocks DEF RecAwait, Abstract!Next
    <3>4. CASE RecLoad(t) \/ RecStore(t) \/ RecCount(t) \/ RecReset(t) \/ RecRelease(t)
      BY <3>4, RecLoads, RecSteps, RecReleases DEF Abstract!Next
    <3> QED BY <2>2, <3>1, <3>2, <3>3, <3>4 DEF Continue
  <2>3. ASSUME NEW t \in Threads, Enter(t) \/ RecUnlock(t) \/ Rest(t) \/ Wakeup(t)
        PROVE  [Abstract!Next]_Abstract!vars
    BY <2>3, OtherLocks, RecUnlocks, OtherSteps DEF Abstract!Next
  <2>4. ASSUME NEW t \in Threads, NEW trylock \in BOOLEAN, RecTry(t, trylock)
        PROVE  [Abstract!Next]_Abstract!vars
    <3>1. CASE LockFree(t, rec) /\ Do(t, Simple("store"))
      BY <2>4, <3>1, RecLocks DEF RecTry, Abstract!Next
    <3>2. CASE UNCHANGED vars /\ Do(t, Simple(IF trylock THEN "tryload" ELSE "load"))
      <4>1. /\ doing'[t].at \in {"tryload", "load"} /\ doing[t].at = "app" /\ rm' = rm
            /\ \A u \in Threads \ {t} : doing'[u] = doing[u]
        BY <2>4, <3>2, SimplePlaces, DoEffect DEF MonitorInv, RecTry, Outside
      <4>2. \A u \in Threads : Has(u)' <=> Has(u)
        BY <3>2, HasUnchanged DEF vars
      <4> QED BY <4>1, <4>2, DepthKept DEF AtCounted
    <3> QED BY <2>4, <3>1, <3>2 DEF RecTry
  <2>5. CASE (\E broadcast \in BOOLEAN : IsrSignal(broadcast)) \/ Processor
    BY <2>5, IsrSignals, OtherSteps
  <2> QED BY <2>1, <2>2, <2>3, <2>4, <2>5 DEF MonitorNext
<1> QED BY <1>1, <1>2, MonitorInvariant, PTL DEF MonitorSpec, RecursiveMutex, Abstract!Spec
=============================================================================
