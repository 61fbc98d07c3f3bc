---------------------------- MODULE MutexProofs -----------------------------
(***************************************************************************)
(* Theorems of module Mutex, for every number of threads, mutexes and       *)
(* priorities, with and without priority inheritance: the lists of waiters  *)
(* and the runqueues agree with the statuses, a mutex has one owner at a    *)
(* time across the hand-over, and a cancelled call does not stay blocked.   *)
(* Then, under the hypotheses that each theorem states, the order in which  *)
(* waiters are served, the return of lent priorities, and the priority of   *)
(* the holder.                                                              *)
(***************************************************************************)
EXTENDS Mutex, KernelProofs

(* The inductive invariant. Lists, Owned and the last conjunct of Cancelling *)
(* are the properties; the rest says in which places of its calls a thread  *)
(* may be off the runqueues, and that the mutex_cancel_t of a thread is in  *)
(* use only inside the call it belongs to.                                  *)
Lists ==
  \A m \in All :
    /\ mtx[m].queue # <<>> => mtx[m].locked
    /\ Once(mtx[m].queue)
    /\ \A t \in Threads : t \in Waiters(m) <=> k.status[t] = "MUTEX_BLOCKED" /\ InCall(t, m)

Owner(t, m) == m \in held[t] \/ Granted(t, m)
Owned ==
  \A m \in Mutexes, t \in Threads :
    Owner(t, m) => mtx[m].locked /\ \A u \in Threads : Owner(u, m) => u = t

Rests ==
  \A t \in Threads :
    \/ IsActive(k, t)
    \/ k.status[t] = "MUTEX_BLOCKED" /\ pc[t].at \in {"block", "woken"}
    \/ k.status[t] # "MUTEX_BLOCKED" /\ pc[t].at \in {"run", "yield"}

AtWork ==
  \A t \in Threads :
    Executes(k, t) /\ pc[t].at \notin {"block", "yield"} => IsActive(k, t)

Cancelling ==
  \A t \in Threads :
    /\ mc[t] = NoCancel \/ mc[t].mutex \in All
    /\ pc[t].at \in {"run", "yield", "switch"} => mc[t] = NoCancel
    /\ pc[t].at = "enter" => mc[t].mutex \in All
    /\ pc[t].at \in {"block", "woken"} =>
         IF pc[t].mc THEN mc[t].mutex = pc[t].mutex ELSE mc[t] = NoCancel
    /\ mc[t].cancelled => IsActive(k, t)

MutexInv == TypeOK /\ KernelInv(k) /\ Lists /\ Owned /\ Rests /\ AtWork /\ Cancelling

-----------------------------------------------------------------------------
(* The state of the scheduler                                               *)

(* thread_yield_higher() and sched_switch() leave every status alone, and   *)
(* sched_run() what a status means to the lists of waiters.                 *)
SameRest ==
  \A t \in Threads :
    /\ IsActive(k', t) <=> IsActive(k, t)
    /\ k'.status[t] = "MUTEX_BLOCKED" <=> k.status[t] = "MUTEX_BLOCKED"

(* The types of the kernel state that the steps below use.                  *)
LEMMA KernelTypes ==
  ASSUME KernelInv(k)
  PROVE  /\ k.status \in [Threads -> Status] /\ k.prio \in [Threads -> Prios]
         /\ k.active \in Threads \cup {NoThread}
         /\ "MUTEX_BLOCKED" \in Status \ {"RUNNING"} /\ "SLEEPING" \in Status \ {"RUNNING"}
         /\ "PENDING" \in Status \ {"RUNNING"}
         /\ OnRunqueue = {"RUNNING", "PENDING"}
BY DEF KernelInv, KernelType, Status, Blocked, OnRunqueue

(* A step that changes no thread's rest, no list, no call and no owner, and *)
(* lets the active thread go on only if it is ready.                        *)
LEMMA RestKept ==
  ASSUME MutexInv, KernelInv(k'), SameRest, UNCHANGED <<mtx, mc, pc, held>>, AtWork'
  PROVE  MutexInv'
<1>1. TypeOK'
  BY DEF MutexInv, TypeOK, KernelInv
<1>2. Lists'
  BY DEF MutexInv, Lists, SameRest, Waiters, InCall
<1>3. Owned'
  BY DEF MutexInv, Owned, Owner, Granted, Waiters, InCall
<1>4. Rests' /\ Cancelling'
  BY DEF MutexInv, Rests, Cancelling, SameRest
<1> QED BY <1>1, <1>2, <1>3, <1>4 DEF MutexInv

(* The scheduler switches, or leaves its idle loop.                         *)
LEMMA PendSVKeeps ==
  ASSUME MutexInv, PendSV
  PROVE  MutexInv'
<1>1. KernelInv(k) /\ k' = SchedRun(k)
  BY DEF MutexInv, PendSV
<1>2. KernelInv(k')
  BY <1>1, SchedRunInv
<1>3. SameRest
  BY <1>1, SchedRunEffect, KernelTypes DEF SameRest, IsActive
<1>4. AtWork'
  BY <1>1, <1>3, SchedRunEffect DEF AtWork, Executes, IsActive, SameRest
<1> QED BY <1>2, <1>3, <1>4, RestKept DEF PendSV

(* The idle loop ends with a thread that a handler readied.                 *)
LEMMA EndIdleKeeps ==
  ASSUME MutexInv, EndIdle
  PROVE  MutexInv'
<1>1. KernelInv(k) /\ k' = Dispatch(k, NoThread) /\ k.idle /\ k.bitcache # {}
  BY DEF MutexInv, EndIdle, IdleReturn
<1>2. KernelInv(k')
  BY <1>1, IdleReturnInv DEF EndIdle
<1>3. SameRest
  BY <1>1, DispatchEffect, KernelTypes DEF SameRest, IsActive
<1>4. AtWork'
  BY <1>1, <1>3, DispatchEffect DEF AtWork, Executes, IsActive, SameRest
<1> QED BY <1>2, <1>3, <1>4, RestKept DEF EndIdle
-----------------------------------------------------------------------------
(* Locking                                                                  *)

(* A thread in a call that is not about to yield is ready and waits nowhere. *)
LEMMA Working ==
  ASSUME MutexInv, NEW t \in Threads, Executes(k, t), pc[t].at \notin {"block", "yield"}
  PROVE  /\ IsActive(k, t) /\ k.status[t] \notin {"MUTEX_BLOCKED", "SLEEPING"}
         /\ \A m \in All : t \notin Waiters(m)
BY DEF MutexInv, AtWork, Lists, IsActive, OnRunqueue

(* A list of waiters changes, and nothing else of the mutexes.              *)
LEMMA QueueChanges ==
  ASSUME TypeOK, NEW m \in All, NEW q \in Seq(Threads),
         mtx' = [mtx EXCEPT ![m].queue = q]
  PROVE  /\ mtx' \in [All -> [locked : BOOLEAN, queue : Seq(Threads),
                              owner : Threads \cup {NoThread}, orig : Prios]]
         /\ mtx'[m].queue = q /\ mtx'[m].locked = mtx[m].locked
         /\ \A n \in All : n # m => mtx'[n] = mtx[n]
<1> DEFINE M == [locked : BOOLEAN, queue : Seq(Threads),
                 owner : Threads \cup {NoThread}, orig : Prios]
           changed == [mtx[m] EXCEPT !.queue = q]
<1>1. mtx \in [All -> M]
  BY DEF TypeOK
<1>2. changed \in M /\ changed.queue = q /\ changed.locked = mtx[m].locked
  BY <1>1
<1>3. mtx' = [mtx EXCEPT ![m] = changed]
  OBVIOUS
<1> HIDE DEF M, changed
<1>4. /\ mtx' \in [All -> M] /\ mtx'[m] = changed
      /\ \A n \in All : n # m => mtx'[n] = mtx[n]
  BY <1>1, <1>2, <1>3
<1> QED BY <1>2, <1>4 DEF M

(* A free mutex is taken: nobody owned it, and now the caller does.         *)
LEMMA TakenKeeps ==
  ASSUME MutexInv, NEW t \in Threads, NEW m \in All, ~mtx[m].locked,
         Executes(k, t), pc[t].at \in {"run", "enter"},
         mtx' = [mtx EXCEPT ![m] = Taken(mtx[m], t)], Keep(t, m), UNCHANGED <<k, mc>>,
         \/ UNCHANGED pc
         \/ pc[t].at = "enter" /\ Go(t, Simple("done"))
  PROVE  MutexInv'
<1>1. IsActive(k, t) /\ \A n \in All : t \notin Waiters(n)
  BY Working
<1>2. /\ mtx'[m].queue = mtx[m].queue /\ mtx'[m].locked
      /\ mtx' \in [All -> [locked : BOOLEAN, queue : Seq(Threads),
                           owner : Threads \cup {NoThread}, orig : Prios]]
      /\ \A n \in All : n # m => mtx'[n] = mtx[n]
  <2>1. k.prio[t] \in Prios
    BY KernelTypes DEF MutexInv
  <2> DEFINE T == Taken(mtx[m], t)
             M == [locked : BOOLEAN, queue : Seq(Threads),
                   owner : Threads \cup {NoThread}, orig : Prios]
  <2>2. mtx \in [All -> M]
    BY DEF MutexInv, TypeOK
  <2>3. T \in M /\ T.queue = mtx[m].queue /\ T.locked
    BY <2>1, <2>2 DEF Taken
  <2> HIDE DEF T, M
  <2>4. /\ mtx' \in [All -> M] /\ mtx'[m] = T
        /\ \A n \in All : n # m => mtx'[n] = mtx[n]
    BY <2>2, <2>3 DEF T
  <2> QED BY <2>3, <2>4 DEF M
<1>3. /\ pc' \in [Threads -> Places] /\ \A u \in Threads \ {t} : pc'[u] = pc[u]
      /\ pc'[t] = pc[t] \/ (pc[t].at = "enter" /\ pc'[t].at = "done")
  <2>1. Simple("done") \in Places /\ Simple("done").at = "done"
    BY DEF Simple, Places
  <2>2. pc \in [Threads -> Places]
    BY DEF MutexInv, TypeOK
  <2>3. CASE UNCHANGED pc
    BY <2>2, <2>3
  <2>4. CASE pc[t].at = "enter" /\ pc' = [pc EXCEPT ![t] = Simple("done")]
    BY <2>1, <2>2, <2>4
  <2> QED BY <2>3, <2>4 DEF Go
<1>4. /\ held' \in [Threads -> SUBSET Mutexes]
      /\ \A u \in Threads : held'[u] = IF u = t THEN held[t] \cup ({m} \cap Mutexes) ELSE held[u]
  BY DEF MutexInv, TypeOK, Keep
<1>5. TypeOK'
  BY <1>2, <1>3, <1>4 DEF MutexInv, TypeOK
<1>6. \A u \in Threads, n \in All : /\ InCall(u, n)' <=> InCall(u, n)
                                    /\ Waiters(n)' = Waiters(n)
                                    /\ Granted(u, n)' <=> Granted(u, n)
  BY <1>2, <1>3 DEF InCall, Waiters, Granted
<1>7. Lists'
  BY <1>2, <1>6 DEF MutexInv, Lists
<1>8. Owned'
  <2>1. \A n \in Mutexes : n \in All
    BY DEF All
  <2>2. \A u \in Threads, n \in Mutexes : Owner(u, n)' <=> Owner(u, n) \/ (u = t /\ n = m)
    BY <1>4, <1>6, <2>1 DEF Owner
  <2>3. m \in Mutexes => \A u \in Threads : ~Owner(u, m)
    BY DEF MutexInv, Owned
  <2> QED BY <1>2, <2>1, <2>2, <2>3 DEF MutexInv, Owned
<1>9. Rests' /\ AtWork' /\ Cancelling'
  BY <1>1, <1>3 DEF MutexInv, Rests, AtWork, Cancelling
<1> QED BY <1>5, <1>7, <1>8, <1>9 DEF MutexInv

(* A locked mutex: the caller is in its list, and in no other.              *)
LEMMA BlockKeeps ==
  ASSUME MutexInv, NEW t \in Threads, NEW m \in All, mtx[m].locked, NEW b \in BOOLEAN,
         Executes(k, t), pc[t].at \in {"run", "enter"}, Block(t, m, b), UNCHANGED mc,
         IF b THEN mc[t].mutex = m /\ ~mc[t].cancelled ELSE mc[t] = NoCancel
  PROVE  MutexInv'
<1> DEFINE blocked == SetStatus(k, t, "MUTEX_BLOCKED")
           q == AddToList(blocked, mtx[m].queue, t)
<1>1. IsActive(k, t) /\ \A n \in All : t \notin Waiters(n)
  BY Working
<1>2. /\ KernelInv(blocked) /\ blocked.status = [k.status EXCEPT ![t] = "MUTEX_BLOCKED"]
      /\ blocked.active = k.active
  BY SetStatusInv, SetStatusEffect, KernelTypes DEF MutexInv
<1>3. /\ q \in Seq(Threads) /\ Elems(q) = Waiters(m) \cup {t} /\ Once(q)
  <2> DEFINE w == mtx[m].queue
  <2>1. w \in Seq(Threads) /\ Once(w) /\ t \notin Elems(w) /\ t \in Threads
    BY <1>1 DEF MutexInv, TypeOK, Lists, Waiters
  <2> HIDE DEF blocked, w
  <2>2. AddToList(blocked, w, t) \in Seq(Threads)
    BY <2>1, ElemsAdd
  <2>3. Elems(AddToList(blocked, w, t)) = Elems(w) \cup {t}
    BY <2>1, ElemsAdd
  <2>4. Once(AddToList(blocked, w, t))
    BY <2>1, ElemsAdd
  <2> QED BY <2>2, <2>3, <2>4 DEF w, Waiters
<1>4. /\ k' = Inherit(blocked, mtx[m], t)
      /\ mtx' = [mtx EXCEPT ![m].queue = q]
      /\ pc' = [pc EXCEPT ![t] = [at |-> "block", mutex |-> m, mc |-> b]] /\ held' = held
  BY DEF Block, Go
<1> HIDE DEF blocked, q
<1>5. /\ KernelInv(k') /\ k'.status = [k.status EXCEPT ![t] = "MUTEX_BLOCKED"]
      /\ k'.active = k.active
  <2>1. mtx[m].owner \in Threads \cup {NoThread} /\ blocked.prio[t] \in Prios
    BY <1>2 DEF MutexInv, TypeOK, KernelInv, KernelType
  <2>2. k' = blocked \/ \E u \in Threads, p \in Prios : k' = ChangePriority(blocked, u, p)
    BY <1>4, <2>1 DEF Inherit
  <2> QED BY <1>2, <2>2, ChangePriorityInv, ChangePriorityEffect
<1>6. /\ mtx'[m].queue = q /\ mtx'[m].locked
      /\ mtx' \in [All -> [locked : BOOLEAN, queue : Seq(Threads),
                           owner : Threads \cup {NoThread}, orig : Prios]]
      /\ \A n \in All : n # m => mtx'[n] = mtx[n]
      /\ \A n \in All : mtx'[n].locked = mtx[n].locked
  <2>1. TypeOK
    BY DEF MutexInv
  <2> QED BY <1>3, <1>4, <2>1, QueueChanges
<1>7. /\ pc' \in [Threads -> Places] /\ \A u \in Threads \ {t} : pc'[u] = pc[u]
      /\ pc'[t].at = "block" /\ pc'[t].mutex = m /\ pc'[t].mc = b
  BY <1>4 DEF MutexInv, TypeOK, Places
<1>8. TypeOK'
  BY <1>4, <1>5, <1>6, <1>7 DEF MutexInv, TypeOK, KernelInv
<1>9. \A u \in Threads, n \in All :
        /\ InCall(u, n)' <=> IF u = t THEN n = m ELSE InCall(u, n)
        /\ Waiters(n)' = IF n = m THEN Waiters(m) \cup {t} ELSE Waiters(n)
  <2>1. \A u \in Threads, n \in All : InCall(u, n)' <=> IF u = t THEN n = m ELSE InCall(u, n)
    BY <1>7 DEF InCall
  <2>2. \A n \in All : Waiters(n)' = IF n = m THEN Waiters(m) \cup {t} ELSE Waiters(n)
    BY <1>3, <1>6 DEF Waiters
  <2> QED BY <2>1, <2>2
<1>10. \A u \in Threads : k'.status[u] = IF u = t THEN "MUTEX_BLOCKED" ELSE k.status[u]
  BY <1>5, KernelTypes DEF MutexInv
<1>11. Lists'
  <2>1. \A u \in Threads, n \in All :
          u \in Waiters(n)' <=> k'.status[u] = "MUTEX_BLOCKED" /\ InCall(u, n)'
    BY <1>1, <1>9, <1>10 DEF MutexInv, Lists
  <2> QED BY <1>3, <1>6, <2>1 DEF MutexInv, Lists
<1>12. Owned'
  <2>1. \A n \in Mutexes : n \in All
    BY DEF All
  <2>2. \A u \in Threads, n \in Mutexes : Owner(u, n)' => Owner(u, n)
    BY <1>4, <1>7, <1>9, <2>1 DEF Owner, Granted
  <2> QED BY <1>6, <2>1, <2>2 DEF MutexInv, Owned
<1>13. Rests' /\ Cancelling'
  <2>1. \A u \in Threads \ {t} : IsActive(k', u) <=> IsActive(k, u)
    BY <1>10 DEF IsActive
  <2>2. Rests'
    BY <1>7, <1>10, <2>1 DEF MutexInv, Rests
  <2>3. ~mc[t].cancelled
    BY DEF NoCancel
  <2> QED BY <1>7, <2>1, <2>2, <2>3 DEF MutexInv, Cancelling
<1>14. AtWork'
  BY <1>5, <1>7, <1>10 DEF MutexInv, AtWork, Executes, IsActive
<1> QED BY <1>5, <1>8, <1>11, <1>12, <1>13, <1>14 DEF MutexInv

(* mutex_lock() and mutex_trylock().                                        *)
LEMMA LockKeeps ==
  ASSUME MutexInv, NEW t \in Threads, NEW m \in All, LockFree(t, m) \/ LockBlocks(t, m)
  PROVE  MutexInv'
<1>1. CASE LockFree(t, m)
  BY <1>1, TakenKeeps DEF LockFree, Calling, At
<1>2. CASE LockBlocks(t, m)
  <2>1. pc[t].at = "run" /\ Executes(k, t) /\ mc[t] = NoCancel
    BY <1>2 DEF LockBlocks, Calling, At, MutexInv, Cancelling
  <2> QED BY <1>2, <2>1, BlockKeeps DEF LockBlocks
<1> QED BY <1>1, <1>2

(* A call leaves the mutex alone and moves on in the thread's own code.     *)
LEMMA MoveKeeps ==
  ASSUME MutexInv, NEW t \in Threads, Executes(k, t), pc[t].at \notin {"block", "yield"},
         UNCHANGED <<k, mtx>>,
         NEW p \in {"run", "enter", "done"}, Go(t, Simple(p)),
         mc' \in [Threads -> [mutex : All \cup {NoMutex}, cancelled : BOOLEAN]],
         \A u \in Threads \ {t} : mc'[u] = mc[u],
         IF p = "run" THEN mc'[t] = NoCancel
                      ELSE mc'[t].mutex \in All,
         held' \in [Threads -> SUBSET Mutexes],
         \A u \in Threads \ {t} : held'[u] = held[u],
         \A n \in held'[t] : Owner(t, n)
  PROVE  MutexInv'
<1>1. IsActive(k, t) /\ \A n \in All : t \notin Waiters(n)
  BY Working
<1>2. /\ pc' \in [Threads -> Places] /\ \A u \in Threads \ {t} : pc'[u] = pc[u]
      /\ pc'[t].at = p
  BY DEF MutexInv, TypeOK, Go, Simple, Places
<1>3. TypeOK'
  BY <1>2 DEF MutexInv, TypeOK
<1>4. \A u \in Threads, n \in All :
        /\ InCall(u, n)' <=> u # t /\ InCall(u, n)
        /\ Waiters(n)' = Waiters(n)
  BY <1>2 DEF InCall, Waiters
<1>5. Lists'
  BY <1>1, <1>4 DEF MutexInv, Lists
<1>6. Owned'
  <2>1. \A n \in Mutexes : n \in All
    BY DEF All
  <2>2. \A u \in Threads, n \in Mutexes : Owner(u, n)' => Owner(u, n)
    BY <1>2, <1>4, <2>1 DEF Owner, Granted
  <2> QED BY <2>1, <2>2 DEF MutexInv, Owned
<1>7. Rests' /\ AtWork' /\ Cancelling'
  BY <1>1, <1>2 DEF MutexInv, Rests, AtWork, Cancelling, NoCancel
<1> QED BY <1>3, <1>5, <1>6, <1>7 DEF MutexInv

(* mutex_cancel_init(): the structure may be cancelled from here on.        *)
LEMMA CancelInitKeeps ==
  ASSUME MutexInv, NEW t \in Threads, NEW m \in All, CancelInit(t, m)
  PROVE  MutexInv'
<1>1. \A n \in held'[t] : Owner(t, n)
  BY DEF CancelInit, Owner
<1>2. /\ mc' \in [Threads -> [mutex : All \cup {NoMutex}, cancelled : BOOLEAN]]
      /\ \A u \in Threads \ {t} : mc'[u] = mc[u]
      /\ mc'[t].mutex \in All
  BY DEF CancelInit, MutexInv, TypeOK
<1> QED BY <1>1, <1>2, MoveKeeps DEF CancelInit, Calling, At, MutexInv, TypeOK

(* The thread that was woken owns the mutex, or was cancelled.              *)
LEMMA ReturnKeeps ==
  ASSUME MutexInv, NEW t \in Threads, Return(t)
  PROVE  MutexInv'
<1>1. /\ Executes(k, t) /\ pc[t].at = "woken" /\ UNCHANGED <<k, mtx, mc>>
      /\ Go(t, Simple(IF pc[t].mc THEN "done" ELSE "run"))
  BY DEF Return, At
<1>2. pc[t].mc \in BOOLEAN /\ pc[t].mutex \in All
  BY <1>1 DEF MutexInv, TypeOK, Places, Simple
<1>3. t \notin Waiters(pc[t].mutex)
  BY <1>1, <1>2, Working
<1>4. /\ held' \in [Threads -> SUBSET Mutexes]
      /\ \A u \in Threads \ {t} : held'[u] = held[u]
      /\ \A n \in held'[t] : n \in held[t] \/ (n = pc[t].mutex /\ ~(pc[t].mc /\ mc[t].cancelled))
  BY DEF Return, Keep, MutexInv, TypeOK
<1>5. \A n \in held'[t] : Owner(t, n)
  BY <1>1, <1>2, <1>3, <1>4 DEF Owner, Granted, InCall
<1>6. IF pc[t].mc THEN mc[t].mutex \in All ELSE mc[t] = NoCancel
  BY <1>1, <1>2 DEF MutexInv, Cancelling
<1> QED BY <1>1, <1>2, <1>4, <1>5, <1>6, MoveKeeps DEF MutexInv, TypeOK

(* The scope of mc ends: the timer is stopped.                              *)
LEMMA CancelEndKeeps ==
  ASSUME MutexInv, NEW t \in Threads, CancelEnd(t)
  PROVE  MutexInv'
<1>1. /\ mc' \in [Threads -> [mutex : All \cup {NoMutex}, cancelled : BOOLEAN]]
      /\ \A u \in Threads \ {t} : mc'[u] = mc[u]
      /\ mc'[t] = NoCancel
  BY DEF CancelEnd, MutexInv, TypeOK, NoCancel
<1>2. \A n \in held'[t] : Owner(t, n)
  BY DEF CancelEnd, Owner
<1> QED BY <1>1, <1>2, MoveKeeps DEF CancelEnd, At, MutexInv, TypeOK

(* mutex_lock_cancelable()                                                  *)
LEMMA LockCancelableKeeps ==
  ASSUME MutexInv, NEW t \in Threads, LockCancelable(t)
  PROVE  MutexInv'
<1>1. Executes(k, t) /\ pc[t].at = "enter" /\ mc' = mc /\ mc[t].mutex \in All
  BY DEF LockCancelable, At, MutexInv, Cancelling
<1>2. CASE Go(t, Simple("done")) /\ UNCHANGED <<k, mtx, held>>
  <2>1. \A n \in held'[t] : Owner(t, n)
    BY <1>2 DEF Owner
  <2> QED BY <1>1, <1>2, <2>1, MoveKeeps DEF MutexInv, TypeOK
<1>3. CASE /\ ~mtx[mc[t].mutex].locked
           /\ mtx' = [mtx EXCEPT ![mc[t].mutex] = Taken(@, t)]
           /\ Keep(t, mc[t].mutex) /\ Go(t, Simple("done")) /\ UNCHANGED k
  BY <1>1, <1>3, TakenKeeps
<1>4. CASE ~mc[t].cancelled /\ mtx[mc[t].mutex].locked /\ Block(t, mc[t].mutex, TRUE)
  BY <1>1, <1>4, BlockKeeps
<1> QED BY <1>1, <1>2, <1>3, <1>4 DEF LockCancelable
-----------------------------------------------------------------------------
(* Unlocking                                                                *)

(* The first waiter is off the runqueues, in a call that nobody cancelled.  *)
LEMMA FirstWaiter ==
  ASSUME MutexInv, NEW m \in All, mtx[m].queue # <<>>
  PROVE  /\ mtx[m].queue \in Seq(Threads) /\ Once(mtx[m].queue) /\ mtx[m].locked
         /\ Head(mtx[m].queue) \in Threads /\ Head(mtx[m].queue) \in Waiters(m)
         /\ k.status[Head(mtx[m].queue)] = "MUTEX_BLOCKED"
         /\ ~mc[Head(mtx[m].queue)].cancelled /\ InCall(Head(mtx[m].queue), m)
<1> DEFINE w == Head(mtx[m].queue)
<1>1. mtx[m].queue \in Seq(Threads) /\ Once(mtx[m].queue) /\ mtx[m].locked
  BY DEF MutexInv, TypeOK, Lists
<1>2. w \in Threads /\ w \in Waiters(m)
  BY <1>1, ElemsTail DEF Waiters
<1> HIDE DEF w
<1>3. k.status[w] = "MUTEX_BLOCKED" /\ InCall(w, m)
  BY <1>2 DEF MutexInv, Lists
<1>4. ~mc[w].cancelled
  BY <1>2, <1>3 DEF MutexInv, Cancelling, IsActive, OnRunqueue
<1> QED BY <1>1, <1>2, <1>3, <1>4 DEF w

(* The woken waiter is ready; no other status changes.                      *)
LEMMA WakeEffect ==
  ASSUME MutexInv, NEW m \in All
  PROVE  LET n == Wake(k, mtx[m])
         IN /\ KernelInv(n) /\ n.active = k.active /\ n.idle = k.idle /\ n.pendsv = k.pendsv
            /\ n.status \in [Threads -> Status]
            /\ \A u \in Threads :
                 n.status[u] = IF mtx[m].queue # <<>> /\ u = Head(mtx[m].queue)
                               THEN "PENDING" ELSE k.status[u]
<1>1. KernelInv(k) /\ k.status \in [Threads -> Status]
  BY KernelTypes DEF MutexInv
<1>2. CASE mtx[m].queue = <<>>
  BY <1>1, <1>2 DEF Wake
<1>3. CASE mtx[m].queue # <<>>
  <2> DEFINE w == Head(mtx[m].queue)
             n == SetStatus(k, w, "PENDING")
  <2>1. w \in Threads
    BY <1>3, FirstWaiter
  <2>2. Wake(k, mtx[m]) = n
    BY <1>3 DEF Wake
  <2> HIDE DEF w
  <2>3. /\ KernelInv(n) /\ n.status = [k.status EXCEPT ![w] = "PENDING"]
        /\ n.active = k.active /\ n.idle = k.idle /\ n.pendsv = k.pendsv
    BY <1>1, <2>1, SetStatusInv, SetStatusEffect, KernelTypes
  <2>4. n.status \in [Threads -> Status]
    BY <2>3 DEF KernelInv, KernelType
  <2> HIDE DEF n
  <2> QED BY <1>1, <1>3, <2>1, <2>2, <2>3, <2>4 DEF w
<1> QED BY <1>2, <1>3

(* The owner's priority changes, and no status does.                        *)
LEMMA RestoreEffect ==
  ASSUME TypeOK, NEW m \in All, NEW s, KernelInv(s)
  PROVE  /\ KernelInv(Restore(s, mtx[m])) /\ Restore(s, mtx[m]).status = s.status
         /\ Restore(s, mtx[m]).active = s.active /\ Restore(s, mtx[m]).idle = s.idle
         /\ s.pendsv => Restore(s, mtx[m]).pendsv
<1>1. mtx[m].owner \in Threads \cup {NoThread} /\ mtx[m].orig \in Prios
  BY DEF TypeOK
<1>2. \/ Restore(s, mtx[m]) = s
      \/ \E u \in Threads, p \in Prios : Restore(s, mtx[m]) = ChangePriority(s, u, p)
  BY <1>1 DEF Restore
<1> QED BY <1>2, ChangePriorityInv, ChangePriorityEffect

(* The hand-over: the first waiter leaves the list and owns the mutex, which *)
(* stays locked; without a waiter the mutex is free, and was the caller's.  *)
LEMMA PassedKeeps ==
  ASSUME MutexInv, NEW m \in All,
         mtx' = [mtx EXCEPT ![m] = Passed(mtx[m])], UNCHANGED mc,
         \A u \in Threads :
           k'.status[u] = "MUTEX_BLOCKED" <=>
             k.status[u] = "MUTEX_BLOCKED" /\ ~(mtx[m].queue # <<>> /\ u = Head(mtx[m].queue)),
         \A u \in Threads :
           pc'[u] = pc[u] \/ (pc[u].at = "run" /\ pc'[u].at \in {"run", "yield"}),
         held' \in [Threads -> SUBSET Mutexes],
         \/ m \in Signals /\ held' = held
         \/ \E t \in Threads : m \in held[t] /\ pc[t].at = "run"
                               /\ held' = [held EXCEPT ![t] = held[t] \ {m}]
  PROVE  /\ mtx' \in [All -> [locked : BOOLEAN, queue : Seq(Threads),
                              owner : Threads \cup {NoThread}, orig : Prios]]
         /\ Lists' /\ Owned'
<1> DEFINE q == mtx[m].queue
           Left(u) == q # <<>> /\ u = Head(q)
<1>1. /\ q \in Seq(Threads) /\ Once(q)
      /\ q # <<>> => mtx[m].locked
  BY DEF MutexInv, TypeOK, Lists
<1>2. /\ mtx'[m].queue \in Seq(Threads) /\ Once(mtx'[m].queue)
      /\ Elems(mtx'[m].queue) = {u \in Elems(q) : ~Left(u)}
      /\ IF q = <<>> THEN mtx'[m].queue = q ELSE mtx'[m].locked = mtx[m].locked
      /\ mtx'[m].owner = mtx[m].owner /\ mtx'[m].orig = mtx[m].orig
  <2>0. mtx[m] \in [locked : BOOLEAN, queue : Seq(Threads),
                    owner : Threads \cup {NoThread}, orig : Prios] /\ mtx'[m] = Passed(mtx[m])
    BY DEF MutexInv, TypeOK
  <2>1. CASE q = <<>>
    <3>1. mtx'[m] = [mtx[m] EXCEPT !.locked = FALSE]
      BY <2>0, <2>1 DEF Passed
    <3>2. /\ mtx'[m].queue = q /\ mtx'[m].owner = mtx[m].owner
          /\ mtx'[m].orig = mtx[m].orig
      BY <2>0, <3>1
    <3> QED BY <1>1, <2>1, <3>2
  <2>2. CASE q # <<>>
    <3>1. /\ Tail(q) \in Seq(Threads) /\ Once(Tail(q)) /\ Elems(Tail(q)) = Elems(q) \ {Head(q)}
      BY <1>1, <2>2, ElemsTail
    <3>2. mtx'[m] = [mtx[m] EXCEPT !.queue = Tail(q)]
      BY <2>0, <2>2 DEF Passed
    <3> QED BY <2>0, <2>2, <3>1, <3>2
  <2> QED BY <2>1, <2>2
<1>3. /\ mtx' \in [All -> [locked : BOOLEAN, queue : Seq(Threads),
                           owner : Threads \cup {NoThread}, orig : Prios]]
      /\ \A n \in All : n # m => mtx'[n] = mtx[n]
  <2>1. Passed(mtx[m]) \in [locked : BOOLEAN, queue : Seq(Threads),
                            owner : Threads \cup {NoThread}, orig : Prios]
    <3>0. mtx[m] \in [locked : BOOLEAN, queue : Seq(Threads),
                      owner : Threads \cup {NoThread}, orig : Prios]
      BY DEF MutexInv, TypeOK
    <3>1. CASE q = <<>>
      <4>1. Passed(mtx[m]) = [mtx[m] EXCEPT !.locked = FALSE]
        BY <3>1 DEF Passed
      <4> QED BY <3>0, <4>1
    <3>2. CASE q # <<>>
      <4> DEFINE r == Tail(q)
      <4>1. r \in Seq(Threads)
        BY <1>1, <3>2, ElemsTail
      <4>2. Passed(mtx[m]) = [mtx[m] EXCEPT !.queue = r]
        BY <3>2 DEF Passed
      <4> HIDE DEF r
      <4> QED BY <3>0, <4>1, <4>2
    <3> QED BY <3>1, <3>2
  <2> QED BY <2>1 DEF MutexInv, TypeOK
<1>4. \A u \in Threads, n \in All :
        /\ InCall(u, n)' <=> InCall(u, n)
        /\ u \in Waiters(n)' <=> u \in Waiters(n) /\ ~(n = m /\ Left(u))
  <2>1. \A u \in Threads, n \in All : InCall(u, n)' <=> InCall(u, n)
    BY DEF InCall
  <2>2. \A u \in Threads, n \in All :
          u \in Waiters(n)' <=> u \in Waiters(n) /\ ~(n = m /\ Left(u))
    BY <1>2, <1>3 DEF Waiters
  <2> QED BY <2>1, <2>2
<1>5. \A u \in Threads : Left(u) => u \in Waiters(m) /\ InCall(u, m) /\ ~mc[u].cancelled
  BY FirstWaiter
<1> HIDE DEF Left
<1>6. ASSUME NEW n \in All
      PROVE  /\ mtx'[n].queue # <<>> => mtx'[n].locked
             /\ Once(mtx'[n].queue)
             /\ \A u \in Threads :
                  u \in Waiters(n)' <=> k'.status[u] = "MUTEX_BLOCKED" /\ InCall(u, n)'
  <2>1. Once(mtx'[n].queue)
    BY <1>2, <1>3 DEF MutexInv, Lists
  <2>2. mtx'[n].queue # <<>> => mtx'[n].locked
    <3>1. CASE n = m
      BY <1>1, <1>2, <3>1
    <3>2. CASE n # m
      BY <1>3, <3>2 DEF MutexInv, Lists
    <3> QED BY <3>1, <3>2
  <2>3. ASSUME NEW u \in Threads
        PROVE  u \in Waiters(n)' <=> k'.status[u] = "MUTEX_BLOCKED" /\ InCall(u, n)'
    <3>1. u \in Waiters(n) <=> k.status[u] = "MUTEX_BLOCKED" /\ InCall(u, n)
      BY DEF MutexInv, Lists
    <3>2. k'.status[u] = "MUTEX_BLOCKED" <=> k.status[u] = "MUTEX_BLOCKED" /\ ~Left(u)
      BY DEF Left
    <3>3. Left(u) /\ InCall(u, n) => n = m
      BY <1>5 DEF InCall
    <3> QED BY <1>4, <3>1, <3>2, <3>3
  <2> QED BY <2>1, <2>2, <2>3
<1>7. Lists'
  BY <1>6 DEF Lists
<1>8. Owned'
  <2>1. \A n \in Mutexes : n \in All
    BY DEF All
  <2>2. \A u \in Threads, n \in Mutexes :
          Granted(u, n)' <=> Granted(u, n) \/ (n = m /\ Left(u))
    <3>1. \A u \in Threads, n \in Mutexes : Granted(u, n)' <=>
            InCall(u, n)' /\ u \notin Waiters(n)' /\ ~(pc[u].mc /\ mc[u].cancelled)
      BY DEF Granted, InCall
    <3> QED BY <1>4, <1>5, <2>1, <3>1 DEF Granted
  <2>3. CASE m \in Signals /\ held' = held
    <3>1. m \notin Mutexes
      BY <2>3, MutexAssumption DEF MutexAssumption
    <3>2. \A u \in Threads, n \in Mutexes : Owner(u, n)' <=> Owner(u, n)
      BY <2>2, <2>3, <3>1 DEF Owner
    <3> QED BY <1>3, <2>1, <3>1, <3>2 DEF MutexInv, Owned
  <2>4. ASSUME NEW t \in Threads, m \in held[t], pc[t].at = "run",
               held' = [held EXCEPT ![t] = held[t] \ {m}]
        PROVE  Owned'
    <3>1. m \in Mutexes /\ Owner(t, m) /\ mtx[m].locked
          /\ \A u \in Threads : Owner(u, m) => u = t
      BY <2>4 DEF MutexInv, TypeOK, Owner, Owned
    <3>2. \A u \in Threads, n \in Mutexes : n # m => (Owner(u, n)' <=> Owner(u, n))
      <4>1. \A u \in Threads, n \in Mutexes : n # m => (n \in held'[u] <=> n \in held[u])
        BY <2>4 DEF MutexInv, TypeOK
      <4>2. \A u \in Threads, n \in Mutexes : n # m => (Granted(u, n)' <=> Granted(u, n))
        BY <2>2
      <4> QED BY <4>1, <4>2 DEF Owner
    <3>3. \A u \in Threads : Owner(u, m)' => Left(u)
      BY <2>2, <2>4, <3>1 DEF Owner, Granted, InCall, MutexInv, TypeOK
    <3>4. \A u, v \in Threads : Left(u) /\ Left(v) => u = v
      BY DEF Left
    <3>5. \A u \in Threads : Left(u) => mtx'[m].locked
      BY <1>2, <3>1 DEF Left
    <3> QED BY <1>3, <2>1, <3>2, <3>3, <3>4, <3>5 DEF MutexInv, Owned
  <2> QED BY <2>3, <2>4
<1> QED BY <1>3, <1>7, <1>8
(* Threads that were woken, or that begin to sleep in a call, rest where    *)
(* they may, and the thread that executes goes on.                          *)
LEMMA ReadierKeeps ==
  ASSUME MutexInv, UNCHANGED mc,
         \A u \in Threads :
           \/ k'.status[u] \in {k.status[u], "PENDING"}
           \/ k'.status[u] # "MUTEX_BLOCKED" /\ pc[u].at = "run" /\ pc'[u].at = "yield",
         k'.active = k.active, k'.idle = k.idle, k.pendsv => k'.pendsv,
         \A u \in Threads :
           pc'[u] = pc[u] \/ (pc[u].at = "run" /\ pc'[u].at \in {"run", "yield"})
  PROVE  Rests' /\ AtWork' /\ Cancelling'
<1>1. \A u \in Threads : IsActive(k, u) => IsActive(k', u) \/ (pc[u].at = "run" /\ pc'[u].at = "yield")
  BY DEF IsActive, OnRunqueue
<1>2. Rests'
  BY <1>1 DEF MutexInv, Rests, IsActive, OnRunqueue
<1>3. AtWork'
  BY <1>1 DEF MutexInv, AtWork, Executes
<1>4. Cancelling'
  <2>1. \A u \in Threads : mc[u].cancelled => pc[u].at # "run"
    BY DEF MutexInv, Cancelling, NoCancel
  <2> QED BY <1>1, <2>1 DEF MutexInv, Cancelling
<1> QED BY <1>2, <1>3, <1>4

(* The lists and the owners do not change with anything else.               *)
LEMMA ListsKept ==
  ASSUME MutexInv, UNCHANGED <<mtx, mc, held>>,
         \A u \in Threads :
           k'.status[u] = "MUTEX_BLOCKED" <=> k.status[u] = "MUTEX_BLOCKED",
         \A u \in Threads :
           pc'[u] = pc[u] \/ (pc[u].at = "run" /\ pc'[u].at \in {"run", "yield"})
  PROVE  Lists' /\ Owned'
<1>1. \A u \in Threads, n \in All : /\ InCall(u, n)' <=> InCall(u, n)
                                    /\ Waiters(n)' = Waiters(n)
  BY DEF InCall, Waiters
<1>2. \A n \in Mutexes : n \in All
  BY DEF All
<1>3. \A u \in Threads, n \in Mutexes : Owner(u, n)' <=> Owner(u, n)
  BY <1>1, <1>2 DEF Owner, Granted, InCall
<1>4. Lists'
  BY <1>1 DEF MutexInv, Lists
<1>5. Owned'
  BY <1>3 DEF MutexInv, Owned
<1> QED BY <1>4, <1>5

(* mutex_unlock() of a thread.                                              *)
LEMMA ThreadUnlockKeeps ==
  ASSUME MutexInv, NEW t \in Threads, NEW m \in Mutexes, ThreadUnlock(t, m)
  PROVE  MutexInv'
<1> DEFINE n == Wake(k, mtx[m])
<1>1. /\ pc[t].at = "run" /\ m \in held[t] /\ m \in All /\ UNCHANGED mc
      /\ mtx' = [mtx EXCEPT ![m] = Passed(mtx[m])]
      /\ k' = (IF mtx[m].queue = <<>> THEN k ELSE Restore(n, mtx[m]))
      /\ held' = [held EXCEPT ![t] = held[t] \ {m}]
  BY DEF ThreadUnlock, Calling, At, Unlock, All
<1>2. /\ KernelInv(n) /\ n.active = k.active /\ n.idle = k.idle /\ n.pendsv = k.pendsv
      /\ \A u \in Threads :
           n.status[u] = IF mtx[m].queue # <<>> /\ u = Head(mtx[m].queue)
                         THEN "PENDING" ELSE k.status[u]
  BY <1>1, WakeEffect
<1>3. mtx[m].queue = <<>> => n = k
  BY DEF Wake
<1> HIDE DEF n
<1>4. /\ KernelInv(k') /\ k'.active = k.active /\ k'.idle = k.idle /\ k'.status = n.status
      /\ k.pendsv => k'.pendsv
  <2>1. TypeOK
    BY DEF MutexInv
  <2> QED BY <1>1, <1>2, <1>3, <2>1, RestoreEffect
<1>5. /\ pc' \in [Threads -> Places]
      /\ \A u \in Threads :
           pc'[u] = pc[u] \/ (pc[u].at = "run" /\ pc'[u].at \in {"run", "yield"})
  <2>1. \E p \in {"run", "yield"} : pc' = [pc EXCEPT ![t] = Simple(p)]
    BY DEF ThreadUnlock, Go
  <2> QED BY <1>1, <2>1 DEF Simple, Places, MutexInv, TypeOK
<1>6. held' \in [Threads -> SUBSET Mutexes]
  BY <1>1 DEF MutexInv, TypeOK
<1>7. \A u \in Threads :
        k'.status[u] = "MUTEX_BLOCKED" <=>
          k.status[u] = "MUTEX_BLOCKED" /\ ~(mtx[m].queue # <<>> /\ u = Head(mtx[m].queue))
  BY <1>2, <1>4
<1>8. /\ mtx' \in [All -> [locked : BOOLEAN, queue : Seq(Threads),
                           owner : Threads \cup {NoThread}, orig : Prios]]
      /\ Lists' /\ Owned'
  BY <1>1, <1>5, <1>6, <1>7, PassedKeeps
<1>9. Rests' /\ AtWork' /\ Cancelling'
  BY <1>1, <1>2, <1>4, <1>5, ReadierKeeps
<1> QED BY <1>1, <1>4, <1>5, <1>6, <1>8, <1>9 DEF MutexInv, TypeOK, KernelInv

(* mutex_unlock_and_sleep()                                                 *)
LEMMA UnlockAndSleepKeeps ==
  ASSUME MutexInv, NEW t \in Threads, NEW m \in Mutexes, UnlockAndSleep(t, m)
  PROVE  MutexInv'
<1> DEFINE n == Wake(k, mtx[m])
<1>1. /\ pc[t].at = "run" /\ m \in held[t] /\ m \in All /\ UNCHANGED mc /\ Executes(k, t)
      /\ mtx' = [mtx EXCEPT ![m] = Passed(mtx[m])]
      /\ k' = SetStatus(n, t, "SLEEPING")
      /\ held' = [held EXCEPT ![t] = held[t] \ {m}]
      /\ pc' = [pc EXCEPT ![t] = Simple("yield")]
  BY DEF UnlockAndSleep, Calling, At, Go, All
<1>2. /\ KernelInv(n) /\ n.active = k.active /\ n.idle = k.idle /\ n.pendsv = k.pendsv
      /\ n.status \in [Threads -> Status]
      /\ \A u \in Threads :
           n.status[u] = IF mtx[m].queue # <<>> /\ u = Head(mtx[m].queue)
                         THEN "PENDING" ELSE k.status[u]
  BY <1>1, WakeEffect
<1> HIDE DEF n
<1>3. /\ KernelInv(k') /\ k'.active = k.active /\ k'.idle = k.idle /\ k'.pendsv = k.pendsv
      /\ k'.status = [n.status EXCEPT ![t] = "SLEEPING"]
  BY <1>1, <1>2, SetStatusInv, SetStatusEffect, KernelTypes DEF MutexInv
<1>4. \A u \in Threads :
        k'.status[u] = IF u = t THEN "SLEEPING"
                       ELSE IF mtx[m].queue # <<>> /\ u = Head(mtx[m].queue)
                       THEN "PENDING" ELSE k.status[u]
  BY <1>2, <1>3
<1>5. k.status[t] # "MUTEX_BLOCKED"
  BY <1>1, Working
<1>6. /\ pc' \in [Threads -> Places] /\ pc'[t].at = "yield"
      /\ \A u \in Threads :
           pc'[u] = pc[u] \/ (pc[u].at = "run" /\ pc'[u].at \in {"run", "yield"})
  BY <1>1 DEF Simple, Places, MutexInv, TypeOK
<1>7. held' \in [Threads -> SUBSET Mutexes]
  BY <1>1 DEF MutexInv, TypeOK
<1>8. \A u \in Threads :
        k'.status[u] = "MUTEX_BLOCKED" <=>
          k.status[u] = "MUTEX_BLOCKED" /\ ~(mtx[m].queue # <<>> /\ u = Head(mtx[m].queue))
  BY <1>4, <1>5
<1>9. /\ mtx' \in [All -> [locked : BOOLEAN, queue : Seq(Threads),
                           owner : Threads \cup {NoThread}, orig : Prios]]
      /\ Lists' /\ Owned'
  BY <1>1, <1>6, <1>7, <1>8, PassedKeeps
<1>10. Rests' /\ AtWork' /\ Cancelling'
  BY <1>1, <1>3, <1>4, <1>6, ReadierKeeps
<1> QED BY <1>1, <1>3, <1>6, <1>7, <1>9, <1>10 DEF MutexInv, TypeOK, KernelInv

(* mutex_unlock() of a signal by a handler.                                 *)
LEMMA IsrUnlockKeeps ==
  ASSUME MutexInv, NEW m \in Signals, IsrUnlock(m)
  PROVE  MutexInv'
<1> DEFINE n == Wake(k, mtx[m])
           r == Restore(n, mtx[m])
<1>1. /\ m \in All /\ UNCHANGED <<mc, pc, held>> /\ mtx' = [mtx EXCEPT ![m] = Passed(mtx[m])]
      /\ k' = (IF mtx[m].queue = <<>> THEN k ELSE YieldHigher(r))
  BY DEF IsrUnlock, All
<1>2. /\ KernelInv(n) /\ n.active = k.active /\ n.idle = k.idle /\ n.pendsv = k.pendsv
      /\ \A u \in Threads :
           n.status[u] = IF mtx[m].queue # <<>> /\ u = Head(mtx[m].queue)
                         THEN "PENDING" ELSE k.status[u]
  BY <1>1, WakeEffect
<1>3. mtx[m].queue = <<>> => n = k
  BY DEF Wake
<1> HIDE DEF n
<1>4. KernelInv(r) /\ r.status = n.status /\ r.active = n.active /\ r.idle = n.idle
  <2>1. TypeOK
    BY DEF MutexInv
  <2> QED BY <1>1, <1>2, <2>1, RestoreEffect
<1> HIDE DEF r
<1>5. /\ KernelInv(k') /\ k'.active = k.active /\ k'.idle = k.idle /\ k'.status = n.status
      /\ k.pendsv => k'.pendsv
  BY <1>1, <1>2, <1>3, <1>4, YieldHigherInv, YieldEffect DEF MutexInv
<1>6. \A u \in Threads :
        k'.status[u] = "MUTEX_BLOCKED" <=>
          k.status[u] = "MUTEX_BLOCKED" /\ ~(mtx[m].queue # <<>> /\ u = Head(mtx[m].queue))
  BY <1>2, <1>5
<1>7. held' \in [Threads -> SUBSET Mutexes] /\ pc' \in [Threads -> Places]
  BY <1>1 DEF MutexInv, TypeOK
<1>8. /\ mtx' \in [All -> [locked : BOOLEAN, queue : Seq(Threads),
                           owner : Threads \cup {NoThread}, orig : Prios]]
      /\ Lists' /\ Owned'
  BY <1>1, <1>6, <1>7, PassedKeeps
<1>9. Rests' /\ AtWork' /\ Cancelling'
  BY <1>1, <1>2, <1>5, ReadierKeeps
<1> QED BY <1>1, <1>5, <1>7, <1>8, <1>9 DEF MutexInv, TypeOK, KernelInv

(* thread_sleep()                                                           *)
LEMMA SleepKeeps ==
  ASSUME MutexInv, NEW t \in Threads, Sleep(t)
  PROVE  MutexInv'
<1>1. /\ pc[t].at = "run" /\ Executes(k, t) /\ UNCHANGED <<mtx, mc, held>>
      /\ k' = SetStatus(k, t, "SLEEPING") /\ pc' = [pc EXCEPT ![t] = Simple("yield")]
  BY DEF Sleep, At, Go
<1>2. /\ KernelInv(k') /\ k'.active = k.active /\ k'.idle = k.idle /\ k'.pendsv = k.pendsv
      /\ k'.status = [k.status EXCEPT ![t] = "SLEEPING"]
  BY <1>1, SetStatusInv, SetStatusEffect, KernelTypes DEF MutexInv
<1>3. \A u \in Threads : k'.status[u] = IF u = t THEN "SLEEPING" ELSE k.status[u]
  BY <1>2, KernelTypes DEF MutexInv
<1>4. k.status[t] # "MUTEX_BLOCKED"
  BY <1>1, Working
<1>5. /\ pc' \in [Threads -> Places] /\ pc'[t].at = "yield"
      /\ \A u \in Threads :
           pc'[u] = pc[u] \/ (pc[u].at = "run" /\ pc'[u].at \in {"run", "yield"})
  BY <1>1 DEF Simple, Places, MutexInv, TypeOK
<1>6. Lists' /\ Owned'
  BY <1>1, <1>3, <1>4, <1>5, ListsKept
<1>7. Rests' /\ AtWork' /\ Cancelling'
  BY <1>1, <1>2, <1>3, <1>5, ReadierKeeps
<1> QED BY <1>1, <1>2, <1>5, <1>6, <1>7 DEF MutexInv, TypeOK, KernelInv

(* thread_wakeup() by a handler.                                            *)
LEMMA IsrWakeupKeeps ==
  ASSUME MutexInv, NEW t \in Threads, IsrWakeup(t)
  PROVE  MutexInv'
<1> DEFINE n == SetStatus(k, t, "PENDING")
<1>1. /\ UNCHANGED <<mtx, mc, pc, held>> /\ k.status[t] = "SLEEPING"
      /\ \E test \in BOOLEAN : k' = IsrSwitch(n, test)
  BY DEF IsrWakeup, SwitchTests
<1>2. /\ KernelInv(n) /\ n.active = k.active /\ n.idle = k.idle /\ n.pendsv = k.pendsv
      /\ n.status = [k.status EXCEPT ![t] = "PENDING"]
  BY SetStatusInv, SetStatusEffect, KernelTypes DEF MutexInv
<1> HIDE DEF n
<1>3. /\ KernelInv(k') /\ k'.active = k.active /\ k'.idle = k.idle /\ k'.status = n.status
      /\ k.pendsv => k'.pendsv
  BY <1>1, <1>2, SwitchInv, SwitchEffect
<1>4. \A u \in Threads : k'.status[u] = IF u = t THEN "PENDING" ELSE k.status[u]
  BY <1>2, <1>3, KernelTypes DEF MutexInv
<1>5. Lists' /\ Owned'
  BY <1>1, <1>4, ListsKept
<1>6. Rests' /\ AtWork' /\ Cancelling'
  BY <1>1, <1>3, <1>4, ReadierKeeps
<1> QED BY <1>1, <1>3, <1>5, <1>6 DEF MutexInv, TypeOK, KernelInv
-----------------------------------------------------------------------------
(* The rest of a call                                                       *)

(* A yield or the test of sched_switch() ends; a lock call that blocked goes *)
(* on when the scheduler picks its thread again.                            *)
LEMMA GoOnKeeps ==
  ASSUME MutexInv, NEW t \in Threads, UNCHANGED <<mtx, mc, held>>,
         KernelInv(k'), k'.status = k.status, k'.active = k.active, k'.idle = k.idle,
         \/ pc[t].at = "switch" /\ IsActive(k, t) /\ (k.pendsv => k'.pendsv)
         \/ pc[t].at \in {"yield", "block"} /\ k'.pendsv,
         Go(t, IF pc[t].at = "block" THEN [pc[t] EXCEPT !.at = "woken"] ELSE Simple("run"))
  PROVE  MutexInv'
<1>1. /\ pc' \in [Threads -> Places] /\ \A u \in Threads \ {t} : pc'[u] = pc[u]
      /\ IF pc[t].at = "block"
         THEN pc'[t].at = "woken" /\ pc'[t].mutex = pc[t].mutex /\ pc'[t].mc = pc[t].mc
         ELSE pc'[t].at = "run"
  <2>1. pc \in [Threads -> Places] /\ pc[t] \in Places
    BY DEF MutexInv, TypeOK
  <2>2. Simple("run") \in Places /\ Simple("run").at = "run"
    BY DEF Simple, Places
  <2>3. CASE pc[t].at = "block"
    <3>1. pc[t] \in [at : {"block", "woken"}, mutex : All, mc : BOOLEAN]
      BY <2>1, <2>3 DEF Places, Simple
    <3> DEFINE p == [pc[t] EXCEPT !.at = "woken"]
    <3>2. /\ p \in [at : {"block", "woken"}, mutex : All, mc : BOOLEAN]
          /\ p.at = "woken" /\ p.mutex = pc[t].mutex /\ p.mc = pc[t].mc
      BY <3>1
    <3>3. p \in Places
      BY <3>2 DEF Places
    <3>4. pc' = [pc EXCEPT ![t] = p]
      BY <2>3 DEF Go
    <3> HIDE DEF p
    <3> QED BY <2>1, <2>3, <3>2, <3>3, <3>4
  <2>4. CASE pc[t].at # "block"
    BY <2>1, <2>2, <2>4 DEF Go
  <2> QED BY <2>3, <2>4
<1>2. \A u \in Threads, n \in All : /\ InCall(u, n)' <=> InCall(u, n)
                                    /\ Waiters(n)' = Waiters(n)
  BY <1>1 DEF InCall, Waiters
<1>3. Lists'
  BY <1>2 DEF MutexInv, Lists
<1>4. Owned'
  <2>1. \A n \in Mutexes : n \in All
    BY DEF All
  <2>2. \A u \in Threads, n \in Mutexes : Granted(u, n)' <=> Granted(u, n)
    BY <1>1, <1>2, <2>1 DEF Granted, InCall
  <2>3. \A u \in Threads, n \in Mutexes : Owner(u, n)' <=> Owner(u, n)
    BY <2>2 DEF Owner
  <2> QED BY <2>3 DEF MutexInv, Owned
<1>5. Rests'
  BY <1>1 DEF MutexInv, Rests, IsActive, OnRunqueue
<1>6. Cancelling'
  BY <1>1 DEF MutexInv, Cancelling, IsActive
<1>7. AtWork'
  BY <1>1 DEF MutexInv, AtWork, Executes, IsActive
<1> QED BY <1>1, <1>3, <1>4, <1>5, <1>6, <1>7 DEF MutexInv, TypeOK, KernelInv

(* The thread_yield_higher() at the end of an unlock, or inside _block().   *)
LEMMA DoYieldKeeps ==
  ASSUME MutexInv, NEW t \in Threads, DoYield(t)
  PROVE  MutexInv'
<1>1. /\ pc[t].at \in {"block", "yield"} /\ k' = YieldHigher(k) /\ KernelInv(k)
      /\ UNCHANGED <<mtx, mc, held>>
      /\ Go(t, IF pc[t].at = "block" THEN [pc[t] EXCEPT !.at = "woken"] ELSE Simple("run"))
  BY DEF DoYield, MutexInv
<1>2. /\ KernelInv(k') /\ k'.status = k.status /\ k'.active = k.active /\ k'.idle = k.idle
      /\ k'.pendsv
  BY <1>1, YieldHigherInv, YieldEffect
<1> QED BY <1>1, <1>2, GoOnKeeps

(* The sched_switch() at the end of mutex_cancel().                         *)
LEMMA DoSwitchKeeps ==
  ASSUME MutexInv, NEW t \in Threads, DoSwitch(t)
  PROVE  MutexInv'
<1>1. /\ pc[t].at = "switch" /\ Executes(k, t) /\ KernelInv(k)
      /\ UNCHANGED <<mtx, mc, held>> /\ Go(t, Simple("run"))
      /\ \E test \in BOOLEAN : k' = ThreadSwitch(k, test)
  BY DEF DoSwitch, At, SwitchTests, MutexInv
<1>2. /\ KernelInv(k') /\ k'.status = k.status /\ k'.active = k.active /\ k'.idle = k.idle
      /\ k.pendsv => k'.pendsv
  BY <1>1, SwitchInv, SwitchEffect
<1>3. IsActive(k, t)
  BY <1>1, Working
<1> QED BY <1>1, <1>2, <1>3, GoOnKeeps

-----------------------------------------------------------------------------
(* Cancellation                                                             *)

(* The thread of a cancelled call is ready, or waits in its mutex's list.   *)
LEMMA CancelFinds ==
  ASSUME MutexInv, NEW u \in Threads, mc[u] # NoCancel
  PROVE  /\ mc[u].mutex \in All /\ pc[u].at \notin {"run", "yield", "switch"}
         /\ \A n \in All : InCall(u, n) => pc[u].mc /\ n = mc[u].mutex
         /\ Dequeued(u) <=> ~IsActive(k, u)
<1>1. /\ mc[u].mutex \in All /\ pc[u].at \notin {"run", "yield", "switch"}
      /\ \A n \in All : InCall(u, n) => pc[u].mc /\ n = mc[u].mutex
  BY DEF MutexInv, Cancelling, InCall
<1>2. ~IsActive(k, u) => k.status[u] = "MUTEX_BLOCKED" /\ InCall(u, mc[u].mutex)
  <2>1. pc[u] \in Places
    BY DEF MutexInv, TypeOK
  <2>2. ~IsActive(k, u) => k.status[u] = "MUTEX_BLOCKED" /\ pc[u].at \in {"block", "woken"}
    BY <1>1 DEF MutexInv, Rests
  <2> QED BY <1>1, <2>2 DEF MutexInv, Cancelling, InCall
<1>3. ~IsActive(k, u) => u \in Waiters(mc[u].mutex)
  BY <1>1, <1>2 DEF MutexInv, Lists
<1> QED BY <1>1, <1>3 DEF Dequeued, Waiters

(* mutex_cancel(): the thread leaves the list, and its call owns nothing.   *)
LEMMA CancelKeeps ==
  ASSUME MutexInv, NEW u \in Threads, mc[u] # NoCancel, CancelState(u), UNCHANGED held,
         KernelInv(k'),
         \A v \in Threads :
           k'.status[v] = IF v = u /\ Dequeued(u) THEN "PENDING" ELSE k.status[v],
         k'.active = k.active, k'.idle = k.idle, k.pendsv => k'.pendsv,
         \/ UNCHANGED pc
         \/ \E t \in Threads : /\ Executes(k, t) /\ pc[t].at = "run"
                               /\ pc' = [pc EXCEPT ![t] = [at |-> "switch", thread |-> u]]
  PROVE  MutexInv'
<1> DEFINE m == mc[u].mutex
           q == mtx[m].queue
<1>1. /\ m \in All /\ pc[u].at \notin {"run", "yield", "switch"}
      /\ \A n \in All : InCall(u, n) => pc[u].mc /\ n = m
      /\ Dequeued(u) <=> ~IsActive(k, u)
      /\ Dequeued(u) => u \in Elems(q)
  BY CancelFinds DEF Dequeued
<1>2. /\ mc' = [mc EXCEPT ![u].cancelled = TRUE]
      /\ mtx' = IF Dequeued(u) THEN [mtx EXCEPT ![m].queue = Unlink(q, u)] ELSE mtx
  BY DEF CancelState
<1>3. q \in Seq(Threads) /\ Once(q)
  BY <1>1 DEF MutexInv, TypeOK, Lists
<1>4. Unlink(q, u) \in Seq(Threads) /\ Elems(Unlink(q, u)) = Elems(q) \ {u} /\ Once(Unlink(q, u))
  BY <1>3, ElemsUnlink
<1> HIDE DEF m, q
<1>5. /\ mc' \in [Threads -> [mutex : All \cup {NoMutex}, cancelled : BOOLEAN]]
      /\ \A v \in Threads \ {u} : mc'[v] = mc[v]
      /\ mc'[u].mutex = m /\ mc'[u].cancelled
  <2>1. mc \in [Threads -> [mutex : All \cup {NoMutex}, cancelled : BOOLEAN]]
    BY DEF MutexInv, TypeOK
  <2> DEFINE c == [mc[u] EXCEPT !.cancelled = TRUE]
             C == [mutex : All \cup {NoMutex}, cancelled : BOOLEAN]
  <2>2. c \in C /\ c.mutex = m /\ c.cancelled
    BY <2>1 DEF m
  <2>3. mc' = [mc EXCEPT ![u] = c]
    BY <1>2
  <2> HIDE DEF c, C
  <2>4. mc' \in [Threads -> C] /\ mc'[u] = c /\ \A v \in Threads \ {u} : mc'[v] = mc[v]
    BY <2>1, <2>2, <2>3 DEF C
  <2> QED BY <2>2, <2>4 DEF C
<1>6. /\ mtx' \in [All -> [locked : BOOLEAN, queue : Seq(Threads),
                           owner : Threads \cup {NoThread}, orig : Prios]]
      /\ \A n \in All : mtx'[n].locked = mtx[n].locked /\ Once(mtx'[n].queue)
      /\ \A n \in All :
           Elems(mtx'[n].queue) = IF n = m /\ Dequeued(u) THEN Elems(mtx[n].queue) \ {u}
                                  ELSE Elems(mtx[n].queue)
  <2>1. CASE Dequeued(u)
    <3>1. mtx' = [mtx EXCEPT ![m].queue = Unlink(q, u)]
      BY <1>2, <2>1
    <3> DEFINE r == Unlink(q, u)
    <3> HIDE DEF r
    <3>2. /\ mtx' \in [All -> [locked : BOOLEAN, queue : Seq(Threads),
                               owner : Threads \cup {NoThread}, orig : Prios]]
          /\ mtx'[m].queue = r /\ mtx'[m].locked = mtx[m].locked
          /\ \A n \in All : n # m => mtx'[n] = mtx[n]
      <4>1. TypeOK /\ m \in All /\ r \in Seq(Threads)
        BY <1>1, <1>4 DEF MutexInv, r
      <4>2. mtx' = [mtx EXCEPT ![m].queue = r]
        BY <3>1 DEF r
      <4> QED BY <4>1, <4>2, QueueChanges
    <3>3. Elems(r) = Elems(mtx[m].queue) \ {u} /\ Once(r)
      BY <1>4 DEF r, q
    <3> QED BY <2>1, <3>2, <3>3 DEF MutexInv, Lists
  <2>2. CASE ~Dequeued(u)
    BY <1>2, <2>2 DEF MutexInv, TypeOK, Lists
  <2> QED BY <2>1, <2>2
<1>7. /\ pc' \in [Threads -> Places]
      /\ \A v \in Threads :
           pc'[v] = pc[v] \/ (Executes(k, v) /\ pc[v].at = "run" /\ pc'[v].at = "switch")
  <2>1. CASE UNCHANGED pc
    BY <2>1 DEF MutexInv, TypeOK
  <2>2. CASE \E t \in Threads : /\ Executes(k, t) /\ pc[t].at = "run"
                                /\ pc' = [pc EXCEPT ![t] = [at |-> "switch", thread |-> u]]
    BY <2>2 DEF Places, MutexInv, TypeOK
  <2> QED BY <2>1, <2>2
<1>8. TypeOK'
  BY <1>5, <1>6, <1>7 DEF MutexInv, TypeOK, KernelInv
<1>9. \A v \in Threads, n \in All :
        /\ InCall(v, n)' <=> InCall(v, n)
        /\ v \in Waiters(n)' <=> v \in Waiters(n) /\ ~(v = u /\ n = m /\ Dequeued(u))
  <2>1. \A v \in Threads, n \in All : InCall(v, n)' <=> InCall(v, n)
    BY <1>7 DEF InCall
  <2>2. \A v \in Threads, n \in All :
          v \in Waiters(n)' <=> v \in Waiters(n) /\ ~(v = u /\ n = m /\ Dequeued(u))
    BY <1>6 DEF Waiters
  <2> QED BY <2>1, <2>2
<1>10. Lists'
  <2>1. \A n \in All : mtx'[n].queue # <<>> => mtx[n].queue # <<>>
    <3> TAKE n \in All
    <3>1. mtx[n].queue \in Seq(Threads) /\ mtx'[n].queue \in Seq(Threads)
      BY <1>6 DEF MutexInv, TypeOK
    <3>2. Elems(mtx'[n].queue) # {} => Elems(mtx[n].queue) # {}
      BY <1>6
    <3> QED BY <3>1, <3>2, ElemsEmpty
  <2>2. \A v \in Threads, n \in All :
          v \in Waiters(n)' <=> k'.status[v] = "MUTEX_BLOCKED" /\ InCall(v, n)'
    <3> TAKE v \in Threads, n \in All
    <3>1. v \in Waiters(n) <=> k.status[v] = "MUTEX_BLOCKED" /\ InCall(v, n)
      BY DEF MutexInv, Lists
    <3> QED BY <1>1, <1>9, <3>1
  <2> QED BY <1>6, <2>1, <2>2 DEF MutexInv, Lists
<1>11. Owned'
  <2>1. \A n \in Mutexes : n \in All
    BY DEF All
  <2>2. \A v \in Threads, n \in Mutexes : Granted(v, n)' => Granted(v, n)
    <3> TAKE v \in Threads, n \in Mutexes
    <3>1. CASE v = u
      BY <1>1, <1>5, <1>7, <1>9, <2>1, <3>1 DEF Granted, InCall
    <3>2. CASE v # u
      BY <1>5, <1>7, <1>9, <2>1, <3>2 DEF Granted, InCall
    <3> QED BY <3>1, <3>2
  <2>3. \A v \in Threads, n \in Mutexes : Owner(v, n)' => Owner(v, n)
    BY <2>2 DEF Owner
  <2> QED BY <1>6, <2>1, <2>3 DEF MutexInv, Owned
<1>12. \A v \in Threads : IsActive(k', v) <=> IsActive(k, v) \/ v = u
  BY <1>1 DEF IsActive, OnRunqueue
<1>13. AtWork'
  BY <1>7, <1>12 DEF MutexInv, AtWork, Executes
<1>14. Rests'
  <2>1. \A v \in Threads : Executes(k, v) /\ pc[v].at = "run" => IsActive(k, v)
    BY DEF MutexInv, AtWork
  <2> QED BY <1>7, <1>12, <2>1 DEF MutexInv, Rests
<1>15. Cancelling'
  <2>1. \A v \in Threads \ {u} :
          /\ mc'[v] = mc[v]
          /\ pc'[v] = pc[v] \/ (pc[v].at = "run" /\ pc'[v].at = "switch")
    BY <1>5, <1>7
  <2>2. pc'[u] = pc[u]
    BY <1>1, <1>7
  <2>3. /\ pc[u].at = "enter" => mc[u].mutex \in All
        /\ pc[u].at \in {"block", "woken"} => pc[u].mc /\ mc[u].mutex = pc[u].mutex
    BY DEF MutexInv, Cancelling
  <2> QED BY <1>1, <1>5, <1>12, <2>1, <2>2, <2>3 DEF MutexInv, Cancelling, m
<1> QED BY <1>8, <1>10, <1>11, <1>13, <1>14, <1>15 DEF MutexInv

(* The woken thread is ready; the state of the scheduler stays consistent.  *)
LEMMA UnblockedEffect ==
  ASSUME MutexInv, NEW u \in Threads
  PROVE  LET n == Unblocked(u)
         IN /\ KernelInv(n) /\ n.active = k.active /\ n.idle = k.idle /\ n.pendsv = k.pendsv
            /\ \A v \in Threads :
                 n.status[v] = IF v = u /\ Dequeued(u) THEN "PENDING" ELSE k.status[v]
<1>1. KernelInv(k) /\ k.status \in [Threads -> Status]
  BY KernelTypes DEF MutexInv
<1>2. CASE Dequeued(u)
  <2> DEFINE n == SetStatus(k, u, "PENDING")
  <2>1. /\ KernelInv(n) /\ n.status = [k.status EXCEPT ![u] = "PENDING"]
        /\ n.active = k.active /\ n.idle = k.idle /\ n.pendsv = k.pendsv
    BY <1>1, SetStatusInv, SetStatusEffect, KernelTypes
  <2>2. Unblocked(u) = n
    BY <1>2 DEF Unblocked
  <2> HIDE DEF n
  <2> QED BY <1>1, <1>2, <2>1, <2>2
<1>3. CASE ~Dequeued(u)
  BY <1>1, <1>3 DEF Unblocked
<1> QED BY <1>2, <1>3

(* mutex_cancel() of a thread.                                              *)
LEMMA ThreadCancelKeeps ==
  ASSUME MutexInv, NEW t \in Threads, NEW u \in Threads, ThreadCancel(t, u)
  PROVE  MutexInv'
<1>1. /\ Executes(k, t) /\ pc[t].at = "run" /\ mc[u] # NoCancel /\ CancelState(u)
      /\ k' = Unblocked(u) /\ UNCHANGED held
      /\ pc' = [pc EXCEPT ![t] = IF Dequeued(u) THEN [at |-> "switch", thread |-> u] ELSE pc[t]]
  BY DEF ThreadCancel, Calling, At, Go
<1>2. UNCHANGED pc \/ pc' = [pc EXCEPT ![t] = [at |-> "switch", thread |-> u]]
  BY <1>1 DEF MutexInv, TypeOK
<1> QED BY <1>1, <1>2, UnblockedEffect, CancelKeeps

(* mutex_cancel() of a timer.                                               *)
LEMMA IsrCancelKeeps ==
  ASSUME MutexInv, NEW u \in Threads, IsrCancel(u)
  PROVE  MutexInv'
<1> DEFINE n == Unblocked(u)
<1>1. /\ mc[u] # NoCancel /\ CancelState(u) /\ UNCHANGED <<pc, held>>
      /\ (k' = k /\ ~Dequeued(u)) \/ \E test \in BOOLEAN : k' = IsrSwitch(n, test)
  BY DEF IsrCancel, SwitchTests
<1>2. /\ KernelInv(n) /\ n.active = k.active /\ n.idle = k.idle /\ n.pendsv = k.pendsv
      /\ \A v \in Threads :
           n.status[v] = IF v = u /\ Dequeued(u) THEN "PENDING" ELSE k.status[v]
  BY UnblockedEffect
<1> HIDE DEF n
<1>3. /\ KernelInv(k') /\ k'.active = k.active /\ k'.idle = k.idle
      /\ k.pendsv => k'.pendsv
      /\ \A v \in Threads :
           k'.status[v] = IF v = u /\ Dequeued(u) THEN "PENDING" ELSE k.status[v]
  <2>1. CASE k' = k /\ ~Dequeued(u)
    BY <2>1 DEF MutexInv
  <2>2. CASE \E test \in BOOLEAN : k' = IsrSwitch(n, test)
    BY <1>2, <2>2, SwitchInv, SwitchEffect
  <2> QED BY <1>1, <2>1, <2>2
<1> QED BY <1>1, <1>3, CancelKeeps
-----------------------------------------------------------------------------
(* The priorities                                                           *)

(* sched_set_status() and the requests for a switch change no priority.     *)
LEMMA PrioKept ==
  ASSUME NEW s, KernelInv(s)
  PROVE  /\ YieldHigher(s).prio = s.prio
         /\ \A test \in BOOLEAN : /\ ThreadSwitch(s, test).prio = s.prio
                                  /\ IsrSwitch(s, test).prio = s.prio
BY DEF YieldHigher, ThreadSwitch, IsrSwitch, IsrEnd, KernelInv, KernelType

(* A status is set, and the priorities stay.                                *)
LEMMA StatusSet ==
  ASSUME NEW s, KernelInv(s), NEW t \in Threads, NEW v \in Status \ {"RUNNING"}
  PROVE  /\ KernelInv(SetStatus(s, t, v)) /\ SetStatus(s, t, v).prio = s.prio
         /\ SetStatus(s, t, v).active = s.active /\ SetStatus(s, t, v).idle = s.idle
         /\ SetStatus(s, t, v).pendsv = s.pendsv
         /\ \A u \in Threads : SetStatus(s, t, v).status[u] = IF u = t THEN v ELSE s.status[u]
<1> DEFINE n == SetStatus(s, t, v)
<1>1. s \in KernelType /\ RunqueueOK(s) /\ v \in Status /\ s.status \in [Threads -> Status]
  BY DEF KernelInv, KernelType
<1>2. n.prio = s.prio
  BY <1>1, SetStatusOK
<1>3. KernelInv(n)
  BY SetStatusInv
<1>4. /\ n.status = [s.status EXCEPT ![t] = v]
      /\ n.active = s.active /\ n.idle = s.idle /\ n.pendsv = s.pendsv
  BY <1>1, SetStatusEffect
<1> HIDE DEF n
<1>5. \A u \in Threads : n.status[u] = IF u = t THEN v ELSE s.status[u]
  BY <1>1, <1>4
<1> QED BY <1>2, <1>3, <1>4, <1>5 DEF n

(* sched_run() changes no priority.                                         *)
LEMMA RunPrio ==
  ASSUME KernelInv(k), PendSV \/ EndIdle
  PROVE  k'.prio = k.prio
<1>1. \A s \in KernelType, out \in Threads \cup {NoThread} :
        NextThread(s) \in Threads => Dispatch(s, out).prio = s.prio
  BY DEF Dispatch, Unschedule, KernelType
<1>2. CASE PendSV
  <2> DEFINE e == [k EXCEPT !.pendsv = FALSE]
  <2>1. /\ e \in KernelType /\ e.prio = k.prio /\ e.active = k.active
        /\ e.status = k.status /\ e.runq = k.runq /\ e.bitcache = k.bitcache /\ e.idle = k.idle
    BY DEF KernelInv, KernelType
  <2>2. KernelInv(e)
    BY <2>1, FrameInv
  <2>3. CASE k.bitcache = {}
    BY <1>2, <2>3 DEF PendSV, SchedRun, Unschedule, KernelInv, KernelType
  <2>4. CASE k.bitcache # {}
    <3>1. k' = Dispatch(e, k.active)
      BY <1>2, <2>4 DEF PendSV, SchedRun
    <3>2. k.active \in Threads \cup {NoThread}
      BY DEF KernelInv, KernelType
    <3> HIDE DEF e
    <3>3. NextThread(e) \in Threads
      BY <2>1, <2>2, <2>4, NextThreadHighest
    <3> QED BY <1>1, <2>1, <3>1, <3>2, <3>3
  <2> QED BY <2>3, <2>4
<1>3. CASE EndIdle
  <2>1. k' = Dispatch(k, NoThread) /\ k.bitcache # {}
    BY <1>3 DEF EndIdle, IdleReturn
  <2> QED BY <1>1, <2>1, NextThreadHighest DEF KernelInv
<1> QED BY <1>2, <1>3

-----------------------------------------------------------------------------
(* The initial state and the theorems                                       *)

(* No mutex has a waiter or an owner yet.                                   *)
LEMMA InitInv == Init => MutexInv
<1> SUFFICES ASSUME Init PROVE MutexInv
  OBVIOUS
<1>1. /\ KernelInv(k) /\ k.active = NoThread
      /\ \A t \in Threads : k.status[t] \in {"PENDING", "SLEEPING"}
  BY MutexAssumption, StartOK DEF Init, MutexAssumption
<1>2. /\ \A t \in Threads : pc[t] = Simple("run") /\ mc[t] = NoCancel /\ held[t] = {}
      /\ \A m \in All : mtx[m].queue = <<>> /\ Once(<<>>) /\ Elems(<<>>) = {}
  BY DEF Init, Once, Elems
<1>3. TypeOK
  <2>1. <<>> \in Seq(Threads) /\ 0 \in Prios
    BY KernelAssumption DEF Prios
  <2>2. Simple("run") \in Places
    BY DEF Simple, Places
  <2> QED BY <1>1, <2>1, <2>2 DEF Init, TypeOK, KernelInv, NoCancel
<1>4. Lists
  BY <1>1, <1>2 DEF Lists, Waiters
<1>5. \A t \in Threads : pc[t].at = "run"
  BY <1>2 DEF Simple
<1>6. Owned
  BY <1>2, <1>5 DEF Owned, Owner, Granted, InCall
<1>7. Rests
  BY <1>1, <1>5 DEF Rests, IsActive, OnRunqueue
<1>8. AtWork
  BY <1>1, KernelAssumption DEF AtWork, Executes
<1>9. Cancelling
  <2>1. ~NoCancel.cancelled
    BY DEF NoCancel
  <2> QED BY <1>2, <1>5, <2>1 DEF Cancelling
<1> QED BY <1>1, <1>3, <1>4, <1>6, <1>7, <1>8, <1>9 DEF MutexInv

(* Every step, or none, keeps the invariant.                                *)
LEMMA StepInv == MutexInv /\ [Next]_vars => MutexInv'
<1> SUFFICES ASSUME MutexInv, [Next]_vars PROVE MutexInv'
  OBVIOUS
<1>1. CASE UNCHANGED vars
  BY <1>1 DEF vars, MutexInv, TypeOK, Lists, Owned, Owner, Rests, AtWork, Cancelling,
              Waiters, InCall, Granted
<1>2. ASSUME NEW t \in Threads, NEW m \in All,
             LockFree(t, m) \/ LockBlocks(t, m) \/ CancelInit(t, m)
      PROVE  MutexInv'
  BY <1>2, LockKeeps, CancelInitKeeps
<1>3. ASSUME NEW t \in Threads, NEW m \in Mutexes, ThreadUnlock(t, m) \/ UnlockAndSleep(t, m)
      PROVE  MutexInv'
  BY <1>3, ThreadUnlockKeeps, UnlockAndSleepKeeps
<1>4. ASSUME NEW t \in Threads,
             (\E u \in Threads : ThreadCancel(t, u)) \/ Sleep(t) \/ IsrCancel(t) \/ IsrWakeup(t)
      PROVE  MutexInv'
  BY <1>4, ThreadCancelKeeps, SleepKeeps, IsrCancelKeeps, IsrWakeupKeeps
<1>5. ASSUME NEW t \in Threads, Finish(t)
      PROVE  MutexInv'
  BY <1>5, LockCancelableKeeps, ReturnKeeps, CancelEndKeeps, DoYieldKeeps, DoSwitchKeeps DEF Finish
<1>6. CASE (\E m \in Signals : IsrUnlock(m)) \/ PendSV \/ EndIdle
  BY <1>6, IsrUnlockKeeps, PendSVKeeps, EndIdleKeeps
<1> QED BY <1>1, <1>2, <1>3, <1>4, <1>5, <1>6 DEF Next

(* The inductive invariant of mutexes holds in every reachable state.       *)
THEOREM MutexInvariant == Spec => []MutexInv
BY InitInv, StepInv, PTL DEF Spec

(* Lists of waiters and runqueues never share a thread: a waiter is in the  *)
(* list of the mutex it blocks on, once, exactly while its status says so,  *)
(* through every lock, hand-over, cancellation and boost.                   *)
THEOREM ListsAlwaysConsistent == Spec => []ListsConsistent
<1>1. MutexInv => ListsConsistent
  BY DEF MutexInv, KernelInv, Lists, ListsConsistent, Once
<1> QED BY <1>1, MutexInvariant, PTL

(* A mutex has one owner at a time, from mutex_unlock() naming the next one *)
(* to that thread's return from its lock call, and is locked for it.        *)
THEOREM OneOwner == Spec => []MutualExclusion
<1>1. MutexInv => MutualExclusion
  <2> SUFFICES ASSUME MutexInv, NEW m \in Mutexes
               PROVE  /\ Cardinality(Owners(m)) <= 1
                      /\ Owners(m) # {} => mtx[m].locked
    BY DEF MutualExclusion
  <2>1. Owners(m) = {t \in Threads : Owner(t, m)}
    BY DEF Owners, Owner
  <2>2. CASE Owners(m) = {}
    BY <2>2, FS_EmptySet
  <2>3. CASE Owners(m) # {}
    <3>1. PICK t \in Threads : Owners(m) = {t} /\ mtx[m].locked
      <4>1. PICK t \in Threads : Owner(t, m)
        BY <2>1, <2>3
      <4>2. mtx[m].locked /\ \A u \in Threads : Owner(u, m) => u = t
        BY <4>1 DEF MutexInv, Owned
      <4> QED BY <2>1, <4>1, <4>2
    <3>2. Cardinality({t}) = 1
      BY FS_Singleton
    <3> QED BY <3>1, <3>2
  <2> QED BY <2>2, <2>3
<1> QED BY <1>1, MutexInvariant, PTL

(* After mutex_cancel() the cancelled thread is ready, whether it was before *)
(* the test of mc->cancelled, in the list, or already woken.                *)
THEOREM CancelledIsReady == Spec => []CancelEndsWait
<1>1. MutexInv => CancelEndsWait
  BY DEF MutexInv, Cancelling, CancelEndsWait
<1> QED BY <1>1, MutexInvariant, PTL

-----------------------------------------------------------------------------
(* The order of the waiters                                                 *)

(* Without its first element, a list that is in the order of the priorities *)
(* is in that order, and the first element was before all others.           *)
LEMMA TailOrder ==
  ASSUME NEW s, NEW q \in Seq(Threads), q # <<>>, Sorted(s, q)
  PROVE  /\ Sorted(s, Tail(q))
         /\ \A u \in Elems(Tail(q)) :
              Before(q, Head(q), u) /\ s.prio[Head(q)] <= s.prio[u]
<1> DEFINE n == Len(q)
           r == Tail(q)
<1>1. /\ n \in Nat \ {0} /\ DOMAIN q = 1 .. n /\ Head(q) = q[1]
      /\ DOMAIN r = 1 .. n - 1 /\ \A i \in 1 .. n - 1 : r[i] = q[i + 1]
  BY HeadTailProperties, LenProperties, EmptySeq
<1>2. \A i, j \in 1 .. n : i < j => s.prio[q[i]] <= s.prio[q[j]]
  BY <1>1 DEF Sorted
<1> HIDE DEF n, r
<1>3. \A i \in 1 .. n - 1 : i + 1 \in 1 .. n /\ 1 < i + 1
  BY <1>1
<1>4. ASSUME NEW i \in 1 .. n - 1, NEW j \in 1 .. n - 1, i < j
      PROVE  s.prio[r[i]] <= s.prio[r[j]]
  <2>1. i + 1 < j + 1
    BY <1>4
  <2> QED BY <1>1, <1>2, <1>3, <2>1
<1>5. ASSUME NEW i \in 1 .. n - 1
      PROVE  Before(q, q[1], r[i]) /\ s.prio[q[1]] <= s.prio[r[i]]
  <2>1. 1 \in 1 .. n
    BY <1>1
  <2> QED BY <1>1, <1>2, <1>3, <2>1 DEF Before
<1>6. \A u \in Elems(r) : Before(q, Head(q), u) /\ s.prio[Head(q)] <= s.prio[u]
  BY <1>1, <1>5 DEF Elems
<1>7. Sorted(s, r)
  BY <1>1, <1>4 DEF Sorted
<1> QED BY <1>6, <1>7 DEF r

(* list_remove() keeps the order of the others.                             *)
LEMMA UnlinkSorted ==
  ASSUME NEW s, NEW q \in Seq(Threads), NEW t \in Elems(q), Sorted(s, q)
  PROVE  Sorted(s, Unlink(q, t))
<1> DEFINE c == CHOOSE j \in DOMAIN q : q[j] = t
           r == Without(q, c)
           n == Len(q)
<1>1. Unlink(q, t) = r
  BY DEF Unlink
<1>2. c \in DOMAIN q
  BY DEF Elems
<1>3. n \in Nat /\ DOMAIN q = 1 .. n /\ c \in 1 .. n
  BY <1>2, LenProperties
<1>4. \A i, j \in 1 .. n : i < j => s.prio[q[i]] <= s.prio[q[j]]
  BY <1>3 DEF Sorted
<1> HIDE DEF c
<1>5. DOMAIN r = 1 .. n - 1 /\ \A i \in 1 .. n - 1 : r[i] = IF i < c THEN q[i] ELSE q[i + 1]
  BY <1>3 DEF Without
<1> HIDE DEF r, n
<1>6. ASSUME NEW i \in 1 .. n - 1, NEW j \in 1 .. n - 1, i < j
      PROVE  s.prio[r[i]] <= s.prio[r[j]]
  <2> DEFINE from(l) == IF l < c THEN l ELSE l + 1
  <2>1. from(i) \in 1 .. n /\ from(j) \in 1 .. n /\ from(i) < from(j)
    BY <1>3, <1>6
  <2>2. r[i] = q[from(i)] /\ r[j] = q[from(j)]
    BY <1>5
  <2> HIDE DEF from
  <2> QED BY <1>4, <2>1, <2>2
<1> QED BY <1>1, <1>5, <1>6 DEF Sorted

(* thread_add_to_list() puts a thread behind all of its priority or above.  *)
LEMMA JoinsBehind ==
  ASSUME NEW s, s.prio \in [Threads -> Prios], NEW q \in Seq(Threads), Sorted(s, q),
         NEW t \in Threads, NEW u \in Elems(q), s.prio[u] <= s.prio[t]
  PROVE  Before(AddToList(s, q, t), u, t)
<1> DEFINE n == Len(q)
           r == AddToList(s, q, t)
<1>1. n \in Nat /\ DOMAIN q = 1 .. n /\ \A i \in 1 .. n : q[i] \in Threads
  BY LenProperties
<1>2. PICK j \in 1 .. n : q[j] = u
  BY <1>1 DEF Elems
<1>3. PICK l \in 0 .. n :
        /\ r = [i \in 1 .. n + 1 |-> IF i <= l THEN q[i] ELSE IF i = l + 1 THEN t ELSE q[i - 1]]
        /\ l < n => ~(s.prio[q[l + 1]] <= s.prio[t])
  BY AddPlace
<1>4. DOMAIN r = 1 .. n + 1 /\ \A i \in 1 .. n + 1 :
        r[i] = IF i <= l THEN q[i] ELSE IF i = l + 1 THEN t ELSE q[i - 1]
  BY <1>3
<1>5. \A i, i2 \in 1 .. n : i < i2 => s.prio[q[i]] <= s.prio[q[i2]]
  BY <1>1 DEF Sorted
<1>6. s.prio[t] \in Nat /\ \A i \in 1 .. n : s.prio[q[i]] \in Nat
  BY <1>1, KernelAssumption DEF Prios
<1> HIDE DEF n, r
<1>7. j <= l
  <2> SUFFICES ASSUME ~(j <= l) PROVE FALSE
    OBVIOUS
  <2>1. l + 1 \in 1 .. n /\ l < n /\ (l + 1 < j \/ l + 1 = j)
    BY <1>1, <1>2, <1>3
  <2>2. s.prio[q[l + 1]] <= s.prio[q[j]]
    BY <1>2, <1>5, <1>6, <2>1
  <2>3. s.prio[q[l + 1]] <= s.prio[t]
    BY <1>2, <1>6, <2>1, <2>2
  <2> QED BY <1>3, <2>1, <2>3
<1>8. /\ j \in 1 .. n + 1 /\ l + 1 \in 1 .. n + 1 /\ j < l + 1
      /\ r[j] = u /\ r[l + 1] = t
  BY <1>1, <1>2, <1>3, <1>4, <1>7
<1> QED BY <1>4, <1>8 DEF Before, r

(* How the list of a mutex changes: a thread joins it, the first one is     *)
(* handed the mutex, or a cancelled thread is taken out.                    *)
ListChange(m) ==
  LET q == mtx[m].queue
      r == mtx'[m].queue
  IN \/ r = q
     \/ \E t \in Threads \ Waiters(m) : r = AddToList(k', q, t)
     \/ q # <<>> /\ r = Tail(q)
     \/ \E t \in Waiters(m) : mc'[t].cancelled /\ r = Unlink(q, t)

ListChanges == k'.prio = k.prio /\ \A m \in All : ListChange(m)

(* What a step on one mutex does to the lists.                              *)
LEMMA OneList ==
  ASSUME TypeOK, NEW m \in All, k'.prio = k.prio, NEW x, mtx' = [mtx EXCEPT ![m] = x],
         \/ x.queue = mtx[m].queue
         \/ \E t \in Threads \ Waiters(m) : x.queue = AddToList(k', mtx[m].queue, t)
         \/ mtx[m].queue # <<>> /\ x.queue = Tail(mtx[m].queue)
         \/ \E t \in Waiters(m) : mc'[t].cancelled /\ x.queue = Unlink(mtx[m].queue, t)
  PROVE  ListChanges
<1>1. mtx'[m] = x /\ \A n \in All : n # m => mtx'[n] = mtx[n]
  BY DEF TypeOK
<1> QED BY <1>1 DEF ListChanges, ListChange

(* Without priority inheritance, a lock call changes no priority, and adds  *)
(* at most the caller to the list.                                          *)
LEMMA LockList ==
  ASSUME MutexInv, ~PI, NEW t \in Threads, NEW m \in All, Executes(k, t),
         pc[t].at \notin {"block", "yield"},
         \/ mtx' = [mtx EXCEPT ![m] = Taken(mtx[m], t)] /\ UNCHANGED k
         \/ \E cancelable \in BOOLEAN : Block(t, m, cancelable)
  PROVE  ListChanges
<1>1. TypeOK /\ KernelInv(k) /\ t \notin Waiters(m)
  BY Working DEF MutexInv
<1>2. CASE mtx' = [mtx EXCEPT ![m] = Taken(mtx[m], t)] /\ UNCHANGED k
  <2>1. Taken(mtx[m], t).queue = mtx[m].queue
    BY <1>1 DEF Taken, TypeOK
  <2> QED BY <1>1, <1>2, <2>1, OneList
<1>3. CASE \E cancelable \in BOOLEAN : Block(t, m, cancelable)
  <2> DEFINE x == [mtx[m] EXCEPT !.queue = AddToList(k', mtx[m].queue, t)]
  <2>1. k' = SetStatus(k, t, "MUTEX_BLOCKED") /\ mtx' = [mtx EXCEPT ![m] = x]
    BY <1>3 DEF Block, Inherit
  <2>2. k'.prio = k.prio
    BY <1>1, <2>1, StatusSet, KernelTypes
  <2>3. x.queue = AddToList(k', mtx[m].queue, t)
    BY <1>1 DEF TypeOK
  <2> HIDE DEF x
  <2> QED BY <1>1, <2>1, <2>2, <2>3, OneList
<1> QED BY <1>2, <1>3

(* The unlock functions take the first waiter out of the list.              *)
LEMMA PassedList ==
  ASSUME MutexInv, NEW m \in All, mtx' = [mtx EXCEPT ![m] = Passed(mtx[m])], k'.prio = k.prio
  PROVE  ListChanges
<1>1. TypeOK
  BY DEF MutexInv
<1>2. \/ Passed(mtx[m]).queue = mtx[m].queue
      \/ mtx[m].queue # <<>> /\ Passed(mtx[m]).queue = Tail(mtx[m].queue)
  BY <1>1 DEF Passed, TypeOK
<1> QED BY <1>1, <1>2, OneList

(* A woken waiter keeps its priority.                                       *)
LEMMA WakePrio ==
  ASSUME MutexInv, NEW m \in All
  PROVE  Wake(k, mtx[m]).prio = k.prio /\ KernelInv(Wake(k, mtx[m]))
<1>1. KernelInv(k)
  BY DEF MutexInv
<1>2. CASE mtx[m].queue = <<>>
  BY <1>1, <1>2 DEF Wake
<1>3. CASE mtx[m].queue # <<>>
  BY <1>1, <1>3, FirstWaiter, StatusSet, KernelTypes DEF Wake
<1> QED BY <1>2, <1>3

(* The steps of an unlock.                                                  *)
LEMMA UnlockList ==
  ASSUME MutexInv, ~PI, NEW m \in All,
         \/ \E t \in Threads : ThreadUnlock(t, m) \/ UnlockAndSleep(t, m)
         \/ IsrUnlock(m)
  PROVE  ListChanges
<1> DEFINE n == Wake(k, mtx[m])
<1>1. KernelInv(k) /\ KernelInv(n) /\ n.prio = k.prio
  BY WakePrio DEF MutexInv
<1>2. mtx[m].queue = <<>> => n = k
  BY DEF Wake
<1>3. Restore(n, mtx[m]) = n
  BY DEF Restore
<1>4. mtx' = [mtx EXCEPT ![m] = Passed(mtx[m])]
  BY DEF ThreadUnlock, Unlock, UnlockAndSleep, IsrUnlock
<1>5. \/ k' = n
      \/ k' = YieldHigher(n)
      \/ \E t \in Threads : k' = SetStatus(n, t, "SLEEPING")
  BY <1>2, <1>3 DEF ThreadUnlock, Unlock, UnlockAndSleep, IsrUnlock
<1> HIDE DEF n
<1>6. k'.prio = k.prio
  <2>1. CASE k' = n
    BY <1>1, <2>1
  <2>2. CASE k' = YieldHigher(n)
    BY <1>1, <2>2, PrioKept
  <2>3. ASSUME NEW t \in Threads, k' = SetStatus(n, t, "SLEEPING")
        PROVE  k'.prio = k.prio
    BY <1>1, <2>3, StatusSet, KernelTypes
  <2> QED BY <1>5, <2>1, <2>2, <2>3
<1> QED BY <1>4, <1>6, PassedList

(* mutex_cancel() takes nobody out of a list but the thread it cancels.     *)
LEMMA CancelList ==
  ASSUME MutexInv, NEW u \in Threads,
         IsrCancel(u) \/ \E t \in Threads : ThreadCancel(t, u)
  PROVE  ListChanges
<1> DEFINE n == Unblocked(u)
           m == mc[u].mutex
<1>1. KernelInv(k) /\ TypeOK /\ mc[u] # NoCancel /\ CancelState(u)
  BY DEF MutexInv, IsrCancel, ThreadCancel
<1>2. m \in All /\ (Dequeued(u) => u \in Waiters(m))
  BY <1>1, CancelFinds DEF Dequeued, Waiters
<1>3. KernelInv(n) /\ n.prio = k.prio
  BY <1>1, StatusSet, KernelTypes DEF Unblocked
<1>4. k' = k \/ k' = n \/ \E test \in BOOLEAN : k' = IsrSwitch(n, test)
  BY DEF IsrCancel, ThreadCancel, SwitchTests
<1>5. mc'[u].cancelled
  BY <1>1 DEF CancelState, TypeOK
<1> HIDE DEF n
<1>6. k'.prio = k.prio
  BY <1>3, <1>4, PrioKept
<1>7. CASE ~Dequeued(u)
  BY <1>1, <1>6, <1>7 DEF CancelState, ListChanges, ListChange
<1>8. CASE Dequeued(u)
  <2> DEFINE x == [mtx[m] EXCEPT !.queue = Unlink(mtx[m].queue, u)]
  <2>1. mtx' = [mtx EXCEPT ![m] = x]
    BY <1>1, <1>8 DEF CancelState
  <2>2. x.queue = Unlink(mtx[m].queue, u)
    BY <1>1, <1>2 DEF TypeOK
  <2> HIDE DEF x, m
  <2> QED BY <1>1, <1>2, <1>5, <1>6, <1>8, <2>1, <2>2, OneList
<1> QED BY <1>7, <1>8

(* Steps that touch no list.                                                *)
LEMMA OtherList ==
  ASSUME MutexInv, NEW t \in Threads,
         DoYield(t) \/ DoSwitch(t) \/ Sleep(t) \/ IsrWakeup(t)
  PROVE  ListChanges
<1>1. KernelInv(k) /\ mtx' = mtx
  BY DEF MutexInv, DoYield, DoSwitch, Sleep, IsrWakeup
<1>2. k'.prio = k.prio
  <2>1. CASE DoYield(t) \/ DoSwitch(t)
    <3>1. k' = YieldHigher(k) \/ \E test \in BOOLEAN : k' = ThreadSwitch(k, test)
      BY <2>1 DEF DoYield, DoSwitch, SwitchTests
    <3> QED BY <1>1, <3>1, PrioKept
  <2>2. CASE Sleep(t)
    BY <1>1, <2>2, StatusSet, KernelTypes DEF Sleep
  <2>3. CASE IsrWakeup(t)
    <3> DEFINE n == SetStatus(k, t, "PENDING")
    <3>1. KernelInv(n) /\ n.prio = k.prio
      BY <1>1, StatusSet, KernelTypes
    <3>2. \E test \in BOOLEAN : k' = IsrSwitch(n, test)
      BY <2>3 DEF IsrWakeup, SwitchTests
    <3> HIDE DEF n
    <3> QED BY <3>1, <3>2, PrioKept
  <2> QED BY <2>1, <2>2, <2>3
<1> QED BY <1>1, <1>2 DEF ListChanges, ListChange

(* Every step.                                                              *)
LEMMA NextList ==
  ASSUME MutexInv, ~PI, [Next]_vars
  PROVE  ListChanges
<1>1. ASSUME UNCHANGED <<k, mtx>> PROVE ListChanges
  BY <1>1 DEF ListChanges, ListChange
<1>2. ASSUME NEW t \in Threads, NEW m \in All, LockFree(t, m) \/ LockBlocks(t, m)
      PROVE  ListChanges
  BY <1>2, LockList DEF LockFree, LockBlocks, Calling, At
<1>3. ASSUME NEW t \in Threads, LockCancelable(t)
      PROVE  ListChanges
  <2>1. Executes(k, t) /\ pc[t].at = "enter"
    BY <1>3 DEF LockCancelable, At
  <2>2. mc[t].mutex \in All
    BY <2>1 DEF MutexInv, Cancelling
  <2> QED BY <1>1, <1>3, <2>1, <2>2, LockList DEF LockCancelable
<1>4. ASSUME NEW t \in Threads,
             Return(t) \/ CancelEnd(t) \/ \E m \in All : CancelInit(t, m)
      PROVE  ListChanges
  BY <1>1, <1>4 DEF Return, CancelEnd, CancelInit
<1>5. CASE UNCHANGED vars
  BY <1>1, <1>5 DEF vars
<1>6. ASSUME NEW t \in Threads, Finish(t) PROVE ListChanges
  BY <1>3, <1>4, <1>6, OtherList DEF Finish
<1>7. ASSUME NEW m \in Signals, IsrUnlock(m) PROVE ListChanges
  BY <1>7, UnlockList DEF All
<1>8. ASSUME NEW t \in Threads, NEW m \in Mutexes, ThreadUnlock(t, m) \/ UnlockAndSleep(t, m)
      PROVE  ListChanges
  BY <1>8, UnlockList DEF All
<1>9. ASSUME PendSV \/ EndIdle PROVE ListChanges
  <2>1. KernelInv(k) /\ mtx' = mtx
    BY <1>9 DEF MutexInv, PendSV, EndIdle
  <2> QED BY <1>9, <2>1, RunPrio DEF ListChanges, ListChange
<1> QED BY <1>2, <1>4, <1>5, <1>6, <1>7, <1>8, <1>9, CancelList, OtherList DEF Next

Ordered == \A m \in All : Sorted(k, mtx[m].queue)

(* The lists stay in the order of the priorities.                           *)
LEMMA OrderKept ==
  ASSUME MutexInv, Ordered, ListChanges, KernelInv(k')
  PROVE  Ordered'
<1> DEFINE n == k'
<1>1. n.prio = k.prio /\ n.prio \in [Threads -> Prios]
  BY DEF ListChanges, KernelInv, KernelType
<1>2. ASSUME NEW q PROVE Sorted(k, q) <=> Sorted(n, q)
  BY <1>1 DEF Sorted
<1>3. \A q : Sorted(n, q) <=> Sorted(k', q)
  OBVIOUS
<1> HIDE DEF n
<1>4. ASSUME NEW m \in All
      PROVE  Sorted(n, mtx'[m].queue)
  <2> DEFINE q == mtx[m].queue
             r == mtx'[m].queue
  <2>1. q \in Seq(Threads) /\ Sorted(n, q)
    BY <1>2 DEF MutexInv, TypeOK, Ordered
  <2>2. \/ r = q
        \/ \E t \in Threads : r = AddToList(n, q, t)
        \/ q # <<>> /\ r = Tail(q)
        \/ \E t \in Elems(q) : r = Unlink(q, t)
    BY DEF ListChanges, ListChange, Waiters, n
  <2> HIDE DEF q, r
  <2>3. Sorted(n, r)
    BY <1>1, <2>1, <2>2, AddSorted, TailOrder, UnlinkSorted
  <2> QED BY <2>3 DEF r
<1> QED BY <1>3, <1>4 DEF Ordered

(* What WaitersInOrder says of one step.                                    *)
PassesNobody ==
  \A m \in All : LET q == mtx[m].queue
                     r == mtx'[m].queue
                 IN \A t \in Threads, u \in Elems(q) \cap Elems(r) :
       /\ t \in Elems(r) \ Elems(q) /\ k.prio[u] <= k.prio[t] => Before(r, u, t)
       /\ t \in Elems(q) \ Elems(r) /\ ~mc'[t].cancelled => Before(q, t, u) /\ k.prio[t] <= k.prio[u]

(* In each such change nobody is passed over.                               *)
LEMMA ChangeInOrder ==
  ASSUME MutexInv, Ordered, ListChanges
  PROVE  PassesNobody
<1> SUFFICES ASSUME NEW m \in All
             PROVE  LET q == mtx[m].queue
                        r == mtx'[m].queue
                    IN \A t \in Threads, u \in Elems(q) \cap Elems(r) :
                 /\ t \in Elems(r) \ Elems(q) /\ k.prio[u] <= k.prio[t] => Before(r, u, t)
                 /\ t \in Elems(q) \ Elems(r) /\ ~mc'[t].cancelled =>
                      Before(q, t, u) /\ k.prio[t] <= k.prio[u]
  BY DEF PassesNobody
<1> DEFINE q == mtx[m].queue
           r == mtx'[m].queue
           n == k'
<1>1. q \in Seq(Threads) /\ Once(q) /\ Sorted(k, q) /\ k.prio \in [Threads -> Prios]
  BY DEF MutexInv, TypeOK, Lists, Ordered, KernelType
<1>2. n.prio = k.prio /\ Sorted(n, q)
  BY <1>1 DEF ListChanges, Sorted
<1>3. \/ r = q
      \/ \E t \in Threads : r = AddToList(n, q, t)
      \/ q # <<>> /\ r = Tail(q)
      \/ \E t \in Elems(q) : mc'[t].cancelled /\ r = Unlink(q, t)
  BY DEF ListChanges, ListChange, Waiters
<1> HIDE DEF q, r, n
<1>4. SUFFICES ASSUME NEW t \in Threads, NEW u \in Elems(q), u \in Elems(r)
      PROVE  /\ t \in Elems(r) \ Elems(q) /\ k.prio[u] <= k.prio[t] => Before(r, u, t)
             /\ t \in Elems(q) \ Elems(r) /\ ~mc'[t].cancelled =>
                  Before(q, t, u) /\ k.prio[t] <= k.prio[u]
  BY DEF q, r
<1>5. CASE r = q
  BY <1>5
<1>6. ASSUME NEW v \in Threads, r = AddToList(n, q, v)
      PROVE  /\ t \notin Elems(q) \ Elems(r)
             /\ t \in Elems(r) \ Elems(q) /\ k.prio[u] <= k.prio[t] => Before(r, u, t)
  <2>1. Elems(r) = Elems(q) \cup {v}
    BY <1>1, <1>6, ElemsAdd
  <2>2. t \in Elems(r) \ Elems(q) /\ k.prio[u] <= k.prio[t] => Before(r, u, t)
    BY <1>1, <1>2, <1>6, <2>1, JoinsBehind
  <2> QED BY <2>1, <2>2
<1>7. CASE q # <<>> /\ r = Tail(q)
  <2>1. Elems(r) = Elems(q) \ {Head(q)} /\ Head(q) \in Elems(q)
    BY <1>1, <1>7, ElemsTail
  <2>2. Before(q, Head(q), u) /\ k.prio[Head(q)] <= k.prio[u]
    BY <1>1, <1>4, <1>7, TailOrder
  <2> QED BY <2>1, <2>2
<1>8. ASSUME NEW v \in Elems(q), mc'[v].cancelled, r = Unlink(q, v)
      PROVE  /\ t \notin Elems(r) \ Elems(q)
             /\ t \in Elems(q) \ Elems(r) => mc'[t].cancelled
  <2>1. Elems(r) = Elems(q) \ {v}
    BY <1>1, <1>8, ElemsUnlink
  <2> QED BY <1>8, <2>1
<1> QED BY <1>3, <1>5, <1>6, <1>7, <1>8

(* "Otherwise the first thread_t is the one with the highest priority, as   *)
(* the list is sorted by priority" (core/mutex.c): without inheritance no   *)
(* waiter is passed over for one of a lower priority, nor for one of its    *)
(* own that came later, by locks, unlocks and cancellations in any order.   *)
THEOREM WaitersServedInOrder ==
  ASSUME ~PI
  PROVE  Spec => WaitersInOrder
<1> DEFINE OrderInv == MutexInv /\ Ordered
<1>1. Init => OrderInv
  <2>1. Init => Ordered
    BY DEF Init, Ordered, Sorted
  <2> QED BY <2>1, InitInv
<1>2. OrderInv /\ [Next]_vars => OrderInv' /\ PassesNobody
  <2> SUFFICES ASSUME MutexInv, Ordered, [Next]_vars
               PROVE  MutexInv' /\ Ordered' /\ PassesNobody
    OBVIOUS
  <2>1. MutexInv' /\ ListChanges
    BY StepInv, NextList
  <2>2. KernelInv(k')
    BY <2>1 DEF MutexInv, KernelInv
  <2>3. Ordered'
    BY <2>1, <2>2, OrderKept
  <2> QED BY <2>1, <2>3, ChangeInOrder
<1> QED BY <1>1, <1>2, PTL DEF Spec, WaitersInOrder, PassesNobody

-----------------------------------------------------------------------------
(* Priorities that were lent are given back                                 *)

(* The owner field names a thread with its own priority, and only the thread *)
(* named by a mutex with waiters has another priority than its own.         *)
Loans ==
  /\ \A m \in All : mtx[m].owner # NoThread =>
       PI /\ mtx[m].owner \in Threads /\ mtx[m].orig = BasePrio[mtx[m].owner]
  /\ \A t \in Threads : \/ k.prio[t] = BasePrio[t]
                        \/ \E m \in All : mtx[m].queue # <<>> /\ mtx[m].owner = t

(* sched_change_priority() changes one priority.                            *)
LEMMA ChangePrio ==
  ASSUME NEW s, KernelInv(s), NEW t \in Threads, NEW p \in Prios
  PROVE  \A u \in Threads : ChangePriority(s, t, p).prio[u] = IF u = t THEN p ELSE s.prio[u]
<1> DEFINE n == Reprioritize(s, t, p)
<1>1. s \in KernelType /\ n \in KernelType
  BY ReprioritizeInv DEF KernelInv
<1>2. n.prio = [s.prio EXCEPT ![t] = p]
  BY <1>1 DEF Reprioritize, RunqueuePush, RunqueuePop, KernelType
<1>3. \/ ChangePriority(s, t, p) = s /\ s.prio[t] = p
      \/ ChangePriority(s, t, p) \in {n, YieldHigher(n)}
  BY DEF ChangePriority
<1> HIDE DEF n
<1>4. YieldHigher(n).prio = n.prio
  BY <1>1 DEF YieldHigher, KernelType
<1> QED BY <1>1, <1>2, <1>3, <1>4 DEF KernelType

(* Nothing that Loans speaks of changes.                                    *)
LEMMA LoansKept ==
  ASSUME Loans, mtx' = mtx, k'.prio = k.prio
  PROVE  Loans'
BY DEF Loans

(* A thread takes the one mutex when nobody waits for it, so that it records *)
(* its own priority.                                                        *)
LEMMA TakenLoans ==
  ASSUME MutexInv, Loans, NEW a, All = {a}, NEW t \in Threads, ~mtx[a].locked,
         mtx' = [mtx EXCEPT ![a] = Taken(mtx[a], t)], UNCHANGED k
  PROVE  Loans'
<1>1. TypeOK /\ a \in All /\ t # NoThread
  BY KernelAssumption DEF MutexInv
<1>2. mtx[a].queue = <<>>
  BY <1>1 DEF MutexInv, Lists
<1>3. \A u \in Threads : k.prio[u] = BasePrio[u]
  BY <1>2 DEF Loans
<1>4. mtx'[a] = Taken(mtx[a], t)
  BY <1>1 DEF TypeOK
<1>5. \/ ~PI /\ mtx'[a].owner = mtx[a].owner /\ mtx'[a].orig = mtx[a].orig
      \/ PI /\ mtx'[a].owner = t /\ mtx'[a].orig = k.prio[t]
  BY <1>1, <1>4 DEF Taken, TypeOK
<1>6. \A m \in All : mtx'[m].owner # NoThread =>
        PI /\ mtx'[m].owner \in Threads /\ mtx'[m].orig = BasePrio[mtx'[m].owner]
  BY <1>1, <1>3, <1>5 DEF Loans
<1> QED BY <1>3, <1>6 DEF Loans

(* A thread that blocks lends its priority to the owner the mutex names.    *)
LEMMA BlockLoans ==
  ASSUME MutexInv, Loans, NEW t \in Threads, NEW a \in All,
         \E cancelable \in BOOLEAN : Block(t, a, cancelable)
  PROVE  Loans'
<1> DEFINE blocked == SetStatus(k, t, "MUTEX_BLOCKED")
           q == mtx[a].queue
           o == mtx[a].owner
<1>1. TypeOK /\ KernelInv(k) /\ q \in Seq(Threads)
  BY DEF MutexInv, TypeOK
<1>2. KernelInv(blocked) /\ blocked.prio = k.prio /\ k.prio[t] \in Prios
  BY <1>1, StatusSet, KernelTypes
<1>3. /\ k' = Inherit(blocked, mtx[a], t)
      /\ mtx' = [mtx EXCEPT ![a].queue = AddToList(blocked, q, t)]
  BY DEF Block
<1> HIDE DEF blocked
<1>4. AddToList(blocked, q, t) # <<>>
  <2> HIDE DEF q
  <2>1. /\ AddToList(blocked, q, t) \in Seq(Threads)
        /\ Elems(AddToList(blocked, q, t)) = Elems(q) \cup {t}
    BY <1>1, ElemsAdd
  <2>2. Elems(AddToList(blocked, q, t)) # {}
    BY <2>1
  <2> QED BY <2>1, <2>2, ElemsEmpty
<1>5. /\ \A m \in All : mtx'[m].owner = mtx[m].owner /\ mtx'[m].orig = mtx[m].orig
      /\ mtx'[a].queue # <<>>
      /\ \A m \in All : mtx[m].queue # <<>> => mtx'[m].queue # <<>>
  BY <1>1, <1>3, <1>4 DEF TypeOK
<1>6. \A u \in Threads : k'.prio[u] = k.prio[u] \/ u = o
  <2>1. k' = blocked \/ (o \in Threads /\ k' = ChangePriority(blocked, o, blocked.prio[t]))
    BY <1>1, <1>3 DEF Inherit, TypeOK
  <2> QED BY <1>2, <2>1, ChangePrio
<1> QED BY <1>5, <1>6 DEF Loans

(* An unlock with waiters gives the owner its priority back; then every     *)
(* thread has its own.                                                      *)
LEMMA UnlockLoans ==
  ASSUME MutexInv, Loans, NEW a, All = {a}, mtx' = [mtx EXCEPT ![a] = Passed(mtx[a])],
         NEW n, n = IF mtx[a].queue = <<>> THEN k ELSE Restore(Wake(k, mtx[a]), mtx[a]),
         k'.prio = n.prio
  PROVE  Loans'
<1> DEFINE w == Wake(k, mtx[a])
           o == mtx[a].owner
<1>1. TypeOK /\ a \in All
  BY DEF MutexInv
<1>2. \A m \in All : mtx'[m].owner = mtx[m].owner /\ mtx'[m].orig = mtx[m].orig
  BY <1>1 DEF Passed, TypeOK
<1>3. \A u \in Threads : k'.prio[u] = BasePrio[u]
  <2>1. CASE mtx[a].queue = <<>>
    BY <1>1, <2>1 DEF Loans
  <2>2. CASE mtx[a].queue # <<>>
    <3>1. KernelInv(w) /\ w.prio = k.prio
      BY <1>1, WakePrio
    <3>2. n = Restore(w, mtx[a])
      BY <2>2
    <3> HIDE DEF w
    <3>3. CASE o = NoThread
      <4>1. n = w
        BY <3>2, <3>3 DEF Restore
      <4>2. \A u \in Threads : u # o
        BY <3>3, KernelAssumption
      <4> QED BY <3>1, <4>1, <4>2 DEF Loans
    <3>4. CASE o # NoThread
      <4>1. /\ o \in Threads /\ PI /\ mtx[a].orig = BasePrio[o] /\ mtx[a].orig \in Prios
            /\ \A u \in Threads : u # o => k.prio[u] = BasePrio[u]
        BY <1>1, <3>4 DEF Loans, TypeOK
      <4>2. \A u \in Threads : n.prio[u] = IF u = o THEN BasePrio[o] ELSE w.prio[u]
        BY <3>1, <3>2, <3>4, <4>1, ChangePrio DEF Restore
      <4> QED BY <3>1, <4>1, <4>2
    <3> QED BY <3>3, <3>4
  <2> QED BY <2>1, <2>2
<1> QED BY <1>2, <1>3 DEF Loans

(* Every step, of an application that uses one mutex.                       *)
LEMMA NextLoans ==
  ASSUME MutexInv, Loans, NEW a, All = {a},
         Calls \cap {"cancel", "unlock_and_sleep"} = {}, [Next]_vars
  PROVE  Loans'
<1>1. ASSUME UNCHANGED <<k, mtx>> PROVE Loans'
  BY <1>1, LoansKept
<1>2. ASSUME NEW t \in Threads, NEW m \in All, LockFree(t, m) \/ LockBlocks(t, m)
      PROVE  Loans'
  BY <1>2, TakenLoans, BlockLoans DEF LockFree, LockBlocks
<1>3. ASSUME NEW t \in Threads, LockCancelable(t)
      PROVE  Loans'
  <2>1. mc[t].mutex = a
    BY <1>3 DEF LockCancelable, At, MutexInv, Cancelling
  <2> QED BY <1>1, <1>3, <2>1, TakenLoans, BlockLoans DEF LockCancelable
<1>4. ASSUME NEW t \in Threads,
             Return(t) \/ CancelEnd(t) \/ \E m \in All : CancelInit(t, m)
      PROVE  Loans'
  BY <1>1, <1>4 DEF Return, CancelEnd, CancelInit
<1>5. ASSUME NEW t \in Threads, DoYield(t) \/ DoSwitch(t) \/ Sleep(t) \/ IsrWakeup(t)
      PROVE  Loans'
  <2>1. k'.prio = k.prio
    BY <1>5, OtherList DEF ListChanges
  <2> QED BY <1>5, <2>1, LoansKept DEF DoYield, DoSwitch, Sleep, IsrWakeup
<1>6. ASSUME NEW t \in Threads, NEW m \in Mutexes, ThreadUnlock(t, m) PROVE Loans'
  <2>1. m = a
    BY DEF All
  <2> QED BY <1>6, <2>1, UnlockLoans DEF ThreadUnlock, Unlock
<1>7. ASSUME NEW m \in Signals, IsrUnlock(m) PROVE Loans'
  <2> DEFINE n == IF mtx[m].queue = <<>> THEN k ELSE Restore(Wake(k, mtx[m]), mtx[m])
  <2>1. m = a /\ m \in All
    BY DEF All
  <2>2. KernelInv(n)
    BY <2>1, WakePrio, RestoreEffect DEF MutexInv
  <2>3. /\ k' = n \/ k' = YieldHigher(n)
        /\ mtx' = [mtx EXCEPT ![a] = Passed(mtx[a])]
    BY <1>7, <2>1 DEF IsrUnlock
  <2>4. n = IF mtx[a].queue = <<>> THEN k ELSE Restore(Wake(k, mtx[a]), mtx[a])
    BY <2>1
  <2> HIDE DEF n
  <2>5. k'.prio = n.prio
    BY <2>2, <2>3, PrioKept
  <2> QED BY <2>3, <2>4, <2>5, UnlockLoans
<1>8. ASSUME PendSV \/ EndIdle PROVE Loans'
  BY <1>8, RunPrio, LoansKept DEF MutexInv, PendSV, EndIdle
<1>9. ASSUME NEW t \in Threads, NEW u \in Threads, ThreadCancel(t, u) \/ IsrCancel(u)
      PROVE  FALSE
  BY <1>9 DEF ThreadCancel, IsrCancel, Calling
<1>10. ASSUME NEW t \in Threads, NEW m \in Mutexes, UnlockAndSleep(t, m)
       PROVE  FALSE
  BY <1>10 DEF UnlockAndSleep, Calling
<1>11. ASSUME NEW t \in Threads, Finish(t) PROVE Loans'
  BY <1>3, <1>4, <1>5, <1>11 DEF Finish
<1>12. CASE UNCHANGED vars
  BY <1>1, <1>12 DEF vars
<1> QED BY <1>2, <1>4, <1>5, <1>6, <1>7, <1>8, <1>9, <1>10, <1>11, <1>12 DEF Next

(* mutex_unlock() gives the priority back that _block() lent (core/mutex.c): *)
(* in an application with one mutex that uses neither mutex_cancel() nor    *)
(* mutex_unlock_and_sleep(), which leave the owner boosted, every thread has *)
(* its own priority whenever nobody waits.                                  *)
THEOREM LoansAreReturned ==
  ASSUME NEW a, All = {a}, Calls \cap {"cancel", "unlock_and_sleep"} = {}
  PROVE  Spec => []QuietMeansBase
<1>1. Init => Loans
  <2> SUFFICES ASSUME Init PROVE Loans
    OBVIOUS
  <2>1. k.prio = BasePrio
    BY DEF Init, StartStates
  <2> QED BY <2>1 DEF Init, Loans
<1>2. MutexInv /\ Loans /\ [Next]_vars => Loans'
  BY NextLoans
<1>3. MutexInv /\ Loans => QuietMeansBase
  <2> SUFFICES ASSUME MutexInv, Loans, \A m \in All : mtx[m].queue = <<>>
               PROVE  k.prio = BasePrio
    BY DEF QuietMeansBase
  <2>1. k.prio \in [Threads -> Prios] /\ BasePrio \in [Threads -> Prios]
    BY KernelTypes, MutexAssumption DEF MutexInv, MutexAssumption
  <2>2. \A t \in Threads : k.prio[t] = BasePrio[t]
    BY DEF Loans
  <2> QED BY <2>1, <2>2
<1> QED BY <1>1, <1>2, <1>3, MutexInvariant, PTL DEF Spec

-----------------------------------------------------------------------------
(* The holder's priority, when two threads use the mutex                    *)

(* Only the threads that use mutexes are in a call or hold one, a call is   *)
(* for a mutex the caller does not hold, and its holder is ready.           *)
Callers ==
  \A t \in Threads :
    /\ ~mc[t].cancelled /\ pc[t].at # "switch"
    /\ held[t] # {} \/ pc[t].at \in {"enter", "block", "woken"} => t \in Lockers
    /\ held[t] # {} => IsActive(k, t) /\ pc[t].at \notin {"enter", "block", "woken"}
Named == \A m \in All : mtx[m].locked => mtx[m].owner \in Lockers

(* The thread that executes has the highest priority of the ready ones, or  *)
(* yields before it goes on.                                                *)
Attends ==
  \A t \in Threads :
    Executes(k, t) /\ pc[t].at \notin {"block", "yield"} =>
      \A u \in Threads : IsActive(k, u) => k.prio[t] <= k.prio[u]

(* Who waits is not above the holder by itself, nor by what was lent, and   *)
(* the holder is not below the thread that took the mutex when it was free. *)
Lent ==
  \A m \in All, h \in Threads : Owner(h, m) =>
    /\ BasePrio[h] <= BasePrio[mtx[m].owner]
    /\ \A w \in Waiters(m) : k.prio[h] <= k.prio[w] /\ BasePrio[w] <= BasePrio[h]

PairInv == Callers /\ Named /\ Attends /\ Lent

(* An application whose one mutex is used by at most two of its threads,    *)
(* without mutex_cancel() and mutex_unlock_and_sleep().                     *)
TwoUsers ==
  /\ Signals = {} /\ (\E a : Mutexes = {a}) /\ (\E x, y : Lockers \subseteq {x, y})
  /\ Calls \cap {"cancel", "unlock_and_sleep"} = {}

(* The steps that such an application has.                                  *)
LEMMA PairSteps ==
  ASSUME TwoUsers, Callers, [Next]_vars
  PROVE  \/ \E t \in Threads, m \in Mutexes : \/ LockFree(t, m) \/ LockBlocks(t, m)
                                              \/ CancelInit(t, m) \/ ThreadUnlock(t, m)
         \/ \E t \in Threads : \/ LockCancelable(t) \/ Return(t) \/ CancelEnd(t)
                               \/ DoYield(t) \/ Sleep(t) \/ IsrWakeup(t)
         \/ PendSV \/ EndIdle \/ UNCHANGED vars
<1>1. All = Mutexes
  BY DEF TwoUsers, All
<1>2. \A t \in Threads, u \in Threads : ~ThreadCancel(t, u) /\ ~IsrCancel(u) /\ ~DoSwitch(t)
  BY DEF TwoUsers, ThreadCancel, IsrCancel, Calling, DoSwitch, At, Callers
<1>3. \A t \in Threads, m \in Mutexes : ~UnlockAndSleep(t, m)
  BY DEF TwoUsers, UnlockAndSleep, Calling
<1>4. \A m \in Signals : ~IsrUnlock(m)
  BY DEF TwoUsers
<1> QED BY <1>1, <1>2, <1>3, <1>4 DEF Next, Finish

(* What a lock call that blocks changes.                                    *)
LEMMA BlockEffect ==
  ASSUME MutexInv, NEW t \in Threads, NEW m \in All, NEW b \in BOOLEAN, Block(t, m, b)
  PROVE  /\ k'.active = k.active
         /\ \A u \in Threads :
              /\ k'.status[u] = IF u = t THEN "MUTEX_BLOCKED" ELSE k.status[u]
              /\ k'.prio[u] = IF PI /\ u = mtx[m].owner /\ k.prio[u] > k.prio[t]
                              THEN k.prio[t] ELSE k.prio[u]
              /\ u # t => pc'[u] = pc[u]
         /\ pc'[t].at = "block" /\ pc'[t].mutex = m /\ held' = held
         /\ mtx'[m].owner = mtx[m].owner /\ mtx'[m].locked = mtx[m].locked
         /\ \A n \in All : n # m => mtx'[n] = mtx[n]
         /\ Waiters(m)' = Waiters(m) \cup {t}
<1> DEFINE blocked == SetStatus(k, t, "MUTEX_BLOCKED")
           w == mtx[m].queue
           q == AddToList(blocked, w, t)
           o == mtx[m].owner
<1>1. /\ TypeOK /\ KernelInv(k) /\ w \in Seq(Threads) /\ o \in Threads \cup {NoThread}
      /\ k.prio \in [Threads -> Prios] /\ NoThread \notin Threads
  BY KernelTypes, KernelAssumption DEF MutexInv, TypeOK
<1>2. /\ KernelInv(blocked) /\ blocked.prio = k.prio /\ blocked.active = k.active
      /\ \A u \in Threads : blocked.status[u] = IF u = t THEN "MUTEX_BLOCKED" ELSE k.status[u]
  BY <1>1, StatusSet, KernelTypes
<1>3. /\ k' = Inherit(blocked, mtx[m], t) /\ mtx' = [mtx EXCEPT ![m].queue = q]
      /\ pc' = [pc EXCEPT ![t] = [at |-> "block", mutex |-> m, mc |-> b]] /\ held' = held
  BY DEF Block, Go
<1> HIDE DEF blocked
<1>4. q \in Seq(Threads) /\ Elems(q) = Waiters(m) \cup {t}
  <2> HIDE DEF w
  <2>1. q \in Seq(Threads)
    BY <1>1, ElemsAdd
  <2>2. Elems(q) = Elems(w) \cup {t}
    BY <1>1, ElemsAdd
  <2> QED BY <2>1, <2>2 DEF w, Waiters
<1> HIDE DEF q, w
<1>5. /\ mtx'[m].queue = q /\ mtx'[m].owner = o /\ mtx'[m].locked = mtx[m].locked
      /\ \A n \in All : n # m => mtx'[n] = mtx[n]
  BY <1>1, <1>3, <1>4 DEF TypeOK
<1>6. /\ pc'[t].at = "block" /\ pc'[t].mutex = m
      /\ \A u \in Threads : u # t => pc'[u] = pc[u]
  BY <1>1, <1>3 DEF TypeOK
<1>7. /\ k'.active = k.active /\ k'.status = blocked.status
      /\ \A u \in Threads :
           k'.prio[u] = IF PI /\ u = o /\ k.prio[u] > k.prio[t] THEN k.prio[t] ELSE k.prio[u]
  <2>1. CASE PI /\ o # NoThread /\ blocked.prio[o] > blocked.prio[t]
    <3>1. o \in Threads /\ blocked.prio[t] \in Prios /\ k' = ChangePriority(blocked, o, blocked.prio[t])
      BY <1>1, <1>2, <1>3, <2>1 DEF Inherit
    <3>2. /\ \A u \in Threads : k'.prio[u] = IF u = o THEN blocked.prio[t] ELSE blocked.prio[u]
          /\ k'.active = blocked.active /\ k'.status = blocked.status
      BY <1>2, <3>1, ChangePrio, ChangePriorityEffect
    <3> QED BY <1>2, <2>1, <3>1, <3>2
  <2>2. CASE ~ (PI /\ o # NoThread /\ blocked.prio[o] > blocked.prio[t])
    <3>1. k' = blocked
      BY <1>3, <2>2 DEF Inherit
    <3> QED BY <1>1, <1>2, <2>2, <3>1
  <2> QED BY <2>1, <2>2
<1> QED BY <1>2, <1>3, <1>4, <1>5, <1>6, <1>7 DEF Waiters

(* mutex_unlock() of a thread retires nobody and does not switch.           *)
LEMMA ThreadUnlockEffect ==
  ASSUME MutexInv, NEW m \in All, NEW t \in Threads, ThreadUnlock(t, m)
  PROVE  /\ k'.active = k.active
         /\ \A u \in Threads : k'.status[u] = k.status[u] \/ k'.status[u] = "PENDING"
<1> DEFINE x == mtx[m]
           w == Wake(k, x)
<1>1. TypeOK /\ KernelInv(k)
  BY DEF MutexInv
<1>2. k' = IF x.queue = <<>> THEN k ELSE Restore(w, x)
  BY DEF ThreadUnlock, Unlock
<1>3. CASE x.queue = <<>>
  BY <1>2, <1>3
<1>4. CASE x.queue # <<>>
  <2>1. /\ KernelInv(w) /\ w.active = k.active
        /\ \A u \in Threads : w.status[u] = k.status[u] \/ w.status[u] = "PENDING"
    BY <1>1, WakeEffect
  <2>2. k' = Restore(w, x)
    BY <1>2, <1>4
  <2> HIDE DEF w
  <2>3. Restore(w, x).status = w.status /\ Restore(w, x).active = w.active
    BY <1>1, <2>1, RestoreEffect
  <2> QED BY <2>1, <2>2, <2>3
<1> QED BY <1>3, <1>4

(* Steps that leave the places of all threads or only move one that is      *)
(* between calls.                                                           *)
LEMMA CallersKept ==
  ASSUME MutexInv, Callers, held' = held, mc' = mc,
         \A t \in Threads :
           /\ IsActive(k, t) => IsActive(k', t)
           /\ pc'[t] = pc[t] \/ (pc[t].at = "block" /\ pc'[t].at = "woken") \/ pc'[t].at = "run"
  PROVE  Callers'
BY DEF Callers

(* Only users of mutexes are in calls.                                      *)
LEMMA NextCallers ==
  ASSUME MutexInv, Loans, TwoUsers, Callers, [Next]_vars
  PROVE  Callers'
<1>1. /\ TypeOK /\ KernelInv(k) /\ All = Mutexes /\ k.status \in [Threads -> Status]
      /\ OnRunqueue = {"RUNNING", "PENDING"}
  BY KernelTypes DEF MutexInv, TwoUsers, All
<1>2. ASSUME NEW t \in Threads, NEW m \in All, mtx[m].locked, NEW b \in BOOLEAN, Block(t, m, b),
             mc' = mc, t \in Lockers, held[t] = {}
      PROVE  Callers'
  <2>1. \A u \in Threads \ {t} : pc'[u] = pc[u] /\ k'.status[u] = k.status[u]
    BY <1>2, BlockEffect DEF MutexInv
  <2>2. pc'[t].at = "block" /\ held' = held
    BY <1>2, BlockEffect
  <2> QED BY <1>2, <2>1, <2>2 DEF Callers, IsActive
<1>3. ASSUME NEW t \in Threads, NEW m \in All, k' = k, Executes(k, t), t \in Lockers,
             pc[t].at \in {"run", "enter", "woken", "done"},
             \A u \in Threads \ {t} : pc'[u] = pc[u] /\ held'[u] = held[u] /\ mc'[u] = mc[u],
             ~mc'[t].cancelled,
             \/ pc'[t].at \in {"run", "done"}
             \/ pc'[t].at = "enter" /\ held'[t] = {}
      PROVE  Callers'
  <2>1. IsActive(k, t)
    BY <1>3, Working
  <2> QED BY <1>3, <2>1 DEF Callers
<1>4. ASSUME NEW t \in Threads, NEW m \in Mutexes, LockFree(t, m) PROVE Callers'
  <2>1. /\ k' = k /\ mc' = mc /\ pc' = pc /\ Executes(k, t) /\ t \in Lockers /\ pc[t].at = "run"
        /\ held' = [held EXCEPT ![t] = @ \cup ({m} \cap Mutexes)]
    BY <1>4 DEF LockFree, Calling, At, Keep
  <2>2. \A u \in Threads \ {t} : held'[u] = held[u]
    BY <1>1, <2>1 DEF TypeOK
  <2>3. ~mc[t].cancelled
    BY DEF Callers
  <2> QED BY <1>1, <1>3, <2>1, <2>2, <2>3
<1>5. ASSUME NEW t \in Threads, NEW m \in Mutexes, m \notin held[t] PROVE held[t] = {}
  BY <1>1, <1>5 DEF TwoUsers, TypeOK
<1>6. ASSUME NEW t \in Threads, NEW m \in Mutexes, LockBlocks(t, m) PROVE Callers'
  <2>1. /\ t \in Lockers /\ held[t] = {} /\ mtx[m].locked /\ Block(t, m, FALSE) /\ mc' = mc
    BY <1>5, <1>6 DEF LockBlocks, Calling
  <2>2. FALSE \in BOOLEAN
    OBVIOUS
  <2> QED BY <1>1, <1>2, <2>1, <2>2
<1>7. ASSUME NEW t \in Threads, NEW m \in Mutexes, CancelInit(t, m) PROVE Callers'
  <2>1. /\ k' = k /\ held' = held /\ Executes(k, t) /\ t \in Lockers /\ pc[t].at = "run"
        /\ held[t] = {} /\ pc' = [pc EXCEPT ![t] = Simple("enter")]
        /\ mc' = [mc EXCEPT ![t] = [mutex |-> m, cancelled |-> FALSE]]
    BY <1>5, <1>7 DEF CancelInit, Calling, At, Go
  <2>2. /\ pc'[t].at = "enter" /\ ~mc'[t].cancelled
        /\ \A u \in Threads \ {t} : pc'[u] = pc[u] /\ mc'[u] = mc[u]
    BY <1>1, <2>1 DEF TypeOK, Simple
  <2> QED BY <1>1, <1>3, <2>1, <2>2
<1>8. ASSUME NEW t \in Threads, LockCancelable(t) PROVE Callers'
  <2> DEFINE m == mc[t].mutex
  <2>1. /\ Executes(k, t) /\ pc[t].at = "enter" /\ mc' = mc /\ ~mc[t].cancelled
        /\ t \in Lockers /\ held[t] = {}
    BY <1>8 DEF LockCancelable, At, Callers
  <2>2. m \in All
    BY <2>1 DEF MutexInv, Cancelling
  <2>3. CASE ~mtx[m].locked
    <3>1. /\ k' = k /\ held' = [held EXCEPT ![t] = @ \cup ({m} \cap Mutexes)]
          /\ pc' = [pc EXCEPT ![t] = Simple("done")]
      BY <1>8, <2>1, <2>3 DEF LockCancelable, Keep, Go
    <3>2. /\ pc'[t].at = "done"
          /\ \A u \in Threads \ {t} : pc'[u] = pc[u] /\ held'[u] = held[u]
      BY <1>1, <3>1 DEF TypeOK, Simple
    <3> QED BY <1>3, <2>1, <2>2, <3>1, <3>2
  <2>4. CASE mtx[m].locked
    <3>1. Block(t, m, TRUE) /\ TRUE \in BOOLEAN
      BY <1>8, <2>1, <2>4 DEF LockCancelable
    <3> QED BY <1>2, <2>1, <2>2, <2>4, <3>1
  <2> QED BY <2>3, <2>4
<1>9. ASSUME NEW t \in Threads, Return(t) PROVE Callers'
  <2>1. /\ Executes(k, t) /\ pc[t].at = "woken" /\ k' = k /\ mc' = mc /\ ~mc[t].cancelled
        /\ t \in Lockers
        /\ held' = held \/ held' = [held EXCEPT ![t] = @ \cup ({pc[t].mutex} \cap Mutexes)]
        /\ pc' = [pc EXCEPT ![t] = Simple(IF pc[t].mc THEN "done" ELSE "run")]
    BY <1>9 DEF Return, At, Callers, Keep, Go
  <2>2. /\ pc'[t].at \in {"done", "run"}
        /\ \A u \in Threads \ {t} : pc'[u] = pc[u] /\ held'[u] = held[u]
    BY <1>1, <2>1 DEF TypeOK, Simple
  <2>3. \E m \in All : TRUE
    BY <1>1 DEF TwoUsers
  <2> QED BY <1>3, <2>1, <2>2, <2>3
<1>10. ASSUME NEW t \in Threads, CancelEnd(t) PROVE Callers'
  <2>1. /\ k' = k /\ held' = held /\ pc' = [pc EXCEPT ![t] = Simple("run")]
        /\ mc' = [mc EXCEPT ![t] = NoCancel] /\ pc[t].at = "done"
    BY <1>10 DEF CancelEnd, At, Go
  <2>2. /\ pc'[t].at = "run" /\ ~mc'[t].cancelled
        /\ \A u \in Threads \ {t} : pc'[u] = pc[u] /\ mc'[u] = mc[u]
    BY <1>1, <2>1 DEF TypeOK, Simple, NoCancel
  <2> QED BY <2>1, <2>2 DEF Callers
<1>11. ASSUME NEW t \in Threads, NEW m \in Mutexes, ThreadUnlock(t, m) PROVE Callers'
  <2>1. m \in All /\ All = {m}
    BY <1>1 DEF TwoUsers
  <2>2. MutexInv /\ m \in All /\ t \in Threads /\ ThreadUnlock(t, m)
    BY <1>11, <2>1
  <2>3. pc'[t].at \in {"run", "yield"}
    BY <1>1, <1>11 DEF ThreadUnlock, Go, TypeOK, Simple
  <2>4. held'[t] = held[t] \ {m}
    BY <1>1, <1>11 DEF ThreadUnlock, TypeOK
  <2>5. \A u \in Threads : k'.status[u] = k.status[u] \/ k'.status[u] = "PENDING"
    BY <2>2, ThreadUnlockEffect
  <2>6. \A u \in Threads \ {t} : pc'[u] = pc[u] /\ held'[u] = held[u]
    BY <1>1, <1>11 DEF ThreadUnlock, Go, TypeOK
  <2>7. held'[t] = {} /\ mc' = mc
    BY <1>1, <1>11, <2>1, <2>4 DEF TypeOK, ThreadUnlock
  <2>8. \A u \in Threads : IsActive(k, u) => IsActive(k', u)
    BY <1>1, <2>5 DEF IsActive
  <2> QED BY <2>3, <2>6, <2>7, <2>8 DEF Callers
<1>12. ASSUME NEW t \in Threads, DoYield(t) PROVE Callers'
  <2>1. /\ k' = YieldHigher(k) /\ mc' = mc /\ held' = held
        /\ pc' = [pc EXCEPT ![t] = IF pc[t].at = "block" THEN [pc[t] EXCEPT !.at = "woken"]
                                   ELSE Simple("run")]
    BY <1>12 DEF DoYield, Go
  <2>2. \A u \in Threads : IsActive(k, u) => IsActive(k', u)
    BY <1>1, <2>1, YieldEffect DEF IsActive
  <2>3. \A u \in Threads :
          pc'[u] = pc[u] \/ (pc[u].at = "block" /\ pc'[u].at = "woken") \/ pc'[u].at = "run"
    <3>1. pc[t].at = "block" => [pc[t] EXCEPT !.at = "woken"].at = "woken"
      BY <1>1 DEF TypeOK, Places, Simple
    <3> QED BY <1>1, <2>1, <3>1 DEF TypeOK, Simple
  <2> QED BY <2>1, <2>2, <2>3, CallersKept
<1>13. ASSUME NEW t \in Threads, Sleep(t) PROVE Callers'
  <2>1. /\ k' = SetStatus(k, t, "SLEEPING") /\ mc' = mc /\ held' = held /\ held[t] = {}
        /\ pc' = [pc EXCEPT ![t] = Simple("yield")]
    BY <1>13 DEF Sleep, Go
  <2>2. \A u \in Threads \ {t} : k'.status[u] = k.status[u]
    BY <1>1, <2>1, StatusSet, KernelTypes
  <2>3. pc'[t].at = "yield" /\ \A u \in Threads \ {t} : pc'[u] = pc[u]
    BY <1>1, <2>1 DEF TypeOK, Simple
  <2> QED BY <2>1, <2>2, <2>3 DEF Callers, IsActive
<1>14. ASSUME NEW t \in Threads, IsrWakeup(t) PROVE Callers'
  <2> DEFINE n == SetStatus(k, t, "PENDING")
  <2>1. /\ KernelInv(n) /\ \A u \in Threads : n.status[u] = IF u = t THEN "PENDING" ELSE k.status[u]
    BY <1>1, StatusSet, KernelTypes
  <2>2. (\E test \in BOOLEAN : k' = IsrSwitch(n, test)) /\ UNCHANGED <<mc, pc, held>>
    BY <1>14 DEF IsrWakeup, SwitchTests
  <2> HIDE DEF n
  <2>3. k'.status = n.status
    BY <2>1, <2>2, SwitchEffect
  <2>4. \A u \in Threads : IsActive(k, u) => IsActive(k', u)
    BY <1>1, <2>1, <2>3 DEF IsActive
  <2> QED BY <2>2, <2>4, CallersKept
<1>15. ASSUME PendSV \/ EndIdle PROVE Callers'
  <2>1. \A u \in Threads : IsActive(k, u) => IsActive(k', u)
    BY <1>1, <1>15, SchedRunEffect, DispatchEffect DEF PendSV, EndIdle, IdleReturn, IsActive
  <2>2. UNCHANGED <<mc, pc, held>>
    BY <1>15 DEF PendSV, EndIdle
  <2> QED BY <2>1, <2>2, CallersKept
<1>16. CASE UNCHANGED vars
  BY <1>16 DEF vars, Callers
<1> QED BY <1>4, <1>6, <1>7, <1>8, <1>9, <1>10, <1>11, <1>12, <1>13, <1>14, <1>15, <1>16, PairSteps

(* The owner field of a locked mutex names a user of it.                    *)
LEMMA NextNamed ==
  ASSUME MutexInv, Loans, TwoUsers, Callers, Named, PI, [Next]_vars
  PROVE  Named'
<1>1. TypeOK /\ All = Mutexes
  BY DEF MutexInv, TwoUsers, All
<1>2. ASSUME mtx' = mtx PROVE Named'
  BY <1>2 DEF Named
<1>3. ASSUME NEW t \in Lockers, NEW m \in All, mtx' = [mtx EXCEPT ![m] = Taken(mtx[m], t)]
      PROVE  Named'
  <2>1. mtx'[m].owner = t
    BY <1>1, <1>3 DEF Taken, TypeOK
  <2>2. \A n \in All : n # m => mtx'[n] = mtx[n]
    BY <1>1, <1>3 DEF TypeOK
  <2> QED BY <2>1, <2>2 DEF Named
<1>4. ASSUME NEW t \in Threads, NEW m \in All, NEW b \in BOOLEAN, Block(t, m, b)
      PROVE  Named'
  <2>1. MutexInv /\ t \in Threads /\ m \in All /\ b \in BOOLEAN /\ Block(t, m, b)
    BY <1>4
  <2>2. mtx'[m].owner = mtx[m].owner /\ mtx'[m].locked = mtx[m].locked
    BY <2>1, BlockEffect
  <2>3. \A n \in All : n # m => mtx'[n] = mtx[n]
    BY <2>1, BlockEffect
  <2> QED BY <2>2, <2>3 DEF Named
<1>5. ASSUME NEW t \in Threads, NEW m \in Mutexes, LockFree(t, m) \/ LockBlocks(t, m)
      PROVE  Named'
  <2>1. CASE LockFree(t, m)
    BY <1>1, <1>3, <2>1 DEF LockFree, Calling
  <2>2. CASE LockBlocks(t, m)
    BY <1>1, <1>4, <2>2 DEF LockBlocks
  <2> QED BY <1>5, <2>1, <2>2
<1>6. ASSUME NEW t \in Threads, LockCancelable(t) PROVE Named'
  <2>1. mc[t].mutex \in All /\ t \in Lockers
    BY <1>6 DEF LockCancelable, At, Callers, MutexInv, Cancelling
  <2> QED BY <1>2, <1>3, <1>4, <1>6, <2>1 DEF LockCancelable
<1>7. ASSUME NEW t \in Threads, NEW m \in Mutexes, ThreadUnlock(t, m) PROVE Named'
  <2>1. /\ m \in All /\ mtx' = [mtx EXCEPT ![m] = Passed(mtx[m])]
    BY <1>1, <1>7 DEF ThreadUnlock, Unlock
  <2>2. mtx'[m] = Passed(mtx[m]) /\ \A n \in All : n # m => mtx'[n] = mtx[n]
    BY <1>1, <2>1 DEF TypeOK
  <2>3. Passed(mtx[m]).owner = mtx[m].owner /\ (Passed(mtx[m]).locked => mtx[m].locked)
    BY <1>1, <2>1 DEF TypeOK, Passed
  <2> QED BY <2>1, <2>2, <2>3 DEF Named
<1>8. ASSUME \/ \E t \in Threads, m \in Mutexes : CancelInit(t, m)
             \/ \E t \in Threads : \/ Return(t) \/ CancelEnd(t)
                                   \/ DoYield(t) \/ Sleep(t) \/ IsrWakeup(t)
             \/ PendSV \/ EndIdle \/ UNCHANGED vars
      PROVE  mtx' = mtx
  BY <1>8 DEF CancelInit, Return, CancelEnd, DoYield, Sleep, IsrWakeup, PendSV, EndIdle, vars
<1> QED BY <1>2, <1>5, <1>6, <1>7, <1>8, PairSteps

(* sched_run() leaves the processor to a thread of the highest priority.    *)
LEMMA RanHighest ==
  ASSUME KernelInv(k), PendSV \/ EndIdle, NEW t \in Threads, Executes(k', t)
  PROVE  \A u \in Threads : IsActive(k', u) => k'.prio[t] <= k'.prio[u]
<1>1. ASSUME NEW s, KernelInv(s), s.bitcache # {}, NEW out \in Threads \cup {NoThread},
             k' = Dispatch(s, out)
      PROVE  \A u \in Threads : IsActive(k', u) => k'.prio[t] <= k'.prio[u]
  <2> DEFINE next == NextThread(s)
             n == Dispatch(s, out)
  <2>1. /\ next \in Threads
        /\ \A u \in Threads : IsActive(s, u) => s.prio[next] <= s.prio[u]
    BY <1>1, NextThreadHighest
  <2>2. n.active = next /\ n.prio = s.prio
    BY <1>1, <2>1 DEF Dispatch, Unschedule, KernelInv, KernelType
  <2>3. \A u \in Threads : IsActive(n, u) => IsActive(s, u)
    BY <1>1, DispatchEffect DEF IsActive
  <2> HIDE DEF n, next
  <2>4. k' = n /\ t = next
    BY <1>1, <2>2 DEF n, Executes
  <2> QED BY <2>1, <2>2, <2>3, <2>4
<1>2. CASE PendSV
  <2> DEFINE e == [k EXCEPT !.pendsv = FALSE]
  <2>1. /\ e \in KernelType /\ e.prio = k.prio /\ e.active = k.active
        /\ e.status = k.status /\ e.runq = k.runq /\ e.bitcache = k.bitcache /\ e.idle = k.idle
    BY DEF KernelInv, KernelType
  <2>2. KernelInv(e)
    BY <2>1, FrameInv
  <2>3. CASE k.bitcache = {}
    <3>1. k'.idle
      BY <1>2, <2>3 DEF PendSV, SchedRun, Unschedule, KernelInv, KernelType
    <3> QED BY <3>1 DEF Executes
  <2>4. CASE k.bitcache # {}
    <3>1. k' = Dispatch(e, k.active)
      BY <1>2, <2>4 DEF PendSV, SchedRun
    <3>2. k.active \in Threads \cup {NoThread}
      BY DEF KernelInv, KernelType
    <3> HIDE DEF e
    <3> QED BY <1>1, <2>1, <2>2, <2>4, <3>1, <3>2
  <2> QED BY <2>3, <2>4
<1>3. CASE EndIdle
  <2>1. k' = Dispatch(k, NoThread) /\ k.bitcache # {}
    BY <1>3 DEF EndIdle, IdleReturn
  <2> QED BY <1>1, <2>1
<1> QED BY <1>2, <1>3

(* A handler that wakes a thread up pends PendSV if that thread is above    *)
(* the one that executes.                                                   *)
LEMMA WakeupAttends ==
  ASSUME MutexInv, NEW t \in Threads, IsrWakeup(t), NEW v \in Threads, Executes(k', v)
  PROVE  /\ Executes(k, v)
         /\ \A u \in Threads : IsActive(k', u) => IsActive(k, u) \/ k.prio[v] <= k.prio[u]
         /\ k'.prio = k.prio
<1> DEFINE n == SetStatus(k, t, "PENDING")
<1>1. /\ KernelInv(n) /\ n.active = k.active /\ n.idle = k.idle /\ n.pendsv = k.pendsv
      /\ n.prio = k.prio
      /\ \A u \in Threads : n.status[u] = IF u = t THEN "PENDING" ELSE k.status[u]
  BY StatusSet, KernelTypes DEF MutexInv
<1>2. \E test \in SwitchTests(n, k.prio[t]) : k' = IsrSwitch(n, test)
  BY DEF IsrWakeup
<1> HIDE DEF n
<1>3. PICK test \in SwitchTests(n, k.prio[t]) : k' = IsrSwitch(n, test)
  BY <1>2
<1>4. ~test /\ k' = n
  BY <1>1, <1>3 DEF IsrSwitch, IsrEnd, YieldHigher, Executes, KernelInv, KernelType, SwitchTests
<1>5. n.active = v /\ n.active # NoThread /\ Executes(k, v)
  BY <1>1, <1>4, KernelAssumption DEF Executes
<1>6. ~(n.prio[v] > k.prio[t])
  BY <1>3, <1>4, <1>5 DEF SwitchTests
<1>7. k.prio[v] \in Int /\ k.prio[t] \in Int
  BY KernelTypes DEF MutexInv, Prios
<1>8. k.prio[v] <= k.prio[t]
  BY <1>1, <1>6, <1>7
<1> QED BY <1>1, <1>4, <1>5, <1>8 DEF IsActive

(* Every step leaves the processor to a thread of the highest priority.     *)
LEMMA NextAttends ==
  ASSUME MutexInv, Loans, TwoUsers, Callers, Attends, [Next]_vars
  PROVE  Attends'
<1>1. /\ TypeOK /\ KernelInv(k) /\ All = Mutexes /\ NoThread \notin Threads
  BY KernelAssumption DEF MutexInv, TwoUsers, All
<1>2. ASSUME NEW t \in Threads, Executes(k, t), pc[t].at \notin {"block", "yield"}, k' = k
      PROVE  Attends'
  BY <1>2 DEF Attends, Executes
<1>3. ASSUME NEW t \in Threads, Executes(k, t), k'.active = k.active,
             pc'[t].at \in {"block", "yield"}
      PROVE  Attends'
  BY <1>3 DEF Attends, Executes
<1>4. ASSUME NEW t \in Threads, NEW m \in All, NEW b \in BOOLEAN, Block(t, m, b), Executes(k, t)
      PROVE  Attends'
  <2>1. MutexInv /\ t \in Threads /\ m \in All /\ b \in BOOLEAN /\ Block(t, m, b)
    BY <1>4
  <2>2. k'.active = k.active
    BY <2>1, BlockEffect
  <2>3. pc'[t].at = "block"
    BY <2>1, BlockEffect
  <2> QED BY <1>3, <1>4, <2>2, <2>3
<1>5. ASSUME NEW t \in Threads, NEW m \in Mutexes,
             LockFree(t, m) \/ LockBlocks(t, m) \/ CancelInit(t, m)
      PROVE  Attends'
  <2>1. CASE LockFree(t, m) \/ CancelInit(t, m)
    BY <1>2, <2>1 DEF LockFree, CancelInit, Calling, At
  <2>2. CASE LockBlocks(t, m)
    BY <1>1, <1>4, <2>2 DEF LockBlocks, Calling, At
  <2> QED BY <1>5, <2>1, <2>2
<1>6. ASSUME NEW t \in Threads, LockCancelable(t) PROVE Attends'
  <2>1. mc[t].mutex \in All /\ At(t, "enter")
    BY <1>6 DEF LockCancelable, At, MutexInv, Cancelling
  <2> QED BY <1>2, <1>4, <1>6, <2>1 DEF LockCancelable, At
<1>7. ASSUME NEW t \in Threads, Return(t) \/ CancelEnd(t) PROVE Attends'
  BY <1>2, <1>7 DEF Return, CancelEnd, At
<1>8. ASSUME NEW t \in Threads, NEW m \in Mutexes, ThreadUnlock(t, m) PROVE Attends'
  <2>1. m \in All /\ All = {m}
    BY <1>1 DEF TwoUsers
  <2>2. MutexInv /\ m \in All /\ t \in Threads /\ ThreadUnlock(t, m)
    BY <1>8, <2>1
  <2>3. At(t, "run")
    BY <1>8 DEF ThreadUnlock, Calling
  <2>4. CASE mtx[m].queue = <<>>
    <3>1. k' = k
      BY <2>2, <2>4 DEF ThreadUnlock, Unlock
    <3> QED BY <1>2, <2>3, <3>1 DEF At
  <2>5. CASE mtx[m].queue # <<>>
    <3>1. pc'[t].at = "yield"
      BY <1>1, <2>2, <2>5 DEF ThreadUnlock, Go, Simple, TypeOK
    <3>2. k'.active = k.active
      BY <2>2, ThreadUnlockEffect
    <3> QED BY <1>3, <2>3, <3>1, <3>2 DEF At
  <2> QED BY <2>4, <2>5
<1>9. ASSUME NEW t \in Threads, Sleep(t) PROVE Attends'
  <2>1. /\ k' = SetStatus(k, t, "SLEEPING") /\ pc' = [pc EXCEPT ![t] = Simple("yield")]
        /\ Executes(k, t)
    BY <1>9 DEF Sleep, Go, At
  <2>2. k'.active = k.active
    BY <1>1, <2>1, StatusSet, KernelTypes
  <2>3. pc'[t].at = "yield"
    BY <1>1, <2>1 DEF TypeOK, Simple
  <2> QED BY <1>3, <2>1, <2>2, <2>3
<1>10. ASSUME NEW t \in Threads, DoYield(t) PROVE Attends'
  <2>1. k'.pendsv
    BY <1>1, <1>10, YieldEffect DEF DoYield
  <2> QED BY <2>1 DEF Attends, Executes
<1>11. ASSUME NEW t \in Threads, IsrWakeup(t) PROVE Attends'
  <2>1. pc' = pc
    BY <1>11 DEF IsrWakeup
  <2> SUFFICES ASSUME NEW v \in Threads, Executes(k', v), pc[v].at \notin {"block", "yield"},
                      NEW u \in Threads, IsActive(k', u)
               PROVE  k'.prio[v] <= k'.prio[u]
    BY <2>1 DEF Attends
  <2>2. /\ Executes(k, v) /\ k'.prio = k.prio
        /\ IsActive(k, u) \/ k.prio[v] <= k.prio[u]
    BY <1>11, WakeupAttends
  <2> QED BY <2>2 DEF Attends
<1>12. ASSUME PendSV \/ EndIdle PROVE Attends'
  BY <1>1, <1>12, RanHighest DEF Attends
<1>13. CASE UNCHANGED vars
  BY <1>13 DEF vars, Attends
<1> QED BY <1>5, <1>6, <1>7, <1>8, <1>9, <1>10, <1>11, <1>12, <1>13, PairSteps

(* Who owns the mutex or waits for it is a user of it, not both at a time,  *)
(* and an owner is ready.                                                   *)
LEMMA Users ==
  ASSUME MutexInv, Callers, TwoUsers, NEW m \in All
  PROVE  /\ \A t \in Threads : Owner(t, m) =>
              t \in Lockers /\ t \notin Waiters(m) /\ IsActive(k, t) /\ mtx[m].locked
         /\ \A t \in Waiters(m) : t \in Threads /\ t \in Lockers
<1>1. m \in Mutexes /\ TypeOK
  BY DEF MutexInv, TwoUsers, All
<1>2. \A t \in Waiters(m) : t \in Threads
  <2> DEFINE q == mtx[m].queue
  <2>1. q \in Seq(Threads)
    BY <1>1 DEF TypeOK
  <2> HIDE DEF q
  <2>2. \A t \in Elems(q) : t \in Threads
    BY <2>1 DEF Elems
  <2> QED BY <2>2 DEF q, Waiters
<1>3. \A t \in Threads : t \in Waiters(m) <=> k.status[t] = "MUTEX_BLOCKED" /\ InCall(t, m)
  BY DEF MutexInv, Lists
<1>4. ASSUME NEW t \in Threads, Owner(t, m)
      PROVE  t \in Lockers /\ t \notin Waiters(m) /\ IsActive(k, t) /\ mtx[m].locked
  <2>1. mtx[m].locked
    BY <1>1, <1>4 DEF MutexInv, Owned
  <2>2. CASE m \in held[t]
    <3>1. t \in Lockers /\ IsActive(k, t) /\ pc[t].at \notin {"block", "woken"}
      BY <2>2 DEF Callers
    <3> QED BY <1>3, <2>1, <3>1 DEF InCall
  <2>3. CASE Granted(t, m)
    <3>1. InCall(t, m) /\ t \notin Waiters(m)
      BY <2>3 DEF Granted
    <3>2. k.status[t] # "MUTEX_BLOCKED" /\ pc[t].at \in {"block", "woken"}
      BY <1>3, <3>1 DEF InCall
    <3>3. t \in Lockers /\ IsActive(k, t)
      BY <3>2 DEF Callers, MutexInv, Rests
    <3> QED BY <2>1, <3>1, <3>3
  <2> QED BY <1>4, <2>2, <2>3 DEF Owner
<1>5. \A t \in Waiters(m) : t \in Lockers
  BY <1>2, <1>3 DEF Callers, InCall
<1> QED BY <1>2, <1>4, <1>5

(* Of two users, the third is one of them.                                  *)
LEMMA NoThird ==
  ASSUME TwoUsers, NEW t \in Lockers, NEW u \in Lockers, t # u
  PROVE  Lockers = {t, u}
BY DEF TwoUsers

(* A step that takes or hands over nothing.                                 *)
LEMMA LentKept ==
  ASSUME Lent, UNCHANGED mtx, k'.prio = k.prio,
         \A t \in Threads, m \in All : Owner(t, m)' => Owner(t, m)
  PROVE  Lent'
BY DEF Lent, Waiters

(* The mutex is free: its new owner lends to nobody.                        *)
LEMMA TakenLent ==
  ASSUME MutexInv, TwoUsers, Callers, PI, NEW t \in Threads, NEW m \in All, ~mtx[m].locked,
         Executes(k, t), pc[t].at \in {"run", "enter"}, Keep(t, m),
         mtx' = [mtx EXCEPT ![m] = Taken(mtx[m], t)], mc' = mc,
         \/ pc' = pc
         \/ pc' = [pc EXCEPT ![t] = Simple("done")]
  PROVE  Lent'
<1>1. TypeOK /\ m \in Mutexes /\ All = {m} /\ BasePrio \in [Threads -> Prios]
  BY MutexAssumption DEF MutexInv, TwoUsers, All
<1>2. mtx'[m].owner = t /\ mtx'[m].queue = mtx[m].queue
  BY <1>1 DEF TypeOK, Taken
<1>3. Waiters(m)' = {}
  <2>1. mtx[m].queue = <<>>
    BY <1>1 DEF MutexInv, Lists
  <2> QED BY <1>2, <2>1 DEF Waiters, Elems
<1>4. \A u \in Threads : ~Owner(u, m)
  BY Users
<1>5. \A u \in Threads \ {t} : ~Owner(u, m)'
  <2>1. \A u \in Threads \ {t} : held'[u] = held[u] /\ pc'[u] = pc[u]
    BY <1>1 DEF Keep, TypeOK
  <2>2. Waiters(m)' = Waiters(m)
    BY <1>2 DEF Waiters
  <2> QED BY <1>4, <2>1, <2>2 DEF Owner, Granted, InCall
<1>6. BasePrio[t] <= BasePrio[t]
  BY <1>1 DEF Prios
<1> QED BY <1>1, <1>2, <1>3, <1>5, <1>6 DEF Lent

(* A thread blocks: there was no waiter, it is not below the holder, which  *)
(* is ready, and it lends its priority to the thread that the owner field   *)
(* names, the holder or itself.                                             *)
LEMMA BlockLent ==
  ASSUME MutexInv, Loans, TwoUsers, PairInv, PI, NEW t \in Threads, NEW m \in All,
         mtx[m].locked, NEW b \in BOOLEAN, Block(t, m, b), mc' = mc,
         Executes(k, t), pc[t].at \in {"run", "enter"}, t \in Lockers, held[t] = {}
  PROVE  Lent'
<1> DEFINE o == mtx[m].owner
<1>1. /\ TypeOK /\ All = {m} /\ BasePrio \in [Threads -> Prios] /\ k.prio \in [Threads -> Prios]
      /\ Lockers \subseteq Threads
  BY MutexAssumption, KernelTypes DEF MutexInv, TwoUsers, All
<1>2. MutexInv /\ t \in Threads /\ m \in All /\ b \in BOOLEAN /\ Block(t, m, b)
  OBVIOUS
<1>3. /\ mtx'[m].owner = o /\ Waiters(m)' = Waiters(m) \cup {t} /\ held' = held
  BY <1>2, BlockEffect
<1>4. \A u \in Threads :
        k'.prio[u] = IF PI /\ u = o /\ k.prio[u] > k.prio[t] THEN k.prio[t] ELSE k.prio[u]
  BY <1>2, BlockEffect
<1>5. \A u \in Threads : u # t => pc'[u] = pc[u]
  BY <1>2, BlockEffect
<1> SUFFICES ASSUME NEW h \in Threads, Owner(h, m)'
             PROVE  /\ BasePrio[h] <= BasePrio[o]
                    /\ \A w \in Waiters(m)' : k'.prio[h] <= k'.prio[w] /\ BasePrio[w] <= BasePrio[h]
  BY <1>1, <1>3 DEF Lent
<1>6. h # t
  BY <1>3 DEF Owner, Granted
<1>7. Owner(h, m)
  BY <1>3, <1>5, <1>6 DEF Owner, Granted, InCall
<1>8. h \in Lockers /\ h \notin Waiters(m) /\ IsActive(k, h)
  BY <1>7, Users DEF PairInv
<1>9. Lockers = {h, t} /\ o \in {h, t}
  <2>1. o \in Lockers
    BY DEF PairInv, Named
  <2>2. Lockers = {h, t}
    BY <1>6, <1>8, NoThird
  <2> QED BY <2>1, <2>2
<1>10. Waiters(m) = {}
  <2>1. t \notin Waiters(m)
    BY Working
  <2>2. \A w \in Waiters(m) : w \in Lockers
    BY Users DEF PairInv
  <2> QED BY <1>8, <1>9, <2>1, <2>2
<1>11. \A u \in Threads : k.prio[u] = BasePrio[u]
  <2>1. mtx[m].queue = <<>>
    BY <1>1, <1>10, ElemsEmpty DEF Waiters, TypeOK
  <2> QED BY <1>1, <2>1 DEF Loans
<1>12. k.prio[t] <= k.prio[h]
  BY <1>8 DEF PairInv, Attends
<1>13. BasePrio[h] <= BasePrio[o]
  BY <1>1, <1>7 DEF PairInv, Lent
<1>14. k'.prio[h] <= k'.prio[t]
  <2>1. /\ k.prio[h] \in Int /\ k.prio[t] \in Int
        /\ k'.prio[h] = IF h = o /\ k.prio[h] > k.prio[t] THEN k.prio[t] ELSE k.prio[h]
        /\ k'.prio[t] = k.prio[t]
    BY <1>1, <1>4 DEF Prios
  <2>2. CASE o = h
    BY <2>1, <2>2
  <2>3. CASE o = t
    BY <1>1, <1>6, <1>11, <1>13, <2>1, <2>3
  <2> QED BY <1>9, <2>2, <2>3
<1>15. Waiters(m)' = {t}
  BY <1>3, <1>10
<1>16. BasePrio[t] <= BasePrio[h]
  BY <1>11, <1>12
<1> QED BY <1>13, <1>14, <1>15, <1>16

(* The waiter gets the mutex: it is not below the thread that gives it, and *)
(* the owner field names one of the two.                                    *)
LEMMA UnlockLent ==
  ASSUME MutexInv, Loans, TwoUsers, PairInv, PI, NEW t \in Threads, NEW m \in Mutexes,
         ThreadUnlock(t, m)
  PROVE  Lent'
<1> DEFINE o == mtx[m].owner
           q == mtx[m].queue
<1>1. /\ TypeOK /\ All = {m} /\ m \in All /\ BasePrio \in [Threads -> Prios]
      /\ Lockers \subseteq Threads
  BY MutexAssumption DEF MutexInv, TwoUsers, All
<1>2. MutexInv /\ Loans /\ All = {m} /\ t \in Threads /\ ThreadUnlock(t, m)
  BY <1>1
<1>3. /\ m \in held[t] /\ t \in Lockers /\ mc' = mc
      /\ mtx' = [mtx EXCEPT ![m] = Passed(mtx[m])]
      /\ held' = [held EXCEPT ![t] = held[t] \ {m}]
      /\ pc' = [pc EXCEPT ![t] = Simple(IF q = <<>> THEN "run" ELSE "yield")]
  BY <1>2 DEF ThreadUnlock, Calling, Unlock, Go
<1>4. /\ ~Owner(t, m)'
      /\ \A u \in Threads : u # t => held'[u] = held[u] /\ pc'[u] = pc[u]
  <2>1. m \notin held'[t] /\ pc'[t].at \notin {"block", "woken"}
    BY <1>1, <1>3 DEF TypeOK, Simple
  <2>2. \A u \in Threads : u # t => held'[u] = held[u] /\ pc'[u] = pc[u]
    BY <1>1, <1>3 DEF TypeOK
  <2> QED BY <2>1, <2>2 DEF Owner, Granted, InCall
<1>5. mtx'[m] = Passed(mtx[m]) /\ Passed(mtx[m]).owner = o
  BY <1>1, <1>3 DEF TypeOK, Passed
<1>6. Owner(t, m) /\ \A u \in Threads : Owner(u, m) => u = t
  BY <1>3 DEF MutexInv, Owned, Owner
<1> SUFFICES ASSUME NEW h \in Threads, Owner(h, m)'
             PROVE  /\ BasePrio[h] <= BasePrio[o]
                    /\ \A w \in Waiters(m)' : k'.prio[h] <= k'.prio[w] /\ BasePrio[w] <= BasePrio[h]
  BY <1>1, <1>5 DEF Lent
<1>7. h # t /\ h \in Waiters(m) /\ h \notin Waiters(m)'
  <2>1. h # t /\ ~Owner(h, m)
    BY <1>4, <1>6
  <2> QED BY <1>3, <1>4, <2>1 DEF Owner, Granted, InCall
<1>8. /\ h \in Lockers /\ Lockers = {t, h} /\ o \in Lockers /\ Waiters(m) = {h}
  <2>1. h \in Lockers /\ t \notin Waiters(m) /\ mtx[m].locked
    BY <1>1, <1>6, <1>7, Users DEF PairInv
  <2>2. Lockers = {t, h}
    BY <1>3, <1>7, <2>1, NoThird
  <2>3. \A w \in Waiters(m) : w \in Lockers
    BY <1>1, Users DEF PairInv
  <2> QED BY <1>1, <1>7, <2>1, <2>2, <2>3 DEF PairInv, Named
<1>9. Waiters(m)' = {}
  <2>1. q \in Seq(Threads)
    BY <1>1 DEF TypeOK
  <2> HIDE DEF q
  <2>2. q # <<>> => Elems(Tail(q)) = Elems(q) \ {Head(q)} /\ Head(q) \in Elems(q)
    BY <1>1, <2>1, ElemsTail DEF MutexInv, Lists, q
  <2>3. Waiters(m)' = IF q = <<>> THEN Elems(q) ELSE Elems(Tail(q))
    BY <1>1, <1>5 DEF TypeOK, Passed, Waiters, q
  <2>4. Elems(q) = {h}
    BY <1>8 DEF Waiters, q
  <2> QED BY <2>1, <2>2, <2>3, <2>4, <1>7, ElemsEmpty
<1>10. BasePrio[h] <= BasePrio[t]
  BY <1>1, <1>6, <1>7 DEF PairInv, Lent
<1>11. BasePrio[h] \in Int
  BY <1>1 DEF Prios
<1> QED BY <1>8, <1>9, <1>10, <1>11

(* Every step keeps what waiters lend to the holder.                        *)
LEMMA NextLent ==
  ASSUME MutexInv, Loans, TwoUsers, PairInv, PI, [Next]_vars
  PROVE  Lent'
<1>1. TypeOK /\ KernelInv(k) /\ All = Mutexes /\ Callers /\ Lent
  BY DEF MutexInv, TwoUsers, All, PairInv
<1>2. \E m : Mutexes = {m}
  BY DEF TwoUsers
<1>3. ASSUME NEW t \in Threads, NEW m \in Mutexes, LockFree(t, m) PROVE Lent'
  BY <1>1, <1>3, TakenLent DEF LockFree, Calling, At
<1>4. ASSUME NEW t \in Threads, NEW m \in Mutexes, LockBlocks(t, m) PROVE Lent'
  <2>1. held[t] = {}
    BY <1>1, <1>2, <1>4 DEF LockBlocks, TypeOK
  <2>2. FALSE \in BOOLEAN
    OBVIOUS
  <2> QED BY <1>1, <1>4, <2>1, <2>2, BlockLent DEF LockBlocks, Calling, At
<1>5. ASSUME NEW t \in Threads, LockCancelable(t) PROVE Lent'
  <2> DEFINE m == mc[t].mutex
  <2>1. /\ Executes(k, t) /\ pc[t].at = "enter" /\ mc' = mc /\ ~mc[t].cancelled
        /\ t \in Lockers /\ held[t] = {}
    BY <1>1, <1>5 DEF LockCancelable, At, Callers
  <2>2. m \in All
    BY <2>1 DEF MutexInv, Cancelling
  <2>3. CASE ~mtx[m].locked
    <3>1. /\ Keep(t, m) /\ mtx' = [mtx EXCEPT ![m] = Taken(mtx[m], t)]
          /\ pc' = [pc EXCEPT ![t] = Simple("done")]
      BY <1>5, <2>1, <2>3 DEF LockCancelable, Go
    <3> HIDE DEF m
    <3> QED BY <1>1, <2>1, <2>2, <2>3, <3>1, TakenLent
  <2>4. CASE mtx[m].locked
    <3>1. Block(t, m, TRUE) /\ TRUE \in BOOLEAN
      BY <1>5, <2>1, <2>4 DEF LockCancelable
    <3> HIDE DEF m
    <3> QED BY <2>1, <2>2, <2>4, <3>1, BlockLent
  <2> QED BY <2>3, <2>4
<1>6. ASSUME NEW t \in Threads, mtx' = mtx, k'.prio = k.prio,
             \A u \in Threads \ {t} : /\ pc'[u] = pc[u] /\ held'[u] = held[u]
                                      /\ mc'[u] = mc[u],
             \A m \in All : Owner(t, m)' => Owner(t, m)
      PROVE  Lent'
  <2>1. \A u \in Threads \ {t}, m \in All : Owner(u, m)' => Owner(u, m)
    BY <1>6 DEF Owner, Granted, InCall, Waiters
  <2>2. \A u \in Threads, m \in All : Owner(u, m)' => Owner(u, m)
    BY <1>6, <2>1
  <2> QED BY <1>1, <1>6, <2>2, LentKept
<1>7. ASSUME NEW t \in Threads, Return(t) PROVE Lent'
  <2>1. /\ Executes(k, t) /\ pc[t].at = "woken" /\ k' = k /\ mtx' = mtx /\ mc' = mc
        /\ ~mc[t].cancelled
        /\ held' = held \/ held' = [held EXCEPT ![t] = @ \cup ({pc[t].mutex} \cap Mutexes)]
        /\ pc' = [pc EXCEPT ![t] = Simple(IF pc[t].mc THEN "done" ELSE "run")]
    BY <1>1, <1>7 DEF Return, At, Callers, Keep, Go
  <2>2. /\ pc'[t].at \in {"done", "run"}
        /\ \A u \in Threads \ {t} : pc'[u] = pc[u] /\ held'[u] = held[u]
        /\ held'[t] \subseteq held[t] \cup {pc[t].mutex}
    BY <1>1, <2>1 DEF TypeOK, Simple
  <2>3. \A m \in All : t \notin Waiters(m)
    BY <2>1, Working
  <2>4. \A m \in All : Owner(t, m)' => Owner(t, m)
    BY <2>1, <2>2, <2>3 DEF Owner, Granted, InCall
  <2> QED BY <1>6, <2>1, <2>2, <2>4
<1>8. ASSUME NEW t \in Threads, NEW p \in {"run", "enter", "yield"}, held' = held, mtx' = mtx,
             k'.prio = k.prio, pc' = [pc EXCEPT ![t] = Simple(p)],
             \A u \in Threads \ {t} : mc'[u] = mc[u]
      PROVE  Lent'
  <2>1. /\ pc'[t].at = p /\ \A u \in Threads \ {t} : pc'[u] = pc[u]
    BY <1>1, <1>8 DEF TypeOK, Simple
  <2>2. \A m \in All : Owner(t, m)' => Owner(t, m)
    BY <1>8, <2>1 DEF Owner, Granted, InCall
  <2> QED BY <1>6, <1>8, <2>1, <2>2
<1>9. ASSUME NEW t \in Threads, CancelEnd(t) \/ \E m \in Mutexes : CancelInit(t, m)
      PROVE  Lent'
  <2>1. \A u \in Threads \ {t} : mc'[u] = mc[u]
    BY <1>1, <1>9 DEF CancelEnd, CancelInit, TypeOK
  <2> QED BY <1>8, <1>9, <2>1 DEF CancelEnd, CancelInit, Go
<1>10. ASSUME NEW t \in Threads, Sleep(t) PROVE Lent'
  <2>1. k'.prio = k.prio
    BY <1>1, <1>10, StatusSet, KernelTypes DEF Sleep
  <2> QED BY <1>8, <1>10, <2>1 DEF Sleep, Go
<1>11. ASSUME NEW t \in Threads, DoYield(t) PROVE Lent'
  <2>1. k'.prio = k.prio
    BY <1>1, <1>11, PrioKept DEF DoYield
  <2>2. CASE pc[t].at = "block"
    <3>1. /\ mtx' = mtx /\ held' = held /\ mc' = mc
          /\ pc' = [pc EXCEPT ![t] = [pc[t] EXCEPT !.at = "woken"]]
      BY <1>11, <2>2 DEF DoYield, Go
    <3>2. /\ \A u \in Threads \ {t} : pc'[u] = pc[u]
          /\ pc'[t].mutex = pc[t].mutex /\ pc'[t].mc = pc[t].mc
      BY <1>1, <2>2, <3>1 DEF TypeOK, Places, Simple
    <3>3. \A m \in All : Owner(t, m)' => Owner(t, m)
      BY <2>2, <3>1, <3>2 DEF Owner, Granted, InCall, Waiters
    <3> QED BY <1>6, <2>1, <3>1, <3>2, <3>3
  <2>3. CASE pc[t].at # "block"
    BY <1>8, <1>11, <2>1, <2>3 DEF DoYield, Go
  <2> QED BY <2>2, <2>3
<1>12. ASSUME UNCHANGED <<mtx, mc, pc, held>>, k'.prio = k.prio PROVE Lent'
  <2>1. \A u \in Threads, m \in All : Owner(u, m)' => Owner(u, m)
    BY <1>12 DEF Owner, Granted, InCall, Waiters
  <2> QED BY <1>1, <1>12, <2>1, LentKept
<1>13. ASSUME NEW t \in Threads, IsrWakeup(t) PROVE Lent'
  <2>1. k'.prio = k.prio
    BY <1>13, OtherList DEF ListChanges
  <2> QED BY <1>12, <1>13, <2>1 DEF IsrWakeup
<1>14. ASSUME PendSV \/ EndIdle PROVE Lent'
  BY <1>1, <1>12, <1>14, RunPrio DEF PendSV, EndIdle
<1>15. CASE UNCHANGED vars
  BY <1>12, <1>15 DEF vars
<1>16. ASSUME NEW t \in Threads, NEW m \in Mutexes, ThreadUnlock(t, m) PROVE Lent'
  BY <1>16, UnlockLent
<1> QED BY <1>1, <1>3, <1>4, <1>5, <1>7, <1>9, <1>10, <1>11, <1>13, <1>14, <1>15, <1>16, PairSteps

(* "The scheduler must prefer the low priority thread over the mid priority *)
(* thread while it is holding the resource the high priority thread is      *)
(* waiting for" (tests/core/thread_priority_inversion/README.md): when two threads of *)
(* the application use its mutex, among any number of other threads, the    *)
(* holder always has at least the priority of the one that waits, although  *)
(* the owner field may name the waiter. With three users it is false: after *)
(* a hand-over the field names neither the holder nor the one that waits.   *)
THEOREM HolderAlwaysInherits ==
  ASSUME TwoUsers
  PROVE  Spec => []HolderInherits
<1>1. CASE ~PI
  <2>1. HolderInherits
    BY <1>1 DEF HolderInherits
  <2> QED BY <2>1, PTL
<1>2. CASE PI
  <2>1. Init => MutexInv /\ Loans /\ PairInv
    <3> SUFFICES ASSUME Init PROVE MutexInv /\ Loans /\ PairInv
      OBVIOUS
    <3>1. k.prio = BasePrio /\ k.active = NoThread
      BY DEF Init, StartStates
    <3>2. \A t \in Threads : pc[t].at = "run" /\ ~mc[t].cancelled /\ held[t] = {}
      BY DEF Init, Simple, NoCancel
    <3>3. \A m \in All : ~mtx[m].locked /\ mtx[m].owner = NoThread
      BY DEF Init, TwoUsers
    <3>4. Callers /\ Named
      BY <3>2, <3>3 DEF Callers, Named
    <3>5. Attends
      BY <3>1, KernelAssumption DEF Attends, Executes
    <3>6. Lent
      BY <3>2 DEF Lent, Owner, Granted, InCall
    <3>7. Loans
      BY <3>1, <3>3 DEF Loans
    <3> QED BY <3>4, <3>5, <3>6, <3>7, InitInv DEF PairInv
  <2>2. MutexInv /\ Loans /\ PairInv /\ [Next]_vars => MutexInv' /\ Loans' /\ PairInv'
    <3> SUFFICES ASSUME MutexInv, Loans, PairInv, [Next]_vars
                 PROVE  MutexInv' /\ Loans' /\ PairInv'
      OBVIOUS
    <3>1. PICK a : All = {a}
      BY DEF TwoUsers, All
    <3>2. MutexInv' /\ Loans'
      BY <3>1, StepInv, NextLoans DEF TwoUsers
    <3>3. Callers' /\ Named' /\ Attends'
      BY <1>2, NextCallers, NextNamed, NextAttends DEF PairInv
    <3>4. Lent'
      BY <1>2, NextLent
    <3> QED BY <3>2, <3>3, <3>4 DEF PairInv
  <2>3. PairInv => HolderInherits
    BY DEF PairInv, Lent, HolderInherits, Owner, All
  <2> QED BY <2>1, <2>2, <2>3, PTL DEF Spec
<1> QED BY <1>1, <1>2
=============================================================================
