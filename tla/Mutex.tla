------------------------------- MODULE Mutex -------------------------------
(***************************************************************************)
(* RIOT's mutex (core/mutex.c) with cancellation and, when PI is TRUE, the  *)
(* priority inheritance of MODULE_CORE_MUTEX_PRIORITY_INHERITANCE, used by  *)
(* threads and interrupt handlers on the scheduler of module Kernel.        *)
(*                                                                          *)
(* mtx[m] is mutex_t: `locked` and `queue` stand for queue.next, which is   *)
(* NULL (not locked), MUTEX_LOCKED (locked, no waiters) or the list of the  *)
(* waiters. mc[t] is the mutex_cancel_t on the stack of thread t. held[t] is *)
(* what the code of t has learned from the calls' return values.            *)
(***************************************************************************)
EXTENDS Kernel

CONSTANTS Mutexes,    \* mutexes that are locked and unlocked by one thread
          Signals,    \* mutexes a thread locks and a handler unlocks
          NoMutex,
          BasePrio,   \* the priority each thread is created with
          Starters,   \* the threads that are ready at the start; the others
                      \* sleep until a handler wakes them up
          Lockers,    \* the threads whose code uses mutexes
          Calls,      \* the calls that the application makes
          PI          \* MODULE_CORE_MUTEX_PRIORITY_INHERITANCE

ASSUME MutexAssumption ==
  /\ IsFiniteSet(Threads)
  /\ Mutexes \cap Signals = {} /\ NoMutex \notin Mutexes \cup Signals
  /\ BasePrio \in [Threads -> Prios]
  /\ Starters \subseteq Threads /\ Lockers \subseteq Threads
  /\ Calls \subseteq {"lock", "trylock", "lock_cancelable", "cancel",
                      "unlock", "unlock_and_sleep", "sleep"}
  /\ PI \in BOOLEAN

All == Mutexes \cup Signals

VARIABLES k, mtx, mc, pc, held
vars == <<k, mtx, mc, pc, held>>

NoCancel == [mutex |-> NoMutex, cancelled |-> FALSE]

(* "enter" is before mutex_lock_cancelable(), "block" before the            *)
(* thread_yield_higher() of _block() and "woken" after it; "done" is before *)
(* the end of the scope of mc, "yield" before the last thread_yield_higher() *)
(* of an unlock, and "switch" before the sched_switch() of mutex_cancel().  *)
Simple(p) == [at |-> p]
Places == {Simple(p) : p \in {"run", "enter", "done", "yield"}}
          \cup [at : {"block", "woken"}, mutex : All, mc : BOOLEAN]
          \cup [at : {"switch"}, thread : Threads]

TypeOK ==
  /\ k \in KernelType
  /\ mtx \in [All -> [locked : BOOLEAN, queue : Seq(Threads),
                      owner : Threads \cup {NoThread}, orig : Prios]]
  /\ mc \in [Threads -> [mutex : All \cup {NoMutex}, cancelled : BOOLEAN]]
  /\ pc \in [Threads -> Places]
  /\ held \in [Threads -> SUBSET Mutexes]

(* MUTEX_INIT and MUTEX_INIT_LOCKED; the scheduler is about to start.       *)
Init ==
  /\ k \in StartStates(BasePrio, Starters)
  /\ mtx = [m \in All |-> [locked |-> m \in Signals, queue |-> <<>>,
                           owner |-> NoThread, orig |-> 0]]
  /\ mc = [t \in Threads |-> NoCancel]
  /\ pc = [t \in Threads |-> Simple("run")]
  /\ held = [t \in Threads |-> {}]

Go(t, place) == pc' = [pc EXCEPT ![t] = place]
At(t, p) == Executes(k, t) /\ pc[t].at = p
Calling(t, call) == At(t, "run") /\ t \in Lockers /\ call \in Calls
Keep(t, m) == held' = [held EXCEPT ![t] = @ \cup ({m} \cap Mutexes)]

-----------------------------------------------------------------------------
(* The state k and the mutex x after the critical sections of mutex.c.      *)

Taken(x, t) == IF PI THEN [x EXCEPT !.locked = TRUE, !.owner = t, !.orig = k.prio[t]]
                     ELSE [x EXCEPT !.locked = TRUE]

(* _block(): the boost of the thread that the owner field names.            *)
(* Mutants of Inherit: no boost, and a boost with the comparison reversed.  *)
InheritNothing(s, x, t) == s
InheritReversed(s, x, t) ==
  IF PI /\ x.owner # NoThread /\ s.prio[x.owner] < s.prio[t]
  THEN ChangePriority(s, x.owner, s.prio[t]) ELSE s

Inherit(s, x, t) ==
  IF PI /\ x.owner # NoThread /\ s.prio[x.owner] > s.prio[t]
  THEN ChangePriority(s, x.owner, s.prio[t]) ELSE s

Block(t, m, cancelable) ==
  LET blocked == SetStatus(k, t, "MUTEX_BLOCKED")
  IN /\ k' = Inherit(blocked, mtx[m], t)
     /\ mtx' = [mtx EXCEPT ![m].queue = AddToList(blocked, @, t)]
     /\ Go(t, [at |-> "block", mutex |-> m, mc |-> cancelable])
     /\ UNCHANGED held

(* Mutant of Restore: the owner keeps the boosted priority.                 *)
RestoreNothing(s, x) == s

(* mutex_unlock() gives the priority of the owner back.                     *)
Restore(s, x) ==
  IF PI /\ x.owner # NoThread /\ s.prio[x.owner] # x.orig
  THEN ChangePriority(s, x.owner, x.orig) ELSE s

(* Mutant of Passed: the mutex is not marked MUTEX_LOCKED again when its last *)
(* waiter leaves the list.                                                  *)
PassedUnlocked(x) == IF Len(x.queue) <= 1 THEN [x EXCEPT !.queue = <<>>, !.locked = FALSE]
                     ELSE [x EXCEPT !.queue = Tail(@)]

(* The part that the two unlock functions share: the mutex goes to its first *)
(* waiter, and is unlocked only when there is none.                         *)
Passed(x) == IF x.queue = <<>> THEN [x EXCEPT !.locked = FALSE]
             ELSE [x EXCEPT !.queue = Tail(@)]
Wake(s, x) == IF x.queue = <<>> THEN s ELSE SetStatus(s, Head(x.queue), "PENDING")

Unlock(m) ==
  /\ mtx' = [mtx EXCEPT ![m] = Passed(@)]
  /\ k' = IF mtx[m].queue = <<>> THEN k ELSE Restore(Wake(k, mtx[m]), mtx[m])

(* mutex_cancel(): the state of the scheduler, and of the mutex.            *)
Dequeued(t) == ~IsActive(k, t) /\ t \in Elems(mtx[mc[t].mutex].queue)
(* Mutant of CancelState: the woken thread stays in the list of waiters.    *)
CancelStateQueued(t) ==
  mc' = [mc EXCEPT ![t].cancelled = TRUE] /\ mtx' = mtx

CancelState(t) ==
  /\ mc' = [mc EXCEPT ![t].cancelled = TRUE]
  /\ mtx' = IF Dequeued(t) THEN [mtx EXCEPT ![mc[t].mutex].queue = Unlink(@, t)]
                           ELSE mtx
Unblocked(t) == IF Dequeued(t) THEN SetStatus(k, t, "PENDING") ELSE k

-----------------------------------------------------------------------------
(* Calls of thread t.                                                       *)

(* mutex_lock() and mutex_trylock() of a mutex that is not locked           *)
LockFree(t, m) ==
  /\ Calling(t, "lock") \/ Calling(t, "trylock")
  /\ ~mtx[m].locked
  /\ mtx' = [mtx EXCEPT ![m] = Taken(@, t)]
  /\ Keep(t, m)
  /\ UNCHANGED <<k, mc, pc>>

(* mutex_lock() of a locked mutex. No thread locks a mutex that it holds.   *)
LockBlocks(t, m) ==
  /\ Calling(t, "lock") /\ m \notin held[t]
  /\ mtx[m].locked
  /\ Block(t, m, FALSE)
  /\ UNCHANGED mc

(* mutex_cancel_init(); the structure may be cancelled from here on.        *)
CancelInit(t, m) ==
  /\ Calling(t, "lock_cancelable") /\ m \notin held[t]
  /\ mc' = [mc EXCEPT ![t] = [mutex |-> m, cancelled |-> FALSE]]
  /\ Go(t, Simple("enter"))
  /\ UNCHANGED <<k, mtx, held>>

(* Mutant of LockCancelable: mc->cancelled is not tested before blocking.   *)
LockCancelableUntested(t) ==
  /\ At(t, "enter")
  /\ LET m == mc[t].mutex
     IN \/ /\ ~mtx[m].locked
           /\ mtx' = [mtx EXCEPT ![m] = Taken(@, t)]
           /\ Keep(t, m)
           /\ Go(t, Simple("done"))
           /\ UNCHANGED k
        \/ mtx[m].locked /\ Block(t, m, TRUE)
  /\ UNCHANGED mc

(* mutex_lock_cancelable()                                                  *)
LockCancelable(t) ==
  /\ At(t, "enter")
  /\ LET m == mc[t].mutex
     IN \/ /\ mc[t].cancelled
           /\ Go(t, Simple("done"))
           /\ UNCHANGED <<k, mtx, held>>
        \/ /\ ~mc[t].cancelled /\ ~mtx[m].locked
           /\ mtx' = [mtx EXCEPT ![m] = Taken(@, t)]
           /\ Keep(t, m)
           /\ Go(t, Simple("done"))
           /\ UNCHANGED k
        \/ /\ ~mc[t].cancelled /\ mtx[m].locked
           /\ Block(t, m, TRUE)
  /\ UNCHANGED mc

(* The return of a lock call that blocked: mutex_lock_cancelable() reports  *)
(* -ECANCELED when mc->cancelled is set.                                    *)
Return(t) ==
  /\ At(t, "woken")
  /\ IF pc[t].mc /\ mc[t].cancelled THEN UNCHANGED held ELSE Keep(t, pc[t].mutex)
  /\ Go(t, Simple(IF pc[t].mc THEN "done" ELSE "run"))
  /\ UNCHANGED <<k, mtx, mc>>

(* The caller stops the timer that would cancel the call.                   *)
CancelEnd(t) ==
  /\ At(t, "done")
  /\ mc' = [mc EXCEPT ![t] = NoCancel]
  /\ Go(t, Simple("run"))
  /\ UNCHANGED <<k, mtx, held>>

(* mutex_unlock(): with no waiter it returns without a yield.               *)
ThreadUnlock(t, m) ==
  /\ Calling(t, "unlock") /\ m \in held[t]
  /\ Unlock(m)
  /\ held' = [held EXCEPT ![t] = @ \ {m}]
  /\ Go(t, Simple(IF mtx[m].queue = <<>> THEN "run" ELSE "yield"))
  /\ UNCHANGED mc

(* mutex_unlock_and_sleep()                                                 *)
UnlockAndSleep(t, m) ==
  /\ Calling(t, "unlock_and_sleep") /\ m \in held[t]
  /\ mtx' = [mtx EXCEPT ![m] = Passed(@)]
  /\ k' = SetStatus(Wake(k, mtx[m]), t, "SLEEPING")
  /\ held' = [held EXCEPT ![t] = @ \ {m}]
  /\ Go(t, Simple("yield"))
  /\ UNCHANGED mc

(* thread_sleep(), of a thread that holds no mutex                          *)
Sleep(t) ==
  /\ At(t, "run") /\ "sleep" \in Calls /\ held[t] = {}
  /\ k' = SetStatus(k, t, "SLEEPING")
  /\ Go(t, Simple("yield"))
  /\ UNCHANGED <<mtx, mc, held>>

(* mutex_cancel() by a thread                                               *)
ThreadCancel(t, u) ==
  /\ Calling(t, "cancel") /\ u # t /\ mc[u] # NoCancel
  /\ CancelState(u)
  /\ k' = Unblocked(u)
  /\ Go(t, IF Dequeued(u) THEN [at |-> "switch", thread |-> u] ELSE pc[t])
  /\ UNCHANGED held

DoYield(t) ==
  /\ Executes(k, t) /\ pc[t].at \in {"block", "yield"}
  /\ k' = YieldHigher(k)
  /\ Go(t, IF pc[t].at = "block" THEN [pc[t] EXCEPT !.at = "woken"] ELSE Simple("run"))
  /\ UNCHANGED <<mtx, mc, held>>

DoSwitch(t) ==
  /\ At(t, "switch")
  /\ \E test \in SwitchTests(k, k.prio[pc[t].thread]) : k' = ThreadSwitch(k, test)
  /\ Go(t, Simple("run"))
  /\ UNCHANGED <<mtx, mc, held>>

-----------------------------------------------------------------------------
(* Interrupt handlers and the processor.                                    *)

(* mutex_unlock() of a signal; its thread_yield_higher() pends PendSV.      *)
IsrUnlock(m) ==
  /\ mtx' = [mtx EXCEPT ![m] = Passed(@)]
  /\ k' = IF mtx[m].queue = <<>> THEN k
          ELSE YieldHigher(Restore(Wake(k, mtx[m]), mtx[m]))
  /\ UNCHANGED <<mc, pc, held>>

(* mutex_cancel() by a timer                                                *)
IsrCancel(u) ==
  /\ "cancel" \in Calls /\ mc[u] # NoCancel
  /\ CancelState(u)
  /\ IF Dequeued(u)
     THEN \E test \in SwitchTests(Unblocked(u), k.prio[u]) :
            k' = IsrSwitch(Unblocked(u), test)
     ELSE UNCHANGED k
  /\ UNCHANGED <<pc, held>>

(* thread_wakeup()                                                          *)
IsrWakeup(t) ==
  /\ k.status[t] = "SLEEPING"
  /\ LET woken == SetStatus(k, t, "PENDING")
     IN \E test \in SwitchTests(woken, k.prio[t]) : k' = IsrSwitch(woken, test)
  /\ UNCHANGED <<mtx, mc, pc, held>>

PendSV == /\ k.pendsv /\ ~k.idle
          /\ k' = SchedRun(k)
          /\ UNCHANGED <<mtx, mc, pc, held>>

EndIdle == /\ k.idle /\ k.bitcache # {}
           /\ k' = IdleReturn(k)
           /\ UNCHANGED <<mtx, mc, pc, held>>

-----------------------------------------------------------------------------
Finish(t) == LockCancelable(t) \/ Return(t) \/ CancelEnd(t) \/ DoYield(t) \/ DoSwitch(t)

Next ==
  \/ \E t \in Threads :
       \/ \E m \in All : LockFree(t, m) \/ LockBlocks(t, m) \/ CancelInit(t, m)
       \/ \E m \in Mutexes : ThreadUnlock(t, m) \/ UnlockAndSleep(t, m)
       \/ \E u \in Threads : ThreadCancel(t, u)
       \/ Sleep(t) \/ Finish(t) \/ IsrCancel(t) \/ IsrWakeup(t)
  \/ \E m \in Signals : IsrUnlock(m)
  \/ PendSV \/ EndIdle

Spec == Init /\ [][Next]_vars

(* The processor executes what is left of a call, serves its exceptions, and *)
(* the application holds no mutex for ever while it has the processor.      *)
Fairness == /\ WF_vars(PendSV) /\ WF_vars(EndIdle)
            /\ \A t \in Threads :
                 /\ WF_vars(Finish(t))
                 /\ WF_vars(\E m \in Mutexes : ThreadUnlock(t, m))

FairSpec == Spec /\ Fairness

-----------------------------------------------------------------------------
(* Properties                                                               *)

InCall(t, m) == pc[t].at \in {"block", "woken"} /\ pc[t].mutex = m
Waiters(m) == Elems(mtx[m].queue)

(* The lists of waiters stay well formed: a thread is in the list of the    *)
(* mutex it blocks on, once and in no other, exactly while its status is    *)
(* STATUS_MUTEX_BLOCKED, and only a locked mutex has waiters. The waiters   *)
(* share rq_entry with the runqueues, so a thread must never be on both.    *)
ListsConsistent ==
  /\ TypeOK
  /\ RunqueueOK(k) /\ OneRunning(k)
  /\ \A m \in All :
       /\ mtx[m].queue # <<>> => mtx[m].locked
       /\ \A i, j \in DOMAIN mtx[m].queue : mtx[m].queue[i] = mtx[m].queue[j] => i = j
       /\ \A t \in Threads :
            t \in Waiters(m) <=> k.status[t] = "MUTEX_BLOCKED" /\ InCall(t, m)

(* The lock call of t will return 0: mutex_unlock() has handed it the mutex. *)
Granted(t, m) == /\ InCall(t, m) /\ t \notin Waiters(m)
                 /\ ~(pc[t].mc /\ mc[t].cancelled)

Owners(m) == {t \in Threads : m \in held[t] \/ Granted(t, m)}

(* Mutual exclusion, counting the thread a mutex was handed to and that did *)
(* not run yet: mutex_unlock() leaves the mutex locked for it, so that no   *)
(* mutex_lock() or mutex_trylock() in between can take it as well.          *)
MutualExclusion ==
  \A m \in Mutexes : /\ Cardinality(Owners(m)) <= 1
                     /\ Owners(m) # {} => mtx[m].locked

(* "Otherwise the first thread_t is the one with the highest priority, as   *)
(* the list is sorted by priority": a thread that joins goes behind all of  *)
(* its priority or above, and no waiter is passed over for a lower one.     *)
Before(q, t, u) == \E i, j \in DOMAIN q : i < j /\ q[i] = t /\ q[j] = u

WaitersInOrder ==
  [][\A m \in All : LET q == mtx[m].queue
                        r == mtx'[m].queue
                    IN \A t \in Threads, u \in Elems(q) \cap Elems(r) :
       /\ t \in Elems(r) \ Elems(q) /\ k.prio[u] <= k.prio[t] => Before(r, u, t)
       /\ t \in Elems(q) \ Elems(r) /\ ~mc'[t].cancelled => Before(q, t, u) /\ k.prio[t] <= k.prio[u]
     ]_vars

(* A mutex that is locked is held by somebody who will unlock it, or by a   *)
(* call that will return 0. mutex.h says of -ECANCELED that the mutex was   *)
(* not locked by the call.                                                  *)
LockedIsHeld == \A m \in Mutexes : mtx[m].locked => Owners(m) # {}

(* "The scheduler must prefer the low priority thread over the mid priority *)
(* thread while it is holding the resource the high priority thread is      *)
(* waiting for": the holder of a mutex has at least its waiters' priority.  *)
HolderInherits ==
  PI => \A m \in Mutexes, h, w \in Threads :
          m \in held[h] /\ w \in Waiters(m) => k.prio[h] <= k.prio[w]

(* With no waiter left, every thread is back at its own priority.           *)
QuietMeansBase ==
  (\A m \in All : mtx[m].queue = <<>>) => k.prio = BasePrio

(* Priority inheritance bounds the wait of a thread above all others: it    *)
(* gets the mutex although a thread between the two, which never leaves the *)
(* processor by itself, is ready.                                           *)
Highest(t) == \A u \in Threads \ {t} : BasePrio[t] < BasePrio[u]

HighestGets ==
  \A t \in Threads, m \in Mutexes :
    Highest(t) /\ t \in Waiters(m) ~> m \in held[t]

(* A cancelled call ends: once mutex_cancel() set mc->cancelled, the thread *)
(* is not left in STATUS_MUTEX_BLOCKED, wherever in the call it was.        *)
CancelEndsWait ==
  \A t \in Threads : mc[t].cancelled => IsActive(k, t)
=============================================================================
