------------------------------ MODULE Monitor -------------------------------
(***************************************************************************)
(* Condition variables (core/cond.c) and recursive mutexes                  *)
(* (core/lib/rmutex.c), which are both built from the mutexes of module     *)
(* Mutex: a step of theirs is a step of a mutex, or a step of their own     *)
(* between two calls of it. pc[t] is where thread t is in the mutex call,   *)
(* doing[t] is where it is in the function around that call.                *)
(*                                                                          *)
(* The application is the use that cond.h documents: consumers take an item *)
(* in a loop around cond_wait(), producers add one and signal, all with the *)
(* mutex lock held; and users of the recursive mutex rec, who unlock it as  *)
(* often as they locked it.                                                 *)
(***************************************************************************)
EXTENDS Mutex

CONSTANTS lock,        \* the mutex of the condition variable
          rec,         \* the mutex inside the recursive mutex
          Consumers, Producers, Recursers,
          MaxItems,    \* bound: items that are there at the same time
          MaxDepth     \* bound: nested locks of the recursive mutex

ASSUME MonitorAssumption ==
  /\ lock # rec /\ {lock, rec} \subseteq Mutexes
  /\ Consumers \cup Producers \cup Recursers \subseteq Lockers
  /\ {MaxItems, MaxDepth} \subseteq Nat \ {0}

(* waiting: cond_t.queue. rm: owner and refcount of the rmutex_t. items: the *)
(* condition. nest[t]: locks of the recursive mutex that t has to unlock.   *)
VARIABLES waiting, rm, items, nest, doing
own == <<waiting, rm, items, nest, doing>>
monitorVars == <<vars, own>>

(* "switch" is before the sched_switch(prio) of _cond_signal(); the places  *)
(* in _lock() are before the load and the store of the owner and before the *)
(* increment, those in rmutex_unlock() before the store and mutex_unlock(). *)
Doing == {Simple(p) : p \in {"app", "test", "wait", "relock", "add", "signal", "leave",
                             "load", "tryload", "await", "store", "count", "reset", "release"}}
         \cup [at : {"switch"}, prio : Prios]

MonitorInit ==
  /\ Init
  /\ waiting = <<>>
  /\ rm = [owner |-> NoThread, refcount |-> 0]
  /\ items = 0
  /\ nest = [t \in Threads |-> 0]
  /\ doing = [t \in Threads |-> Simple("app")]

Do(t, p) == doing' = [doing EXCEPT ![t] = p]
(* Thread t executes the function around the mutex calls, at place p.       *)
Outside(t, p) == At(t, "run") /\ doing[t].at = p

-----------------------------------------------------------------------------
(* Condition variables.                                                     *)

(* Mutant of Join: behind all waiters, whatever their priority.             *)
JoinTail(s, t) == Append(waiting, t)

Join(s, t) == AddToList(s, waiting, t)

(* cond_wait(): mutex_unlock() with interrupts disabled, so that its yield  *)
(* is served at the irq_restore() only, then the thread blocks.             *)
CondWait(t) ==
  /\ Outside(t, "wait")
  /\ LET x        == mtx[lock]
         unlocked == IF x.queue = <<>> THEN k ELSE YieldHigher(Restore(Wake(k, x), x))
         blocked  == SetStatus(unlocked, t, "COND_BLOCKED")
     IN /\ k' = blocked
        /\ waiting' = Join(blocked, t)
  /\ mtx' = [mtx EXCEPT ![lock] = Passed(@)]
  /\ held' = [held EXCEPT ![t] = @ \ {lock}]
  /\ Go(t, [at |-> "yield"])
  /\ Do(t, Simple("relock"))
  /\ UNCHANGED <<mc, rm, items, nest>>

(* Mutants of WokenBy: the last waiter is left in the list, and the signal of *)
(* a single thread is lost when several wait.                               *)
WokenByButLast(broadcast) ==
  IF Len(waiting) < 2 THEN 0 ELSE IF broadcast THEN Len(waiting) ELSE 1
WokenByNoneOfMany(broadcast) ==
  IF broadcast \/ Len(waiting) < 2 THEN Len(waiting) ELSE 0

(* The number of threads that _cond_signal() takes from the list's head, ... *)
WokenBy(broadcast) == IF broadcast \/ waiting = <<>> THEN Len(waiting) ELSE 1

(* ... the threads, the state with all of them woken, and min_prio.         *)
Signalled(broadcast) == SubSeq(waiting, 1, WokenBy(broadcast))
Woken(s, q) ==
  LET woken[n \in 0 .. Len(q)] ==
        IF n = 0 THEN s ELSE SetStatus(woken[n - 1], q[n], "PENDING")
  IN woken[Len(q)]
MinPrio(q) == CHOOSE p \in {k.prio[t] : t \in Elems(q)} :
                \A t \in Elems(q) : p <= k.prio[t]

CondSignal(t, broadcast) ==
  /\ Outside(t, "signal")
  /\ LET q == Signalled(broadcast)
     IN /\ k' = Woken(k, q)
        /\ waiting' = SubSeq(waiting, Len(q) + 1, Len(waiting))
        /\ Do(t, IF q = <<>> THEN Simple("leave") ELSE [at |-> "switch", prio |-> MinPrio(q)])
  /\ UNCHANGED <<mtx, mc, pc, held, rm, items, nest>>

SignalSwitch(t) ==
  /\ Outside(t, "switch")
  /\ \E test \in SwitchTests(k, doing[t].prio) : k' = ThreadSwitch(k, test)
  /\ Do(t, Simple("leave"))
  /\ UNCHANGED <<mtx, mc, pc, held, waiting, rm, items, nest>>

(* cond_signal() and cond_broadcast() by an interrupt handler               *)
IsrSignal(broadcast) ==
  /\ waiting # <<>>
  /\ LET q == Signalled(broadcast)
         woken == Woken(k, q)
     IN /\ waiting' = SubSeq(waiting, Len(q) + 1, Len(waiting))
        /\ IF q = <<>> THEN k' = k
           ELSE \E test \in SwitchTests(woken, MinPrio(q)) : k' = IsrSwitch(woken, test)
  /\ UNCHANGED <<mtx, mc, pc, held, rm, items, nest, doing>>

-----------------------------------------------------------------------------
(* Recursive mutexes. The first argument of a mutex call is the mutex rec.  *)

(* The mutex_trylock() of _lock(); the depth is bounded.                    *)
RecTry(t, trylock) ==
  /\ Outside(t, "app") /\ t \in Recursers /\ nest[t] < MaxDepth
  /\ \/ LockFree(t, rec) /\ Do(t, Simple("store"))
     \/ /\ mtx[rec].locked
        /\ Do(t, Simple(IF trylock THEN "tryload" ELSE "load"))
        /\ UNCHANGED vars
  /\ UNCHANGED <<waiting, rm, items, nest>>

(* Mutant of RecLoad: the lock does not look at the owner.                  *)
RecLoadBlind(t) ==
  /\ Outside(t, "load") \/ Outside(t, "tryload")
  /\ Do(t, Simple(IF doing[t].at = "load" THEN "await" ELSE "app"))
  /\ UNCHANGED <<vars, waiting, rm, items, nest>>

(* The owner is read after the critical section of mutex_trylock(): when it *)
(* names another thread, rmutex_trylock() returns 0.                        *)
RecLoad(t) ==
  /\ Outside(t, "load") \/ Outside(t, "tryload")
  /\ Do(t, Simple(IF rm.owner = t THEN "store"
                  ELSE IF doing[t].at = "load" THEN "await" ELSE "app"))
  /\ UNCHANGED <<vars, waiting, rm, items, nest>>

(* mutex_lock(): it may have become free since.                             *)
RecAwait(t) ==
  /\ Outside(t, "await")
  /\ LockFree(t, rec) \/ LockBlocks(t, rec)
  /\ Do(t, Simple("store"))
  /\ UNCHANGED <<waiting, rm, items, nest>>

RecStore(t) ==
  /\ Outside(t, "store")
  /\ rm' = [rm EXCEPT !.owner = t]
  /\ Do(t, Simple("count"))
  /\ UNCHANGED <<vars, waiting, items, nest>>

RecCount(t) ==
  /\ Outside(t, "count")
  /\ rm' = [rm EXCEPT !.refcount = @ + 1]
  /\ nest' = [nest EXCEPT ![t] = @ + 1]
  /\ Do(t, Simple("app"))
  /\ UNCHANGED <<vars, waiting, items>>

(* rmutex_unlock(): the decrement, by a thread that has locked              *)
RecUnlock(t) ==
  /\ Outside(t, "app") /\ nest[t] > 0
  /\ rm' = [rm EXCEPT !.refcount = @ - 1]
  /\ nest' = [nest EXCEPT ![t] = @ - 1]
  /\ Do(t, Simple(IF rm.refcount = 1 THEN "reset" ELSE "app"))
  /\ UNCHANGED <<vars, waiting, items>>

(* Mutant of RecReset: the owner field still names the thread.              *)
RecResetKeeps(t) ==
  /\ Outside(t, "reset")
  /\ Do(t, Simple("release"))
  /\ UNCHANGED <<vars, waiting, rm, items, nest>>

RecReset(t) ==
  /\ Outside(t, "reset")
  /\ rm' = [rm EXCEPT !.owner = NoThread]
  /\ Do(t, Simple("release"))
  /\ UNCHANGED <<vars, waiting, items, nest>>

RecRelease(t) ==
  /\ Outside(t, "release")
  /\ ThreadUnlock(t, rec)
  /\ Do(t, Simple("app"))
  /\ UNCHANGED <<waiting, rm, items, nest>>

-----------------------------------------------------------------------------
(* The application of the condition variable, as cond.h shows it.           *)

Enter(t) ==
  /\ Outside(t, "app") /\ t \in Consumers \cup Producers
  /\ LockFree(t, lock) \/ LockBlocks(t, lock)
  /\ \/ t \in Consumers /\ Do(t, Simple("test"))
     \/ t \in Producers /\ Do(t, Simple("add"))
  /\ UNCHANGED <<waiting, rm, items, nest>>

Test(t) ==
  /\ Outside(t, "test")
  /\ IF items > 0 THEN items' = items - 1 /\ Do(t, Simple("leave"))
                  ELSE items' = items /\ Do(t, Simple("wait"))
  /\ UNCHANGED <<vars, waiting, rm, nest>>

(* A producer whose queue is full leaves; the documented one would wait on a *)
(* second condition variable in the same way.                               *)
Add(t) ==
  /\ Outside(t, "add")
  /\ IF items < MaxItems THEN items' = items + 1 /\ Do(t, Simple("signal"))
                         ELSE items' = items /\ Do(t, Simple("leave"))
  /\ UNCHANGED <<vars, waiting, rm, nest>>

(* Mutant of Relock: cond_wait() returns without its mutex_lock().          *)
RelockNot(t) ==
  /\ Outside(t, "relock")
  /\ Do(t, Simple("test"))
  /\ UNCHANGED <<vars, waiting, rm, items, nest>>

(* The mutex_lock() at the end of cond_wait()                               *)
Relock(t) ==
  /\ Outside(t, "relock")
  /\ LockFree(t, lock) \/ LockBlocks(t, lock)
  /\ Do(t, Simple("test"))
  /\ UNCHANGED <<waiting, rm, items, nest>>

Leave(t) ==
  /\ Outside(t, "leave")
  /\ ThreadUnlock(t, lock)
  /\ Do(t, Simple("app"))
  /\ UNCHANGED <<waiting, rm, items, nest>>

(* A thread with nothing to do sleeps until a handler wakes it up.          *)
Rest(t) == Outside(t, "app") /\ Sleep(t) /\ UNCHANGED own
Wakeup(t) == IsrWakeup(t) /\ UNCHANGED own

-----------------------------------------------------------------------------
(* Inside a mutex call: the yields and the return of module Mutex.          *)
InMutex(t) == (Return(t) \/ DoYield(t)) /\ UNCHANGED own
Processor == (PendSV \/ EndIdle) /\ UNCHANGED own

Continue(t) ==
  \/ InMutex(t) \/ Test(t) \/ Add(t) \/ Relock(t) \/ Leave(t)
  \/ CondWait(t) \/ SignalSwitch(t)
  \/ \E broadcast \in BOOLEAN : CondSignal(t, broadcast)
  \/ RecLoad(t) \/ RecAwait(t) \/ RecStore(t) \/ RecCount(t)
  \/ RecReset(t) \/ RecRelease(t)

MonitorNext ==
  \/ \E t \in Threads :
       \/ Enter(t) \/ Continue(t) \/ RecUnlock(t) \/ Rest(t) \/ Wakeup(t)
       \/ \E trylock \in BOOLEAN : RecTry(t, trylock)
  \/ \E broadcast \in BOOLEAN : IsrSignal(broadcast)
  \/ Processor

MonitorSpec == MonitorInit /\ [][MonitorNext]_monitorVars

(* A thread that has the processor continues the call it is in, and the     *)
(* processor serves its exceptions; nobody has to start a call.             *)
MonitorFairSpec ==
  /\ MonitorSpec
  /\ WF_monitorVars(Processor)
  /\ \A t \in Threads : WF_monitorVars(Continue(t))

-----------------------------------------------------------------------------
(* Properties                                                               *)

Waiting == Elems(waiting)

(* The entry of a thread is in one list at a time: in that of the condition *)
(* variable exactly while the thread is STATUS_COND_BLOCKED, in the order of *)
(* the priorities, and the mutex lists and the runqueues stay as they have  *)
(* to be although cond_wait() unlocks and blocks in one critical section.   *)
MonitorLists ==
  /\ ListsConsistent
  /\ items \in 0 .. MaxItems /\ nest \in [Threads -> 0 .. MaxDepth]
  /\ rm \in [owner : Threads \cup {NoThread}, refcount : 0 .. MaxDepth]
  /\ doing \in [Threads -> Doing]
  /\ Once(waiting)
  /\ \A t \in Threads : t \in Waiting <=> k.status[t] = "COND_BLOCKED"
  /\ \A i, j \in DOMAIN waiting : i < j => k.prio[waiting[i]] <= k.prio[waiting[j]]

(* No wakeup is lost: while a thread waits for the condition, every item is *)
(* matched by a thread that was woken and did not test yet, or by a producer *)
(* that is about to signal. A signal that came between the test and the     *)
(* entry into the list, or that woke nobody, would break it.                *)
OnTheWay == {t \in Threads \ Waiting : doing[t].at \in {"relock", "test", "signal"}}
NoLostWakeup ==
  waiting # <<>> => items <= Cardinality(OnTheWay)

(* cond_wait() gives the mutex back: whoever tests or changes the condition *)
(* holds it, and nobody else does.                                          *)
ConditionGuarded ==
  \A t \in Threads :
    doing[t].at \in {"test", "add", "signal", "switch", "leave", "wait"} /\ pc[t].at = "run"
      => lock \in held[t] /\ Owners(lock) = {t}

(* The recursive mutex implements the reentrant lock. It is taken when the  *)
(* inner mutex is, or when the owner was read, and given up by the inner    *)
(* mutex_unlock(), although owner and refcount are changed in between by    *)
(* steps that other threads and their reads of the owner interleave with.   *)
Holder == IF Owners(rec) = {} THEN NoThread ELSE CHOOSE t \in Threads : t \in Owners(rec)
Depth == IF Holder = NoThread THEN 0
         ELSE rm.refcount + (IF doing[Holder].at \in {"store", "count", "reset", "release"}
                             THEN 1 ELSE 0)
Abstract == INSTANCE Reentrant WITH Users <- Threads, Nobody <- NoThread,
                                    holder <- Holder, depth <- Depth
RecursiveMutex == Abstract!Spec

(* A thread that holds the recursive mutex gets it again at once: it never  *)
(* waits for itself and is never refused, and what it has to unlock is what *)
(* the mutex has counted.                                                   *)
HolderNests ==
  \A t \in Threads : nest[t] > 0 =>
    /\ Holder = t /\ rm.refcount = nest[t] /\ rm.owner = t
    /\ doing[t].at # "await" /\ ~InCall(t, rec)

(* The waiter above all other threads does not stay in the list while there *)
(* is an item: the signal wakes it first.                                   *)
HighestWaits == \E t \in Waiting : Highest(t)
WaiterWoken == HighestWaits /\ items > 0 ~> ~HighestWaits \/ items = 0
=============================================================================
