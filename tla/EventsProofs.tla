---------------------------- MODULE EventsProofs ----------------------------
(***************************************************************************)
(* Theorems of module Events, for every number of threads, events and       *)
(* queues: a wait for thread flags ends when and only when they are set, no *)
(* post is lost or slept through, and event_sync() is a barrier.            *)
(***************************************************************************)
EXTENDS Events, MutexProofs

(* Where the looper and where the other threads may be. Only threads that   *)
(* call event_sync() use a mutex, and none moves in its own code while it is *)
(* inside a call of the kernel.                                             *)
LooperPlaces == {"claim", "choose", "multi", "multiwait", "multiclear", "handle", "set", "get",
                 "unlink", "remove", "timewait", "timeclear"}
SyncPlaces == {"sync", "syncflag", "synclock"}
OtherPlaces == {"app", "flag", "one", "onetake", "oneclear", "all", "allclear"} \cup SyncPlaces

Roles ==
  /\ act[Looper].at \in LooperPlaces
  /\ \A t \in Threads \ {Looper} :
       /\ act[t].at \in OtherPlaces
       /\ act[t].at \in SyncPlaces => t \in Syncers
       /\ act[t].at \in {"flag", "syncflag"} => act[t].thread = Looper
  /\ \A t \in Threads :
       /\ pc[t].at \in {"run", "yield", "block", "woken"}
       /\ pc[t].at \in {"block", "woken"} => InCall(t, synced) /\ ~pc[t].mc /\ act[t].at = "app"

(* The queues are claimed one after the other, and then have their waiter.  *)
Claimed ==
  IF act[Looper].at = "claim"
  THEN \E n \in Queues : \A q \in Queues : waiter[q] = IF q < n THEN Looper ELSE NoThread
  ELSE \A q \in Queues : waiter[q] = Looper

EventTypes ==
  /\ flags \in [Threads -> SUBSET Flags] /\ mask \in [Threads -> SUBSET Flags]
  /\ act \in [Threads -> Acts] /\ timer \in BOOLEAN
  /\ inhand \in AllEvs \cup {NoEv}
  /\ queue \in [Queues -> Seq(AllEvs)] /\ waiter \in [Queues -> Threads \cup {NoThread}]
  /\ linked \subseteq AllEvs /\ owed \subseteq AllEvs /\ ahead \subseteq AllEvs

(* What a thread with status s, flags f and mask m that is at place p may   *)
(* be: in a wait that its flags do not end, or past one that they did end.  *)
Awaited(p) ==
  IF p = "multiclear" THEN {EventFlag}
  ELSE IF p = "timeclear" THEN {EventFlag, TimeoutFlag} ELSE AppFlags

WaitOK(s, f, m, p) ==
  /\ s \in {"RUNNING", "PENDING", "SLEEPING", "MUTEX_BLOCKED", "FLAG_BLOCKED_ANY", "FLAG_BLOCKED_ALL"}
  /\ s = "SLEEPING" => p \in {"claim", "app"}
  /\ s = "MUTEX_BLOCKED" => p = "app"
  /\ s = "FLAG_BLOCKED_ANY" =>
       p \in {"multiclear", "timeclear", "onetake"} /\ m = Awaited(p) /\ f \cap m = {}
  /\ s = "FLAG_BLOCKED_ALL" => p = "allclear" /\ m = AppFlags /\ ~(m \subseteq f)
  /\ s \in {"RUNNING", "PENDING"} =>
       /\ p \in {"multiclear", "timeclear", "onetake"} => f \cap Awaited(p) # {}
       /\ p = "allclear" => AppFlags \subseteq f

FlagWaits == \A t \in Threads : WaitOK(k.status[t], flags[t], mask[t], act[t].at)

(* A looper that waits, or that found nothing and is about to wait, has its *)
(* flag set or will have it set for every event that was posted since.      *)
Deaf ==
  \/ act[Looper].at \in {"multiwait", "timewait"} /\ EventFlag \notin flags[Looper]
  \/ act[Looper].at \in {"multiclear", "timeclear"} /\ k.status[Looper] = "FLAG_BLOCKED_ANY"
Looked == IF act[Looper].at \in {"multiwait", "multiclear"} THEN Queues ELSE {1}
Flagging == \E t \in Threads : act[t].at \in {"flag", "syncflag"}
Noticed == Deaf /\ (\E q \in Looked : queue[q] # <<>>) => Flagging

(* An event is in the queue it is posted to, or in the hand of the looper.  *)
Queued(e) == e \in Elems(queue[QueueOf[e]])
InHand == act[Looper].at \in {"unlink", "remove", "handle"}
EventsKept ==
  /\ inhand # NoEv <=> InHand
  /\ \A q \in Queues : \A e \in Elems(queue[q]) : QueueOf[e] = q
  /\ \A e \in linked : Queued(e) \/ (act[Looper].at = "unlink" /\ e = inhand)
  /\ \A e \in owed : Queued(e) \/ e = inhand

(* One thread at a time is in event_sync(). Its event is in a queue at most *)
(* once, and while it is, or the looper has it, the thread has still to wait *)
(* for the mutex or waits for it; only the handler unlocks the mutex.       *)
Syncing(t) == act[t].at \in SyncPlaces \/ InCall(t, synced)
Out == Queued(SyncEv) \/ inhand = SyncEv
Posted(t) == act[t].at \in {"syncflag", "synclock"}
OneSync(q) == \A i, j \in DOMAIN q : q[i] = SyncEv /\ q[j] = SyncEv => i = j
SyncOnce ==
  /\ \A t, u \in Threads : Syncing(t) /\ Syncing(u) => t = u
  /\ Out => mtx[synced].locked /\ \E t \in Threads : Posted(t) \/ t \in Waiters(synced)
  /\ ~mtx[synced].locked => \E t \in Threads : Posted(t)
  /\ inhand = SyncEv => ~Queued(SyncEv)
  /\ OneSync(queue[QueueOf[SyncEv]])

(* What was in front of the event of event_sync() is still in front of it,  *)
(* or in the hand of the looper.                                            *)
InFront(q, S, e) ==
  \A i \in DOMAIN q : q[i] = SyncEv =>
    \A f \in S : f = e \/ \E j \in DOMAIN q : j < i /\ q[j] = f
AheadKept ==
  /\ InFront(queue[QueueOf[SyncEv]], ahead, inhand)
  /\ inhand = SyncEv => ahead = {}

EventsInv ==
  /\ MutexInv /\ EventTypes /\ Roles /\ Claimed /\ FlagWaits /\ Noticed
  /\ EventsKept /\ SyncOnce /\ AheadKept

(* No other thread cancels an event that event_get() may be taking.         *)
CancelsAreOwn == \A c \in Cancels : c[1] # Looper => QueueOf[c[2]] # 1

Linked ==
  /\ \A q \in Queues : Once(queue[q])
  /\ \A q \in Queues : Elems(queue[q]) \subseteq linked
  /\ act[Looper].at = "unlink" => /\ inhand \in linked /\ ~Queued(inhand) /\ QueueOf[inhand] = 1

-----------------------------------------------------------------------------
(* The scheduler and the mutex                                              *)

(* Between two calls of the kernel its state does not change.               *)
LEMMA KernelUnchanged ==
  ASSUME MutexInv, UNCHANGED vars
  PROVE  MutexInv'
BY DEF vars, MutexInv, TypeOK, Lists, Owned, Owner, Rests, AtWork, Cancelling,
       Waiters, InCall, Granted

(* The steps that are the kernel's own leave a thread blocked where it is,  *)
(* or let it sleep between two posts, and a call of mutex_lock() goes on.   *)
Goes(u) ==
  /\ \/ k'.status[u] = k.status[u]
     \/ k.status[u] \in OnRunqueue /\ k'.status[u] \in OnRunqueue
     \/ k.status[u] = "SLEEPING" /\ k'.status[u] = "PENDING"
     \/ k'.status[u] = "SLEEPING" /\ act[u].at = "app"
  /\ \/ pc'[u].at \in {"run", "yield"} /\ pc[u].at \notin {"block"}
     \/ /\ pc[u].at \in {"block", "woken"} /\ pc'[u].at \in {"block", "woken"}
        /\ pc'[u].mutex = pc[u].mutex /\ pc'[u].mc = pc[u].mc

(* Where the calls of core/mutex.c leave a thread of this image, and what    *)
(* the invariant says of its record there.                                   *)
LEMMA PlacesAre ==
  ASSUME EventsInv, NEW t \in Threads
  PROVE  /\ pc[t].at \in {"run", "yield", "block", "woken"}
         /\ pc[t].at \in {"block", "woken"} =>
              pc[t] \in [at : {"block", "woken"}, mutex : All, mc : BOOLEAN] /\ ~pc[t].mc
         /\ k.status \in [Threads -> Status] /\ KernelInv(k) /\ MutexInv /\ TypeOK
BY DEF EventsInv, Roles, MutexInv, TypeOK, Places, Simple, KernelInv, KernelType

(* A step of the scheduler or of core/mutex.c keeps its invariant, touches    *)
(* nothing of the events and changes a thread only as Goes says.             *)
LEMMA KernelSteps ==
  ASSUME EventsInv, NEW t \in Threads,
         InKernel(t) \/ EventProcessor \/ HandlerWakeup(t) \/ AppSleep(t)
  PROVE  MutexInv' /\ mtx' = mtx /\ UNCHANGED eventVars /\ \A u \in Threads : Goes(u)
<1>0. /\ MutexInv /\ KernelInv(k) /\ k.status \in [Threads -> Status] /\ pc \in [Threads -> Places]
      /\ \A u \in Threads :
           /\ pc[u].at \in {"run", "yield", "block", "woken"}
           /\ pc[u].at \in {"block", "woken"} =>
                pc[u] \in [at : {"block", "woken"}, mutex : All, mc : BOOLEAN] /\ ~pc[u].mc
  BY PlacesAre DEF TypeOK
<1>1. CASE InKernel(t) /\ Return(t)
  <2>1. MutexInv' /\ UNCHANGED <<k, mtx, eventVars>>
    BY <1>0, <1>1, ReturnKeeps DEF Return, InKernel
  <2>2. pc[t].at = "woken" /\ pc' = [pc EXCEPT ![t] = Simple("run")]
    BY <1>0, <1>1 DEF Return, At, Go
  <2>3. pc'[t].at = "run" /\ \A u \in Threads \ {t} : pc'[u] = pc[u]
    BY <1>0, <2>2 DEF Simple
  <2> QED BY <1>0, <2>1, <2>2, <2>3 DEF Goes
<1>2. CASE InKernel(t) /\ DoYield(t)
  <2>1. MutexInv' /\ UNCHANGED <<mtx, eventVars>> /\ k'.status = k.status
    BY <1>0, <1>2, DoYieldKeeps, YieldEffect DEF DoYield, InKernel
  <2>2. /\ pc[t].at \in {"block", "yield"}
        /\ pc' = [pc EXCEPT ![t] = IF pc[t].at = "block" THEN [pc[t] EXCEPT !.at = "woken"]
                                   ELSE Simple("run")]
    BY <1>2 DEF DoYield, Go
  <2>3. ASSUME NEW u \in Threads PROVE Goes(u)
    <3>1. CASE u # t
      BY <1>0, <2>1, <2>2, <3>1 DEF Goes
    <3>2. CASE u = t /\ pc[t].at = "block"
      BY <1>0, <2>1, <2>2, <3>2 DEF Goes
    <3>3. CASE u = t /\ pc[t].at = "yield"
      BY <1>0, <2>1, <2>2, <3>3 DEF Goes, Simple
    <3> QED BY <2>2, <3>1, <3>2, <3>3
  <2> QED BY <2>1, <2>3
<1>3. CASE EventProcessor
  <2>1. MutexInv' /\ UNCHANGED <<mtx, pc, eventVars>>
    BY <1>0, <1>3, PendSVKeeps, EndIdleKeeps DEF EventProcessor, PendSV, EndIdle
  <2>2. \A u \in Threads : /\ k'.status[u] \in OnRunqueue <=> k.status[u] \in OnRunqueue
                           /\ k'.status[u] \notin OnRunqueue => k'.status[u] = k.status[u]
    <3>1. CASE PendSV
      BY <1>0, <3>1, SchedRunEffect DEF PendSV
    <3>2. CASE EndIdle
      BY <1>0, <3>2, DispatchEffect DEF EndIdle, IdleReturn
    <3> QED BY <1>3, <3>1, <3>2 DEF EventProcessor
  <2> QED BY <1>0, <2>1, <2>2 DEF Goes
<1>4. CASE HandlerWakeup(t)
  <2> DEFINE n == SetStatus(k, t, "PENDING")
  <2>1. MutexInv' /\ UNCHANGED <<mtx, pc, eventVars>> /\ k.status[t] = "SLEEPING"
    BY <1>0, <1>4, IsrWakeupKeeps DEF HandlerWakeup, IsrWakeup
  <2>2. KernelInv(n) /\ \A u \in Threads : n.status[u] = IF u = t THEN "PENDING" ELSE k.status[u]
    BY <1>0, StatusSet, KernelTypes
  <2> HIDE DEF n
  <2>3. \E test \in BOOLEAN : k' = IsrSwitch(n, test)
    BY <1>4 DEF HandlerWakeup, IsrWakeup, SwitchTests, n
  <2>4. k'.status = n.status
    BY <2>2, <2>3, SwitchEffect
  <2> QED BY <1>0, <2>1, <2>2, <2>4 DEF Goes
<1>5. CASE AppSleep(t)
  <2>1. MutexInv' /\ UNCHANGED <<mtx, eventVars>> /\ act[t].at = "app"
    BY <1>0, <1>5, SleepKeeps DEF AppSleep, Sleep, Acting
  <2>2. \A u \in Threads : k'.status[u] = IF u = t THEN "SLEEPING" ELSE k.status[u]
    <3>1. k' = SetStatus(k, t, "SLEEPING") /\ "SLEEPING" \in Status \ {"RUNNING"}
      BY <1>0, <1>5, KernelTypes DEF AppSleep, Sleep
    <3> QED BY <1>0, <3>1, StatusSet
  <2>3. pc[t].at = "run" /\ pc' = [pc EXCEPT ![t] = Simple("yield")]
    BY <1>5 DEF AppSleep, Sleep, At, Go
  <2>4. pc'[t].at = "yield" /\ \A u \in Threads \ {t} : pc'[u] = pc[u]
    BY <1>0, <2>3 DEF Simple
  <2> QED BY <1>0, <2>1, <2>2, <2>3, <2>4 DEF Goes
<1> QED BY <1>1, <1>2, <1>3, <1>4, <1>5 DEF InKernel

(* Those steps keep what is said of the waits, the calls and event_sync().  *)
LEMMA KernelStepsKeep ==
  ASSUME EventsInv, NEW t \in Threads,
         InKernel(t) \/ EventProcessor \/ HandlerWakeup(t) \/ AppSleep(t)
  PROVE  EventsInv'
<1>1. MutexInv' /\ mtx' = mtx /\ UNCHANGED eventVars /\ \A u \in Threads : Goes(u)
  BY KernelSteps
<1>2. EventTypes' /\ Claimed' /\ EventsKept' /\ AheadKept'
  <2>1. UNCHANGED <<flags, mask, queue, linked, waiter, inhand, owed, ahead, timer, act>>
    BY <1>1 DEF eventVars, flagVars, queueVars
  <2>2. EventTypes'
    BY <2>1 DEF EventsInv, EventTypes
  <2>3. Claimed'
    BY <2>1 DEF EventsInv, Claimed
  <2>4. EventsKept'
    BY <2>1 DEF EventsInv, EventsKept, InHand, Queued
  <2>5. AheadKept'
    <3>1. AheadKept
      BY DEF EventsInv
    <3>2. queue' = queue /\ inhand' = inhand /\ ahead' = ahead
      BY <2>1
    <3> QED BY <3>1, <3>2 DEF AheadKept
  <2> QED BY <2>2, <2>3, <2>4, <2>5
<1>3. \A u \in Threads : InCall(u, synced)' => InCall(u, synced)
  BY <1>1 DEF Goes, InCall
<1>4. Roles'
  BY <1>1 DEF EventsInv, Roles, Goes, InCall, eventVars
<1>5. FlagWaits'
  BY <1>1 DEF EventsInv, FlagWaits, WaitOK, Goes, OnRunqueue, eventVars, flagVars
<1>6. Noticed'
  <2>1. Looper \in Threads
    BY EventsAssumption DEF EventsAssumption
  <2>2. k'.status[Looper] = "FLAG_BLOCKED_ANY" => k.status[Looper] = "FLAG_BLOCKED_ANY"
    BY <1>1, <2>1 DEF Goes, OnRunqueue
  <2> QED BY <1>1, <2>2 DEF EventsInv, Noticed, Deaf, Looked, Flagging, eventVars, flagVars, queueVars
<1>7. SyncOnce'
  BY <1>1, <1>3 DEF EventsInv, SyncOnce, Syncing, Out, Posted, Queued, Waiters,
                    eventVars, queueVars
<1> QED BY <1>1, <1>2, <1>4, <1>5, <1>6, <1>7 DEF EventsInv

-----------------------------------------------------------------------------
(* Thread flags                                                             *)

(* A thread that executes its own code is on a runqueue.                    *)
LEMMA Awake ==
  ASSUME EventsInv, NEW t \in Threads, At(t, "run")
  PROVE  /\ k.status[t] \in OnRunqueue /\ Executes(k, t) /\ pc[t].at = "run"
         /\ ~InCall(t, synced)
BY Working DEF EventsInv, At, IsActive, InCall

(* thread_flags_set(): its critical section ends the wait of the thread, if *)
(* the flags are enough, and no other wait.                                 *)
LEMMA RaiseEffect ==
  ASSUME EventsInv, NEW w \in Threads, NEW m \in SUBSET Flags
  PROVE  LET n == AfterRaise(w, m)
         IN /\ KernelInv(n) /\ n.active = k.active /\ n.idle = k.idle /\ n.pendsv = k.pendsv
            /\ \A u \in Threads :
                 n.status[u] = IF u = w /\ Ends(w, flags[w] \cup m) THEN "PENDING" ELSE k.status[u]
<1>0. KernelInv(k) /\ "PENDING" \in Status \ {"RUNNING"}
  BY KernelTypes DEF EventsInv, MutexInv
<1>1. CASE ~Ends(w, flags[w] \cup m)
  BY <1>0, <1>1 DEF AfterRaise
<1>2. CASE Ends(w, flags[w] \cup m)
  <2> DEFINE s == SetStatus(k, w, "PENDING")
             n == [s EXCEPT !.csr = TRUE]
  <2>1. /\ KernelInv(s) /\ s.active = k.active /\ s.idle = k.idle /\ s.pendsv = k.pendsv
        /\ \A u \in Threads : s.status[u] = IF u = w THEN "PENDING" ELSE k.status[u]
    BY <1>0, StatusSet
  <2>2. AfterRaise(w, m) = n
    BY <1>2 DEF AfterRaise
  <2> HIDE DEF s
  <2>3. s \in KernelType
    BY <2>1 DEF KernelInv
  <2>4. /\ n \in KernelType /\ n.status = s.status /\ n.prio = s.prio /\ n.runq = s.runq
        /\ n.bitcache = s.bitcache /\ n.active = s.active /\ n.idle = s.idle /\ n.pendsv = s.pendsv
    BY <2>3 DEF KernelType
  <2> HIDE DEF n
  <2>5. KernelInv(n)
    BY <2>1, <2>4, FrameInv
  <2> QED BY <1>2, <2>1, <2>2, <2>4, <2>5
<1> QED BY <1>1, <1>2

(* What thread_flags_set() changes for the thread w; the caller, if it is a *)
(* thread, goes on in the same call or yields.                              *)
Raises(w, m) ==
  /\ flags' = Raised(w, m) /\ WaitOver(w, m)
  /\ k'.status[w] = IF Ends(w, flags[w] \cup m) THEN "PENDING" ELSE k.status[w]
  /\ \A u \in Threads \ {w} : k'.status[u] = k.status[u]
  /\ \A u \in Threads : pc'[u] = pc[u] \/ (pc[u].at = "run" /\ pc'[u].at \in {"run", "yield"})

(* thread_flags_set() and thread_flags_set_internal() by a thread or by a    *)
(* handler raise the flags, whoever is woken by them.                        *)
LEMMA RaiseKeeps ==
  ASSUME EventsInv, NEW w \in Threads, NEW m \in SUBSET Flags,
         \/ IsrSetFlags(w, m)
         \/ \E t \in Threads : At(t, "run") /\ ThreadSetFlags(t, w, m)
  PROVE  MutexInv' /\ Raises(w, m) /\ mtx' = mtx
<1> DEFINE n == AfterRaise(w, m)
<1>0. MutexInv /\ KernelInv(k) /\ TypeOK
  BY DEF EventsInv, MutexInv
<1>1. /\ KernelInv(n) /\ n.active = k.active /\ n.idle = k.idle /\ n.pendsv = k.pendsv
      /\ \A u \in Threads :
           n.status[u] = IF u = w /\ Ends(w, flags[w] \cup m) THEN "PENDING" ELSE k.status[u]
  BY RaiseEffect
<1>2. ~Ends(w, flags[w] \cup m) => n = k
  BY DEF AfterRaise
<1>3. /\ flags' = Raised(w, m) /\ WaitOver(w, m) /\ UNCHANGED <<mtx, mc, held>>
      /\ \/ k' = n
         \/ k' = YieldHigher(n)
  BY <1>2 DEF IsrSetFlags, ThreadSetFlags
<1> HIDE DEF n
<1>4. /\ pc' \in [Threads -> Places]
      /\ \A u \in Threads : pc'[u] = pc[u] \/ (pc[u].at = "run" /\ pc'[u].at \in {"run", "yield"})
  <2>1. CASE IsrSetFlags(w, m)
    BY <1>0, <2>1 DEF IsrSetFlags, TypeOK
  <2>2. CASE \E t \in Threads : At(t, "run") /\ ThreadSetFlags(t, w, m)
    <3>1. PICK t \in Threads : At(t, "run") /\ ThreadSetFlags(t, w, m)
      BY <2>2
    <3>2. PICK p \in {"run", "yield"} : pc' = [pc EXCEPT ![t] = Simple(p)]
      BY <3>1 DEF ThreadSetFlags, Go
    <3>3. Simple(p) \in Places /\ Simple(p).at = p
      BY DEF Simple, Places
    <3> QED BY <1>0, <3>1, <3>2, <3>3 DEF TypeOK, At
  <2> QED BY <2>1, <2>2
<1>5. /\ KernelInv(k') /\ k'.active = k.active /\ k'.idle = k.idle /\ k'.status = n.status
      /\ k.pendsv => k'.pendsv
  BY <1>1, <1>3, YieldHigherInv, YieldEffect
<1>6. Ends(w, flags[w] \cup m) => k.status[w] \in {"FLAG_BLOCKED_ANY", "FLAG_BLOCKED_ALL"}
  BY DEF Ends
<1>7. Lists' /\ Owned'
  BY <1>0, <1>1, <1>3, <1>4, <1>5, <1>6, ListsKept
<1>8. Rests' /\ AtWork' /\ Cancelling'
  BY <1>0, <1>1, <1>3, <1>4, <1>5, ReadierKeeps
<1>9. MutexInv'
  BY <1>0, <1>3, <1>4, <1>5, <1>7, <1>8 DEF MutexInv, TypeOK, KernelInv
<1> QED BY <1>1, <1>3, <1>4, <1>5, <1>9 DEF Raises

(* A raise keeps every wait honoured: it ends the wait it is enough for, and *)
(* the others' flags and waits are as they were.                            *)
LEMMA RaiseWaits ==
  ASSUME EventsInv, NEW w \in Threads, NEW m \in SUBSET Flags, Raises(w, m),
         \A u \in Threads :
           \/ act'[u].at = act[u].at
           \/ k.status[u] \in OnRunqueue /\ act'[u].at \in {"app", "synclock"}
  PROVE  FlagWaits' /\ flags' \in [Threads -> SUBSET Flags] /\ mask' \in [Threads -> SUBSET Flags]
<1>1. flags \in [Threads -> SUBSET Flags] /\ mask \in [Threads -> SUBSET Flags]
  BY DEF EventsInv, EventTypes
<1>2. /\ flags' = [flags EXCEPT ![w] = flags[w] \cup m]
      /\ mask' = [mask EXCEPT ![w] = IF Ends(w, flags[w] \cup m) THEN {} ELSE mask[w]]
  BY DEF Raises, Raised, WaitOver
<1>3. /\ flags' \in [Threads -> SUBSET Flags] /\ mask' \in [Threads -> SUBSET Flags]
      /\ flags'[w] = flags[w] \cup m
      /\ mask'[w] = IF Ends(w, flags[w] \cup m) THEN {} ELSE mask[w]
      /\ \A u \in Threads \ {w} : flags'[u] = flags[u] /\ mask'[u] = mask[u]
  BY <1>1, <1>2
<1>4. ASSUME NEW u \in Threads
      PROVE  WaitOK(k'.status[u], flags'[u], mask'[u], act'[u].at)
  <2>1. WaitOK(k.status[u], flags[u], mask[u], act[u].at)
    BY DEF EventsInv, FlagWaits
  <2>2. WaitOK(k.status[u], flags[u], mask[u], act'[u].at)
    BY <2>1 DEF WaitOK, OnRunqueue
  <2>3. CASE u # w
    BY <1>3, <2>2, <2>3 DEF Raises
  <2>4. CASE u = w /\ Ends(w, flags[w] \cup m)
    <3>1. k'.status[w] = "PENDING" /\ act'[w].at = act[w].at
      BY <2>4 DEF Raises, Ends, OnRunqueue
    <3> QED BY <1>3, <2>1, <2>4, <3>1 DEF WaitOK, Ends
  <2>5. CASE u = w /\ ~Ends(w, flags[w] \cup m)
    <3>1. k'.status[w] = k.status[w]
      BY <2>5 DEF Raises
    <3> QED BY <1>3, <2>2, <2>5, <3>1 DEF WaitOK, Ends
  <2> QED BY <2>3, <2>4, <2>5
<1> QED BY <1>3, <1>4 DEF FlagWaits

(* _thread_flags_wait_any() and thread_flags_wait_all(): the thread blocks, *)
(* or has the flags it asked for.                                           *)
LEMMA WaitKeeps ==
  ASSUME EventsInv, NEW t \in Threads, At(t, "run"), NEW m \in SUBSET Flags,
         NEW status \in {"FLAG_BLOCKED_ANY", "FLAG_BLOCKED_ALL"}, NEW enough \in BOOLEAN,
         WaitFlags(t, m, status, enough)
  PROVE  /\ MutexInv' /\ UNCHANGED <<mtx, flags>>
         /\ k'.status[t] = IF enough THEN k.status[t] ELSE status
         /\ mask'[t] = IF enough THEN mask[t] ELSE m
         /\ \A u \in Threads \ {t} : k'.status[u] = k.status[u] /\ mask'[u] = mask[u]
         /\ \A u \in Threads : pc'[u] = pc[u] \/ (pc[u].at = "run" /\ pc'[u].at \in {"run", "yield"})
         /\ mask' \in [Threads -> SUBSET Flags]
<1>0. /\ MutexInv /\ KernelInv(k) /\ TypeOK /\ status \in Status \ {"RUNNING"}
      /\ mask \in [Threads -> SUBSET Flags] /\ pc[t].at = "run"
      /\ k.status[t] # "MUTEX_BLOCKED"
  BY Awake DEF EventsInv, MutexInv, Status, OnRunqueue, Blocked, EventTypes
<1>1. CASE enough
  <2>1. UNCHANGED <<k, pc, mask, flags, mtx, mc, held>>
    BY <1>1 DEF WaitFlags
  <2>2. MutexInv'
    BY <1>0, <2>1, KernelUnchanged DEF vars
  <2> QED BY <1>0, <1>1, <2>1, <2>2
<1>2. CASE ~enough
  <2>1. /\ k' = SetStatus(k, t, status) /\ mask' = [mask EXCEPT ![t] = m]
        /\ pc' = [pc EXCEPT ![t] = Simple("yield")] /\ UNCHANGED <<flags, mtx, mc, held>>
    BY <1>2 DEF WaitFlags, Go
  <2>2. /\ KernelInv(k') /\ k'.active = k.active /\ k'.idle = k.idle /\ k'.pendsv = k.pendsv
        /\ \A u \in Threads : k'.status[u] = IF u = t THEN status ELSE k.status[u]
    BY <1>0, <2>1, StatusSet
  <2>3. Simple("yield") \in Places /\ Simple("yield").at = "yield"
    BY DEF Simple, Places
  <2>4. /\ pc' \in [Threads -> Places] /\ pc'[t].at = "yield"
        /\ \A u \in Threads : pc'[u] = pc[u] \/ (pc[u].at = "run" /\ pc'[u].at \in {"run", "yield"})
    BY <1>0, <2>1, <2>3 DEF TypeOK
  <2>5. Lists' /\ Owned'
    BY <1>0, <2>1, <2>2, <2>4, ListsKept
  <2>6. Rests' /\ AtWork' /\ Cancelling'
    BY <1>0, <2>1, <2>2, <2>4, ReadierKeeps
  <2>7. MutexInv'
    BY <1>0, <2>1, <2>2, <2>4, <2>5, <2>6 DEF MutexInv, TypeOK, KernelInv
  <2> QED BY <1>0, <1>2, <2>1, <2>2, <2>4, <2>7
<1> QED BY <1>1, <1>2

(* The waits stay honoured when the thread that executes clears flags of    *)
(* its own or moves to a place that is not behind a wait, ...               *)
LEMMA MoveWaits ==
  ASSUME EventsInv, NEW t \in Threads, At(t, "run"),
         act'[t].at \notin {"multiclear", "timeclear", "onetake", "allclear"},
         \A u \in Threads \ {t} : act'[u] = act[u] /\ flags'[u] = flags[u],
         mask' = mask, k' = k
  PROVE  FlagWaits'
<1>1. k.status[t] \in OnRunqueue
  BY Awake
<1> QED BY <1>1 DEF EventsInv, FlagWaits, WaitOK, OnRunqueue

(* ... and when it waits for the flags of the place that it moves to.       *)
LEMMA WaitWaits ==
  ASSUME EventsInv, NEW t \in Threads, At(t, "run"), NEW p, act'[t].at = p,
         \/ p \in {"multiclear", "timeclear", "onetake"} /\ WaitAny(t, Awaited(p))
         \/ p = "allclear" /\ WaitAll(t, AppFlags),
         \A u \in Threads \ {t} : act'[u] = act[u]
  PROVE  /\ MutexInv' /\ FlagWaits' /\ UNCHANGED <<mtx, flags>>
         /\ mask' \in [Threads -> SUBSET Flags]
         /\ \A u \in Threads : pc'[u] = pc[u] \/ (pc[u].at = "run" /\ pc'[u].at \in {"run", "yield"})
         /\ p = "allclear" \/ (k'.status[t] = "FLAG_BLOCKED_ANY" => flags[t] \cap Awaited(p) = {})
         /\ \A u \in Threads \ {t} : k'.status[u] = k.status[u]
<1>0. k.status[t] \in OnRunqueue /\ AppFlags \in SUBSET Flags
  BY Awake DEF Flags
<1>1. CASE p \in {"multiclear", "timeclear", "onetake"} /\ WaitAny(t, Awaited(p))
  <2>1. Awaited(p) \in SUBSET Flags
    BY DEF Awaited, Flags
  <2> DEFINE enough == flags[t] \cap Awaited(p) # {}
  <2>2. enough \in BOOLEAN /\ WaitFlags(t, Awaited(p), "FLAG_BLOCKED_ANY", enough)
    BY <1>1 DEF WaitAny
  <2>3. /\ MutexInv' /\ UNCHANGED <<mtx, flags>>
        /\ k'.status[t] = IF enough THEN k.status[t] ELSE "FLAG_BLOCKED_ANY"
        /\ mask'[t] = IF enough THEN mask[t] ELSE Awaited(p)
        /\ \A u \in Threads \ {t} : k'.status[u] = k.status[u] /\ mask'[u] = mask[u]
        /\ \A u \in Threads : pc'[u] = pc[u] \/ (pc[u].at = "run" /\ pc'[u].at \in {"run", "yield"})
        /\ mask' \in [Threads -> SUBSET Flags]
    BY <2>1, <2>2, WaitKeeps
  <2>4. WaitOK(k'.status[t], flags[t], mask'[t], p)
    BY <1>0, <1>1, <2>3 DEF WaitOK, OnRunqueue
  <2>5. FlagWaits'
    BY <2>3, <2>4 DEF EventsInv, FlagWaits
  <2> QED BY <1>0, <2>3, <2>5 DEF OnRunqueue
<1>2. CASE p = "allclear" /\ WaitAll(t, AppFlags)
  <2> DEFINE enough == AppFlags \subseteq flags[t]
  <2>2. enough \in BOOLEAN /\ WaitFlags(t, AppFlags, "FLAG_BLOCKED_ALL", enough)
    BY <1>2 DEF WaitAll
  <2>3. /\ MutexInv' /\ UNCHANGED <<mtx, flags>>
        /\ k'.status[t] = IF enough THEN k.status[t] ELSE "FLAG_BLOCKED_ALL"
        /\ mask'[t] = IF enough THEN mask[t] ELSE AppFlags
        /\ \A u \in Threads \ {t} : k'.status[u] = k.status[u] /\ mask'[u] = mask[u]
        /\ \A u \in Threads : pc'[u] = pc[u] \/ (pc[u].at = "run" /\ pc'[u].at \in {"run", "yield"})
        /\ mask' \in [Threads -> SUBSET Flags]
    BY <1>0, <2>2, WaitKeeps
  <2>1. p = "allclear" /\ k.status[t] \in {"RUNNING", "PENDING"}
    BY <1>0, <1>2 DEF OnRunqueue
  <2>4. WaitOK(k'.status[t], flags[t], mask'[t], p)
    <3>0. enough <=> AppFlags \subseteq flags[t]
      OBVIOUS
    <3> HIDE DEF enough
    <3>1. CASE enough
      <4>1. k'.status[t] = k.status[t] /\ mask'[t] = mask[t]
        BY <2>3, <3>1
      <4> QED BY <2>1, <3>0, <3>1, <4>1 DEF WaitOK
    <3>2. CASE ~enough
      <4>1. k'.status[t] = "FLAG_BLOCKED_ALL" /\ mask'[t] = AppFlags
        BY <2>3, <3>2
      <4> QED BY <2>1, <3>0, <3>2, <4>1 DEF WaitOK
    <3> QED BY <3>1, <3>2
  <2>5. FlagWaits'
    BY <2>3, <2>4 DEF EventsInv, FlagWaits
  <2> QED BY <1>2, <2>3, <2>5
<1> QED BY <1>1, <1>2

-----------------------------------------------------------------------------
(* The queues                                                               *)

(* clist_rpush() adds an event at the end.                                  *)
LEMMA QueuePush ==
  ASSUME NEW q \in Seq(AllEvs), NEW e \in AllEvs, NEW S, NEW h
  PROVE  LET r == Append(q, e)
         IN /\ r \in Seq(AllEvs) /\ r # <<>> /\ Elems(r) = Elems(q) \cup {e}
            /\ OneSync(q) /\ (e = SyncEv => SyncEv \notin Elems(q)) => OneSync(r)
            /\ e # SyncEv /\ InFront(q, S, h) => InFront(r, S, h)
            /\ e = SyncEv /\ SyncEv \notin Elems(q) => InFront(r, Elems(q), h)
<1> DEFINE r == Append(q, e)
           n == Len(q)
<1>1. /\ r \in Seq(AllEvs) /\ n \in Nat /\ DOMAIN r = 1 .. n + 1 /\ DOMAIN q = 1 .. n
      /\ \A i \in 1 .. n : r[i] = q[i]
      /\ r[n + 1] = e
  BY AppendProperties, LenProperties
<1>2. Elems(r) = Elems(q) \cup {e} /\ r # <<>>
  BY ElemsAppend, AppendProperties
<1> HIDE DEF r, n
<1>3. OneSync(q) /\ (e = SyncEv => SyncEv \notin Elems(q)) => OneSync(r)
  BY <1>1 DEF OneSync, Elems
<1>4. ASSUME e # SyncEv, InFront(q, S, h) PROVE InFront(r, S, h)
  BY <1>1, <1>4 DEF InFront
<1>5. ASSUME e = SyncEv, SyncEv \notin Elems(q) PROVE InFront(r, Elems(q), h)
  BY <1>1, <1>5 DEF InFront, Elems
<1> QED BY <1>1, <1>2, <1>3, <1>4, <1>5 DEF r

(* clist_lpop() takes the first event.                                      *)
LEMMA QueueTake ==
  ASSUME NEW q \in Seq(AllEvs), q # <<>>, NEW S \in SUBSET AllEvs
  PROVE  LET r == Tail(q)
         IN /\ r \in Seq(AllEvs) /\ Head(q) \in Elems(q) /\ Elems(q) \subseteq AllEvs
            /\ Elems(r) \subseteq Elems(q) /\ Elems(q) \subseteq Elems(r) \cup {Head(q)}
            /\ OneSync(q) => OneSync(r) /\ (Head(q) = SyncEv => SyncEv \notin Elems(r))
            /\ InFront(q, S, NoEv) => InFront(r, S, Head(q)) /\ (Head(q) = SyncEv => S = {})
<1> DEFINE r == Tail(q)
           n == Len(q)
<1>1. /\ n \in Nat \ {0} /\ DOMAIN q = 1 .. n /\ Head(q) = q[1]
      /\ r \in Seq(AllEvs) /\ DOMAIN r = 1 .. n - 1
      /\ \A i \in 1 .. n - 1 : r[i] = q[i + 1]
      /\ \A i \in 1 .. n : q[i] \in AllEvs
  BY HeadTailProperties, LenProperties, EmptySeq, ElementOfSeq
<1>2. \A i \in 1 .. n : i = 1 \/ (i - 1 \in 1 .. n - 1 /\ q[i] = r[i - 1])
  BY <1>1
<1>3. NoEv \notin S
  BY EventsAssumption DEF EventsAssumption
<1> HIDE DEF r, n
<1>4. 1 \in 1 .. n /\ \A i \in 1 .. n - 1 : i + 1 \in 1 .. n /\ i + 1 # 1
  BY <1>1
<1>5. /\ Head(q) \in Elems(q) /\ Elems(q) \subseteq AllEvs /\ Elems(r) \subseteq Elems(q)
      /\ Elems(q) \subseteq Elems(r) \cup {Head(q)}
  <2>1. \A e : e \in Elems(q) <=> \E i \in 1 .. n : q[i] = e
    BY <1>1 DEF Elems
  <2>2. \A e : e \in Elems(r) <=> \E i \in 1 .. n - 1 : r[i] = e
    BY <1>1 DEF Elems
  <2>3. Head(q) \in Elems(q) /\ Elems(q) \subseteq AllEvs
    BY <1>1, <1>4, <2>1
  <2>4. Elems(r) \subseteq Elems(q)
    BY <1>1, <1>4, <2>1, <2>2
  <2>5. Elems(q) \subseteq Elems(r) \cup {Head(q)}
    BY <1>1, <1>2, <2>1, <2>2
  <2> QED BY <2>3, <2>4, <2>5
<1>6. \A i \in 1 .. n - 1 : i + 1 \in 1 .. n /\ i + 1 # 1 /\ q[i + 1] = r[i]
  BY <1>1, <1>4
<1>7. q[1] = Head(q) /\ \A i \in 1 .. n - 1 : i \in Int
  BY <1>1
<1>8. ASSUME OneSync(q) PROVE OneSync(r) /\ (Head(q) = SyncEv => SyncEv \notin Elems(r))
  <2>1. \A i, j \in 1 .. n : q[i] = SyncEv /\ q[j] = SyncEv => i = j
    BY <1>1, <1>8 DEF OneSync
  <2>2. ASSUME NEW i \in 1 .. n - 1, NEW j \in 1 .. n - 1, r[i] = SyncEv, r[j] = SyncEv
        PROVE  i = j
    <3>1. /\ i + 1 \in 1 .. n /\ q[i + 1] = SyncEv
          /\ j + 1 \in 1 .. n /\ q[j + 1] = SyncEv
      BY <1>6, <2>2
    <3>2. i + 1 = j + 1
      BY <2>1, <3>1
    <3>3. i \in Int /\ j \in Int
      BY <1>7
    <3> QED BY <3>2, <3>3
  <2>3. ASSUME NEW i \in 1 .. n - 1, Head(q) = SyncEv PROVE r[i] # SyncEv
    <3>1. i + 1 \in 1 .. n /\ i + 1 # 1 /\ q[i + 1] = r[i] /\ q[1] = SyncEv
      BY <1>6, <1>7, <2>3
    <3>2. SUFFICES ASSUME r[i] = SyncEv PROVE FALSE
      OBVIOUS
    <3> QED BY <1>4, <2>1, <3>1, <3>2
  <2> QED BY <1>1, <2>2, <2>3 DEF OneSync, Elems
<1>9. ASSUME InFront(q, S, NoEv) PROVE InFront(r, S, Head(q))
  <2> SUFFICES ASSUME NEW i \in 1 .. n - 1, r[i] = SyncEv, NEW f \in S, f # Head(q)
               PROVE  \E j \in 1 .. n - 1 : j < i /\ r[j] = f
    <3>1. DOMAIN r = 1 .. n - 1
      BY <1>1
    <3> QED BY <3>1 DEF InFront
  <2>1. i + 1 \in 1 .. n /\ q[i + 1] = SyncEv /\ f # NoEv
    BY <1>3, <1>6
  <2>2. PICK j \in 1 .. n : j < i + 1 /\ q[j] = f
    <3>1. DOMAIN q = 1 .. n
      BY <1>1
    <3> QED BY <1>9, <2>1, <3>1 DEF InFront
  <2>3. j # 1
    BY <1>7, <2>2
  <2>4. j - 1 \in 1 .. n - 1 /\ r[j - 1] = f
    BY <1>2, <2>2, <2>3
  <2>5. i \in Int /\ j \in Int
    BY <1>1, <1>7
  <2>6. j - 1 < i
    BY <2>2, <2>5
  <2> QED BY <2>4, <2>6
<1>10. ASSUME InFront(q, S, NoEv), Head(q) = SyncEv PROVE S = {}
  BY <1>1, <1>3, <1>10 DEF InFront
<1> QED BY <1>1, <1>5, <1>9, <1>10, <1>8 DEF r

(* clist_remove() takes one event out.                                      *)
LEMMA QueueRemove ==
  ASSUME NEW q \in Seq(AllEvs), NEW e \in AllEvs \ {SyncEv}, NEW S, NEW h
  PROVE  LET r == Unlink(q, e)
         IN /\ r \in Seq(AllEvs)
            /\ Elems(r) \subseteq Elems(q) /\ Elems(q) \subseteq Elems(r) \cup {e}
            /\ OneSync(q) => OneSync(r)
            /\ InFront(q, S, h) => InFront(r, S \ {e}, h)
<1>1. CASE e \notin Elems(q)
  BY <1>1 DEF Unlink, InFront
<1>2. CASE e \in Elems(q)
  <2> DEFINE c == CHOOSE j \in DOMAIN q : q[j] = e
             r == Without(q, c)
             n == Len(q)
             from(l) == IF l < c THEN l ELSE l + 1
             to(l) == IF l < c THEN l ELSE l - 1
  <2>1. Unlink(q, e) = r
    BY <1>2 DEF Unlink
  <2>2. c \in DOMAIN q /\ q[c] = e
    BY <1>2 DEF Elems
  <2>3. n \in Nat /\ DOMAIN q = 1 .. n /\ c \in 1 .. n /\ \A i \in 1 .. n : q[i] \in AllEvs
    BY <2>2, LenProperties, ElementOfSeq
  <2> HIDE DEF c
  <2>4. DOMAIN r = 1 .. n - 1 /\ \A i \in 1 .. n - 1 : r[i] = q[from(i)] /\ from(i) \in 1 .. n
    BY <2>3 DEF Without
  <2>5. r \in Seq(AllEvs)
    <3>1. r = [i \in 1 .. n - 1 |-> r[i]] /\ n - 1 \in Nat /\ \A i \in 1 .. n - 1 : r[i] \in AllEvs
      BY <2>3, <2>4 DEF Without
    <3> HIDE DEF r
    <3> QED BY <3>1
  <2>6. \A i \in 1 .. n : i # c => to(i) \in 1 .. n - 1 /\ q[i] = r[to(i)]
    <3> TAKE i \in 1 .. n
    <3> HAVE i # c
    <3>1. to(i) \in 1 .. n - 1 /\ from(to(i)) = i
      BY <2>3
    <3> HIDE DEF from, to, r
    <3> QED BY <2>4, <3>1
  <2>7. /\ \A i, j \in 1 .. n - 1 : i < j <=> from(i) < from(j)
        /\ \A i, j \in 1 .. n : i # c /\ j # c => (i < j <=> to(i) < to(j))
        /\ \A i \in 1 .. n - 1 : to(from(i)) = i /\ from(i) # c
    BY <2>3
  <2> HIDE DEF r, n, from, to
  <2>8. Elems(r) \subseteq Elems(q) /\ Elems(q) \subseteq Elems(r) \cup {e}
    BY <2>2, <2>3, <2>4, <2>6 DEF Elems
  <2>9. ASSUME OneSync(q) PROVE OneSync(r)
    <3> SUFFICES ASSUME NEW i \in 1 .. n - 1, NEW j \in 1 .. n - 1, r[i] = SyncEv, r[j] = SyncEv
                 PROVE  i = j
      BY <2>4 DEF OneSync
    <3>1. from(i) = from(j)
      BY <2>3, <2>4, <2>9 DEF OneSync
    <3> QED BY <2>7, <3>1
  <2>10. ASSUME InFront(q, S, h) PROVE InFront(r, S \ {e}, h)
    <3> SUFFICES ASSUME NEW i \in 1 .. n - 1, r[i] = SyncEv, NEW f \in S \ {e}, f # h
                 PROVE  \E j \in 1 .. n - 1 : j < i /\ r[j] = f
      BY <2>4 DEF InFront
    <3>1. PICK j \in 1 .. n : j < from(i) /\ q[j] = f
      BY <2>3, <2>4, <2>10 DEF InFront
    <3>2. j # c /\ from(i) \in 1 .. n /\ from(i) # c /\ to(from(i)) = i
      BY <2>2, <2>4, <2>7, <3>1
    <3>3. to(j) \in 1 .. n - 1 /\ r[to(j)] = f /\ to(j) < i
      BY <2>6, <2>7, <3>1, <3>2
    <3> QED BY <3>3
  <2> QED BY <2>1, <2>5, <2>8, <2>9, <2>10
<1> QED BY <1>1, <1>2

(* The constants.                                                           *)
LEMMA TheLooper ==
  /\ Looper \in Threads /\ Looper \notin Posters \cup Syncers \cup Flaggers
  /\ SyncEv \in AllEvs /\ NoEv \notin AllEvs /\ synced \in All /\ synced \in Signals
  /\ synced \notin Mutexes
  /\ NQueues \in Nat /\ \A e \in AllEvs : QueueOf[e] \in Queues
  /\ \A e \in Evs : e \in AllEvs /\ e # SyncEv
BY EventsAssumption, MutexAssumption DEF EventsAssumption, MutexAssumption, AllEvs, All

(* event_post(): the event is in its queue, or just taken from it by        *)
(* event_get(), and all the others are where they were.                     *)
LEMMA PostEffect ==
  ASSUME EventsInv, NEW e \in AllEvs, Post(e), act'[Looper].at = act[Looper].at,
         e = SyncEv => ~Out
  PROVE  /\ queue' \in [Queues -> Seq(AllEvs)] /\ waiter' = waiter /\ inhand' = inhand
         /\ linked' \subseteq AllEvs /\ owed' \subseteq AllEvs /\ ahead' \subseteq AllEvs
         /\ \A f \in AllEvs : Queued(f)' <=> Queued(f) \/ (f = e /\ e \notin linked)
         /\ EventsKept' /\ AheadKept' /\ OneSync(queue'[QueueOf[SyncEv]])
         /\ \A q \in Queues \ {QueueOf[e]} : queue'[q] = queue[q]
<1>0. /\ queue \in [Queues -> Seq(AllEvs)] /\ linked \subseteq AllEvs /\ owed \subseteq AllEvs
      /\ ahead \subseteq AllEvs /\ EventsKept /\ AheadKept /\ OneSync(queue[QueueOf[SyncEv]])
  BY DEF EventsInv, EventTypes, SyncOnce
<1>1. /\ queue' = (IF e \in linked THEN queue
                   ELSE [queue EXCEPT ![QueueOf[e]] = Append(queue[QueueOf[e]], e)])
      /\ linked' = linked \cup {e} /\ owed' = owed \cup {e} /\ waiter' = waiter /\ inhand' = inhand
      /\ ahead' = IF e = SyncEv THEN Elems(queue[QueueOf[e]]) ELSE ahead
  BY DEF Post, Pushed
<1>2. QueueOf[e] \in Queues /\ queue[QueueOf[e]] \in Seq(AllEvs) /\ QueueOf[SyncEv] \in Queues
  BY <1>0, TheLooper
<1>3. Elems(queue[QueueOf[e]]) \subseteq AllEvs
  BY <1>2, ElemsEmpty
<1>4. CASE e \in linked
  <2>1. queue' = queue /\ (Queued(e) \/ (act[Looper].at = "unlink" /\ e = inhand))
    BY <1>0, <1>1, <1>4 DEF EventsKept
  <2>2. e # SyncEv
    BY <2>1 DEF Out
  <2>3. \A f : Queued(f)' <=> Queued(f)
    BY <2>1 DEF Queued
  <2>4. EventsKept'
    BY <1>0, <1>1, <1>4, <2>1, <2>3 DEF EventsKept, InHand
  <2>5. AheadKept'
    BY <1>0, <1>1, <2>1, <2>2 DEF AheadKept
  <2> QED BY <1>0, <1>1, <1>3, <1>4, <2>1, <2>3, <2>4, <2>5
<1>5. CASE e \notin linked
  <2> DEFINE r == Append(queue[QueueOf[e]], e)
  <2>1. /\ r \in Seq(AllEvs) /\ Elems(r) = Elems(queue[QueueOf[e]]) \cup {e}
        /\ \A S, h : /\ e # SyncEv /\ InFront(queue[QueueOf[e]], S, h) => InFront(r, S, h)
                     /\ OneSync(queue[QueueOf[e]]) /\ (e = SyncEv => SyncEv \notin Elems(queue[QueueOf[e]]))
                          => OneSync(r)
                     /\ e = SyncEv /\ SyncEv \notin Elems(queue[QueueOf[e]])
                          => InFront(r, Elems(queue[QueueOf[e]]), h)
    BY <1>2, QueuePush
  <2> HIDE DEF r
  <2>2. queue' = [queue EXCEPT ![QueueOf[e]] = r]
    BY <1>1, <1>5 DEF r
  <2>3. /\ queue' \in [Queues -> Seq(AllEvs)] /\ queue'[QueueOf[e]] = r
        /\ \A q \in Queues \ {QueueOf[e]} : queue'[q] = queue[q]
    BY <1>0, <1>2, <2>1, <2>2
  <2>4. \A f \in AllEvs : Queued(f)' <=> Queued(f) \/ f = e
    <3> TAKE f \in AllEvs
    <3>1. CASE QueueOf[f] = QueueOf[e]
      BY <2>1, <2>3, <3>1 DEF Queued
    <3>2. CASE QueueOf[f] # QueueOf[e]
      <4>1. QueueOf[f] \in Queues /\ queue'[QueueOf[f]] = queue[QueueOf[f]] /\ f # e
        BY <2>3, <3>2, TheLooper
      <4> QED BY <4>1 DEF Queued
    <3> QED BY <3>1, <3>2
  <2>5. EventsKept'
    <3>1. \A q \in Queues : \A f \in Elems(queue'[q]) : QueueOf[f] = q
      BY <1>0, <2>1, <2>3 DEF EventsKept
    <3>2. \A f \in linked' : Queued(f)' \/ (act'[Looper].at = "unlink" /\ f = inhand')
      BY <1>0, <1>1, <2>4 DEF EventsKept
    <3>3. \A f \in owed' : Queued(f)' \/ f = inhand'
      BY <1>0, <1>1, <2>4 DEF EventsKept
    <3> QED BY <1>0, <1>1, <3>1, <3>2, <3>3 DEF EventsKept, InHand
  <2>6. e = SyncEv => SyncEv \notin Elems(queue[QueueOf[e]]) /\ inhand # SyncEv
    BY DEF Out, Queued
  <2>7. OneSync(queue'[QueueOf[SyncEv]])
    <3>1. CASE QueueOf[SyncEv] = QueueOf[e]
      BY <1>0, <2>1, <2>3, <2>6, <3>1
    <3>2. CASE QueueOf[SyncEv] # QueueOf[e]
      BY <1>0, <1>2, <2>3, <3>2
    <3> QED BY <3>1, <3>2
  <2>8. AheadKept'
    <3>1. CASE e = SyncEv
      <4>1. /\ queue'[QueueOf[SyncEv]] = r /\ ahead' = Elems(queue[QueueOf[e]])
            /\ inhand' # SyncEv
        BY <1>1, <2>3, <2>6, <3>1
      <4>2. InFront(r, Elems(queue[QueueOf[e]]), inhand')
        BY <2>1, <2>6, <3>1
      <4> QED BY <4>1, <4>2 DEF AheadKept
    <3>2. CASE e # SyncEv /\ QueueOf[SyncEv] = QueueOf[e]
      <4>1. InFront(queue[QueueOf[e]], ahead, inhand) /\ (inhand = SyncEv => ahead = {})
        BY <1>0, <3>2 DEF AheadKept
      <4>2. /\ queue'[QueueOf[SyncEv]] = r /\ ahead' = ahead /\ inhand' = inhand
            /\ InFront(r, ahead, inhand)
        BY <1>1, <2>1, <2>3, <3>2, <4>1
      <4> QED BY <4>1, <4>2 DEF AheadKept
    <3>3. CASE e # SyncEv /\ QueueOf[SyncEv] # QueueOf[e]
      BY <1>0, <1>1, <1>2, <2>3, <3>3 DEF AheadKept
    <3> QED BY <3>1, <3>2, <3>3
  <2> QED BY <1>0, <1>1, <1>3, <1>5, <2>3, <2>4, <2>5, <2>7, <2>8
<1> QED BY <1>4, <1>5

(* event_get() and event_wait_multi() take the first event of a queue into  *)
(* the hand of the looper, which had none.                                  *)
LEMMA TakeEffect ==
  ASSUME EventsInv, inhand = NoEv, NEW q \in Queues, queue[q] # <<>>,
         queue' = [queue EXCEPT ![q] = Tail(queue[q])], inhand' = Head(queue[q]),
         UNCHANGED <<owed, ahead>>,
         \/ act'[Looper].at = "unlink" /\ linked' = linked
         \/ act'[Looper].at = "handle" /\ linked' = linked \ {Head(queue[q])}
  PROVE  /\ queue' \in [Queues -> Seq(AllEvs)] /\ inhand' \in AllEvs /\ linked' \subseteq AllEvs
         /\ \A f \in AllEvs : /\ Queued(f)' => Queued(f)
                              /\ Queued(f) => Queued(f)' \/ f = inhand'
         /\ QueueOf[inhand'] = q /\ Queued(inhand')
         /\ inhand' = SyncEv => ~Queued(SyncEv)'
         /\ EventsKept' /\ AheadKept' /\ OneSync(queue'[QueueOf[SyncEv]])
         /\ \A p \in Queues : p # q => queue'[p] = queue[p]
<1> DEFINE h == Head(queue[q])
           r == Tail(queue[q])
<1>0. /\ queue \in [Queues -> Seq(AllEvs)] /\ linked \subseteq AllEvs /\ owed \subseteq AllEvs
      /\ ahead \in SUBSET AllEvs /\ EventsKept /\ AheadKept /\ OneSync(queue[QueueOf[SyncEv]])
      /\ queue[q] \in Seq(AllEvs)
  BY DEF EventsInv, EventTypes, SyncOnce
<1>1. /\ r \in Seq(AllEvs) /\ h \in Elems(queue[q]) /\ Elems(queue[q]) \subseteq AllEvs
      /\ Elems(r) \subseteq Elems(queue[q]) /\ Elems(queue[q]) \subseteq Elems(r) \cup {h}
      /\ OneSync(queue[q]) => OneSync(r) /\ (h = SyncEv => SyncEv \notin Elems(r))
      /\ InFront(queue[q], ahead, NoEv) => InFront(r, ahead, h) /\ (h = SyncEv => ahead = {})
  BY <1>0, QueueTake
<1>2. inhand' = h /\ queue' = [queue EXCEPT ![q] = r] /\ (linked' = linked \/ linked' = linked \ {h})
  OBVIOUS
<1> HIDE DEF h, r
<1>3. /\ queue' \in [Queues -> Seq(AllEvs)] /\ queue'[q] = r
      /\ \A p \in Queues : p # q => queue'[p] = queue[p]
  BY <1>0, <1>1, <1>2
<1>4. h \in AllEvs /\ QueueOf[h] = q /\ Queued(h)
  BY <1>0, <1>1 DEF EventsKept, Queued
<1>5. \A f \in AllEvs : /\ Queued(f)' => Queued(f)
                        /\ Queued(f) => Queued(f)' \/ f = h
  <2> TAKE f \in AllEvs
  <2>1. CASE QueueOf[f] = q
    BY <1>1, <1>3, <2>1 DEF Queued
  <2>2. CASE QueueOf[f] # q
    <3>1. queue'[QueueOf[f]] = queue[QueueOf[f]]
      BY <1>3, <2>2, TheLooper
    <3> QED BY <3>1 DEF Queued
  <2> QED BY <2>1, <2>2
<1>6. EventsKept'
  <2>1. \A p \in Queues : \A f \in Elems(queue'[p]) : QueueOf[f] = p
    BY <1>0, <1>1, <1>3 DEF EventsKept
  <2>2. \A f \in linked' : Queued(f)' \/ (act'[Looper].at = "unlink" /\ f = inhand')
    <3> TAKE f \in linked'
    <3>1. f \in AllEvs /\ f \in linked /\ f # NoEv
      BY <1>0, <1>2, TheLooper
    <3>2. Queued(f)
      BY <1>0, <3>1 DEF EventsKept
    <3>3. CASE act'[Looper].at = "unlink"
      BY <1>2, <1>5, <3>1, <3>2, <3>3
    <3>4. CASE act'[Looper].at = "handle" /\ linked' = linked \ {h}
      BY <1>5, <3>1, <3>2, <3>4
    <3> QED BY <3>3, <3>4 DEF h
  <2>3. \A f \in owed' : Queued(f)' \/ f = inhand'
    <3> TAKE f \in owed'
    <3>1. f \in AllEvs /\ f \in owed /\ f # NoEv
      BY <1>0, TheLooper
    <3> QED BY <1>0, <1>2, <1>5, <3>1 DEF EventsKept
  <2>4. inhand' # NoEv /\ act'[Looper].at \in {"unlink", "handle"}
    BY <1>2, <1>4, TheLooper
  <2> QED BY <2>1, <2>2, <2>3, <2>4 DEF EventsKept, InHand
<1>7. OneSync(queue'[QueueOf[SyncEv]]) /\ (h = SyncEv => ~Queued(SyncEv)')
  <2>1. CASE QueueOf[SyncEv] = q
    BY <1>0, <1>1, <1>3, <2>1 DEF Queued
  <2>2. CASE QueueOf[SyncEv] # q
    BY <1>0, <1>3, <1>4, <2>2, TheLooper
  <2> QED BY <2>1, <2>2
<1>8. AheadKept'
  <2>1. InFront(queue[QueueOf[SyncEv]], ahead, NoEv)
    BY <1>0 DEF AheadKept
  <2>2. CASE QueueOf[SyncEv] = q
    BY <1>1, <1>2, <1>3, <2>1, <2>2 DEF AheadKept
  <2>3. CASE QueueOf[SyncEv] # q
    <3>1. queue'[QueueOf[SyncEv]] = queue[QueueOf[SyncEv]] /\ h # SyncEv
      BY <1>3, <1>4, <2>3, TheLooper
    <3>2. NoEv \notin ahead
      BY <1>0, TheLooper
    <3>3. InFront(queue[QueueOf[SyncEv]], ahead, h)
      BY <2>1, <3>2 DEF InFront
    <3> QED BY <1>2, <3>1, <3>3 DEF AheadKept
  <2> QED BY <2>2, <2>3
<1> QED BY <1>0, <1>2, <1>3, <1>4, <1>5, <1>6, <1>7, <1>8

(* event_cancel()                                                           *)
LEMMA CancelEffect ==
  ASSUME EventsInv, NEW e \in Evs, UNCHANGED <<inhand, act>>,
         queue' = [queue EXCEPT ![QueueOf[e]] = Unlink(queue[QueueOf[e]], e)],
         linked' = linked \ {e}, ahead' = ahead \ {e},
         owed' = IF inhand = e THEN owed ELSE owed \ {e}
  PROVE  /\ queue' \in [Queues -> Seq(AllEvs)]
         /\ \A f \in AllEvs : Queued(f)' => Queued(f)
         /\ EventsKept' /\ AheadKept' /\ OneSync(queue'[QueueOf[SyncEv]])
         /\ \A p \in Queues : queue'[p] # <<>> => queue[p] # <<>>
<1> DEFINE q == QueueOf[e]
           r == Unlink(queue[q], e)
<1>0. /\ queue \in [Queues -> Seq(AllEvs)] /\ linked \subseteq AllEvs /\ owed \subseteq AllEvs
      /\ ahead \in SUBSET AllEvs /\ EventsKept /\ AheadKept /\ OneSync(queue[QueueOf[SyncEv]])
      /\ q \in Queues /\ queue[q] \in Seq(AllEvs) /\ e \in AllEvs \ {SyncEv}
  BY TheLooper DEF EventsInv, EventTypes, SyncOnce
<1>1. /\ r \in Seq(AllEvs) /\ Elems(r) \subseteq Elems(queue[q])
      /\ Elems(queue[q]) \subseteq Elems(r) \cup {e}
      /\ OneSync(queue[q]) => OneSync(r)
      /\ InFront(queue[q], ahead, inhand) => InFront(r, ahead \ {e}, inhand)
  BY <1>0, QueueRemove
<1>2. queue' = [queue EXCEPT ![q] = r]
  OBVIOUS
<1> HIDE DEF q, r
<1>3. /\ queue' \in [Queues -> Seq(AllEvs)] /\ queue'[q] = r
      /\ \A p \in Queues : p # q => queue'[p] = queue[p]
  BY <1>0, <1>1, <1>2
<1>4. \A f \in AllEvs : /\ Queued(f)' => Queued(f)
                        /\ Queued(f) => Queued(f)' \/ f = e
  <2> TAKE f \in AllEvs
  <2>1. CASE QueueOf[f] = q
    BY <1>1, <1>3, <2>1 DEF Queued
  <2>2. CASE QueueOf[f] # q
    <3>1. queue'[QueueOf[f]] = queue[QueueOf[f]]
      BY <1>3, <2>2, TheLooper
    <3> QED BY <3>1 DEF Queued
  <2> QED BY <2>1, <2>2
<1>5. EventsKept'
  <2>1. \A p \in Queues : \A f \in Elems(queue'[p]) : QueueOf[f] = p
    BY <1>0, <1>1, <1>3 DEF EventsKept
  <2>2. \A f \in linked' : Queued(f)' \/ (act'[Looper].at = "unlink" /\ f = inhand')
    BY <1>0, <1>4 DEF EventsKept
  <2>3. \A f \in owed' : Queued(f)' \/ f = inhand'
    BY <1>0, <1>4 DEF EventsKept
  <2> QED BY <1>0, <2>1, <2>2, <2>3 DEF EventsKept, InHand
<1>6. OneSync(queue'[QueueOf[SyncEv]])
  <2>1. CASE QueueOf[SyncEv] = q
    BY <1>0, <1>1, <1>3, <2>1
  <2>2. CASE QueueOf[SyncEv] # q
    BY <1>0, <1>3, <2>2, TheLooper
  <2> QED BY <2>1, <2>2
<1>7. AheadKept'
  <2>1. InFront(queue[QueueOf[SyncEv]], ahead, inhand) /\ (inhand = SyncEv => ahead = {})
    BY <1>0 DEF AheadKept
  <2>2. CASE QueueOf[SyncEv] = q
    BY <1>1, <1>3, <2>1, <2>2 DEF AheadKept
  <2>3. CASE QueueOf[SyncEv] # q
    <3>1. queue'[QueueOf[SyncEv]] = queue[QueueOf[SyncEv]]
      BY <1>3, <2>3, TheLooper
    <3>2. InFront(queue[QueueOf[SyncEv]], ahead \ {e}, inhand)
      BY <2>1 DEF InFront
    <3> QED BY <2>1, <3>1, <3>2 DEF AheadKept
  <2> QED BY <2>2, <2>3
<1>8. \A p \in Queues : queue'[p] # <<>> => queue[p] # <<>>
  <2>1. \A p \in Queues : Elems(queue'[p]) \subseteq Elems(queue[p])
    BY <1>1, <1>3
  <2> TAKE p \in Queues
  <2>2. queue[p] \in Seq(AllEvs) /\ queue'[p] \in Seq(AllEvs)
    BY <1>0, <1>3
  <2>3. queue[p] = <<>> => Elems(queue[p]) = {}
    BY <2>2, ElemsEmpty
  <2>4. Elems(queue'[p]) = {} => queue'[p] = <<>>
    BY <2>2, ElemsEmpty
  <2> QED BY <2>1, <2>3, <2>4
<1> QED BY <1>3, <1>4, <1>5, <1>6, <1>7, <1>8

-----------------------------------------------------------------------------
(* The places of the threads                                                *)

(* A place that thread t may move to.                                       *)
May(t, p) ==
  /\ p \in Acts
  /\ IF t = Looper THEN p.at \in LooperPlaces
     ELSE /\ p.at \in OtherPlaces
          /\ p.at \in SyncPlaces => t \in Syncers
          /\ p.at \in {"flag", "syncflag"} => p.thread = Looper

(* A call of the kernel is not entered except by a yield.                   *)
NoCall == \A u \in Threads : pc'[u] = pc[u] \/ (pc[u].at = "run" /\ pc'[u].at \in {"run", "yield"})

(* A step that changes where the threads are, and no queue, keeps what is    *)
(* said of the calls in progress.                                            *)
LEMMA CallsKept ==
  ASSUME NoCall, NEW u \in Threads
  PROVE  InCall(u, synced)' <=> InCall(u, synced)
BY DEF NoCall, InCall

(* A thread moves on in its own code.                                       *)
LEMMA Moved ==
  ASSUME EventsInv, NEW t \in Threads, At(t, "run"), NEW p, May(t, p), StepWith(t, p), NoCall
  PROVE  /\ Roles' /\ act' \in [Threads -> Acts] /\ act'[t] = p
         /\ \A u \in Threads \ {t} : act'[u] = act[u]
<1>1. act \in [Threads -> Acts] /\ Roles /\ pc[t].at = "run" /\ Looper \in Threads
  BY TheLooper DEF EventsInv, EventTypes, At
<1>2. act' \in [Threads -> Acts] /\ act'[t] = p /\ \A u \in Threads \ {t} : act'[u] = act[u]
  BY <1>1 DEF StepWith, May
<1>3. ASSUME NEW u \in Threads
      PROVE  /\ pc'[u].at \in {"run", "yield", "block", "woken"}
             /\ pc'[u].at \in {"block", "woken"} =>
                  InCall(u, synced)' /\ ~pc'[u].mc /\ act'[u].at = "app"
  <2>1. CASE pc'[u] = pc[u] /\ u # t
    BY <1>1, <1>2, <2>1 DEF Roles, InCall
  <2>2. CASE pc'[u].at \in {"run", "yield"}
    BY <2>2
  <2> QED BY <1>1, <2>1, <2>2 DEF NoCall
<1>4. act'[Looper].at \in LooperPlaces
  BY <1>1, <1>2 DEF Roles, May
<1>5. ASSUME NEW u \in Threads \ {Looper}
      PROVE  /\ act'[u].at \in OtherPlaces
             /\ act'[u].at \in SyncPlaces => u \in Syncers
             /\ act'[u].at \in {"flag", "syncflag"} => act'[u].thread = Looper
  BY <1>1, <1>2 DEF Roles, May
<1> QED BY <1>2, <1>3, <1>4, <1>5 DEF Roles

(* Which thread a place belongs to.                                         *)
LEMMA WhoActs ==
  ASSUME EventsInv, NEW t \in Threads, NEW p, Acting(t, p)
  PROVE  /\ At(t, "run") /\ act[t].at = p
         /\ p \in LooperPlaces => t = Looper
         /\ p \in OtherPlaces => t # Looper
BY DEF Acting, EventsInv, Roles, LooperPlaces, OtherPlaces, SyncPlaces

(* The places the actions move to, ...                                      *)
LEMMA PlainMoves ==
  ASSUME NEW t \in Threads, NEW p,
         IF t = Looper THEN p \in LooperPlaces
         ELSE p \in OtherPlaces \ {"flag", "syncflag"} /\ (p \in SyncPlaces => t \in Syncers)
  PROVE  May(t, [at |-> p])
<1>1. p \in Plain /\ p \notin {"flag", "syncflag"}
  BY DEF LooperPlaces, OtherPlaces, SyncPlaces, Plain
<1>2. [at |-> p] \in Acts
  BY <1>1 DEF Acts
<1> QED BY <1>1, <1>2 DEF May

(* What a step does that only moves the looper or another thread on: it     *)
(* keeps event_sync(), if it does not enter or leave it, ...                *)
LEMMA SyncKept ==
  ASSUME EventsInv, mtx'[synced] = mtx[synced],
         OneSync(queue'[QueueOf[SyncEv]]), inhand' = SyncEv => ~Queued(SyncEv)', Out' => Out,
         \A u \in Threads : (Syncing(u)' => Syncing(u)) /\ (Posted(u) => Posted(u)')
  PROVE  SyncOnce'
BY DEF EventsInv, SyncOnce, Waiters

(* ... and the looper hears of the events, if it does not go to sleep.      *)
LEMMA HeardOf ==
  ASSUME EventsInv,
         Deaf' => Deaf /\ Looked' = Looked /\ \A q \in Looked : queue'[q] # <<>> => queue[q] # <<>>,
         Flagging => Flagging'
  PROVE  Noticed'
BY DEF EventsInv, Noticed

(* What an event that stays where it is keeps.                              *)
LEMMA QueuesKept ==
  ASSUME EventsInv, UNCHANGED <<queue, linked, inhand, owed, ahead>>,
         InHand' <=> InHand, act[Looper].at = "unlink" => act'[Looper].at = "unlink"
  PROVE  /\ EventsKept' /\ AheadKept' /\ OneSync(queue'[QueueOf[SyncEv]])
         /\ inhand' = SyncEv => ~Queued(SyncEv)'
         /\ Out' <=> Out
<1>1. \A e : Queued(e)' <=> Queued(e)
  BY DEF Queued
<1>2. EventsKept'
  BY <1>1 DEF EventsInv, EventsKept
<1>3. AheadKept'
  BY DEF EventsInv, AheadKept
<1>4. OneSync(queue'[QueueOf[SyncEv]]) /\ (inhand' = SyncEv => ~Queued(SyncEv)') /\ (Out' <=> Out)
  BY <1>1 DEF EventsInv, SyncOnce, Out
<1> QED BY <1>2, <1>3, <1>4

-----------------------------------------------------------------------------
(* The looper                                                               *)

(* A step of the looper: the other threads are where they were.             *)
LEMMA LooperMoved ==
  ASSUME EventsInv, At(Looper, "run"), NEW p \in LooperPlaces, Step(Looper, p), NoCall
  PROVE  /\ Roles' /\ act' \in [Threads -> Acts] /\ act'[Looper] = [at |-> p] /\ act'[Looper].at = p
         /\ \A u \in Threads \ {Looper} : act'[u] = act[u]
         /\ Flagging' <=> Flagging
         /\ \A u \in Threads : /\ Syncing(u)' <=> Syncing(u)
                               /\ Posted(u)' <=> Posted(u)
<1>1. Looper \in Threads /\ May(Looper, [at |-> p]) /\ StepWith(Looper, [at |-> p])
  BY TheLooper, PlainMoves DEF Step, StepWith
<1>2. /\ Roles' /\ act' \in [Threads -> Acts] /\ act'[Looper] = [at |-> p]
      /\ \A u \in Threads \ {Looper} : act'[u] = act[u]
  BY <1>1, Moved
<1>3. /\ act[Looper].at \in LooperPlaces
      /\ LooperPlaces \cap (SyncPlaces \cup {"flag"}) = {}
  BY DEF EventsInv, Roles, LooperPlaces, SyncPlaces
<1>4. Flagging' <=> Flagging
  BY <1>2, <1>3 DEF Flagging, SyncPlaces
<1>5. ASSUME NEW u \in Threads PROVE (Syncing(u)' <=> Syncing(u)) /\ (Posted(u)' <=> Posted(u))
  <2>1. InCall(u, synced)' <=> InCall(u, synced)
    BY CallsKept
  <2>2. act'[u].at \in SyncPlaces <=> act[u].at \in SyncPlaces
    BY <1>2, <1>3
  <2>3. Posted(u)' <=> Posted(u)
    BY <1>2, <1>3 DEF Posted, SyncPlaces
  <2> QED BY <2>1, <2>2, <2>3 DEF Syncing
<1> QED BY <1>2, <1>4, <1>5

(* While the state of the kernel is as it was.                              *)
LEMMA SameKernel ==
  ASSUME EventsInv, UNCHANGED vars
  PROVE  MutexInv' /\ NoCall /\ k' = k /\ mtx' = mtx /\ pc' = pc
BY KernelUnchanged DEF EventsInv, vars, NoCall

(* event_queues_claim()                                                     *)
LEMMA ClaimKeeps ==
  ASSUME EventsInv, NEW t \in Threads, Claim(t)
  PROVE  EventsInv'
<1>0. /\ t = Looper /\ At(Looper, "run") /\ act[Looper].at = "claim" /\ UNCHANGED vars
      /\ UNCHANGED <<queue, linked, inhand, owed, ahead, timer, flags, mask>>
  BY WhoActs DEF Claim, flagVars, LooperPlaces
<1>1. MutexInv' /\ NoCall /\ k' = k /\ mtx' = mtx
  BY <1>0, SameKernel
<1>2. PICK n \in Queues : \A q \in Queues : waiter[q] = IF q < n THEN Looper ELSE NoThread
  BY <1>0 DEF EventsInv, Claimed
<1> DEFINE C(i) == waiter[i] = NoThread /\ \A j \in 1 .. i - 1 : waiter[j] = t
           q == CHOOSE i \in Queues : C(i)
<1>3. Looper # NoThread
  BY TheLooper, KernelAssumption DEF KernelAssumption
<1>4. NQueues \in Nat /\ n \in 1 .. NQueues
  BY TheLooper DEF Queues
<1>5. C(n)
  BY <1>0, <1>2, <1>4 DEF Queues
<1>6. \A i \in Queues : C(i) => i = n
  <2> SUFFICES ASSUME NEW i \in Queues, C(i), i # n PROVE FALSE
    OBVIOUS
  <2>1. i \in 1 .. NQueues
    BY DEF Queues
  <2>2. CASE i < n
    BY <1>2, <1>3, <2>2
  <2>3. CASE n < i
    <3>1. n \in 1 .. i - 1
      BY <1>4, <2>1, <2>3
    <3> QED BY <1>0, <1>3, <1>5, <3>1
  <2> QED BY <1>4, <2>1, <2>2, <2>3
<1>7. q = n
  BY <1>5, <1>6
<1>8. /\ waiter' = [waiter EXCEPT ![q] = t]
      /\ Step(t, IF q = NQueues THEN "choose" ELSE "claim")
  BY DEF Claim
<1> HIDE DEF q, C
<1>9. PICK p \in {"choose", "claim"} : Step(Looper, p) /\ p = IF n = NQueues THEN "choose" ELSE "claim"
  BY <1>0, <1>7, <1>8
<1>10. /\ Roles' /\ act' \in [Threads -> Acts] /\ act'[Looper].at = p
       /\ \A u \in Threads \ {Looper} : act'[u] = act[u]
       /\ Flagging' <=> Flagging
       /\ \A u \in Threads : (Syncing(u)' <=> Syncing(u)) /\ (Posted(u)' <=> Posted(u))
  BY <1>0, <1>1, <1>9, LooperMoved DEF LooperPlaces
<1>11. waiter \in [Queues -> Threads \cup {NoThread}]
  BY DEF EventsInv, EventTypes
<1>12. /\ waiter' \in [Queues -> Threads \cup {NoThread}] /\ waiter'[n] = Looper
       /\ \A i \in Queues : i # n => waiter'[i] = waiter[i]
  BY <1>0, <1>7, <1>8, <1>11, TheLooper
<1>13. Claimed'
  <2>1. CASE n = NQueues
    <3>1. act'[Looper].at = "choose"
      BY <1>9, <1>10, <2>1
    <3>2. \A i \in Queues : waiter'[i] = Looper
      BY <1>2, <1>4, <1>12, <2>1 DEF Queues
    <3> QED BY <3>1, <3>2 DEF Claimed
  <2>2. CASE n # NQueues
    <3>1. act'[Looper].at = "claim"
      BY <1>9, <1>10, <2>2
    <3>2. n + 1 \in Queues /\ \A i \in Queues : waiter'[i] = IF i < n + 1 THEN Looper ELSE NoThread
      BY <1>2, <1>4, <1>12, <2>2 DEF Queues
    <3> QED BY <3>1, <3>2 DEF Claimed
  <2> QED BY <2>1, <2>2
<1>14. /\ EventsKept' /\ AheadKept' /\ OneSync(queue'[QueueOf[SyncEv]])
       /\ inhand' = SyncEv => ~Queued(SyncEv)'
       /\ Out' <=> Out
  BY <1>0, <1>9, <1>10, QueuesKept DEF InHand
<1>15. SyncOnce'
  BY <1>1, <1>10, <1>14, SyncKept
<1>16. FlagWaits'
  BY <1>0, <1>1, <1>9, <1>10, MoveWaits, TheLooper
<1>17. Noticed'
  BY <1>9, <1>10 DEF Noticed, Deaf
<1>18. EventTypes'
  BY <1>0, <1>10, <1>12 DEF EventsInv, EventTypes
<1> QED BY <1>1, <1>10, <1>13, <1>14, <1>15, <1>16, <1>17, <1>18 DEF EventsInv

(* The steps of the looper that only clear flags, the timer or the list_node *)
(* of the event it has.                                                     *)
LEMMA QuietKeeps ==
  ASSUME EventsInv, NEW t \in Threads,
         \/ MultiClear(t) \/ TimeoutClear(t) \/ TimeoutTest(t)
         \/ TimeoutSet(t) \/ GetUnlink(t) \/ TimeoutRemove(t)
  PROVE  EventsInv'
<1>1. /\ t = Looper /\ At(Looper, "run") /\ UNCHANGED vars
      /\ UNCHANGED <<queue, inhand, owed, ahead, waiter, mask>>
      /\ flags' = flags \/ \E m : flags' = [flags EXCEPT ![Looper] = @ \ m]
      /\ timer' \in {timer, TRUE, FALSE}
  BY WhoActs DEF MultiClear, TimeoutClear, TimeoutTest, TimeoutSet, GetUnlink, TimeoutRemove,
                 LooperPlaces, flagVars, queueVars, ClearFlags
<1>2. MutexInv' /\ NoCall /\ k' = k /\ mtx' = mtx
  BY <1>1, SameKernel
<1>3. \E p \in {"multi", "set", "get", "choose", "remove", "handle"} :
        /\ Step(Looper, p)
        /\ act[Looper].at # "claim"
        /\ p \in {"remove", "handle"} <=> InHand
        /\ IF p = "remove" THEN act[Looper].at = "unlink" /\ linked' = linked \ {inhand}
           ELSE act[Looper].at # "unlink" /\ linked' = linked
  <2>1. CASE MultiClear(t)
    BY <1>1, <2>1 DEF MultiClear, Acting, InHand, queueVars
  <2>2. CASE TimeoutClear(t)
    BY <1>1, <2>2 DEF TimeoutClear, Acting, InHand, queueVars
  <2>3. CASE TimeoutTest(t)
    BY <1>1, <2>3 DEF TimeoutTest, Acting, InHand, queueVars
  <2>4. CASE TimeoutSet(t)
    BY <1>1, <2>4 DEF TimeoutSet, Acting, InHand, queueVars
  <2>5. CASE GetUnlink(t)
    BY <1>1, <2>5 DEF GetUnlink, Acting, InHand
  <2>6. CASE TimeoutRemove(t)
    BY <1>1, <2>6 DEF TimeoutRemove, Acting, InHand, queueVars
  <2> QED BY <2>1, <2>2, <2>3, <2>4, <2>5, <2>6
<1>4. PICK p \in {"multi", "set", "get", "choose", "remove", "handle"} :
        /\ Step(Looper, p)
        /\ act[Looper].at # "claim"
        /\ p \in {"remove", "handle"} <=> InHand
        /\ IF p = "remove" THEN act[Looper].at = "unlink" /\ linked' = linked \ {inhand}
           ELSE act[Looper].at # "unlink" /\ linked' = linked
  BY <1>3
<1>5. /\ Roles' /\ act' \in [Threads -> Acts] /\ act'[Looper].at = p
      /\ \A u \in Threads \ {Looper} : act'[u] = act[u]
      /\ Flagging' <=> Flagging
      /\ \A u \in Threads : (Syncing(u)' <=> Syncing(u)) /\ (Posted(u)' <=> Posted(u))
  BY <1>1, <1>2, <1>4, LooperMoved DEF LooperPlaces
<1>6. EventTypes /\ EventsKept /\ AheadKept /\ Claimed /\ SyncOnce
  BY DEF EventsInv
<1>7. flags' \in [Threads -> SUBSET Flags] /\ \A u \in Threads \ {Looper} : flags'[u] = flags[u]
  BY <1>1, <1>6 DEF EventTypes
<1>8. EventTypes' /\ Claimed'
  <2>1. timer' \in BOOLEAN /\ linked' \subseteq AllEvs
    BY <1>1, <1>4, <1>6 DEF EventTypes
  <2>2. Claimed'
    BY <1>1, <1>4, <1>5, <1>6 DEF Claimed
  <2> QED BY <1>1, <1>5, <1>6, <1>7, <2>1, <2>2 DEF EventTypes
<1>9. \A e : Queued(e)' <=> Queued(e)
  BY <1>1 DEF Queued
<1>10. EventsKept'
  <2>1. \A e \in linked' : Queued(e)
    <3>1. CASE p = "remove"
      BY <1>4, <1>6, <3>1 DEF EventsKept
    <3>2. CASE p # "remove"
      BY <1>4, <1>6, <3>2 DEF EventsKept
    <3> QED BY <3>1, <3>2
  <2>2. inhand' # NoEv <=> InHand'
    BY <1>1, <1>4, <1>5, <1>6 DEF EventsKept, InHand
  <2>3. \A q \in Queues : \A e \in Elems(queue'[q]) : QueueOf[e] = q
    BY <1>1, <1>6 DEF EventsKept
  <2>4. \A e \in owed' : Queued(e)' \/ e = inhand'
    BY <1>1, <1>6, <1>9 DEF EventsKept
  <2> QED BY <1>9, <2>1, <2>2, <2>3, <2>4 DEF EventsKept
<1>11. AheadKept'
  BY <1>1, <1>6 DEF AheadKept
<1>12. SyncOnce'
  <2>1. (inhand' = SyncEv => ~Queued(SyncEv)') /\ (Out' => Out) /\ OneSync(queue'[QueueOf[SyncEv]])
    BY <1>1, <1>6, <1>9 DEF Out, SyncOnce
  <2> QED BY <1>2, <1>5, <2>1, SyncKept
<1>13. FlagWaits'
  BY <1>1, <1>2, <1>4, <1>5, <1>7, MoveWaits, TheLooper
<1>14. Noticed'
  BY <1>4, <1>5 DEF Noticed, Deaf
<1> QED BY <1>2, <1>5, <1>8, <1>10, <1>11, <1>12, <1>13, <1>14 DEF EventsInv

(* The looper finds its queues empty, and is about to wait.                 *)
LEMMA NothingKeeps ==
  ASSUME EventsInv, At(Looper, "run"), UNCHANGED vars, UNCHANGED <<flagVars, queueVars, timer>>,
         NEW p \in {"multiwait", "timewait"}, Step(Looper, p),
         act[Looper].at \in {"choose", "multi", "get"},
         queue[1] = <<>>, p = "multiwait" => \A q \in Queues : queue[q] = <<>>
  PROVE  EventsInv'
<1>1. MutexInv' /\ NoCall /\ k' = k /\ mtx' = mtx
  BY SameKernel
<1>2. /\ Roles' /\ act' \in [Threads -> Acts] /\ act'[Looper].at = p
      /\ \A u \in Threads \ {Looper} : act'[u] = act[u]
      /\ Flagging' <=> Flagging
      /\ \A u \in Threads : (Syncing(u)' <=> Syncing(u)) /\ (Posted(u)' <=> Posted(u))
  BY <1>1, LooperMoved DEF LooperPlaces
<1>3. UNCHANGED <<flags, mask, queue, linked, waiter, inhand, owed, ahead, timer>>
  BY DEF flagVars, queueVars
<1>4. /\ EventsKept' /\ AheadKept' /\ OneSync(queue'[QueueOf[SyncEv]])
      /\ inhand' = SyncEv => ~Queued(SyncEv)'
      /\ Out' <=> Out
  BY <1>2, <1>3, QueuesKept DEF InHand
<1>5. SyncOnce'
  BY <1>1, <1>2, <1>4, SyncKept
<1>6. FlagWaits'
  BY <1>1, <1>2, <1>3, MoveWaits, TheLooper
<1>7. Noticed'
  BY <1>2, <1>3 DEF Noticed, Looked
<1>8. EventTypes'
  BY <1>2, <1>3 DEF EventsInv, EventTypes
<1>9. Claimed'
  BY <1>2, <1>3 DEF EventsInv, Claimed
<1> QED BY <1>1, <1>2, <1>4, <1>5, <1>6, <1>7, <1>8, <1>9 DEF EventsInv

(* ... or takes the first event of one of them.                             *)
LEMMA FoundKeeps ==
  ASSUME EventsInv, At(Looper, "run"), UNCHANGED vars,
         UNCHANGED <<flagVars, waiter, owed, ahead, timer>>,
         NEW p \in {"unlink", "handle"}, Step(Looper, p),
         act[Looper].at \in {"choose", "multi", "get"},
         NEW q \in Queues, queue[q] # <<>>,
         queue' = [queue EXCEPT ![q] = Tail(queue[q])], inhand' = Head(queue[q]),
         linked' = IF p = "unlink" THEN linked ELSE linked \ {Head(queue[q])}
  PROVE  EventsInv'
<1>1. MutexInv' /\ NoCall /\ k' = k /\ mtx' = mtx
  BY SameKernel
<1>2. /\ Roles' /\ act' \in [Threads -> Acts] /\ act'[Looper].at = p
      /\ \A u \in Threads \ {Looper} : act'[u] = act[u]
      /\ Flagging' <=> Flagging
      /\ \A u \in Threads : (Syncing(u)' <=> Syncing(u)) /\ (Posted(u)' <=> Posted(u))
  BY <1>1, LooperMoved DEF LooperPlaces
<1>3. UNCHANGED <<flags, mask, waiter, owed, ahead, timer>>
  BY DEF flagVars
<1>4. inhand = NoEv
  BY DEF EventsInv, EventsKept, InHand
<1>5. /\ queue' \in [Queues -> Seq(AllEvs)] /\ inhand' \in AllEvs /\ linked' \subseteq AllEvs
      /\ \A f \in AllEvs : /\ Queued(f)' => Queued(f)
                           /\ Queued(f) => Queued(f)' \/ f = inhand'
      /\ Queued(inhand')
      /\ inhand' = SyncEv => ~Queued(SyncEv)'
      /\ EventsKept' /\ AheadKept' /\ OneSync(queue'[QueueOf[SyncEv]])
  BY <1>2, <1>3, <1>4, TakeEffect
<1>6. SyncOnce'
  <2>1. Out' => Out
    BY <1>5, TheLooper DEF Out
  <2> QED BY <1>1, <1>2, <1>5, <2>1, SyncKept
<1>7. FlagWaits'
  BY <1>1, <1>2, <1>3, MoveWaits, TheLooper
<1>8. Noticed'
  BY <1>2 DEF Noticed, Deaf
<1>9. EventTypes'
  BY <1>2, <1>3, <1>5 DEF EventsInv, EventTypes
<1>10. Claimed'
  BY <1>2, <1>3 DEF EventsInv, Claimed
<1> QED BY <1>1, <1>2, <1>5, <1>6, <1>7, <1>8, <1>9, <1>10 DEF EventsInv

(* event_wait_multi() takes the first event of the first queue that has one. *)
LEMMA FirstTaken ==
  ASSUME EventsInv, NEW t \in Threads, TakeFirst(t)
  PROVE  \/ /\ \A q \in Queues : queue[q] = <<>>
            /\ Step(t, "multiwait") /\ UNCHANGED <<queue, linked, inhand>>
         \/ \E q \in Queues :
              /\ queue[q] # <<>> /\ queue' = [queue EXCEPT ![q] = Tail(queue[q])]
              /\ linked' = linked \ {Head(queue[q])} /\ inhand' = Head(queue[q])
              /\ Step(t, "handle")
<1>1. CASE \A q \in Queues : queue[q] = <<>>
  BY <1>1 DEF TakeFirst
<1>2. CASE ~ \A q \in Queues : queue[q] = <<>>
  <2> DEFINE F(i) == queue[i] # <<>> /\ \A j \in 1 .. i - 1 : queue[j] = <<>>
             q == CHOOSE i \in Queues : F(i)
             Full == {i \in Queues : queue[i] # <<>>}
  <2>1. \E i \in Queues : F(i)
    <3>1. NQueues \in Nat /\ Queues \subseteq Nat
      BY TheLooper DEF Queues
    <3>2. Full \in SUBSET Nat /\ Full # {}
      BY <1>2, <3>1
    <3>3. PICK i \in Full : \A j \in Full : i <= j
      <4> HIDE DEF Full
      <4> QED BY <3>2, SetMinimum
    <3>4. i \in Queues /\ queue[i] # <<>>
      OBVIOUS
    <3>5. \A j \in 1 .. i - 1 : j \in Queues /\ ~(i <= j)
      BY <3>1, <3>4 DEF Queues
    <3>6. \A j \in 1 .. i - 1 : queue[j] = <<>>
      BY <3>3, <3>5
    <3> QED BY <3>4, <3>6
  <2>2. q \in Queues /\ queue[q] # <<>>
    BY <2>1
  <2>3. /\ queue' = [queue EXCEPT ![q] = Tail(queue[q])] /\ inhand' = Head(queue[q])
        /\ linked' = linked \ {Head(queue[q])} /\ Step(t, "handle")
    BY <1>2 DEF TakeFirst
  <2> HIDE DEF q, F
  <2> QED BY <2>2, <2>3
<1> QED BY <1>1, <1>2

(* The pop of event_wait_multi() keeps the invariant.                        *)
LEMMA TakeFirstKeeps ==
  ASSUME EventsInv, NEW t \in Threads, TakeFirst(t)
  PROVE  EventsInv'
<1>1. /\ t = Looper /\ At(Looper, "run") /\ act[Looper].at \in {"choose", "multi"}
      /\ UNCHANGED vars /\ UNCHANGED <<flagVars, waiter, owed, ahead, timer>>
  BY WhoActs DEF TakeFirst, LooperPlaces
<1>2. 1 \in Queues
  BY TheLooper DEF Queues
<1>3. CASE /\ \A q \in Queues : queue[q] = <<>>
           /\ Step(t, "multiwait") /\ UNCHANGED <<queue, linked, inhand>>
  BY <1>1, <1>2, <1>3, NothingKeeps DEF queueVars
<1>4. ASSUME NEW q \in Queues, queue[q] # <<>>, queue' = [queue EXCEPT ![q] = Tail(queue[q])],
             linked' = linked \ {Head(queue[q])}, inhand' = Head(queue[q]), Step(t, "handle")
      PROVE  EventsInv'
  BY <1>1, <1>4, FoundKeeps
<1> QED BY <1>3, <1>4, FirstTaken

(* event_get()                                                              *)
LEMMA EventGetKeeps ==
  ASSUME EventsInv, NEW t \in Threads, EventGet(t)
  PROVE  EventsInv'
<1>1. /\ t = Looper /\ At(Looper, "run") /\ act[Looper].at = "get"
      /\ UNCHANGED vars /\ UNCHANGED <<flagVars, linked, waiter, owed, ahead, timer>>
  BY WhoActs DEF EventGet, LooperPlaces
<1>2. 1 \in Queues
  BY TheLooper DEF Queues
<1>3. CASE queue[1] = <<>>
  <2>1. Step(Looper, "timewait") /\ UNCHANGED <<queue, inhand>>
    BY <1>1, <1>3 DEF EventGet
  <2> QED BY <1>1, <1>3, <2>1, NothingKeeps DEF queueVars
<1>4. CASE queue[1] # <<>>
  <2>1. /\ queue' = [queue EXCEPT ![1] = Tail(queue[1])] /\ inhand' = Head(queue[1])
        /\ Step(Looper, "unlink")
    BY <1>1, <1>4 DEF EventGet
  <2> QED BY <1>1, <1>2, <1>4, <2>1, FoundKeeps
<1> QED BY <1>3, <1>4

(* The waits of the looper: it blocks only while its flag is not set.       *)
LEMMA LooperWaitKeeps ==
  ASSUME EventsInv, NEW t \in Threads, MultiWait(t) \/ TimeoutWait(t)
  PROVE  EventsInv'
<1>1. /\ t = Looper /\ At(Looper, "run") /\ UNCHANGED <<queueVars, timer>>
      /\ act[Looper].at \in {"multiwait", "timewait"}
  BY WhoActs DEF MultiWait, TimeoutWait, LooperPlaces
<1>2. PICK p \in {"multiclear", "timeclear"} :
        /\ Step(Looper, p) /\ WaitAny(Looper, Awaited(p))
        /\ p = IF act[Looper].at = "multiwait" THEN "multiclear" ELSE "timeclear"
  <2>1. CASE MultiWait(t)
    BY <1>1, <2>1 DEF MultiWait, Awaited, Acting
  <2>2. CASE TimeoutWait(t)
    BY <1>1, <2>2 DEF TimeoutWait, Awaited, Acting
  <2> QED BY <2>1, <2>2
<1>3. UNCHANGED <<queue, linked, waiter, inhand, owed, ahead, timer>> /\ Looper \in Threads
  BY <1>1, TheLooper DEF queueVars
<1>4. act \in [Threads -> Acts]
  BY DEF EventsInv, EventTypes
<1>5. act'[Looper].at = p /\ \A u \in Threads \ {Looper} : act'[u] = act[u]
  BY <1>2, <1>3, <1>4 DEF Step
<1>6. /\ MutexInv' /\ FlagWaits' /\ UNCHANGED <<mtx, flags>>
      /\ mask' \in [Threads -> SUBSET Flags]
      /\ \A u \in Threads : pc'[u] = pc[u] \/ (pc[u].at = "run" /\ pc'[u].at \in {"run", "yield"})
      /\ k'.status[Looper] = "FLAG_BLOCKED_ANY" => flags[Looper] \cap Awaited(p) = {}
  BY <1>1, <1>2, <1>3, <1>5, WaitWaits
<1>7. NoCall
  BY <1>6 DEF NoCall
<1>8. /\ Roles' /\ act' \in [Threads -> Acts]
      /\ Flagging' <=> Flagging
      /\ \A u \in Threads : (Syncing(u)' <=> Syncing(u)) /\ (Posted(u)' <=> Posted(u))
  BY <1>1, <1>2, <1>7, LooperMoved DEF LooperPlaces
<1>9. /\ EventsKept' /\ AheadKept' /\ OneSync(queue'[QueueOf[SyncEv]])
      /\ inhand' = SyncEv => ~Queued(SyncEv)'
      /\ Out' <=> Out
  BY <1>1, <1>3, <1>5, QueuesKept DEF InHand
<1>10. SyncOnce'
  BY <1>6, <1>8, <1>9, SyncKept
<1>11. Noticed'
  <2>1. Looked' = Looked
    BY <1>1, <1>2, <1>5 DEF Looked
  <2>2. EventFlag \in Awaited(p)
    BY DEF Awaited
  <2>3. Deaf' => Deaf
    BY <1>1, <1>5, <1>6, <2>2 DEF Deaf
  <2> QED BY <1>3, <1>8, <2>1, <2>3, HeardOf
<1>12. EventTypes'
  BY <1>3, <1>6, <1>8 DEF EventsInv, EventTypes
<1>13. Claimed'
  BY <1>1, <1>3, <1>5 DEF EventsInv, Claimed
<1> QED BY <1>6, <1>8, <1>9, <1>10, <1>11, <1>12, <1>13 DEF EventsInv

(* sync_ev_handler(): the mutex goes to the thread that waits for it, or is *)
(* free for the one that has yet to lock it.                                *)
LEMMA SyncUnlock ==
  ASSUME EventsInv, At(Looper, "run"), Unlock(synced), UNCHANGED <<mc, held>>,
         Go(Looper, Simple(IF mtx[synced].queue = <<>> THEN "run" ELSE "yield"))
  PROVE  /\ MutexInv' /\ NoCall
         /\ \A u \in Threads :
              \/ k'.status[u] = k.status[u]
              \/ k.status[u] = "MUTEX_BLOCKED" /\ k'.status[u] = "PENDING"
         /\ mtx'[synced].locked <=> mtx[synced].locked /\ mtx[synced].queue # <<>>
<1> DEFINE n == Wake(k, mtx[synced])
           w == Head(mtx[synced].queue)
<1>0. /\ MutexInv /\ TypeOK /\ synced \in All /\ synced \in Signals /\ Looper \in Threads
      /\ KernelInv(k)
  BY TheLooper DEF EventsInv, MutexInv
<1>1. /\ mtx' = [mtx EXCEPT ![synced] = Passed(mtx[synced])]
      /\ k' = (IF mtx[synced].queue = <<>> THEN k ELSE Restore(n, mtx[synced]))
      /\ pc[Looper].at = "run"
  BY DEF Unlock, At
<1>2. /\ KernelInv(n) /\ n.active = k.active /\ n.idle = k.idle /\ n.pendsv = k.pendsv
      /\ \A u \in Threads :
           n.status[u] = IF mtx[synced].queue # <<>> /\ u = w THEN "PENDING" ELSE k.status[u]
  BY <1>0, WakeEffect
<1>3. mtx[synced].queue = <<>> => n = k
  BY DEF Wake
<1>4. mtx[synced].queue # <<>> => k.status[w] = "MUTEX_BLOCKED"
  BY <1>0, FirstWaiter
<1> HIDE DEF n, w
<1>5. /\ KernelInv(k') /\ k'.active = k.active /\ k'.idle = k.idle /\ k'.status = n.status
      /\ k.pendsv => k'.pendsv
  BY <1>0, <1>1, <1>2, <1>3, RestoreEffect
<1>6. pc' \in [Threads -> Places] /\ NoCall
  <2>1. PICK p \in {"run", "yield"} : pc' = [pc EXCEPT ![Looper] = Simple(p)]
    BY DEF Go
  <2>2. Simple(p) \in Places /\ Simple(p).at = p
    BY DEF Simple, Places
  <2> QED BY <1>0, <1>1, <2>1, <2>2 DEF TypeOK, NoCall
<1>7. \A u \in Threads :
        k'.status[u] = "MUTEX_BLOCKED" <=>
          k.status[u] = "MUTEX_BLOCKED" /\ ~(mtx[synced].queue # <<>> /\ u = w)
  BY <1>2, <1>5
<1>8. /\ mtx' \in [All -> [locked : BOOLEAN, queue : Seq(Threads),
                           owner : Threads \cup {NoThread}, orig : Prios]]
      /\ Lists' /\ Owned'
  BY <1>0, <1>1, <1>6, <1>7, PassedKeeps DEF NoCall, TypeOK, w
<1>9. Rests' /\ AtWork' /\ Cancelling'
  BY <1>0, <1>1, <1>2, <1>5, <1>6, ReadierKeeps DEF NoCall
<1>10. MutexInv'
  BY <1>0, <1>5, <1>6, <1>8, <1>9 DEF MutexInv, TypeOK, KernelInv
<1>11. mtx'[synced].locked <=> mtx[synced].locked /\ mtx[synced].queue # <<>>
  <2>1. /\ mtx'[synced] = Passed(mtx[synced])
        /\ mtx[synced] \in [locked : BOOLEAN, queue : Seq(Threads),
                            owner : Threads \cup {NoThread}, orig : Prios]
    BY <1>0, <1>1 DEF TypeOK
  <2> QED BY <2>1 DEF Passed
<1> QED BY <1>2, <1>4, <1>5, <1>6, <1>10, <1>11

(* The handler of an event runs, and the looper has none.                   *)
LEMMA HandleKeeps ==
  ASSUME EventsInv, NEW t \in Threads, Handle(t)
  PROVE  EventsInv'
<1>1. /\ t = Looper /\ Looper \in Threads /\ At(Looper, "run") /\ act[Looper].at = "handle"
      /\ owed' = owed \ {inhand} /\ ahead' = ahead \ {inhand} /\ inhand' = NoEv
      /\ Step(Looper, "choose")
      /\ UNCHANGED <<flags, mask, queue, linked, waiter, timer>>
  BY WhoActs DEF Handle, LooperPlaces, flagVars
<1>2. /\ MutexInv' /\ NoCall
      /\ \A u \in Threads :
           \/ k'.status[u] = k.status[u]
           \/ k.status[u] = "MUTEX_BLOCKED" /\ k'.status[u] = "PENDING"
      /\ IF inhand = SyncEv
         THEN mtx'[synced].locked <=> mtx[synced].locked /\ mtx[synced].queue # <<>>
         ELSE mtx' = mtx
  <2>1. CASE inhand = SyncEv
    BY <1>1, <2>1, SyncUnlock DEF Handle
  <2>2. CASE inhand # SyncEv
    BY <1>1, <2>2, SameKernel DEF Handle
  <2> QED BY <2>1, <2>2
<1>3. /\ Roles' /\ act' \in [Threads -> Acts] /\ act'[Looper].at = "choose"
      /\ \A u \in Threads \ {Looper} : act'[u] = act[u]
      /\ Flagging' <=> Flagging
      /\ \A u \in Threads : (Syncing(u)' <=> Syncing(u)) /\ (Posted(u)' <=> Posted(u))
  BY <1>1, <1>2, LooperMoved DEF LooperPlaces
<1>4. EventTypes /\ EventsKept /\ AheadKept /\ Claimed /\ SyncOnce /\ FlagWaits
  BY DEF EventsInv
<1>5. \A e : Queued(e)' <=> Queued(e)
  BY <1>1 DEF Queued
<1>6. EventsKept'
  BY <1>1, <1>3, <1>4, <1>5 DEF EventsKept, InHand
<1>7. AheadKept'
  <2>1. InFront(queue[QueueOf[SyncEv]], ahead, inhand)
    BY <1>4 DEF AheadKept
  <2>2. InFront(queue[QueueOf[SyncEv]], ahead \ {inhand}, NoEv)
    BY <2>1 DEF InFront
  <2> QED BY <1>1, <2>2, TheLooper DEF AheadKept
<1>8. SyncOnce'
  <2>1. OneSync(queue'[QueueOf[SyncEv]])
    BY <1>1, <1>4 DEF SyncOnce
  <2>2. CASE inhand # SyncEv
    <3>1. (inhand' = SyncEv => ~Queued(SyncEv)') /\ (Out' => Out)
      BY <1>1, <1>5, TheLooper DEF Out
    <3>2. mtx'[synced] = mtx[synced]
      BY <1>2, <2>2
    <3> QED BY <1>3, <2>1, <3>1, <3>2, SyncKept
  <2>3. CASE inhand = SyncEv
    <3>1. ~Out' /\ inhand' # SyncEv
      BY <1>1, <1>4, <1>5, <2>3, TheLooper DEF Out, SyncOnce
    <3>2. mtx[synced].locked /\ \E u \in Threads : Posted(u) \/ u \in Waiters(synced)
      BY <1>4, <2>3 DEF Out, SyncOnce
    <3>3. ~mtx'[synced].locked => \E u \in Threads : Posted(u)
      BY <1>2, <2>3, <3>2 DEF Waiters, Elems
    <3>4. ~mtx'[synced].locked => \E u \in Threads : Posted(u)'
      BY <1>3, <3>3
    <3>5. \A u, v \in Threads : Syncing(u)' /\ Syncing(v)' => u = v
      BY <1>3, <1>4 DEF SyncOnce
    <3> QED BY <2>1, <3>1, <3>4, <3>5 DEF SyncOnce
  <2> QED BY <2>2, <2>3
<1>9. FlagWaits'
  <2>1. k.status[Looper] \in OnRunqueue
    BY <1>1, Awake
  <2>2. ASSUME NEW u \in Threads PROVE WaitOK(k'.status[u], flags[u], mask[u], act'[u].at)
    <3>1. WaitOK(k.status[u], flags[u], mask[u], act[u].at)
      BY <1>4 DEF FlagWaits
    <3>2. CASE u = Looper
      BY <1>2, <1>3, <2>1, <3>1, <3>2 DEF WaitOK, OnRunqueue
    <3>3. CASE u # Looper
      BY <1>2, <1>3, <3>1, <3>3 DEF WaitOK
    <3> QED BY <3>2, <3>3
  <2> QED BY <1>1, <2>2 DEF FlagWaits
<1>10. Noticed'
  BY <1>3 DEF Noticed, Deaf
<1>11. EventTypes'
  BY <1>1, <1>3, <1>4 DEF EventTypes
<1>12. Claimed'
  BY <1>1, <1>3, <1>4 DEF Claimed
<1> QED BY <1>2, <1>3, <1>6, <1>7, <1>8, <1>9, <1>10, <1>11, <1>12 DEF EventsInv

-----------------------------------------------------------------------------
(* The flags that others set                                                *)

(* A flag set for the looper wakes it, or is there when it comes to wait.   *)
LEMMA RaiseHeard ==
  ASSUME EventsInv, NEW w \in Threads, NEW m \in SUBSET Flags, Raises(w, m),
         act'[Looper] = act[Looper], Deaf'
  PROVE  Deaf /\ ~(w = Looper /\ EventFlag \in m)
<1>1. flags \in [Threads -> SUBSET Flags] /\ Looper \in Threads
  BY TheLooper DEF EventsInv, EventTypes
<1>2. flags' = [flags EXCEPT ![w] = flags[w] \cup m]
  BY DEF Raises, Raised
<1>3. flags[Looper] \subseteq flags'[Looper] /\ (w = Looper => m \subseteq flags'[Looper])
  BY <1>1, <1>2
<1>4. CASE act[Looper].at \in {"multiwait", "timewait"}
  BY <1>3, <1>4 DEF Deaf
<1>5. CASE act[Looper].at \in {"multiclear", "timeclear"}
  <2>1. k'.status[Looper] = "FLAG_BLOCKED_ANY"
    BY <1>5 DEF Deaf
  <2>2. k.status[Looper] = "FLAG_BLOCKED_ANY" /\ (w = Looper => ~Ends(w, flags[w] \cup m))
    BY <1>1, <2>1 DEF Raises
  <2>3. EventFlag \in mask[Looper]
    BY <1>1, <1>5, <2>2 DEF EventsInv, FlagWaits, WaitOK, Awaited
  <2> QED BY <1>5, <2>2, <2>3 DEF Ends, Deaf
<1> QED BY <1>4, <1>5 DEF Deaf

(* The place of every thread stays.                                         *)
LEMMA Stayed ==
  ASSUME EventsInv, NoCall, act' = act
  PROVE  /\ Roles' /\ act' \in [Threads -> Acts]
         /\ Flagging' <=> Flagging
         /\ \A u \in Threads : (Syncing(u)' <=> Syncing(u)) /\ (Posted(u)' <=> Posted(u))
<1>1. \A u \in Threads : InCall(u, synced)' <=> InCall(u, synced)
  BY CallsKept
<1>2. Roles'
  BY <1>1 DEF EventsInv, Roles, NoCall
<1>3. Flagging' <=> Flagging
  BY DEF Flagging
<1>4. \A u \in Threads : (Syncing(u)' <=> Syncing(u)) /\ (Posted(u)' <=> Posted(u))
  BY <1>1 DEF Syncing, Posted
<1> QED BY <1>2, <1>3, <1>4 DEF EventsInv, EventTypes

(* A handler sets flags, and the queues are as they were.                   *)
LEMMA IsrRaises ==
  ASSUME EventsInv, NEW w \in Threads, NEW m \in SUBSET Flags, IsrSetFlags(w, m), act' = act
  PROVE  /\ MutexInv' /\ mtx' = mtx /\ Roles' /\ act' \in [Threads -> Acts] /\ FlagWaits'
         /\ flags' \in [Threads -> SUBSET Flags] /\ mask' \in [Threads -> SUBSET Flags]
         /\ Flagging' <=> Flagging
         /\ \A u \in Threads : (Syncing(u)' <=> Syncing(u)) /\ (Posted(u)' <=> Posted(u))
         /\ Deaf' => Deaf /\ ~(w = Looper /\ EventFlag \in m)
<1>1. MutexInv' /\ Raises(w, m) /\ mtx' = mtx
  BY RaiseKeeps
<1>2. NoCall
  BY <1>1 DEF Raises, NoCall
<1>3. FlagWaits' /\ flags' \in [Threads -> SUBSET Flags] /\ mask' \in [Threads -> SUBSET Flags]
  BY <1>1, RaiseWaits
<1>4. Deaf' => Deaf /\ ~(w = Looper /\ EventFlag \in m)
  BY <1>1, RaiseHeard
<1> QED BY <1>1, <1>2, <1>3, <1>4, Stayed

(* A handler sets a flag of the application, or that of the timeout.        *)
LEMMA IsrFlagKeeps ==
  ASSUME EventsInv,
         Expire \/ \E t \in Threads, f \in AppFlags : HandlerFlag(t, f)
  PROVE  EventsInv'
<1>1. PICK w \in Threads, m \in SUBSET Flags :
        /\ IsrSetFlags(w, m) /\ UNCHANGED <<queueVars, act>> /\ timer' \in BOOLEAN
  <2>1. CASE Expire
    <3>1. {TimeoutFlag} \in SUBSET Flags
      BY DEF Flags
    <3>2. IsrSetFlags(Looper, {TimeoutFlag}) /\ UNCHANGED <<queueVars, act>> /\ timer' \in BOOLEAN
      BY <2>1 DEF Expire
    <3> QED BY <3>1, <3>2, TheLooper
  <2>2. ASSUME NEW t \in Threads, NEW f \in AppFlags, HandlerFlag(t, f)
        PROVE  \E w \in Threads, m \in SUBSET Flags :
                 IsrSetFlags(w, m) /\ UNCHANGED <<queueVars, act>> /\ timer' \in BOOLEAN
    <3>1. {f} \in SUBSET Flags
      BY DEF Flags
    <3>2. IsrSetFlags(t, {f}) /\ UNCHANGED <<queueVars, act>> /\ timer' = timer
      BY <2>2 DEF HandlerFlag
    <3>3. timer \in BOOLEAN
      BY DEF EventsInv, EventTypes
    <3> QED BY <3>1, <3>2, <3>3
  <2> QED BY <2>1, <2>2
<1>2. UNCHANGED <<queue, linked, waiter, inhand, owed, ahead>>
  BY <1>1 DEF queueVars
<1>3. /\ MutexInv' /\ mtx' = mtx /\ Roles' /\ act' \in [Threads -> Acts] /\ FlagWaits'
      /\ flags' \in [Threads -> SUBSET Flags] /\ mask' \in [Threads -> SUBSET Flags]
      /\ Flagging' <=> Flagging
      /\ \A u \in Threads : (Syncing(u)' <=> Syncing(u)) /\ (Posted(u)' <=> Posted(u))
      /\ Deaf' => Deaf
  BY <1>1, IsrRaises
<1>4. /\ EventsKept' /\ AheadKept' /\ OneSync(queue'[QueueOf[SyncEv]])
      /\ inhand' = SyncEv => ~Queued(SyncEv)'
      /\ Out' <=> Out
  BY <1>1, <1>2, QueuesKept DEF InHand
<1>5. SyncOnce'
  BY <1>3, <1>4, SyncKept
<1>6. Noticed'
  BY <1>1, <1>2, <1>3, HeardOf DEF Looked
<1>7. EventTypes'
  BY <1>1, <1>2, <1>3 DEF EventsInv, EventTypes
<1>8. Claimed'
  BY <1>1, <1>2 DEF EventsInv, Claimed
<1> QED BY <1>3, <1>4, <1>5, <1>6, <1>7, <1>8 DEF EventsInv

(* The looper waits for the queues only when it has claimed them all.       *)
LEMMA WaiterIs ==
  ASSUME EventsInv, NEW q \in Queues
  PROVE  /\ waiter[q] \in {Looper, NoThread}
         /\ waiter[q] = NoThread => act[Looper].at = "claim"
<1>1. Looper # NoThread
  BY TheLooper, KernelAssumption DEF KernelAssumption
<1> QED BY <1>1 DEF EventsInv, Claimed

(* A handler posts an event of the application.                             *)
LEMMA IsrPostKeeps ==
  ASSUME EventsInv, NEW e \in Evs, HandlerPost(e)
  PROVE  EventsInv'
<1> DEFINE w == waiter[QueueOf[e]]
<1>1. /\ e \in AllEvs /\ e # SyncEv /\ QueueOf[e] \in Queues /\ Post(e) /\ UNCHANGED <<timer, act>>
      /\ IF w = NoThread THEN UNCHANGED <<flagVars, vars>> ELSE IsrSetFlags(w, {EventFlag})
  BY TheLooper DEF HandlerPost, IsrPost
<1>2. /\ queue' \in [Queues -> Seq(AllEvs)] /\ waiter' = waiter /\ inhand' = inhand
      /\ linked' \subseteq AllEvs /\ owed' \subseteq AllEvs /\ ahead' \subseteq AllEvs
      /\ \A f \in AllEvs : Queued(f)' <=> Queued(f) \/ (f = e /\ e \notin linked)
      /\ EventsKept' /\ AheadKept' /\ OneSync(queue'[QueueOf[SyncEv]])
  BY <1>1, PostEffect
<1>3. w \in {Looper, NoThread} /\ (w = NoThread => act[Looper].at = "claim")
  BY <1>1, WaiterIs
<1>4. /\ MutexInv' /\ mtx' = mtx /\ Roles' /\ act' \in [Threads -> Acts] /\ FlagWaits'
      /\ flags' \in [Threads -> SUBSET Flags] /\ mask' \in [Threads -> SUBSET Flags]
      /\ \A u \in Threads : (Syncing(u)' <=> Syncing(u)) /\ (Posted(u)' <=> Posted(u))
      /\ ~Deaf'
  <2>1. CASE w = NoThread
    <3>1. MutexInv' /\ NoCall /\ k' = k /\ mtx' = mtx /\ UNCHANGED <<flags, mask, act>>
      BY <1>1, <2>1, SameKernel DEF flagVars
    <3>2. FlagWaits' /\ flags' \in [Threads -> SUBSET Flags] /\ mask' \in [Threads -> SUBSET Flags]
      BY <3>1 DEF EventsInv, FlagWaits, EventTypes
    <3>3. ~Deaf'
      BY <1>3, <2>1, <3>1 DEF Deaf
    <3> QED BY <3>1, <3>2, <3>3, Stayed
  <2>2. CASE w = Looper
    <3>1. {EventFlag} \in SUBSET Flags /\ Looper \in Threads /\ Looper # NoThread
      BY TheLooper, KernelAssumption DEF Flags, KernelAssumption
    <3>2. IsrSetFlags(Looper, {EventFlag}) /\ act' = act
      BY <1>1, <2>2, <3>1
    <3> QED BY <3>1, <3>2, IsrRaises
  <2> QED BY <1>3, <2>1, <2>2
<1>5. SyncOnce'
  <2>1. (Queued(SyncEv)' <=> Queued(SyncEv)) /\ inhand' = inhand
    BY <1>1, <1>2, TheLooper
  <2>2. (Out' => Out) /\ (inhand' = SyncEv => ~Queued(SyncEv)')
    BY <2>1 DEF Out, EventsInv, SyncOnce
  <2> QED BY <1>2, <1>4, <2>2, SyncKept
<1>6. Noticed'
  BY <1>4 DEF Noticed
<1>7. EventTypes'
  BY <1>1, <1>2, <1>4 DEF EventsInv, EventTypes
<1>8. Claimed'
  BY <1>1, <1>2 DEF EventsInv, Claimed
<1> QED BY <1>2, <1>4, <1>5, <1>6, <1>7, <1>8 DEF EventsInv

-----------------------------------------------------------------------------
(* The other threads                                                        *)

(* A step of another thread in its own code: the looper is where it was.    *)
LEMMA OtherMoved ==
  ASSUME EventsInv, NEW t \in Threads \ {Looper}, At(t, "run"), NEW p, May(t, p),
         StepWith(t, p), NoCall
  PROVE  /\ Roles' /\ act' \in [Threads -> Acts] /\ act'[t] = p /\ act'[Looper] = act[Looper]
         /\ \A u \in Threads \ {t} : /\ act'[u] = act[u]
                                     /\ Syncing(u)' <=> Syncing(u)
                                     /\ Posted(u)' <=> Posted(u)
         /\ Syncing(t) <=> act[t].at \in SyncPlaces
         /\ Syncing(t)' <=> p.at \in SyncPlaces
         /\ Posted(t)' <=> p.at \in {"syncflag", "synclock"}
<1>1. /\ Roles' /\ act' \in [Threads -> Acts] /\ act'[t] = p
      /\ \A u \in Threads \ {t} : act'[u] = act[u]
  BY Moved
<1>2. \A u \in Threads : InCall(u, synced)' <=> InCall(u, synced)
  BY CallsKept
<1>3. ~InCall(t, synced)
  BY Awake
<1>4. \A u \in Threads \ {t} : (Syncing(u)' <=> Syncing(u)) /\ (Posted(u)' <=> Posted(u))
  BY <1>1, <1>2 DEF Syncing, Posted
<1>5. Syncing(t) <=> act[t].at \in SyncPlaces
  BY <1>3 DEF Syncing
<1>6. Syncing(t)' <=> p.at \in SyncPlaces
  BY <1>1, <1>2, <1>3 DEF Syncing
<1>7. Posted(t)' <=> p.at \in {"syncflag", "synclock"}
  BY <1>1 DEF Posted
<1> QED BY <1>1, <1>4, <1>5, <1>6, <1>7, TheLooper

(* The flag that event_post() sets after the event is in the queue.         *)
LEMMA RaiseFlagKeeps ==
  ASSUME EventsInv, NEW t \in Threads, RaiseFlag(t)
  PROVE  EventsInv'
<1>1. PICK p \in {"app", "synclock"} :
        /\ act[t].at = IF p = "app" THEN "flag" ELSE "syncflag"
        /\ At(t, "run") /\ Step(t, p) /\ UNCHANGED <<queueVars, timer>>
        /\ ThreadSetFlags(t, act[t].thread, {EventFlag})
  BY DEF RaiseFlag, Acting
<1>2. t # Looper /\ Looper \in Threads /\ act[t].thread = Looper
  BY <1>1, TheLooper DEF EventsInv, Roles, LooperPlaces
<1>3. {EventFlag} \in SUBSET Flags
  BY DEF Flags
<1>4. MutexInv' /\ Raises(Looper, {EventFlag}) /\ mtx' = mtx
  BY <1>1, <1>2, <1>3, RaiseKeeps
<1>5. NoCall
  BY <1>4 DEF Raises, NoCall
<1>6. May(t, [at |-> p]) /\ StepWith(t, [at |-> p])
  <2>1. p = "synclock" => t \in Syncers
    BY <1>1, <1>2 DEF EventsInv, Roles, SyncPlaces
  <2> QED BY <1>1, <1>2, <2>1, PlainMoves DEF Step, StepWith, OtherPlaces, SyncPlaces
<1>7. /\ Roles' /\ act' \in [Threads -> Acts] /\ act'[t] = [at |-> p] /\ act'[Looper] = act[Looper]
      /\ \A u \in Threads \ {t} : /\ act'[u] = act[u]
                                  /\ Syncing(u)' <=> Syncing(u)
                                  /\ Posted(u)' <=> Posted(u)
      /\ Syncing(t) <=> act[t].at \in SyncPlaces
      /\ Syncing(t)' <=> p \in SyncPlaces
      /\ Posted(t)' <=> p \in {"syncflag", "synclock"}
  BY <1>1, <1>2, <1>5, <1>6, OtherMoved
<1>8. UNCHANGED <<queue, linked, waiter, inhand, owed, ahead, timer>>
  BY <1>1 DEF queueVars
<1>9. /\ EventsKept' /\ AheadKept' /\ OneSync(queue'[QueueOf[SyncEv]])
      /\ inhand' = SyncEv => ~Queued(SyncEv)'
      /\ Out' <=> Out
  BY <1>7, <1>8, QueuesKept DEF InHand
<1>10. SyncOnce'
  <2>1. (Syncing(t)' => Syncing(t)) /\ (Posted(t) => Posted(t)')
    BY <1>1, <1>7 DEF SyncPlaces, Posted
  <2> QED BY <1>4, <1>7, <1>9, <2>1, SyncKept
<1>11. FlagWaits' /\ flags' \in [Threads -> SUBSET Flags] /\ mask' \in [Threads -> SUBSET Flags]
  <2>1. k.status[t] \in OnRunqueue
    BY <1>1, Awake
  <2> QED BY <1>2, <1>3, <1>4, <1>7, <2>1, RaiseWaits
<1>12. Noticed'
  BY <1>2, <1>3, <1>4, <1>7, RaiseHeard DEF Noticed
<1>13. EventTypes'
  BY <1>7, <1>8, <1>11 DEF EventsInv, EventTypes
<1>14. Claimed'
  BY <1>7, <1>8 DEF EventsInv, Claimed
<1> QED BY <1>4, <1>7, <1>9, <1>10, <1>11, <1>12, <1>13, <1>14 DEF EventsInv

(* event_post() in a thread, up to the irq_restore().                       *)
LEMMA ThreadPostKeeps ==
  ASSUME EventsInv, NEW t \in Threads \ {Looper}, At(t, "run"), NEW e \in AllEvs,
         NEW flagged, NEW next, ThreadPost(t, e, flagged, next),
         \/ e # SyncEv /\ flagged = "flag" /\ next = "app" /\ act[t].at = "app"
         \/ e = SyncEv /\ flagged = "syncflag" /\ next = "synclock" /\ act[t].at = "sync"
  PROVE  EventsInv'
<1> DEFINE w == waiter[QueueOf[e]]
           p == IF w = NoThread THEN [at |-> next] ELSE [at |-> flagged, thread |-> w]
<1>1. /\ QueueOf[e] \in Queues /\ Post(e) /\ StepWith(t, p) /\ UNCHANGED vars
      /\ UNCHANGED <<flags, mask, timer>>
  BY TheLooper DEF ThreadPost, flagVars
<1>2. w \in {Looper, NoThread} /\ (w = NoThread => act[Looper].at = "claim")
  BY <1>1, WaiterIs
<1>3. Looper \in Threads /\ (act[t].at = "sync" => t \in Syncers)
  BY TheLooper DEF EventsInv, Roles, SyncPlaces
<1>4. May(t, p) /\ p.at \in {flagged, next} /\ (p.at = next => w = NoThread)
  <2>1. CASE w = NoThread
    <3>1. May(t, [at |-> next])
      BY <1>3, PlainMoves DEF OtherPlaces, SyncPlaces
    <3> QED BY <2>1, <3>1
  <2>2. CASE w = Looper /\ w # NoThread
    <3>1. p = [at |-> flagged, thread |-> Looper] /\ p.at = flagged /\ p.thread = Looper
      BY <2>2
    <3>2. p \in Acts
      BY <1>3, <3>1 DEF Acts
    <3>3. May(t, p)
      BY <1>3, <3>1, <3>2 DEF May, OtherPlaces, SyncPlaces
    <3> QED BY <3>1, <3>3
  <2> QED BY <1>2, <2>1, <2>2
<1> HIDE DEF p
<1>5. MutexInv' /\ NoCall /\ k' = k /\ mtx' = mtx
  BY <1>1, SameKernel
<1>6. /\ Roles' /\ act' \in [Threads -> Acts] /\ act'[t] = p /\ act'[Looper] = act[Looper]
      /\ \A u \in Threads \ {t} : /\ act'[u] = act[u]
                                  /\ Syncing(u)' <=> Syncing(u)
                                  /\ Posted(u)' <=> Posted(u)
      /\ Syncing(t) <=> act[t].at \in SyncPlaces
      /\ Syncing(t)' <=> p.at \in SyncPlaces
      /\ Posted(t)' <=> p.at \in {"syncflag", "synclock"}
  BY <1>1, <1>4, <1>5, OtherMoved
<1>7. SyncOnce
  BY DEF EventsInv
<1>8. ASSUME e = SyncEv
      PROVE  /\ ~Out /\ mtx[synced].locked
             /\ \A u \in Threads : Syncing(u) => u = t
  <2>1. act[t].at = "sync" /\ Syncing(t) /\ ~Posted(t)
    BY <1>8 DEF Syncing, SyncPlaces, Posted
  <2>2. \A u \in Threads : Syncing(u) => u = t
    BY <1>7, <2>1 DEF SyncOnce
  <2>3. \A u \in Threads : ~Posted(u)
    BY <2>1, <2>2 DEF Posted, Syncing, SyncPlaces
  <2>4. \A u \in Threads : u \notin Waiters(synced)
    <3>1. \A u \in Threads : u \in Waiters(synced) => InCall(u, synced)
      BY TheLooper DEF EventsInv, MutexInv, Lists
    <3>2. ~InCall(t, synced)
      BY Awake
    <3> QED BY <2>2, <3>1, <3>2 DEF Syncing
  <2> QED BY <1>7, <2>2, <2>3, <2>4 DEF SyncOnce
<1>9. /\ queue' \in [Queues -> Seq(AllEvs)] /\ waiter' = waiter /\ inhand' = inhand
      /\ linked' \subseteq AllEvs /\ owed' \subseteq AllEvs /\ ahead' \subseteq AllEvs
      /\ \A f \in AllEvs : Queued(f)' <=> Queued(f) \/ (f = e /\ e \notin linked)
      /\ EventsKept' /\ AheadKept' /\ OneSync(queue'[QueueOf[SyncEv]])
  BY <1>1, <1>6, <1>8, PostEffect
<1>10. SyncOnce'
  <2>1. CASE e # SyncEv
    <3>1. (Queued(SyncEv)' <=> Queued(SyncEv)) /\ inhand' = inhand
      BY <1>9, <2>1, TheLooper
    <3>2. (Out' => Out) /\ (inhand' = SyncEv => ~Queued(SyncEv)')
      BY <1>7, <3>1 DEF Out, SyncOnce
    <3>3. ~Posted(t) /\ ~Syncing(t)'
      BY <1>4, <1>6, <2>1 DEF Posted, SyncPlaces
    <3> QED BY <1>5, <1>6, <1>9, <3>2, <3>3, SyncKept
  <2>2. CASE e = SyncEv
    <3>1. inhand' # SyncEv
      BY <1>8, <1>9, <2>2 DEF Out
    <3>2. Posted(t)' /\ mtx'[synced].locked
      BY <1>4, <1>5, <1>6, <1>8, <2>2
    <3>3. \A u \in Threads : Syncing(u)' => u = t
      BY <1>6, <1>8, <2>2
    <3> QED BY <1>9, <3>1, <3>2, <3>3 DEF SyncOnce
  <2> QED BY <2>1, <2>2
<1>11. FlagWaits'
  BY <1>1, <1>4, <1>5, <1>6, MoveWaits
<1>12. Noticed'
  <2>1. CASE p.at = flagged
    BY <1>6, <2>1 DEF Noticed, Flagging
  <2>2. CASE p.at = next
    <3>1. act'[Looper].at = "claim"
      BY <1>2, <1>4, <1>6, <2>2
    <3> QED BY <3>1 DEF Noticed, Deaf
  <2> QED BY <1>4, <2>1, <2>2
<1>13. EventTypes'
  BY <1>1, <1>6, <1>9 DEF EventsInv, EventTypes
<1>14. Claimed'
  BY <1>6, <1>9 DEF EventsInv, Claimed
<1> QED BY <1>5, <1>6, <1>9, <1>10, <1>11, <1>12, <1>13, <1>14 DEF EventsInv

(* event_post() of the application, and that of event_sync().               *)
LEMMA PostKeeps ==
  ASSUME EventsInv, NEW t \in Threads, Sync(t) \/ \E e \in Evs : AppPost(t, e)
  PROVE  EventsInv'
<1>1. CASE Sync(t)
  <2>1. t # Looper /\ At(t, "run") /\ act[t].at = "sync"
    BY <1>1, WhoActs DEF Sync, OtherPlaces, SyncPlaces
  <2> QED BY <1>1, <2>1, ThreadPostKeeps, TheLooper DEF Sync
<1>2. ASSUME NEW e \in Evs, AppPost(t, e) PROVE EventsInv'
  <2>1. t # Looper /\ At(t, "run") /\ act[t].at = "app"
    BY <1>2, WhoActs DEF AppPost, OtherPlaces
  <2> QED BY <1>2, <2>1, ThreadPostKeeps, TheLooper DEF AppPost
<1> QED BY <1>1, <1>2

(* A thread goes on to a place that is not behind a wait, and may clear     *)
(* flags of its own; one begins event_sync() when no other is in it.        *)
LEMMA OtherQuietKeeps ==
  ASSUME EventsInv, NEW t \in Threads \ {Looper}, At(t, "run"), NEW p, May(t, p), StepWith(t, p),
         UNCHANGED vars, UNCHANGED <<queueVars, timer, mask>>,
         flags' = flags \/ \E m : flags' = [flags EXCEPT ![t] = @ \ m],
         act[t].at \notin SyncPlaces \cup {"flag"},
         \/ p.at \in {"app", "one", "oneclear", "all"}
         \/ p.at = "sync" /\ \A u \in Threads : ~Syncing(u)
  PROVE  EventsInv'
<1>1. MutexInv' /\ NoCall /\ k' = k /\ mtx' = mtx
  BY SameKernel
<1>2. /\ Roles' /\ act' \in [Threads -> Acts] /\ act'[t] = p /\ act'[Looper] = act[Looper]
      /\ \A u \in Threads \ {t} : /\ act'[u] = act[u]
                                  /\ Syncing(u)' <=> Syncing(u)
                                  /\ Posted(u)' <=> Posted(u)
      /\ Syncing(t) <=> act[t].at \in SyncPlaces
      /\ Syncing(t)' <=> p.at \in SyncPlaces
      /\ Posted(t)' <=> p.at \in {"syncflag", "synclock"}
  BY <1>1, OtherMoved
<1>3. UNCHANGED <<queue, linked, waiter, inhand, owed, ahead, timer, mask>>
  BY DEF queueVars
<1>4. EventTypes /\ SyncOnce /\ Looper \in Threads
  BY TheLooper DEF EventsInv
<1>5. flags' \in [Threads -> SUBSET Flags] /\ \A u \in Threads \ {t} : flags'[u] = flags[u]
  BY <1>4 DEF EventTypes
<1>6. /\ EventsKept' /\ AheadKept' /\ OneSync(queue'[QueueOf[SyncEv]])
      /\ inhand' = SyncEv => ~Queued(SyncEv)'
      /\ Out' <=> Out
  BY <1>2, <1>3, QueuesKept DEF InHand
<1>7. ~Posted(t)
  BY DEF Posted, SyncPlaces
<1>8. SyncOnce'
  <2>1. CASE p.at \in {"app", "one", "oneclear", "all"}
    <3>1. ~Syncing(t)'
      BY <1>2, <2>1 DEF SyncPlaces
    <3> QED BY <1>1, <1>2, <1>6, <1>7, <3>1, SyncKept
  <2>2. CASE p.at = "sync" /\ \A u \in Threads : ~Syncing(u)
    <3>1. \A u \in Threads : Syncing(u)' => u = t
      BY <1>2, <2>2
    <3>2. \A u \in Threads : Posted(u) => Posted(u)'
      BY <1>2, <1>7
    <3>3. Waiters(synced)' = Waiters(synced)
      BY <1>1 DEF Waiters
    <3> QED BY <1>1, <1>4, <1>6, <3>1, <3>2, <3>3 DEF SyncOnce
  <2> QED BY <2>1, <2>2
<1>9. FlagWaits'
  BY <1>1, <1>2, <1>3, <1>5, MoveWaits
<1>10. Noticed'
  <2>1. Flagging => Flagging'
    BY <1>2 DEF Flagging, SyncPlaces
  <2>2. (Deaf' => Deaf) /\ Looked' = Looked
    BY <1>1, <1>2, <1>4, <1>5 DEF Deaf, Looked
  <2> QED BY <1>3, <2>1, <2>2, HeardOf
<1>11. EventTypes'
  BY <1>2, <1>3, <1>4, <1>5 DEF EventTypes
<1>12. Claimed'
  BY <1>2, <1>3 DEF EventsInv, Claimed
<1> QED BY <1>1, <1>2, <1>6, <1>8, <1>9, <1>10, <1>11, <1>12 DEF EventsInv

(* A thread waits for the flags of the application.                         *)
LEMMA OtherWaitKeeps ==
  ASSUME EventsInv, NEW t \in Threads \ {Looper}, At(t, "run"), NEW p \in {"onetake", "allclear"},
         Step(t, p), UNCHANGED <<queueVars, timer>>,
         IF p = "onetake" THEN act[t].at = "one" /\ WaitAny(t, AppFlags)
                          ELSE act[t].at = "all" /\ WaitAll(t, AppFlags)
  PROVE  EventsInv'
<1>1. act \in [Threads -> Acts] /\ Looper \in Threads
  BY TheLooper DEF EventsInv, EventTypes
<1>2. act'[t].at = p /\ \A u \in Threads \ {t} : act'[u] = act[u]
  BY <1>1 DEF Step
<1>3. Awaited(p) = AppFlags
  BY DEF Awaited
<1>4. /\ MutexInv' /\ FlagWaits' /\ UNCHANGED <<mtx, flags>>
      /\ mask' \in [Threads -> SUBSET Flags]
      /\ \A u \in Threads : pc'[u] = pc[u] \/ (pc[u].at = "run" /\ pc'[u].at \in {"run", "yield"})
      /\ \A u \in Threads \ {t} : k'.status[u] = k.status[u]
  BY <1>2, <1>3, WaitWaits
<1>5. NoCall
  BY <1>4 DEF NoCall
<1>6. May(t, [at |-> p]) /\ StepWith(t, [at |-> p])
  BY PlainMoves DEF Step, StepWith, OtherPlaces, SyncPlaces
<1>7. /\ Roles' /\ act' \in [Threads -> Acts] /\ act'[Looper] = act[Looper]
      /\ \A u \in Threads \ {t} : /\ act'[u] = act[u]
                                  /\ Syncing(u)' <=> Syncing(u)
                                  /\ Posted(u)' <=> Posted(u)
      /\ Syncing(t)' <=> p \in SyncPlaces
  BY <1>5, <1>6, OtherMoved
<1>8. UNCHANGED <<queue, linked, waiter, inhand, owed, ahead, timer>>
  BY DEF queueVars
<1>9. /\ EventsKept' /\ AheadKept' /\ OneSync(queue'[QueueOf[SyncEv]])
      /\ inhand' = SyncEv => ~Queued(SyncEv)'
      /\ Out' <=> Out
  BY <1>7, <1>8, QueuesKept DEF InHand
<1>10. SyncOnce'
  <2>1. ~Syncing(t)' /\ ~Posted(t)
    BY <1>7 DEF SyncPlaces, Posted
  <2> QED BY <1>4, <1>7, <1>9, <2>1, SyncKept
<1>11. Noticed'
  <2>1. Flagging => Flagging'
    BY <1>7 DEF Flagging
  <2>2. (Deaf' => Deaf) /\ Looked' = Looked
    BY <1>1, <1>4, <1>7 DEF Deaf, Looked
  <2> QED BY <1>8, <2>1, <2>2, HeardOf
<1>12. EventTypes'
  BY <1>4, <1>7, <1>8 DEF EventsInv, EventTypes
<1>13. Claimed'
  BY <1>7, <1>8 DEF EventsInv, Claimed
<1> QED BY <1>4, <1>7, <1>9, <1>10, <1>11, <1>12, <1>13 DEF EventsInv

(* What a thread of the application starts, and thread_flags_wait_one() and *)
(* thread_flags_wait_all() of one.                                          *)
LEMMA AppKeeps ==
  ASSUME EventsInv, NEW t \in Threads, AppStart(t) \/ One(t) \/ AllOf(t)
  PROVE  EventsInv'
<1>1. CASE AppStart(t)
  <2>1. t # Looper /\ At(t, "run") /\ act[t].at = "app"
    BY <1>1, WhoActs DEF AppStart, OtherPlaces
  <2>2. PICK p \in {"sync", "one", "all"} :
          /\ Step(t, p)
          /\ p = "sync" => /\ t \in Syncers
                           /\ \A u \in Syncers : act[u].at \notin {"sync", "syncflag", "synclock"}
                           /\ ~ \E u \in Threads : InCall(u, synced)
    BY <1>1 DEF AppStart
  <2>3. p = "sync" => \A u \in Threads : ~Syncing(u)
    <3>1. \A u \in Threads : act[u].at \in SyncPlaces => u \in Syncers
      BY DEF EventsInv, Roles, LooperPlaces, SyncPlaces
    <3> QED BY <2>2, <3>1 DEF Syncing, SyncPlaces
  <2>4. May(t, [at |-> p]) /\ StepWith(t, [at |-> p])
    BY <2>1, <2>2, PlainMoves DEF Step, StepWith, OtherPlaces, SyncPlaces
  <2>5. UNCHANGED vars /\ UNCHANGED <<queueVars, timer, mask>> /\ flags' = flags
    BY <1>1 DEF AppStart, flagVars
  <2>6. act[t].at \notin SyncPlaces \cup {"flag"}
    BY <2>1 DEF SyncPlaces
  <2> DEFINE place == [at |-> p]
  <2>7. place.at = p
    OBVIOUS
  <2> HIDE DEF place
  <2>8. May(t, place) /\ StepWith(t, place)
    BY <2>4 DEF place
  <2> QED BY <2>1, <2>2, <2>3, <2>5, <2>6, <2>7, <2>8, OtherQuietKeeps
<1>2. CASE One(t) /\ act[t].at = "one"
  <2>1. Acting(t, "one") /\ WaitAny(t, AppFlags) /\ Step(t, "onetake") /\ UNCHANGED <<queueVars, timer>>
    BY <1>2 DEF One, Acting
  <2>2. t # Looper /\ At(t, "run")
    BY <2>1, WhoActs DEF OtherPlaces
  <2> QED BY <1>2, <2>1, <2>2, OtherWaitKeeps
<1>3. CASE AllOf(t) /\ act[t].at = "all"
  <2>1. Acting(t, "all") /\ WaitAll(t, AppFlags) /\ Step(t, "allclear") /\ UNCHANGED <<queueVars, timer>>
    BY <1>3 DEF AllOf, Acting
  <2>2. t # Looper /\ At(t, "run")
    BY <2>1, WhoActs DEF OtherPlaces
  <2> QED BY <1>3, <2>1, <2>2, OtherWaitKeeps
<1>4. CASE (One(t) \/ AllOf(t)) /\ act[t].at \notin {"one", "all"}
  <2>1. /\ At(t, "run") /\ act[t].at \in {"onetake", "oneclear", "allclear"}
        /\ UNCHANGED vars /\ UNCHANGED <<queueVars, timer, mask>>
        /\ flags' = flags \/ \E m : flags' = [flags EXCEPT ![t] = @ \ m]
    BY <1>4 DEF One, AllOf, Acting, ClearFlags, flagVars
  <2>2. t # Looper
    BY <2>1 DEF EventsInv, Roles, LooperPlaces
  <2>3. \E place : StepWith(t, place) /\ May(t, place) /\ place.at \in {"app", "oneclear"}
    <3>1. May(t, [at |-> "app"])
      BY <2>2, PlainMoves DEF OtherPlaces, SyncPlaces
    <3>2. CASE Step(t, "app")
      <4>1. StepWith(t, [at |-> "app"])
        BY <3>2 DEF Step, StepWith
      <4> QED BY <3>1, <4>1
    <3>3. CASE ~Step(t, "app")
      <4> DEFINE f == flags[t] \cap AppFlags
                 b == CHOOSE b \in f : \A c \in f : b <= c
      <4>1. f # {} /\ StepWith(t, [at |-> "oneclear", bit |-> b])
        BY <1>4, <3>3 DEF One, AllOf, Acting
      <4>2. \E c \in f : \A d \in f : c <= d
        BY <4>1 DEF AppFlags
      <4>3. b \in AppFlags
        BY <4>2
      <4> HIDE DEF b
      <4>4. May(t, [at |-> "oneclear", bit |-> b])
        BY <2>2, <4>3 DEF May, Acts, OtherPlaces, SyncPlaces
      <4> QED BY <4>1, <4>4
    <3> QED BY <3>2, <3>3
  <2>4. act[t].at \notin SyncPlaces \cup {"flag"}
    BY <2>1 DEF SyncPlaces
  <2> QED BY <2>1, <2>2, <2>3, <2>4, OtherQuietKeeps
<1> QED BY <1>1, <1>2, <1>3, <1>4 DEF One, AllOf, Acting

(* event_cancel(), by the looper between two events or by another thread.   *)
LEMMA CancelKept ==
  ASSUME EventsInv, NEW t \in Threads, NEW e \in Evs, Cancel(t, e)
  PROVE  EventsInv'
<1>1. /\ UNCHANGED vars /\ UNCHANGED <<waiter, inhand, flags, mask, timer, act>>
      /\ queue' = [queue EXCEPT ![QueueOf[e]] = Unlink(queue[QueueOf[e]], e)]
      /\ linked' = linked \ {e} /\ ahead' = ahead \ {e}
      /\ owed' = IF inhand = e THEN owed ELSE owed \ {e}
  BY DEF Cancel, flagVars
<1>2. MutexInv' /\ NoCall /\ k' = k /\ mtx' = mtx
  BY <1>1, SameKernel
<1>3. /\ queue' \in [Queues -> Seq(AllEvs)]
      /\ \A f \in AllEvs : Queued(f)' => Queued(f)
      /\ EventsKept' /\ AheadKept' /\ OneSync(queue'[QueueOf[SyncEv]])
      /\ \A q \in Queues : queue'[q] # <<>> => queue[q] # <<>>
  BY <1>1, CancelEffect
<1>4. /\ Roles' /\ act' \in [Threads -> Acts]
      /\ Flagging' <=> Flagging
      /\ \A u \in Threads : (Syncing(u)' <=> Syncing(u)) /\ (Posted(u)' <=> Posted(u))
  BY <1>1, <1>2, Stayed
<1>5. SyncOnce'
  <2>1. (Out' => Out) /\ (inhand' = SyncEv => ~Queued(SyncEv)')
    BY <1>1, <1>3, TheLooper DEF Out, EventsInv, SyncOnce
  <2> QED BY <1>2, <1>3, <1>4, <2>1, SyncKept
<1>6. FlagWaits'
  BY <1>1, <1>2 DEF EventsInv, FlagWaits
<1>7. Noticed'
  <2>1. (Deaf' => Deaf) /\ Looked' = Looked
    BY <1>1, <1>2 DEF Deaf, Looked
  <2>2. Looked \subseteq Queues
    BY TheLooper DEF Looked, Queues
  <2> QED BY <1>3, <1>4, <2>1, <2>2, HeardOf
<1>8. EventTypes'
  BY <1>1, <1>3, <1>4 DEF EventsInv, EventTypes
<1>9. Claimed'
  BY <1>1 DEF EventsInv, Claimed
<1> QED BY <1>2, <1>3, <1>4, <1>5, <1>6, <1>7, <1>8, <1>9 DEF EventsInv

(* mutex_lock() in event_sync(): the thread has the mutex, because the      *)
(* handler ran already, or waits for it.                                    *)
LEMMA SyncLockKeeps ==
  ASSUME EventsInv, NEW t \in Threads, SyncLock(t)
  PROVE  EventsInv'
<1>0. /\ MutexInv /\ TypeOK /\ KernelInv(k) /\ synced \in All /\ synced \notin Mutexes
      /\ Looper \in Threads /\ act \in [Threads -> Acts] /\ SyncOnce
  BY TheLooper DEF EventsInv, EventTypes, MutexInv
<1>1. /\ At(t, "run") /\ act[t].at = "synclock" /\ t # Looper
      /\ UNCHANGED <<queue, linked, waiter, inhand, owed, ahead, timer, flags, mask>>
      /\ LockFree(t, synced) \/ LockBlocks(t, synced)
      /\ act' = [act EXCEPT ![t] = [at |-> "app"]]
  BY WhoActs DEF SyncLock, OtherPlaces, SyncPlaces, queueVars, flagVars, Step
<1>2. MutexInv'
  BY <1>0, <1>1, LockKeeps
<1>3. act'[t].at = "app" /\ (\A u \in Threads \ {t} : act'[u] = act[u]) /\ act'[Looper] = act[Looper]
  BY <1>0, <1>1
<1>4. [at |-> "app"] \in Acts /\ act' \in [Threads -> Acts]
  BY <1>0, <1>1 DEF Acts, Plain
<1>5. /\ Posted(t) /\ Syncing(t) /\ ~InCall(t, synced)
      /\ k.status[t] \in OnRunqueue
      /\ \A u \in Threads : Syncing(u) => u = t
  <2>1. Posted(t) /\ Syncing(t)
    BY <1>1 DEF Posted, Syncing, SyncPlaces
  <2>2. \A u \in Threads : Syncing(u) => u = t
    BY <1>0, <2>1 DEF SyncOnce
  <2>3. k.status[t] \in OnRunqueue /\ ~InCall(t, synced)
    BY <1>1, Awake
  <2> QED BY <2>1, <2>2, <2>3
<1>6. mtx[synced].locked => LockBlocks(t, synced)
  BY <1>1 DEF LockFree
<1>7. CASE LockFree(t, synced)
  <2>1. /\ UNCHANGED <<k, mc, pc>> /\ ~mtx[synced].locked
        /\ mtx' = [mtx EXCEPT ![synced] = Taken(mtx[synced], t)]
    BY <1>7 DEF LockFree
  <2>2. mtx'[synced].locked
    <3>1. mtx[synced] \in [locked : BOOLEAN, queue : Seq(Threads),
                           owner : Threads \cup {NoThread}, orig : Prios]
      BY <1>0 DEF TypeOK
    <3>2. mtx'[synced] = Taken(mtx[synced], t)
      BY <1>0, <2>1 DEF TypeOK
    <3> QED BY <3>1, <3>2 DEF Taken
  <2>3. NoCall /\ \A u \in Threads : InCall(u, synced)' <=> InCall(u, synced)
    BY <2>1 DEF NoCall, InCall
  <2>4. \A u \in Threads : k'.status[u] = IF u = t /\ FALSE THEN "MUTEX_BLOCKED" ELSE k.status[u]
    BY <2>1
  <2>5. ~Out
    BY <1>0, <2>1 DEF SyncOnce
  <2>6. \A u \in Threads : ~Syncing(u)'
    BY <1>3, <1>5, <2>3 DEF Syncing, SyncPlaces
  <2>7. /\ EventsKept' /\ AheadKept' /\ OneSync(queue'[QueueOf[SyncEv]])
        /\ inhand' = SyncEv => ~Queued(SyncEv)'
        /\ Out' <=> Out
    BY <1>1, <1>3, QueuesKept DEF InHand
  <2>8. SyncOnce'
    BY <2>2, <2>5, <2>6, <2>7 DEF SyncOnce
  <2>9. Roles'
    <3>1. \A u \in Threads : pc'[u].at \in {"block", "woken"} => u # t
      BY <1>1, <2>1 DEF At
    <3> QED BY <1>1, <1>3, <2>1, <2>3, <3>1 DEF EventsInv, Roles, SyncPlaces, OtherPlaces
  <2>10. FlagWaits' /\ k'.status[Looper] = k.status[Looper]
    BY <1>1, <1>3, <2>1, MoveWaits
  <2> QED BY <1>1, <1>2, <1>3, <1>4, <2>7, <2>8, <2>9, <2>10, HeardOf
          DEF EventsInv, EventTypes, Claimed, Deaf, Looked, Flagging
<1>8. CASE LockBlocks(t, synced)
  <2> DEFINE blocked == SetStatus(k, t, "MUTEX_BLOCKED")
             q == AddToList(blocked, mtx[synced].queue, t)
  <2>1. /\ k' = Inherit(blocked, mtx[synced], t) /\ mtx[synced].locked
        /\ mtx' = [mtx EXCEPT ![synced].queue = q]
        /\ pc' = [pc EXCEPT ![t] = [at |-> "block", mutex |-> synced, mc |-> FALSE]]
    BY <1>8 DEF LockBlocks, Block, Go
  <2>2. /\ KernelInv(blocked) /\ blocked.prio = k.prio
        /\ \A u \in Threads :
             blocked.status[u] = IF u = t THEN "MUTEX_BLOCKED" ELSE k.status[u]
    BY <1>0, StatusSet, KernelTypes
  <2>3. q \in Seq(Threads) /\ Elems(q) = Waiters(synced) \cup {t}
    <3> DEFINE w == mtx[synced].queue
    <3>1. w \in Seq(Threads) /\ Once(w) /\ t \notin Elems(w) /\ t \in Threads
      BY <1>0, <1>1, Working DEF MutexInv, TypeOK, Lists, Waiters, At
    <3> HIDE DEF blocked, w
    <3>2. AddToList(blocked, w, t) \in Seq(Threads)
      BY <3>1, ElemsAdd
    <3>3. Elems(AddToList(blocked, w, t)) = Elems(w) \cup {t}
      BY <3>1, ElemsAdd
    <3> QED BY <3>2, <3>3 DEF w, Waiters
  <2> HIDE DEF blocked, q
  <2>4. \A u \in Threads : k'.status[u] = IF u = t THEN "MUTEX_BLOCKED" ELSE k.status[u]
    <3>1. mtx[synced].owner \in Threads \cup {NoThread} /\ blocked.prio[t] \in Prios
      BY <1>0, <2>2 DEF TypeOK, KernelInv, KernelType
    <3>2. \/ k' = blocked
          \/ PI /\ \E u \in Threads, p \in Prios : k' = ChangePriority(blocked, u, p)
      BY <2>1, <3>1 DEF Inherit
    <3> QED BY <2>2, <3>2, ChangePriorityEffect
  <2>5. mtx'[synced].locked /\ Waiters(synced)' = Waiters(synced) \cup {t}
    <3>1. mtx'[synced].queue = q /\ mtx'[synced].locked = mtx[synced].locked
      BY <1>0, <2>1, <2>3, QueueChanges
    <3> QED BY <2>1, <2>3, <3>1 DEF Waiters
  <2>6. /\ pc'[t] = [at |-> "block", mutex |-> synced, mc |-> FALSE]
        /\ \A u \in Threads \ {t} : pc'[u] = pc[u]
    BY <1>0, <2>1 DEF TypeOK
  <2>7. \A u \in Threads : Syncing(u)' => u = t
    BY <1>3, <1>5, <2>6 DEF Syncing, InCall
  <2>8. /\ EventsKept' /\ AheadKept' /\ OneSync(queue'[QueueOf[SyncEv]])
        /\ inhand' = SyncEv => ~Queued(SyncEv)'
        /\ Out' <=> Out
    BY <1>1, <1>3, QueuesKept DEF InHand
  <2>9. SyncOnce'
    BY <2>5, <2>7, <2>8 DEF SyncOnce
  <2>10. Roles'
    BY <1>1, <1>3, <2>6 DEF EventsInv, Roles, SyncPlaces, OtherPlaces, InCall
  <2>11. FlagWaits'
    <3>1. ASSUME NEW u \in Threads PROVE WaitOK(k'.status[u], flags[u], mask[u], act'[u].at)
      <4>1. WaitOK(k.status[u], flags[u], mask[u], act[u].at)
        BY DEF EventsInv, FlagWaits
      <4> QED BY <1>3, <2>4, <4>1 DEF WaitOK
    <3> QED BY <1>1, <3>1 DEF FlagWaits
  <2>12. k'.status[Looper] = k.status[Looper]
    BY <1>0, <1>1, <2>4
  <2> QED BY <1>1, <1>2, <1>3, <1>4, <2>8, <2>9, <2>10, <2>11, <2>12, HeardOf
          DEF EventsInv, EventTypes, Claimed, Deaf, Looked, Flagging
<1> QED BY <1>1, <1>7, <1>8

-----------------------------------------------------------------------------
(* The specification                                                        *)

(* The invariant holds when main() has been started.                         *)
LEMMA EventsInitInv == EventsInit => EventsInv
<1> SUFFICES ASSUME EventsInit PROVE EventsInv
  OBVIOUS
<1>1. /\ MutexInv /\ TypeOK /\ Looper \in Threads /\ synced \in Signals /\ synced \in All
      /\ flags = [t \in Threads |-> {}] /\ mask = [t \in Threads |-> {}]
      /\ queue = [q \in Queues |-> <<>>] /\ linked = {}
      /\ waiter = [q \in Queues |-> NoThread]
      /\ inhand = NoEv /\ owed = {} /\ ahead = {} /\ timer = FALSE
      /\ act = [t \in Threads |-> [at |-> IF t = Looper THEN "claim" ELSE "app"]]
  BY InitInv, TheLooper DEF EventsInit, MutexInv
<1>2. /\ \A t \in Threads : k.status[t] \in {"PENDING", "SLEEPING"} /\ pc[t].at = "run"
      /\ mtx[synced].locked
  <2>1. \A t \in Threads : k.status[t] \in {"PENDING", "SLEEPING"}
    BY MutexAssumption, StartOK DEF EventsInit, Init, MutexAssumption
  <2>2. \A t \in Threads : pc[t].at = "run"
    BY DEF EventsInit, Init, Simple
  <2>3. mtx[synced].locked
    BY <1>1 DEF EventsInit, Init
  <2> QED BY <2>1, <2>2, <2>3
<1>3. /\ act[Looper].at = "claim" /\ \A t \in Threads \ {Looper} : act[t].at = "app"
      /\ act \in [Threads -> Acts]
  <2>1. [at |-> "claim"] \in Acts /\ [at |-> "app"] \in Acts
    BY DEF Acts, Plain
  <2> QED BY <1>1, <2>1
<1>4. \A q \in Queues : queue[q] = <<>> /\ queue[q] \in Seq(AllEvs) /\ Elems(queue[q]) = {}
  BY <1>1 DEF Elems
<1>5. ~Queued(SyncEv) /\ inhand # SyncEv /\ QueueOf[SyncEv] \in Queues
  BY <1>1, <1>4, TheLooper DEF Queued
<1>6. EventTypes
  <2>1. queue \in [Queues -> Seq(AllEvs)]
    <3>1. <<>> \in Seq(AllEvs)
      OBVIOUS
    <3> QED BY <1>1, <3>1
  <2>2. flags \in [Threads -> SUBSET Flags] /\ mask \in [Threads -> SUBSET Flags]
    BY <1>1
  <2>3. waiter \in [Queues -> Threads \cup {NoThread}]
    BY <1>1
  <2> QED BY <1>1, <1>3, <2>1, <2>2, <2>3 DEF EventTypes
<1>7. Roles
  BY <1>2, <1>3 DEF Roles, LooperPlaces, OtherPlaces, SyncPlaces
<1>8. Claimed
  <2>1. 1 \in Queues /\ \A q \in Queues : ~(q < 1)
    BY TheLooper DEF Queues
  <2>2. \A q \in Queues : waiter[q] = NoThread
    BY <1>1
  <2> QED BY <1>3, <2>1, <2>2 DEF Claimed
<1>9. FlagWaits
  BY <1>2, <1>3 DEF FlagWaits, WaitOK
<1>10. Noticed
  BY <1>3 DEF Noticed, Deaf
<1>11. EventsKept
  BY <1>1, <1>3, <1>4 DEF EventsKept, InHand
<1>12. SyncOnce
  <2>1. \A t \in Threads : ~Syncing(t)
    BY <1>2, <1>3 DEF Syncing, SyncPlaces, InCall
  <2>2. OneSync(queue[QueueOf[SyncEv]])
    BY <1>4, <1>5 DEF OneSync
  <2> QED BY <1>2, <1>5, <2>1, <2>2 DEF SyncOnce, Out
<1>13. AheadKept
  BY <1>1, <1>5 DEF AheadKept, InFront
<1> QED BY <1>1, <1>6, <1>7, <1>8, <1>9, <1>10, <1>11, <1>12, <1>13 DEF EventsInv

(* Every step of the image keeps the invariant.                              *)
LEMMA EventsStepInv == EventsInv /\ [EventsNext]_eventsVars => EventsInv'
<1> SUFFICES ASSUME EventsInv, [EventsNext]_eventsVars PROVE EventsInv'
  OBVIOUS
<1>1. CASE UNCHANGED eventsVars
  <2>1. MutexInv' /\ NoCall /\ k' = k /\ mtx' = mtx /\ pc' = pc
    BY <1>1, SameKernel DEF eventsVars
  <2>2. /\ UNCHANGED <<flags, mask, timer, act>>
        /\ UNCHANGED <<queue, linked, waiter, inhand, owed, ahead>>
    BY <1>1 DEF eventsVars, eventVars, flagVars, queueVars
  <2>3. /\ Roles' /\ act' \in [Threads -> Acts]
        /\ Flagging' <=> Flagging
        /\ \A u \in Threads : (Syncing(u)' <=> Syncing(u)) /\ (Posted(u)' <=> Posted(u))
    BY <2>1, <2>2, Stayed
  <2>4. /\ EventsKept' /\ AheadKept' /\ OneSync(queue'[QueueOf[SyncEv]])
        /\ inhand' = SyncEv => ~Queued(SyncEv)'
        /\ Out' <=> Out
    BY <2>2, QueuesKept DEF InHand
  <2>5. SyncOnce'
    BY <2>1, <2>3, <2>4, SyncKept
  <2>6. EventTypes' /\ Claimed' /\ FlagWaits'
    BY <2>1, <2>2 DEF EventsInv, EventTypes, Claimed, FlagWaits
  <2>7. Noticed'
    BY <2>1, <2>2 DEF EventsInv, Noticed, Deaf, Looked, Flagging
  <2> QED BY <2>1, <2>3, <2>4, <2>5, <2>6, <2>7 DEF EventsInv
<1>2. ASSUME NEW t \in Threads,
             Proceed(t) \/ AppStart(t) \/ AppSleep(t) \/ HandlerWakeup(t)
      PROVE  EventsInv'
  <2>1. CASE InKernel(t) \/ AppSleep(t) \/ HandlerWakeup(t)
    BY <2>1, KernelStepsKeep
  <2>2. CASE Looping(t)
    BY <2>2, ClaimKeeps, TakeFirstKeeps, LooperWaitKeeps, QuietKeeps, EventGetKeeps, HandleKeeps
       DEF Looping
  <2>3. CASE RaiseFlag(t)
    BY <2>3, RaiseFlagKeeps
  <2>4. CASE Sync(t)
    BY <2>4, PostKeeps
  <2>5. CASE SyncLock(t)
    BY <2>5, SyncLockKeeps
  <2>6. CASE AppStart(t) \/ One(t) \/ AllOf(t)
    BY <2>6, AppKeeps
  <2> QED BY <1>2, <2>1, <2>2, <2>3, <2>4, <2>5, <2>6 DEF Proceed
<1>3. ASSUME NEW t \in Threads, NEW e \in Evs, AppPost(t, e) \/ Cancel(t, e)
      PROVE  EventsInv'
  BY <1>3, PostKeeps, CancelKept
<1>4. ASSUME NEW t \in Threads, NEW f \in AppFlags, HandlerFlag(t, f)
      PROVE  EventsInv'
  BY <1>4, IsrFlagKeeps
<1>5. ASSUME NEW e \in Evs, HandlerPost(e)
      PROVE  EventsInv'
  BY <1>5, IsrPostKeeps
<1>6. CASE Expire
  BY <1>6, IsrFlagKeeps
<1>7. CASE EventProcessor
  BY <1>7, KernelStepsKeep, TheLooper
<1> QED BY <1>1, <1>2, <1>3, <1>4, <1>5, <1>6, <1>7 DEF EventsNext

(* In every state of the thread flags, the queues and event_sync().         *)
THEOREM EventsInvariant == EventsSpec => []EventsInv
BY EventsInitInv, EventsStepInv, PTL DEF EventsSpec

(* thread_flags_wait_any(), thread_flags_wait_all() and the waits of the    *)
(* looper end when the flags are enough and not before, whoever sets and    *)
(* clears flags in between.                                                 *)
THEOREM WaitsAlwaysHonoured == EventsSpec => []WaitsHonoured
<1>1. EventsInv => WaitsHonoured
  <2> SUFFICES ASSUME EventsInv, NEW t \in Threads
               PROVE  /\ k.status[t] = "FLAG_BLOCKED_ANY" => flags[t] \cap mask[t] = {}
                      /\ k.status[t] = "FLAG_BLOCKED_ALL" => ~(mask[t] \subseteq flags[t])
                      /\ IsActive(k, t) /\ act[t].at = "multiclear" => EventFlag \in flags[t]
                      /\ IsActive(k, t) /\ act[t].at = "timeclear" =>
                           flags[t] \cap {EventFlag, TimeoutFlag} # {}
                      /\ IsActive(k, t) /\ act[t].at = "onetake" => flags[t] \cap AppFlags # {}
                      /\ IsActive(k, t) /\ act[t].at = "allclear" => AppFlags \subseteq flags[t]
    BY DEF WaitsHonoured
  <2>1. WaitOK(k.status[t], flags[t], mask[t], act[t].at)
    BY DEF EventsInv, FlagWaits
  <2>2. IsActive(k, t) => k.status[t] \in {"RUNNING", "PENDING"}
    BY DEF IsActive, OnRunqueue
  <2> QED BY <2>1, <2>2 DEF WaitOK, Awaited
<1> QED BY <1>1, EventsInvariant, PTL

(* What is in some queue is in the union of the queues, and conversely.      *)
LEMMA InQueues ==
  ASSUME NEW e
  PROVE  e \in UNION {Elems(queue[q]) : q \in Queues}
           <=> \E q \in Queues : e \in Elems(queue[q])
OBVIOUS

(* event_post() is answered: until its handler is called, the event is in   *)
(* its queue or on the way there, through every cancel, post and timeout.   *)
THEOREM PostsAlwaysAnswered == EventsSpec => []PostsAnswered
<1>1. EventsInv => PostsAnswered
  <2> SUFFICES ASSUME EventsInv, NEW e \in owed
               PROVE  e \in (UNION {Elems(queue[q]) : q \in Queues}) \cup {inhand}
    BY DEF PostsAnswered
  <2>1. e \in AllEvs /\ (Queued(e) \/ e = inhand)
    BY DEF EventsInv, EventTypes, EventsKept
  <2>2. QueueOf[e] \in Queues
    BY <2>1, TheLooper
  <2>3. Queued(e) => \E q \in Queues : e \in Elems(queue[q])
    BY <2>2 DEF Queued
  <2>4. Queued(e) => e \in UNION {Elems(queue[q]) : q \in Queues}
    BY <2>3, InQueues
  <2> QED BY <2>1, <2>4
<1> QED BY <1>1, EventsInvariant, PTL

(* The looper does not sleep through an event: while it is blocked and one  *)
(* of the queues it waits for is not empty, a poster has yet to set its flag. *)
THEOREM NothingSleptThrough == EventsSpec => []NotSleptThrough
<1>1. EventsInv => NotSleptThrough
  <2> SUFFICES ASSUME EventsInv, k.status[Looper] = "FLAG_BLOCKED_ANY",
                      \E q \in Watched : queue[q] # <<>>
               PROVE  \E t \in Threads : act[t].at \in {"flag", "syncflag"} /\ act[t].thread = Looper
    BY DEF NotSleptThrough
  <2>1. act[Looper].at \in {"multiclear", "timeclear"}
    BY TheLooper DEF EventsInv, FlagWaits, WaitOK, Roles, LooperPlaces
  <2>2. Deaf /\ Looked = Watched
    BY <2>1 DEF Deaf, Looked, Watched
  <2>3. PICK t \in Threads : act[t].at \in {"flag", "syncflag"}
    BY <2>2 DEF EventsInv, Noticed, Flagging
  <2>4. t # Looper
    BY <2>3 DEF EventsInv, Roles, LooperPlaces
  <2> QED BY <2>3, <2>4 DEF EventsInv, Roles
<1> QED BY <1>1, EventsInvariant, PTL

(* event_sync() is a barrier: when its handler is about to unlock the mutex, *)
(* every event that was queued before it has been handled or cancelled.     *)
THEOREM SyncAlwaysBarrier == EventsSpec => []SyncIsBarrier
<1>1. EventsInv => SyncIsBarrier
  BY DEF EventsInv, AheadKept, SyncIsBarrier
<1> QED BY <1>1, EventsInvariant, PTL

-----------------------------------------------------------------------------
(* The nodes of the events                                                  *)

(* A step that leaves the queues alone, ...                                 *)
LEMMA LinksKept ==
  ASSUME Linked, UNCHANGED <<queue, linked, inhand>>,
         act'[Looper].at = "unlink" => act[Looper].at = "unlink"
  PROVE  Linked'
BY DEF Linked, Queued

(* ... event_post(), ...                                                    *)
LEMMA PostLinks ==
  ASSUME EventsInv, Linked, NEW e \in AllEvs, Post(e),
         act'[Looper].at = "unlink" => act[Looper].at = "unlink"
  PROVE  Linked'
<1>1. CASE e \in linked
  BY <1>1, LinksKept DEF Post, Pushed
<1>2. CASE e \notin linked
  <2> DEFINE q == QueueOf[e]
             r == Append(queue[q], e)
  <2>1. /\ q \in Queues /\ queue \in [Queues -> Seq(AllEvs)] /\ Once(queue[q])
        /\ Elems(queue[q]) \subseteq linked
    BY TheLooper DEF EventsInv, EventTypes, Linked
  <2>2. Once(r) /\ Elems(r) = Elems(queue[q]) \cup {e}
    BY <1>2, <2>1, ElemsAppend
  <2>3. queue' = [queue EXCEPT ![q] = r] /\ linked' = linked \cup {e} /\ inhand' = inhand
    BY <1>2 DEF Post, Pushed
  <2> HIDE DEF r
  <2>4. queue'[q] = r /\ \A p \in Queues : p # q => queue'[p] = queue[p]
    BY <2>1, <2>3
  <2>5. ASSUME NEW p \in Queues PROVE Once(queue'[p]) /\ Elems(queue'[p]) \subseteq linked'
    BY <2>2, <2>3, <2>4 DEF Linked
  <2>6. ASSUME act'[Looper].at = "unlink"
        PROVE  inhand' \in linked' /\ ~Queued(inhand)' /\ QueueOf[inhand'] = 1
    <3>1. inhand \in linked /\ ~Queued(inhand) /\ QueueOf[inhand] = 1 /\ inhand # e
      BY <1>2, <2>6 DEF Linked
    <3>2. QueueOf[inhand] \in Queues
      BY <3>1, TheLooper DEF EventsInv, EventTypes
    <3>3. ~Queued(inhand)'
      BY <2>2, <2>3, <2>4, <3>1, <3>2 DEF Queued
    <3> QED BY <2>3, <3>1, <3>3
  <2> QED BY <2>5, <2>6 DEF Linked
<1> QED BY <1>1, <1>2

(* ... event_cancel(), of an event that event_get() is not taking, ...      *)
LEMMA CancelLinks ==
  ASSUME EventsInv, Linked, CancelsAreOwn, NEW t \in Threads, NEW e \in Evs, Cancel(t, e)
  PROVE  Linked'
<1> DEFINE q == QueueOf[e]
           r == Unlink(queue[q], e)
<1>1. /\ q \in Queues /\ queue \in [Queues -> Seq(AllEvs)] /\ Once(queue[q])
  BY TheLooper DEF EventsInv, EventTypes, Linked
<1>2. /\ queue' = [queue EXCEPT ![q] = r] /\ linked' = linked \ {e} /\ inhand' = inhand /\ act' = act
  BY DEF Cancel
<1>3. Once(r) /\ Elems(r) = Elems(queue[q]) \ {e}
  BY <1>1, ElemsUnlink
<1> HIDE DEF r
<1>4. queue'[q] = r /\ \A p \in Queues : p # q => queue'[p] = queue[p]
  BY <1>1, <1>2
<1>5. \A p \in Queues : p # q => e \notin Elems(queue[p])
  BY DEF EventsInv, EventsKept
<1>6. ASSUME NEW p \in Queues PROVE Once(queue'[p]) /\ Elems(queue'[p]) \subseteq linked'
  BY <1>2, <1>3, <1>4, <1>5 DEF Linked
<1>7. ASSUME act'[Looper].at = "unlink"
      PROVE  inhand' \in linked' /\ ~Queued(inhand)' /\ QueueOf[inhand'] = 1
  <2>1. /\ inhand \in linked /\ ~Queued(inhand) /\ QueueOf[inhand] = 1
    BY <1>2, <1>7 DEF Linked
  <2>2. t # Looper /\ <<t, e>> \in Cancels
    BY <1>2, <1>7 DEF Cancel, Acting
  <2>3. e # inhand
    BY <2>1, <2>2 DEF CancelsAreOwn
  <2>4. QueueOf[inhand] \in Queues
    BY <2>1, TheLooper DEF EventsInv, EventTypes
  <2>5. ~Queued(inhand)'
    BY <1>2, <1>3, <1>4, <2>1, <2>4 DEF Queued
  <2> QED BY <1>2, <2>1, <2>3, <2>5
<1> QED BY <1>6, <1>7 DEF Linked

(* ... event_get() and event_wait_multi(), which take the first event, ...  *)
LEMMA TakeLinks ==
  ASSUME EventsInv, Linked, NEW q \in Queues, queue[q] # <<>>,
         queue' = [queue EXCEPT ![q] = Tail(queue[q])], inhand' = Head(queue[q]),
         \/ act'[Looper].at = "unlink" /\ linked' = linked /\ q = 1
         \/ act'[Looper].at = "handle" /\ linked' = linked \ {Head(queue[q])}
  PROVE  Linked'
<1> DEFINE h == Head(queue[q])
           r == Tail(queue[q])
<1>1. queue \in [Queues -> Seq(AllEvs)] /\ Once(queue[q]) /\ queue[q] \in Seq(AllEvs)
  BY DEF EventsInv, EventTypes, Linked
<1>2. /\ Once(r) /\ h \in Elems(queue[q]) /\ h \notin Elems(r) /\ Elems(r) \subseteq Elems(queue[q])
  BY <1>1, ElemsTail
<1>3. queue' = [queue EXCEPT ![q] = r] /\ inhand' = h /\ linked' \in {linked, linked \ {h}}
  OBVIOUS
<1> HIDE DEF h, r
<1>4. queue'[q] = r /\ \A p \in Queues : p # q => queue'[p] = queue[p]
  BY <1>1, <1>3
<1>5. QueueOf[h] = q /\ \A p \in Queues : p # q => h \notin Elems(queue[p])
  BY <1>2 DEF EventsInv, EventsKept
<1>6. ASSUME NEW p \in Queues PROVE Once(queue'[p]) /\ Elems(queue'[p]) \subseteq linked'
  <2>1. CASE p = q
    BY <1>2, <1>3, <1>4, <2>1 DEF Linked
  <2>2. CASE p # q
    BY <1>3, <1>4, <1>5, <2>2 DEF Linked
  <2> QED BY <2>1, <2>2
<1>7. ASSUME act'[Looper].at = "unlink"
      PROVE  inhand' \in linked' /\ ~Queued(inhand)' /\ QueueOf[inhand'] = 1
  <2>1. linked' = linked /\ q = 1
    BY <1>7
  <2>2. ~Queued(inhand)'
    BY <1>2, <1>3, <1>4, <1>5 DEF Queued
  <2> QED BY <1>2, <1>3, <1>5, <2>1, <2>2 DEF Linked
<1> QED BY <1>6, <1>7 DEF Linked

(* ... and the end of event_get(), which marks the node as free.            *)
LEMMA UnlinkLinks ==
  ASSUME EventsInv, Linked, act[Looper].at = "unlink", act'[Looper].at # "unlink",
         linked' = linked \ {inhand}, UNCHANGED queue
  PROVE  Linked'
<1>1. QueueOf[inhand] = 1 /\ ~Queued(inhand)
  BY DEF Linked
<1>2. \A q \in Queues : inhand \notin Elems(queue[q])
  BY <1>1 DEF EventsInv, EventsKept, Queued
<1> QED BY <1>2 DEF Linked

(* Every step keeps what is said of the nodes.                               *)
LEMMA LinkedStep ==
  ASSUME EventsInv, EventsInv', Linked, CancelsAreOwn, [EventsNext]_eventsVars
  PROVE  Linked'
<1>0. act \in [Threads -> Acts] /\ Looper \in Threads
  BY TheLooper DEF EventsInv, EventTypes
<1>1. CASE UNCHANGED <<queue, linked, inhand>> /\ act'[Looper] = act[Looper]
  BY <1>1, LinksKept
<1>2. CASE UNCHANGED eventsVars \/ EventProcessor \/ Expire
  BY <1>1, <1>2 DEF eventsVars, eventVars, queueVars, EventProcessor, Expire
<1>3. ASSUME NEW t \in Threads, InKernel(t) \/ AppSleep(t) \/ HandlerWakeup(t)
      PROVE  Linked'
  BY <1>1, <1>3 DEF eventVars, queueVars, InKernel, AppSleep, HandlerWakeup
<1>4. ASSUME NEW t \in Threads, NEW f \in AppFlags, HandlerFlag(t, f)
      PROVE  Linked'
  BY <1>1, <1>4 DEF queueVars, HandlerFlag
<1>5. ASSUME NEW t \in Threads, RaiseFlag(t) \/ SyncLock(t) \/ AppStart(t) \/ One(t) \/ AllOf(t)
      PROVE  Linked'
  <2>1. UNCHANGED <<queue, linked, inhand>>
    BY <1>5 DEF queueVars, RaiseFlag, SyncLock, AppStart, One, AllOf
  <2>2. act[t].at \notin LooperPlaces
    BY <1>5 DEF RaiseFlag, SyncLock, AppStart, One, AllOf, Acting, LooperPlaces
  <2>3. t # Looper
    BY <2>2 DEF EventsInv, Roles
  <2>4. act'[Looper] = act[Looper]
    BY <1>0, <1>5, <2>3 DEF RaiseFlag, SyncLock, AppStart, One, AllOf, Step, StepWith
  <2> QED BY <1>1, <2>1, <2>4
<1>6. ASSUME NEW e \in Evs, HandlerPost(e)
      PROVE  Linked'
  BY <1>6, PostLinks, TheLooper DEF HandlerPost, IsrPost
<1>7. ASSUME NEW t \in Threads, Sync(t) \/ \E e \in Evs : AppPost(t, e)
      PROVE  Linked'
  <2>1. PICK e \in AllEvs, flagged \in {"flag", "syncflag"}, next \in {"app", "synclock"} :
          ThreadPost(t, e, flagged, next)
    BY <1>7, TheLooper DEF Sync, AppPost
  <2>2. act[t].at \notin LooperPlaces
    BY <1>7 DEF Sync, AppPost, Acting, LooperPlaces
  <2>3. t # Looper
    BY <2>2 DEF EventsInv, Roles
  <2>4. Post(e) /\ act'[Looper] = act[Looper]
    BY <1>0, <2>1, <2>3 DEF ThreadPost, StepWith
  <2> QED BY <2>4, PostLinks
<1>8. ASSUME NEW t \in Threads, NEW e \in Evs, Cancel(t, e)
      PROVE  Linked'
  BY <1>8, CancelLinks
<1>9. ASSUME NEW t \in Threads, Looping(t)
      PROVE  Linked'
  <2>1. t = Looper
    BY <1>9, WhoActs DEF Looping, Claim, TakeFirst, MultiWait, MultiClear, TimeoutClear,
       TimeoutSet, EventGet, GetUnlink, TimeoutRemove, TimeoutWait, TimeoutTest, Handle,
       LooperPlaces
  <2>2. \A p : Step(t, p) => act'[Looper].at = p
    BY <1>0, <2>1 DEF Step
  <2>3. CASE MultiWait(t) \/ MultiClear(t) \/ TimeoutClear(t) \/ TimeoutSet(t) \/ TimeoutRemove(t)
             \/ TimeoutWait(t) \/ TimeoutTest(t)
    <3>1. \E p \in {"multiclear", "multi", "set", "get", "handle", "timeclear", "choose"} : Step(t, p)
      BY <2>3 DEF MultiWait, MultiClear, TimeoutClear, TimeoutSet, TimeoutRemove, TimeoutWait,
                  TimeoutTest
    <3>2. act'[Looper].at # "unlink"
      BY <2>2, <3>1
    <3> QED BY <2>3, <3>2, LinksKept DEF queueVars, MultiWait, MultiClear, TimeoutClear, TimeoutSet,
            TimeoutRemove, TimeoutWait, TimeoutTest
  <2>4. CASE Claim(t)
    <3>1. \E p \in {"choose", "claim"} : Step(t, p)
      BY <2>4 DEF Claim
    <3> QED BY <2>2, <2>4, <3>1, LinksKept DEF Claim
  <2>5. CASE GetUnlink(t)
    BY <2>1, <2>2, <2>5, UnlinkLinks DEF GetUnlink, Acting
  <2>6. CASE Handle(t)
    <3>1. act'[Looper].at = "choose" /\ UNCHANGED <<queue, linked>>
      BY <2>2, <2>6 DEF Handle
    <3> QED BY <3>1 DEF Linked
  <2>7. CASE EventGet(t)
    <3>1. CASE queue[1] = <<>>
      BY <2>2, <2>7, <3>1, LinksKept DEF EventGet
    <3>2. CASE queue[1] # <<>>
      <4>1. 1 \in Queues
        BY TheLooper DEF Queues
      <4> QED BY <2>2, <2>7, <3>2, <4>1, TakeLinks DEF EventGet
    <3> QED BY <3>1, <3>2
  <2>8. CASE TakeFirst(t)
    <3>1. CASE Step(t, "multiwait") /\ UNCHANGED <<queue, linked, inhand>>
      BY <2>2, <3>1, LinksKept
    <3>2. ASSUME NEW q \in Queues, queue[q] # <<>>, queue' = [queue EXCEPT ![q] = Tail(queue[q])],
                 linked' = linked \ {Head(queue[q])}, inhand' = Head(queue[q]), Step(t, "handle")
          PROVE  Linked'
      BY <2>2, <3>2, TakeLinks
    <3> QED BY <2>8, <3>1, <3>2, FirstTaken
  <2> QED BY <1>9, <2>3, <2>4, <2>5, <2>6, <2>7, <2>8 DEF Looping
<1> QED BY <1>2, <1>3, <1>4, <1>5, <1>6, <1>7, <1>8, <1>9 DEF EventsNext, Proceed

(* Unless another thread cancels an event that event_get() may be taking,   *)
(* the node of an event is linked exactly while the event is in its queue,  *)
(* or just taken by event_get(), and no queue has an event twice.           *)
THEOREM NodesAlwaysLinked ==
  ASSUME CancelsAreOwn
  PROVE  EventsSpec => []NodesLinked
<1>1. EventsInit => Linked
  <2> SUFFICES ASSUME EventsInit PROVE Linked
    OBVIOUS
  <2>1. /\ queue = [q \in Queues |-> <<>>] /\ Looper \in Threads
        /\ act = [t \in Threads |-> [at |-> IF t = Looper THEN "claim" ELSE "app"]]
    BY TheLooper DEF EventsInit
  <2>2. act[Looper].at # "unlink"
    BY <2>1
  <2>3. \A q \in Queues : Once(queue[q]) /\ Elems(queue[q]) = {}
    BY <2>1 DEF Once, Elems
  <2> QED BY <2>2, <2>3 DEF Linked
<1>2. EventsInv /\ EventsInv' /\ Linked /\ [EventsNext]_eventsVars => Linked'
  BY LinkedStep
<1>3. EventsInv /\ Linked => NodesLinked
  <2> SUFFICES ASSUME EventsInv, Linked PROVE NodesLinked
    OBVIOUS
  <2> DEFINE taken == IF act[Looper].at = "unlink" THEN {inhand} ELSE {}
  <2>1. \A e \in linked : QueueOf[e] \in Queues /\ (Queued(e) \/ e \in taken)
    <3>1. \A e \in linked : e \in AllEvs /\ (Queued(e) \/ e \in taken)
      BY DEF EventsInv, EventTypes, EventsKept
    <3> QED BY <3>1, TheLooper
  <2>2. taken \subseteq linked /\ \A q \in Queues : Elems(queue[q]) \subseteq linked
    BY DEF Linked
  <2> HIDE DEF taken
  <2>3. linked = (UNION {Elems(queue[q]) : q \in Queues}) \cup taken
    <3>1. \A e \in linked : e \in taken \/ \E q \in Queues : e \in Elems(queue[q])
      BY <2>1 DEF Queued
    <3>2. \A e : e \in UNION {Elems(queue[q]) : q \in Queues}
                  <=> \E q \in Queues : e \in Elems(queue[q])
      BY InQueues
    <3> DEFINE all == UNION {Elems(queue[q]) : q \in Queues}
    <3>3. \A e : e \in all <=> \E q \in Queues : e \in Elems(queue[q])
      BY <3>2
    <3> HIDE DEF all
    <3>4. \A e \in linked : e \in all \/ e \in taken
      BY <3>1, <3>3
    <3>5. \A e \in all : e \in linked
      BY <2>2, <3>3
    <3>6. linked = all \cup taken
      BY <2>2, <3>4, <3>5
    <3> QED BY <3>6 DEF all
  <2>4. RunqueueOK(k) /\ OneRunning(k)
    BY DEF EventsInv, MutexInv, KernelInv
  <2> QED BY <2>3, <2>4 DEF NodesLinked, EventsInv, EventTypes, Linked, taken
<1> QED BY <1>1, <1>2, <1>3, EventsInvariant, PTL DEF EventsSpec
=============================================================================
