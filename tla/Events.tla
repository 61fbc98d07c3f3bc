------------------------------- MODULE Events -------------------------------
(***************************************************************************)
(* Thread flags (core/thread_flags.c) and the event queues on top of them   *)
(* (sys/event/event.c): a thread that claims queues and waits for events,   *)
(* other threads and handlers that post and cancel them, event_sync(), which *)
(* waits on a mutex for its event's turn, and event_wait_timeout_ztimer().  *)
(* Its timer is one of AlarmClock with any time: it may expire at any moment *)
(* while it is set.                                                         *)
(*                                                                          *)
(* As in module Monitor, pc[t] is where t is in a call of the kernel and    *)
(* act[t] is where it is in the function around it.                         *)
(***************************************************************************)
EXTENDS Mutex

CONSTANTS Looper,      \* the thread that claims the queues and gets the events
          Posters,     \* the threads that post, ...
          Syncers,     \* ... that call event_sync(), ...
          Flaggers,    \* ... and that wait for the flags of the application
          Evs,         \* the events of the application
          SyncEv,      \* the event on the stack of event_sync()
          NoEv,
          synced,      \* its mutex, which is created locked
          Cancels,     \* which thread cancels which event
          NQueues, QueueOf   \* the queues, by priority, and the one each event is posted to

AllEvs == Evs \cup {SyncEv}
Queues == 1 .. NQueues

ASSUME EventsAssumption ==
  /\ Looper \in Threads \ (Posters \cup Syncers \cup Flaggers)
  /\ Syncers \subseteq Lockers
  /\ synced \in Signals /\ SyncEv \notin Evs /\ NoEv \notin AllEvs
  /\ NQueues \in Nat /\ QueueOf \in [AllEvs -> Queues] /\ Cancels \subseteq Threads \X Evs

(* THREAD_FLAG_EVENT, two flags of the application and THREAD_FLAG_TIMEOUT, *)
(* by the number of their bit.                                              *)
EventFlag == 0
AppFlags == {1, 2}
TimeoutFlag == 14
Flags == {EventFlag, TimeoutFlag} \cup AppFlags

(* flags of a thread, and mask its wait_data while it is blocked. queue[q] is *)
(* the event_list and waiter[q] the thread of queue q; linked are the events *)
(* whose list_node.next is not NULL.                                        *)
(* inhand: the event the looper has taken. owed: the events that were posted *)
(* and whose handler was not called since. ahead: those of them that were in *)
(* front of the event of event_sync().                                      *)
VARIABLES flags, mask, queue, linked, waiter, inhand, timer, owed, ahead, act
flagVars == <<flags, mask>>
queueVars == <<queue, linked, waiter, inhand, owed, ahead>>
eventVars == <<flagVars, queueVars, timer, act>>
eventsVars == <<vars, eventVars>>

Plain == {"claim", "choose", "multi", "multiwait", "multiclear", "handle",
          "set", "get", "unlink", "remove", "timewait", "timeclear",
          "app", "sync", "synclock", "one", "onetake", "oneclear", "all", "allclear"}
Acts == [at : Plain] \cup [at : {"flag", "syncflag"}, thread : Threads]
        \cup [at : {"oneclear"}, bit : AppFlags]

EventsInit ==
  /\ Init
  /\ flags = [t \in Threads |-> {}] /\ mask = [t \in Threads |-> {}]
  /\ queue = [q \in Queues |-> <<>>] /\ linked = {}
  /\ waiter = [q \in Queues |-> NoThread]
  /\ inhand = NoEv /\ owed = {} /\ ahead = {} /\ timer = FALSE
  /\ act = [t \in Threads |-> [at |-> IF t = Looper THEN "claim" ELSE "app"]]

Step(t, p) == act' = [act EXCEPT ![t] = [at |-> p]]
StepWith(t, place) == act' = [act EXCEPT ![t] = place]
Acting(t, p) == At(t, "run") /\ act[t].at = p

-----------------------------------------------------------------------------
(* Thread flags.                                                            *)

(* _thread_flags_wake(): whether the flags f end the wait of thread t.      *)
(* Mutant of Ends: a thread that waits for all flags is woken by any.       *)
EndsAny(t, f) == k.status[t] \in {"FLAG_BLOCKED_ANY", "FLAG_BLOCKED_ALL"} /\ f \cap mask[t] # {}

Ends(t, f) ==
  \/ k.status[t] = "FLAG_BLOCKED_ANY" /\ f \cap mask[t] # {}
  \/ k.status[t] = "FLAG_BLOCKED_ALL" /\ mask[t] \subseteq f

(* thread_flags_set(), up to the irq_restore()                              *)
Raised(t, m) == [flags EXCEPT ![t] = @ \cup m]
AfterRaise(t, m) == IF Ends(t, flags[t] \cup m)
                    THEN [SetStatus(k, t, "PENDING") EXCEPT !.csr = TRUE] ELSE k

WaitOver(t, m) == mask' = [mask EXCEPT ![t] = IF Ends(t, flags[t] \cup m) THEN {} ELSE @]

(* Mutant of ThreadSetFlags: no thread_yield_higher() after the irq_restore(). *)
ThreadSetFlagsStays(caller, t, m) ==
  /\ flags' = Raised(t, m) /\ WaitOver(t, m)
  /\ k' = AfterRaise(t, m)
  /\ UNCHANGED <<mtx, mc, held, pc>>

ThreadSetFlags(caller, t, m) ==
  /\ flags' = Raised(t, m) /\ WaitOver(t, m)
  /\ k' = AfterRaise(t, m)
  /\ Go(caller, Simple(IF Ends(t, flags[t] \cup m) THEN "yield" ELSE "run"))
  /\ UNCHANGED <<mtx, mc, held>>

IsrSetFlags(t, m) ==
  /\ flags' = Raised(t, m) /\ WaitOver(t, m)
  /\ k' = IF Ends(t, flags[t] \cup m) THEN YieldHigher(AfterRaise(t, m)) ELSE k
  /\ UNCHANGED <<mtx, mc, pc, held>>

(* _thread_flags_wait_any() and the first part of thread_flags_wait_all()   *)
WaitFlags(t, m, status, enough) ==
  /\ IF enough THEN UNCHANGED <<k, pc, mask>>
     ELSE /\ k' = SetStatus(k, t, status)
          /\ mask' = [mask EXCEPT ![t] = m]
          /\ Go(t, Simple("yield"))
  /\ UNCHANGED <<flags, mtx, mc, held>>
WaitAny(t, m) == WaitFlags(t, m, "FLAG_BLOCKED_ANY", flags[t] \cap m # {})
WaitAll(t, m) == WaitFlags(t, m, "FLAG_BLOCKED_ALL", m \subseteq flags[t])

(* _thread_flags_clear_atomic()                                             *)
ClearFlags(t, m) == flags' = [flags EXCEPT ![t] = @ \ m] /\ UNCHANGED <<mask, vars>>

-----------------------------------------------------------------------------
(* The queues.                                                              *)

(* event_post(): an event whose node is linked stays where it is.           *)
(* Mutants of Pushed: the node is not looked at, and clist_lpush().         *)
PushedAlways(e) ==
  /\ queue' = [queue EXCEPT ![QueueOf[e]] = Append(@, e)]
  /\ linked' = linked \cup {e}
PushedFirst(e) ==
  /\ queue' = IF e \in linked THEN queue ELSE [queue EXCEPT ![QueueOf[e]] = <<e>> \o @]
  /\ linked' = linked \cup {e}

Pushed(e) ==
  /\ queue' = IF e \in linked THEN queue ELSE [queue EXCEPT ![QueueOf[e]] = Append(@, e)]
  /\ linked' = linked \cup {e}

Post(e) ==
  /\ Pushed(e)
  /\ owed' = owed \cup {e}
  /\ ahead' = IF e = SyncEv THEN Elems(queue[QueueOf[e]]) ELSE ahead
  /\ UNCHANGED <<waiter, inhand>>

(* event_post() in an interrupt handler; a queue without a waiter sets no   *)
(* flag.                                                                    *)
IsrPost(e) ==
  LET w == waiter[QueueOf[e]]
  IN /\ Post(e)
     /\ IF w = NoThread THEN UNCHANGED <<flagVars, vars>> ELSE IsrSetFlags(w, {EventFlag})

(* event_post() in a thread: the waiter is read with the queue, its flag is *)
(* set after the irq_restore().                                             *)
ThreadPost(t, e, flagged, next) ==
  LET w == waiter[QueueOf[e]]
  IN /\ Post(e)
     /\ StepWith(t, IF w = NoThread THEN [at |-> next] ELSE [at |-> flagged, thread |-> w])
     /\ UNCHANGED <<flagVars, vars, timer>>

RaiseFlag(t) ==
  \/ /\ Acting(t, "flag")
     /\ ThreadSetFlags(t, act[t].thread, {EventFlag})
     /\ Step(t, "app")
     /\ UNCHANGED <<queueVars, timer>>
  \/ /\ Acting(t, "syncflag")
     /\ ThreadSetFlags(t, act[t].thread, {EventFlag})
     /\ Step(t, "synclock")
     /\ UNCHANGED <<queueVars, timer>>

(* event_cancel(), by the looper between two events, or another thread      *)
Cancel(t, e) ==
  /\ Acting(t, IF t = Looper THEN "choose" ELSE "app") /\ <<t, e>> \in Cancels
  /\ queue' = [queue EXCEPT ![QueueOf[e]] = Unlink(@, e)]
  /\ linked' = linked \ {e}
  /\ owed' = IF inhand = e THEN owed ELSE owed \ {e}
  /\ ahead' = ahead \ {e}
  /\ UNCHANGED <<waiter, inhand, flagVars, timer, act, vars>>

(* event_sync(): its event is new each time, and its mutex locked.          *)
Sync(t) ==
  /\ Acting(t, "sync")
  /\ ThreadPost(t, SyncEv, "syncflag", "synclock")
SyncLock(t) ==
  /\ Acting(t, "synclock")
  /\ LockFree(t, synced) \/ LockBlocks(t, synced)
  /\ Step(t, "app")
  /\ UNCHANGED <<flagVars, queueVars, timer>>

-----------------------------------------------------------------------------
(* The looper.                                                              *)

(* event_queues_claim(): one queue after the other                          *)
Claim(t) ==
  /\ Acting(t, "claim")
  /\ LET q == CHOOSE i \in Queues : waiter[i] = NoThread /\ \A j \in 1 .. i - 1 : waiter[j] = t
     IN /\ waiter' = [waiter EXCEPT ![q] = t]
        /\ Step(t, IF q = NQueues THEN "choose" ELSE "claim")
  /\ UNCHANGED <<flagVars, queue, linked, inhand, owed, ahead, timer, vars>>

(* event_wait_multi(): its critical section                                 *)
TakeFirst(t) ==
  /\ Acting(t, "choose") \/ Acting(t, "multi")
  /\ IF \A q \in Queues : queue[q] = <<>>
     THEN Step(t, "multiwait") /\ UNCHANGED <<queue, linked, inhand>>
     ELSE LET q == CHOOSE i \in Queues : queue[i] # <<>> /\ \A j \in 1 .. i - 1 : queue[j] = <<>>
          IN /\ queue' = [queue EXCEPT ![q] = Tail(@)]
             /\ linked' = linked \ {Head(queue[q])}
             /\ inhand' = Head(queue[q])
             /\ Step(t, "handle")
  /\ UNCHANGED <<flagVars, waiter, owed, ahead, timer, vars>>

(* Mutant of MultiWait: the flag is cleared before the wait.                *)
MultiWaitForgets(t) ==
  /\ Acting(t, "multiwait")
  /\ flags' = [flags EXCEPT ![t] = @ \ {EventFlag}]
  /\ mask' = [mask EXCEPT ![t] = {EventFlag}]
  /\ k' = SetStatus(k, t, "FLAG_BLOCKED_ANY")
  /\ Go(t, Simple("yield"))
  /\ Step(t, "multiclear")
  /\ UNCHANGED <<queueVars, timer, mtx, mc, held>>

MultiWait(t) ==
  /\ Acting(t, "multiwait")
  /\ WaitAny(t, {EventFlag})
  /\ Step(t, "multiclear")
  /\ UNCHANGED <<queueVars, timer>>

MultiClear(t) ==
  /\ Acting(t, "multiclear")
  /\ ClearFlags(t, {EventFlag})
  /\ Step(t, "multi")
  /\ UNCHANGED <<queueVars, timer>>

(* event_wait_timeout_ztimer() of the first queue clears an old timeout, and *)
(* ztimer_set_timeout_flag() clears it again before it sets the timer.      *)
TimeoutClear(t) ==
  /\ Acting(t, "choose")
  /\ ClearFlags(t, {TimeoutFlag})
  /\ Step(t, "set")
  /\ UNCHANGED <<queueVars, timer>>

TimeoutSet(t) ==
  /\ Acting(t, "set")
  /\ timer' = TRUE
  /\ Step(t, "get")
  /\ UNCHANGED <<flagVars, queueVars, vars>>

(* event_get(): the node is marked as free after the critical section.      *)
EventGet(t) ==
  /\ Acting(t, "get")
  /\ IF queue[1] = <<>>
     THEN Step(t, "timewait") /\ UNCHANGED <<queue, inhand>>
     ELSE /\ queue' = [queue EXCEPT ![1] = Tail(@)]
          /\ inhand' = Head(queue[1])
          /\ Step(t, "unlink")
  /\ UNCHANGED <<flagVars, linked, waiter, owed, ahead, timer, vars>>

(* Mutant of GetUnlink: the node is never marked as free.                   *)
GetUnlinkNot(t) ==
  /\ Acting(t, "unlink")
  /\ Step(t, "remove")
  /\ UNCHANGED <<flagVars, queueVars, timer, vars>>

GetUnlink(t) ==
  /\ Acting(t, "unlink")
  /\ linked' = linked \ {inhand}
  /\ Step(t, "remove")
  /\ UNCHANGED <<flagVars, queue, waiter, inhand, owed, ahead, timer, vars>>

TimeoutRemove(t) ==
  /\ Acting(t, "remove")
  /\ timer' = FALSE
  /\ Step(t, "handle")
  /\ UNCHANGED <<flagVars, queueVars, vars>>

TimeoutWait(t) ==
  /\ Acting(t, "timewait")
  /\ WaitAny(t, {EventFlag, TimeoutFlag})
  /\ Step(t, "timeclear")
  /\ UNCHANGED <<queueVars, timer>>

(* The end of thread_flags_wait_any(), and the condition of the loop in     *)
(* _wait_timeout(): with the event flag it looks at the queue again.        *)
TimeoutTest(t) ==
  /\ Acting(t, "timeclear")
  /\ ClearFlags(t, {EventFlag, TimeoutFlag})
  /\ Step(t, IF EventFlag \in flags[t] THEN "get" ELSE "choose")
  /\ UNCHANGED <<queueVars, timer>>

(* The event's handler; sync_ev_handler() unlocks the mutex.                *)
Handle(t) ==
  /\ Acting(t, "handle")
  /\ owed' = owed \ {inhand}
  /\ ahead' = ahead \ {inhand}
  /\ inhand' = NoEv
  /\ IF inhand = SyncEv
     THEN /\ Unlock(synced)
          /\ Go(t, Simple(IF mtx[synced].queue = <<>> THEN "run" ELSE "yield"))
          /\ UNCHANGED <<mc, held>>
     ELSE UNCHANGED vars
  /\ Step(t, "choose")
  /\ UNCHANGED <<flagVars, queue, linked, waiter, timer>>

-----------------------------------------------------------------------------
(* The other threads, and what they may do next.                            *)

AppPost(t, e) == Acting(t, "app") /\ t \in Posters /\ ThreadPost(t, e, "flag", "app")

(* One thread at a time is in event_sync(), on a queue that has a waiter: on *)
(* a detached one it would wait until somebody claims it.                   *)
AppStart(t) ==
  /\ Acting(t, "app")
  /\ \/ /\ t \in Syncers
        /\ \A u \in Syncers : act[u].at \notin {"sync", "syncflag", "synclock"}
        /\ ~ \E u \in Threads : InCall(u, synced)
        /\ Step(t, "sync")
     \/ t \in Flaggers /\ (Step(t, "one") \/ Step(t, "all"))
  /\ UNCHANGED <<flagVars, queueVars, timer, vars>>

(* thread_flags_wait_one(): the flags are read before they are cleared, in  *)
(* two steps; the least significant one is taken.                           *)
One(t) ==
  \/ /\ Acting(t, "one") /\ WaitAny(t, AppFlags) /\ Step(t, "onetake")
     /\ UNCHANGED <<queueVars, timer>>
  \/ /\ Acting(t, "onetake")
     /\ LET f == flags[t] \cap AppFlags
        IN IF f = {} THEN Step(t, "app")
           ELSE StepWith(t, [at |-> "oneclear", bit |-> CHOOSE b \in f : \A c \in f : b <= c])
     /\ UNCHANGED <<flagVars, queueVars, timer, vars>>
  \/ /\ Acting(t, "oneclear") /\ ClearFlags(t, {act[t].bit}) /\ Step(t, "app")
     /\ UNCHANGED <<queueVars, timer>>

(* thread_flags_wait_all()                                                  *)
AllOf(t) ==
  \/ /\ Acting(t, "all") /\ WaitAll(t, AppFlags) /\ Step(t, "allclear")
     /\ UNCHANGED <<queueVars, timer>>
  \/ /\ Acting(t, "allclear") /\ ClearFlags(t, AppFlags) /\ Step(t, "app")
     /\ UNCHANGED <<queueVars, timer>>

(* A poster may have nothing to do; the other threads wait for flags.       *)
AppSleep(t) == Acting(t, "app") /\ t \in Posters /\ Sleep(t) /\ UNCHANGED eventVars

(* Interrupt handlers; _event_timeout_callback() posts an event.            *)
HandlerPost(e) == IsrPost(e) /\ UNCHANGED <<timer, act>>

HandlerFlag(t, f) ==
  /\ f \notin flags[t] /\ t \in Flaggers
  /\ IsrSetFlags(t, {f})
  /\ UNCHANGED <<queueVars, timer, act>>

(* _set_timeout_flag_callback()                                             *)
Expire ==
  /\ timer /\ timer' = FALSE
  /\ IsrSetFlags(Looper, {TimeoutFlag})
  /\ UNCHANGED <<queueVars, act>>

HandlerWakeup(t) == IsrWakeup(t) /\ UNCHANGED eventVars

-----------------------------------------------------------------------------
InKernel(t) == (Return(t) \/ DoYield(t)) /\ UNCHANGED eventVars
EventProcessor == (PendSV \/ EndIdle) /\ UNCHANGED eventVars

Looping(t) ==
  \/ Claim(t) \/ TakeFirst(t) \/ MultiWait(t) \/ MultiClear(t)
  \/ TimeoutClear(t) \/ TimeoutSet(t) \/ EventGet(t) \/ GetUnlink(t)
  \/ TimeoutRemove(t) \/ TimeoutWait(t) \/ TimeoutTest(t) \/ Handle(t)

Proceed(t) == InKernel(t) \/ Looping(t) \/ RaiseFlag(t) \/ Sync(t) \/ SyncLock(t) \/ One(t) \/ AllOf(t)

EventsNext ==
  \/ \E t \in Threads :
       \/ Proceed(t) \/ AppStart(t) \/ AppSleep(t) \/ HandlerWakeup(t)
       \/ \E e \in Evs : AppPost(t, e) \/ Cancel(t, e)
       \/ \E f \in AppFlags : HandlerFlag(t, f)
  \/ \E e \in Evs : HandlerPost(e)
  \/ Expire \/ EventProcessor

EventsSpec == EventsInit /\ [][EventsNext]_eventsVars

(* The processor continues the calls and serves its exceptions.             *)
EventsFairSpec ==
  /\ EventsSpec
  /\ WF_eventsVars(EventProcessor)
  /\ \A t \in Threads : WF_eventsVars(Proceed(t))

-----------------------------------------------------------------------------
(* Properties                                                               *)

(* The nodes of the events are linked exactly while they are in a queue, or *)
(* just taken from it by event_get(): no post finds a node in a list that it *)
(* does not know of, and none is in a list twice.                           *)
NodesLinked ==
  /\ RunqueueOK(k) /\ OneRunning(k)
  /\ flags \in [Threads -> SUBSET Flags] /\ mask \in [Threads -> SUBSET Flags]
  /\ act \in [Threads -> Acts] /\ timer \in BOOLEAN
  /\ inhand \in AllEvs \cup {NoEv}
  /\ \A q \in Queues : Once(queue[q])
  /\ linked = (UNION {Elems(queue[q]) : q \in Queues})
              \cup (IF act[Looper].at = "unlink" THEN {inhand} ELSE {})

(* A wait for flags lasts until they are enough and no longer: a blocked    *)
(* thread lacks what it waits for, and one that is past the wait has it,    *)
(* whoever set and cleared flags in between.                                *)
WaitsHonoured ==
  \A t \in Threads :
    LET past(p) == IsActive(k, t) /\ act[t].at = p
    IN /\ k.status[t] = "FLAG_BLOCKED_ANY" => flags[t] \cap mask[t] = {}
       /\ k.status[t] = "FLAG_BLOCKED_ALL" => ~(mask[t] \subseteq flags[t])
       /\ past("multiclear") => EventFlag \in flags[t]
       /\ past("timeclear") => flags[t] \cap {EventFlag, TimeoutFlag} # {}
       /\ past("onetake") => flags[t] \cap AppFlags # {}
       /\ past("allclear") => AppFlags \subseteq flags[t]

(* Every post is answered: from the post until the handler is called, the   *)
(* event is in its queue, or in the hand of the looper on the way there.    *)
PostsAnswered == owed \subseteq (UNION {Elems(queue[q]) : q \in Queues}) \cup {inhand}

(* No event is slept through: when the looper is blocked although a queue it *)
(* waits for is not empty, a poster has yet to set the flag.                *)
Watched == IF act[Looper].at = "multiclear" THEN Queues ELSE {1}
NotSleptThrough ==
  k.status[Looper] = "FLAG_BLOCKED_ANY" /\ (\E q \in Watched : queue[q] # <<>>)
    => \E t \in Threads : act[t].at \in {"flag", "syncflag"} /\ act[t].thread = Looper

(* event_sync() is a barrier: when its handler is about to unlock the mutex, *)
(* every event that was queued before it has been handled or cancelled.     *)
SyncIsBarrier == inhand = SyncEv /\ act[Looper].at = "handle" => ahead = {}

(* An event in the first queue is handled, whatever the looper waits with,  *)
(* once the threads above the looper have nothing to do.                    *)
Undisturbed == \A t \in Threads : k.prio[t] < k.prio[Looper] => ~IsActive(k, t)
EventsHandled ==
  \A e \in AllEvs : QueueOf[e] = 1 =>
    [](e \in Elems(queue[1]) /\ []Undisturbed => <>(e \notin Elems(queue[1])))

(* "Get next event from event queue, blocking until timeout expires": while *)
(* event_wait_timeout_ztimer() blocks, its timer is running.                *)
BlocksUntilTimeout ==
  k.status[Looper] = "FLAG_BLOCKED_ANY" /\ act[Looper].at = "timeclear" => timer
=============================================================================
