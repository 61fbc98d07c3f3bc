------------------------------- MODULE Kernel -------------------------------
(***************************************************************************)
(* The scheduler of RIOT (core/sched.c) as operators on its state.          *)
(*                                                                          *)
(* A kernel state is a record k with the fields                             *)
(*   status    thread_t.status of every thread control block                *)
(*   prio      thread_t.priority (a lower number is a higher priority)      *)
(*   runq      sched_runqueues[]: one circular list per priority, as the    *)
(*             sequence from the list's head to its tail                    *)
(*   bitcache  runqueue_bitcache, as the set of the bits that are set       *)
(*   active    sched_active_thread, NoThread for NULL                       *)
(*   csr       sched_context_switch_request                                 *)
(*   pendsv    the PendSV exception of the Cortex-M port is pending         *)
(*   idle      sched_run() is in its loop around sched_arch_idle()          *)
(* Every operator maps a state to the state after the function it is named  *)
(* for. The modules that use it keep one such record in a variable and add  *)
(* the state of their own component.                                        *)
(***************************************************************************)
EXTENDS Integers, Sequences, FiniteSets

CONSTANTS Threads,    \* the thread control blocks of the application
          NoThread,   \* the NULL thread pointer
          PrioLevels  \* SCHED_PRIO_LEVELS

ASSUME KernelAssumption == /\ NoThread \notin Threads
                           /\ PrioLevels \in Nat \ {0}

Prios == 0 .. PrioLevels - 1

(* thread_status_t: the states below STATUS_ON_RUNQUEUE, and the two above. *)
Blocked == {"STOPPED", "SLEEPING", "MUTEX_BLOCKED", "RECEIVE_BLOCKED",
            "SEND_BLOCKED", "REPLY_BLOCKED", "FLAG_BLOCKED_ANY",
            "FLAG_BLOCKED_ALL", "MBOX_BLOCKED", "COND_BLOCKED", "ZOMBIE"}
OnRunqueue == {"RUNNING", "PENDING"}
Status == Blocked \cup OnRunqueue

KernelType == [status   : [Threads -> Status],
               prio     : [Threads -> Prios],
               runq     : [Prios -> Seq(Threads)],
               bitcache : SUBSET Prios,
               active   : Threads \cup {NoThread},
               csr      : BOOLEAN,
               pendsv   : BOOLEAN,
               idle     : BOOLEAN]

-----------------------------------------------------------------------------
(* Intrusive lists of threads (list.h, clist.h) as sequences.               *)

Elems(q) == {q[i] : i \in DOMAIN q}

Without(q, i) == [j \in 1 .. Len(q) - 1 |-> IF j < i THEN q[j] ELSE q[j + 1]]

(* list_remove() and clist_remove(): unlink t if the list holds it.         *)
Unlink(q, t) == IF t \in Elems(q)
                THEN Without(q, CHOOSE i \in DOMAIN q : q[i] = t)
                ELSE q

(* Mutant of Rotate: the tail becomes the head (clist_rpoplpush() instead). *)
RotateBack(q) == IF q = <<>> THEN q
                 ELSE [i \in DOMAIN q |-> q[IF i = 1 THEN Len(q) ELSE i - 1]]

(* clist_lpoprpush(): the head becomes the tail.                            *)
Rotate(q) == IF q = <<>> THEN q ELSE Append(Tail(q), Head(q))

(* Mutant of AddToList: before the first entry of the same priority.        *)
AddToListFront(k, q, t) ==
  LET n == Cardinality({i \in DOMAIN q :
                          \A j \in 1 .. i : k.prio[q[j]] < k.prio[t]})
  IN [j \in 1 .. Len(q) + 1 |->
        IF j <= n THEN q[j] ELSE IF j = n + 1 THEN t ELSE q[j - 1]]

(* thread_add_to_list(): before the first entry of a lower priority.        *)
AddToList(k, q, t) ==
  LET n == Cardinality({i \in DOMAIN q :
                          \A j \in 1 .. i : k.prio[q[j]] <= k.prio[t]})
  IN [j \in 1 .. Len(q) + 1 |->
        IF j <= n THEN q[j] ELSE IF j = n + 1 THEN t ELSE q[j - 1]]

-----------------------------------------------------------------------------
(* thread_is_active(): the thread is on a runqueue.                         *)
IsActive(k, t) == k.status[t] \in OnRunqueue

RunqueuePush(k, t, p) ==
  [k EXCEPT !.runq[p] = Append(@, t),
            !.bitcache = @ \cup {p}]

(* Mutant of RunqueuePop: the bit of an empty runqueue stays set.           *)
RunqueuePopKeepsBit(k, t) ==
  [k EXCEPT !.runq[k.prio[t]] = Unlink(@, t)]

RunqueuePop(k, t) ==
  LET p == k.prio[t]
      q == Unlink(k.runq[p], t)
  IN [k EXCEPT !.runq[p] = q,
               !.bitcache = IF q = <<>> THEN @ \ {p} ELSE @]

(* sched_set_status(): keeps the runqueues in step with the status.         *)
SetStatus(k, t, s) ==
  LET moved == CASE s \in OnRunqueue /\ ~IsActive(k, t) ->
                      RunqueuePush(k, t, k.prio[t])
                 [] s \notin OnRunqueue /\ IsActive(k, t) -> RunqueuePop(k, t)
                 [] OTHER -> k
  IN [moved EXCEPT !.status[t] = s]

(* sched_runq_advance()                                                     *)
RunqAdvance(k, p) == [k EXCEPT !.runq[p] = Rotate(@)]

(* thread_yield_higher() of the Cortex-M port only pends PendSV.            *)
YieldHigher(k) == [k EXCEPT !.pendsv = TRUE]

(* thread_yield(), up to the irq_restore().                                 *)
YieldRotate(k) == IF IsActive(k, k.active)
                  THEN RunqAdvance(k, k.prio[k.active]) ELSE k

(* _unschedule()                                                            *)
Unschedule(k, t) == IF k.status[t] = "RUNNING"
                    THEN [k EXCEPT !.status[t] = "PENDING"]
                    ELSE k

(* sched_run(), from the selection of the next thread to its end. `out` is  *)
(* the local active_thread: NoThread when the idle loop unscheduled it.     *)
NextThread(k) ==
  Head(k.runq[CHOOSE p \in k.bitcache : \A q \in k.bitcache : p <= q])

Dispatch(k, out) ==
  LET next   == NextThread(k)
      chosen == [k EXCEPT !.status[next] = "RUNNING"]
      left   == IF out \in {NoThread, next} THEN chosen
                                            ELSE Unschedule(chosen, out)
  IN [left EXCEPT !.active = next, !.csr = FALSE, !.idle = FALSE]

(* sched_run() as PendSV runs it; with no ready thread it enters the idle   *)
(* loop and sched_active_thread keeps its value.                            *)
SchedRun(k) ==
  LET entered == [k EXCEPT !.pendsv = FALSE]
  IN IF k.bitcache = {}
     THEN [(IF k.active = NoThread THEN entered ELSE Unschedule(entered, k.active))
             EXCEPT !.idle = TRUE]
     ELSE Dispatch(entered, k.active)

(* The end of sched_arch_idle() once an interrupt made a thread ready.      *)
IdleReturn(k) == Dispatch(k, NoThread)

-----------------------------------------------------------------------------
(* sched_switch(other): the values the test for a switch may have. After a  *)
(* thread exited sched_active_thread is NULL and the function reads its     *)
(* fields all the same: either outcome.                                     *)
SwitchTests(k, other) ==
  IF k.active = NoThread THEN BOOLEAN
  ELSE {~IsActive(k, k.active) \/ k.prio[k.active] > other}

(* sched_switch() in a thread, and in an interrupt handler followed by      *)
(* cortexm_isr_end().                                                       *)
ThreadSwitch(k, test) == IF test THEN YieldHigher(k) ELSE k
IsrEnd(k) == IF k.csr THEN YieldHigher(k) ELSE k
IsrSwitch(k, test) == IsrEnd(IF test THEN [k EXCEPT !.csr = TRUE] ELSE k)

(* sched_change_priority(): its critical section, and the test for a yield  *)
(* that follows the irq_restore().                                          *)
Reprioritize(k, t, p) ==
  LET moved == IF IsActive(k, t)
               THEN RunqueuePush(RunqueuePop(k, t), t, p) ELSE k
  IN [moved EXCEPT !.prio[t] = p]

(* Mutant of ChangeMatters: the active thread may lose its priority unnoticed. *)
ChangeMattersRaised(k, t, p) ==
  k.active # NoThread /\ k.prio[k.active] > p /\ IsActive(k, t)

ChangeMatters(k, t, p) ==
  \/ k.active = t
  \/ k.active # NoThread /\ k.prio[k.active] > p /\ IsActive(k, t)

(* The whole function, called with interrupts disabled or from a handler.   *)
ChangePriority(k, t, p) ==
  IF k.prio[t] = p THEN k
  ELSE LET moved == Reprioritize(k, t, p)
       IN IF ChangeMatters(moved, t, p) THEN YieldHigher(moved) ELSE moved

-----------------------------------------------------------------------------
(* The processor: thread t executes its next instruction only when it is the *)
(* active thread and no PendSV is pending, which the port takes at once.    *)
Executes(k, t) == k.active = t /\ ~k.pendsv /\ ~k.idle

(* kernel_init(): the threads `ready` of the application are ready, in the  *)
(* order of their creation, and cpu_switch_context_exit() has pended PendSV. *)
Orders(S) == {q \in [1 .. Cardinality(S) -> S] : Elems(q) = S}

StartStates(prio, ready) ==
  LET Of(p) == {t \in ready : prio[t] = p}
      Queues == {r \in [Prios -> UNION {Orders(Of(p)) : p \in Prios}] :
                   \A p \in Prios : r[p] \in Orders(Of(p))}
  IN {[status   |-> [t \in Threads |-> IF t \in ready THEN "PENDING" ELSE "SLEEPING"],
       prio     |-> prio,
       runq     |-> r,
       bitcache |-> {p \in Prios : r[p] # <<>>},
       active   |-> NoThread,
       csr      |-> FALSE,
       pendsv   |-> TRUE,
       idle     |-> FALSE] : r \in Queues}

(* The scheduler's own consistency: a runqueue holds the ready threads of   *)
(* its priority and no others, each of them once, and the bit cache has the *)
(* bit of every runqueue that is not empty.                                 *)
Once(q) == \A i, j \in DOMAIN q : q[i] = q[j] => i = j

RunqueueOK(k) ==
  /\ \A p \in Prios :
       /\ Elems(k.runq[p]) = {t \in Threads : IsActive(k, t) /\ k.prio[t] = p}
       /\ Once(k.runq[p])
  /\ k.bitcache = {p \in Prios : k.runq[p] # <<>>}

(* Only the active thread has STATUS_RUNNING, and no thread in the idle loop. *)
OneRunning(k) ==
  \A t \in Threads : k.status[t] = "RUNNING" => k.active = t /\ ~k.idle
=============================================================================
