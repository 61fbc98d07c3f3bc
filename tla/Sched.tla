------------------------------- MODULE Sched -------------------------------
(***************************************************************************)
(* The life of RIOT threads (core/thread.c) on the scheduler of core/sched.c *)
(* as built for a Cortex-M: no idle thread, thread_yield_higher() pends the *)
(* PendSV exception, and interrupt handlers may run wherever interrupts are *)
(* enabled, so also between the irq_restore() of a function and the         *)
(* scheduler call that follows it. Each such place is a value of pc[t].     *)
(***************************************************************************)
EXTENDS Kernel

CONSTANTS MaxPid,        \* KERNEL_PID_LAST; KERNEL_PID_FIRST is 1
          Main,          \* the control block of the main thread
          MainPrio,      \* THREAD_PRIORITY_MAIN
          CreateFlags,   \* the flags thread_create() is called with
          PrioChangers   \* the threads whose code calls sched_change_priority()

ASSUME SchedAssumption ==
  /\ MaxPid \in Nat \ {0}
  /\ Main \in Threads
  /\ MainPrio \in Prios
  /\ CreateFlags \subseteq {"NONE", "SLEEPING", "WOUT_YIELD"}
  /\ PrioChangers \subseteq Threads

VARIABLES k,        \* the scheduler, see Kernel
          table,    \* sched_threads[]
          num,      \* sched_num_threads
          pc,       \* where in a kernel call each thread is
          quiet     \* history: the threads created with WOUT_YIELD since
                    \* sched_run() last ran

vars == <<k, table, num, pc, quiet>>

Pids == 1 .. MaxPid

(* "run" is application code; "yield" is before thread_yield_higher();      *)
(* "switch" is before sched_switch(), whose argument is a priority or is    *)
(* read from a thread; "change" is after the unprotected test at the head of *)
(* sched_change_priority(), "changed" after its irq_restore().              *)
Run == [at |-> "run"]
Yield == [at |-> "yield"]
Places == {Run, Yield}
            \cup [at : {"switch"}, prio : Prios]
            \cup [at : {"switchTo"}, thread : Threads]
            \cup [at : {"change", "changed"}, thread : Threads, prio : Prios]

TypeOK == /\ k \in KernelType
          /\ table \in [Pids -> Threads \cup {NoThread}]
          /\ num \in 0 .. MaxPid
          /\ pc \in [Threads -> Places]
          /\ quiet \subseteq Threads

(* kernel_init(): main exists and is ready, no thread is active, and        *)
(* cpu_switch_context_exit() has pended PendSV.                             *)
Init ==
  /\ k = [status   |-> [t \in Threads |-> IF t = Main THEN "PENDING" ELSE "STOPPED"],
          prio     |-> [t \in Threads |-> MainPrio],
          runq     |-> [p \in Prios |-> IF p = MainPrio THEN <<Main>> ELSE <<>>],
          bitcache |-> {MainPrio},
          active   |-> NoThread,
          csr      |-> FALSE,
          pendsv   |-> TRUE,
          idle     |-> FALSE]
  /\ table = [i \in Pids |-> IF i = 1 THEN Main ELSE NoThread]
  /\ num = 1
  /\ pc = [t \in Threads |-> Run]
  /\ quiet = {}

Go(t, place) == pc' = [pc EXCEPT ![t] = place]
InApp(t) == Executes(k, t) /\ pc[t] = Run

(* A control block whose memory is free for a new thread.                   *)
Free(t) == k.status[t] = "STOPPED" /\ \A i \in Pids : table[i] # t

(* thread_getpid(): thread_t.pid is the slot that thread_create() chose.    *)
PidOf(t) == CHOOSE i \in Pids : table[i] = t

-----------------------------------------------------------------------------
(* Calls of the running thread t.                                           *)

(* thread_create(): the first free pid, then ready or sleeping.             *)
Create(t, u, p, flag) ==
  /\ InApp(t) /\ Free(u)
  /\ \E i \in Pids :
       /\ table[i] = NoThread
       /\ \A j \in 1 .. i - 1 : table[j] # NoThread
       /\ table' = [table EXCEPT ![i] = u]
  /\ num' = num + 1
  /\ LET new == [k EXCEPT !.prio[u] = p]
     IN k' = SetStatus(new, u, IF flag = "SLEEPING" THEN "SLEEPING" ELSE "PENDING")
  /\ pc' = [pc EXCEPT ![u] = Run,
                      ![t] = IF flag = "NONE" THEN [at |-> "switch", prio |-> p]
                                              ELSE Run]
  /\ quiet' = IF flag = "WOUT_YIELD" THEN quiet \cup {u} ELSE quiet

(* Mutant of Exit: sched_num_threads is not decremented.                    *)
ExitUncounted(t) ==
  /\ InApp(t)
  /\ table' = [table EXCEPT ![PidOf(t)] = NoThread]
  /\ k' = YieldHigher([SetStatus(k, t, "STOPPED") EXCEPT !.active = NoThread])
  /\ UNCHANGED <<num, pc, quiet>>

(* sched_task_exit(): the thread leaves the table and the processor. Its    *)
(* thread_yield_higher() follows at once: handlers may run before PendSV.   *)
Exit(t) ==
  /\ InApp(t)
  /\ table' = [table EXCEPT ![PidOf(t)] = NoThread]
  /\ num' = num - 1
  /\ k' = YieldHigher([SetStatus(k, t, "STOPPED") EXCEPT !.active = NoThread])
  /\ UNCHANGED <<pc, quiet>>

(* thread_sleep() and thread_zombify()                                      *)
Leave(t, s) ==
  /\ InApp(t)
  /\ k' = SetStatus(k, t, s)
  /\ Go(t, Yield)
  /\ UNCHANGED <<table, num, quiet>>

Sleep(t) == Leave(t, "SLEEPING")
Zombify(t) == Leave(t, "ZOMBIE")

(* thread_yield()                                                           *)
ThreadYield(t) ==
  /\ InApp(t)
  /\ k' = YieldRotate(k)
  /\ Go(t, Yield)
  /\ UNCHANGED <<table, num, quiet>>

(* thread_wakeup(): a thread that is not sleeping is left alone.            *)
Sleeping(i) == table[i] # NoThread /\ k.status[table[i]] = "SLEEPING"

Wakeup(t, i) ==
  /\ InApp(t) /\ Sleeping(i)
  /\ k' = SetStatus(k, table[i], "PENDING")
  /\ Go(t, [at |-> "switchTo", thread |-> table[i]])
  /\ UNCHANGED <<table, num, quiet>>

(* thread_kill_zombie(): frees the pid of a zombie.                         *)
Zombie(i) == table[i] # NoThread /\ k.status[table[i]] = "ZOMBIE"

(* Mutant of Bury: the zombie keeps its slot in sched_threads[].            *)
BuryKeepsSlot(i) ==
  /\ Zombie(i)
  /\ num' = num - 1
  /\ k' = SetStatus(k, table[i], "STOPPED")
  /\ UNCHANGED <<table, pc, quiet>>

Bury(i) ==
  /\ Zombie(i)
  /\ table' = [table EXCEPT ![i] = NoThread]
  /\ num' = num - 1
  /\ k' = SetStatus(k, table[i], "STOPPED")
  /\ UNCHANGED <<pc, quiet>>

KillZombie(t, i) == InApp(t) /\ Bury(i)

(* sched_change_priority(), of a thread that exists when it is called.      *)
CallChangePriority(t, u, p) ==
  /\ InApp(t) /\ t \in PrioChangers /\ ~Free(u) /\ k.prio[u] # p
  /\ Go(t, [at |-> "change", thread |-> u, prio |-> p])
  /\ UNCHANGED <<k, table, num, quiet>>

DoChangePriority(t) ==
  /\ Executes(k, t) /\ pc[t].at = "change"
  /\ k' = Reprioritize(k, pc[t].thread, pc[t].prio)
  /\ Go(t, [pc[t] EXCEPT !.at = "changed"])
  /\ UNCHANGED <<table, num, quiet>>

EndChangePriority(t) ==
  /\ Executes(k, t) /\ pc[t].at = "changed"
  /\ k' = IF ChangeMatters(k, pc[t].thread, pc[t].prio) THEN YieldHigher(k) ELSE k
  /\ Go(t, Run)
  /\ UNCHANGED <<table, num, quiet>>

(* The scheduler calls after the critical sections.                         *)
DoYield(t) ==
  /\ Executes(k, t) /\ pc[t] = Yield
  /\ k' = YieldHigher(k)
  /\ Go(t, Run)
  /\ UNCHANGED <<table, num, quiet>>

DoSwitch(t) ==
  /\ Executes(k, t) /\ pc[t].at \in {"switch", "switchTo"}
  /\ LET other == IF pc[t].at = "switch" THEN pc[t].prio ELSE k.prio[pc[t].thread]
     IN \E test \in SwitchTests(k, other) : k' = ThreadSwitch(k, test)
  /\ Go(t, Run)
  /\ UNCHANGED <<table, num, quiet>>

-----------------------------------------------------------------------------
(* Interrupt handlers: whole calls, with the processor to themselves.       *)

IsrWakeup(i) ==
  /\ Sleeping(i)
  /\ LET woken == SetStatus(k, table[i], "PENDING")
     IN \E test \in SwitchTests(woken, k.prio[table[i]]) : k' = IsrSwitch(woken, test)
  /\ UNCHANGED <<table, num, pc, quiet>>

IsrChangePriority(u, p) ==
  /\ ~Free(u) /\ k.prio[u] # p
  /\ k' = ChangePriority(k, u, p)
  /\ UNCHANGED <<table, num, pc, quiet>>

IsrKillZombie(i) == Bury(i)

(* isr_pendsv() runs sched_run(); a handler may end sched_run()'s idle loop. *)
PendSV ==
  /\ k.pendsv /\ ~k.idle
  /\ k' = SchedRun(k)
  /\ quiet' = {}
  /\ UNCHANGED <<table, num, pc>>

EndIdle ==
  /\ k.idle /\ k.bitcache # {}
  /\ k' = IdleReturn(k)
  /\ quiet' = {}
  /\ UNCHANGED <<table, num, pc>>

-----------------------------------------------------------------------------
ThreadCall(t) ==
  \/ \E u \in Threads, p \in Prios, f \in CreateFlags : Create(t, u, p, f)
  \/ Exit(t) \/ Sleep(t) \/ Zombify(t) \/ ThreadYield(t)
  \/ \E i \in Pids : Wakeup(t, i) \/ KillZombie(t, i)
  \/ \E u \in Threads, p \in Prios : CallChangePriority(t, u, p)

Finish(t) == DoChangePriority(t) \/ EndChangePriority(t) \/ DoYield(t) \/ DoSwitch(t)

Isr == \/ \E i \in Pids : IsrWakeup(i) \/ IsrKillZombie(i)
       \/ \E u \in Threads, p \in Prios : IsrChangePriority(u, p)

Next == \/ \E t \in Threads : ThreadCall(t) \/ Finish(t)
        \/ Isr \/ PendSV \/ EndIdle

Spec == Init /\ [][Next]_vars

-----------------------------------------------------------------------------
(* Properties                                                               *)

(* The runqueues, the statuses and runqueue_bitcache agree after every step, *)
(* whatever calls and handlers were interleaved, and the one thread with    *)
(* STATUS_RUNNING is sched_active_thread.                                   *)
SchedulerConsistent == RunqueueOK(k) /\ OneRunning(k)

(* sched_threads[] and sched_num_threads agree with the control blocks: the *)
(* counter counts the slots in use, no thread has two slots, and no thread  *)
(* that runs or waits is missing from the table, however pids are reused.   *)
TableConsistent ==
  /\ num = Cardinality({i \in Pids : table[i] # NoThread})
  /\ \A i, j \in Pids : table[i] = table[j] /\ table[i] # NoThread => i = j
  /\ \A t \in Threads : k.status[t] # "STOPPED" \/ InApp(t)
                          => \E i \in Pids : table[i] = t

(* Preemption is never missed: when a thread is back in its own code with no *)
(* switch pending, it is ready, the first of its runqueue, and no thread of a *)
(* higher priority is ready, except one created with                        *)
(* THREAD_CREATE_WOUT_YIELD, the flag that asks for exactly that.           *)
NoMissedPreemption ==
  \A t \in Threads : InApp(t) =>
    /\ IsActive(k, t) /\ Head(k.runq[k.prio[t]]) = t
    /\ \A u \in Threads : IsActive(k, u) /\ k.prio[u] < k.prio[t] => u \in quiet

(* Threads of one priority run in turn: two threads of a runqueue change    *)
(* their order only when the first of the queue gives its turn away, or when *)
(* sched_change_priority() pushes a thread again that got the priority asked *)
(* for after the unprotected test at the head of the function.              *)
Before(q, t, u) == \E i, j \in DOMAIN q : i < j /\ q[i] = t /\ q[j] = u

PushedAgain(t, p) ==
  \E s \in Threads : /\ Executes(k, s)
                     /\ pc[s] = [at |-> "change", thread |-> t, prio |-> p]

TurnsKept ==
  [][\A p \in Prios, t, u \in Threads :
       Before(k.runq[p], t, u) /\ Before(k'.runq[p], u, t)
         => (t = Head(k.runq[p]) /\ t = k.active) \/ PushedAgain(t, p)]_vars
=============================================================================
