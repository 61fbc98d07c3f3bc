---------------------------- MODULE SchedProofs ----------------------------
(***************************************************************************)
(* Theorems of module Sched, for every number of threads, pids and          *)
(* priorities: the types, the consistency of the scheduler's data and of the *)
(* thread table, and that preemption is never missed.                       *)
(***************************************************************************)
EXTENDS Sched, KernelProofs, FiniteSetTheorems

(* The inductive invariant. The last conjunct says why a thread that is back *)
(* in its own code is in the table: the only calls that take the running    *)
(* thread off its runqueue leave it before a yield or pend the switch.      *)
Used == {i \in Pids : table[i] # NoThread}

TableOK == /\ num = Cardinality(Used)
           /\ \A i, j \in Pids : table[i] = table[j] /\ table[i] # NoThread => i = j
           /\ \A t \in Threads : k.status[t] # "STOPPED" => \E i \in Pids : table[i] = t

AtWorkIsReady == \A t \in Threads : Executes(k, t) /\ pc[t] # Yield => IsActive(k, t)

Others == /\ table \in [Pids -> Threads \cup {NoThread}]
          /\ pc \in [Threads -> Places]
          /\ quiet \subseteq Threads

SchedInv == KernelInv(k) /\ Others /\ TableOK /\ AtWorkIsReady

(* ---- facts about the table and the places ----                           *)

(* What the values of pc that stand for a place in a call contain.          *)
LEMMA PlacesFacts ==
  /\ Run \in Places /\ Yield \in Places /\ Run # Yield
  /\ \A p \in Prios : [at |-> "switch", prio |-> p] \in Places \ {Yield}
  /\ \A t \in Threads : [at |-> "switchTo", thread |-> t] \in Places \ {Yield}
  /\ \A t \in Threads, p \in Prios :
       /\ [at |-> "change", thread |-> t, prio |-> p] \in Places \ {Yield}
       /\ [at |-> "changed", thread |-> t, prio |-> p] \in Places \ {Yield}
BY DEF Places, Run, Yield

(* Every pid set is finite, and has at most MaxPid elements.                *)
LEMMA PidsFinite ==
  ASSUME NEW S \in SUBSET Pids
  PROVE  IsFiniteSet(S) /\ Cardinality(S) \in 0 .. MaxPid
<1>1. IsFiniteSet(Pids) /\ Cardinality(Pids) = MaxPid
  BY FS_Interval, SchedAssumption DEF Pids
<1>2. IsFiniteSet(S) /\ Cardinality(S) <= MaxPid
  BY <1>1, FS_Subset
<1> QED BY <1>2, FS_CardinalityType, SchedAssumption

(* A slot is taken: the counter goes up by one.                             *)
LEMMA TakeSlot ==
  ASSUME TableOK, NEW i \in Pids, table[i] = NoThread, NEW u \in Threads,
         table \in [Pids -> Threads \cup {NoThread}],
         table' = [table EXCEPT ![i] = u], num' = num + 1
  PROVE  num' = Cardinality(Used')
<1>1. Used' = Used \cup {i} /\ i \notin Used
  BY KernelAssumption DEF Used
<1> QED BY <1>1, PidsFinite, FS_AddElement DEF TableOK, Used

(* A slot is freed: the counter goes down by one.                           *)
LEMMA FreeSlot ==
  ASSUME TableOK, NEW i \in Pids, table[i] # NoThread,
         table \in [Pids -> Threads \cup {NoThread}],
         table' = [table EXCEPT ![i] = NoThread], num' = num - 1
  PROVE  num' = Cardinality(Used')
<1>1. /\ table'[i] = NoThread
      /\ \A j \in Pids \ {i} : table'[j] = table[j]
  OBVIOUS
<1>2. Used' = Used \ {i} /\ i \in Used
  BY <1>1 DEF Used
<1>3. num = Cardinality(Used) /\ IsFiniteSet(Used)
  BY PidsFinite DEF TableOK, Used
<1>4. Cardinality(Used \ {i}) = Cardinality(Used) - 1
  BY <1>2, <1>3, FS_RemoveElement
<1> QED BY <1>2, <1>3, <1>4

(* The thread that runs its own code has exactly one slot.                  *)
LEMMA PidOfRunning ==
  ASSUME SchedInv, NEW t \in Threads, InApp(t)
  PROVE  /\ PidOf(t) \in Pids /\ table[PidOf(t)] = t
         /\ IsActive(k, t)
         /\ \A j \in Pids : table[j] = t => j = PidOf(t)
<1>1. IsActive(k, t)
  BY PlacesFacts DEF SchedInv, AtWorkIsReady, InApp
<1>2. \E i \in Pids : table[i] = t
  BY <1>1 DEF SchedInv, TableOK, IsActive, OnRunqueue
<1>3. PidOf(t) \in Pids /\ table[PidOf(t)] = t
  BY <1>2 DEF PidOf
<1> QED BY <1>1, <1>3, KernelAssumption DEF SchedInv, TableOK

(* A step that leaves the table alone and brings no stopped thread to life  *)
(* keeps the table consistent.                                              *)
LEMMA TableKept ==
  ASSUME SchedInv, UNCHANGED <<table, num>>,
         \A t \in Threads : k'.status[t] # "STOPPED" => k.status[t] # "STOPPED"
  PROVE  TableOK'
BY DEF SchedInv, TableOK, Used

(* A step that takes no thread off its runqueue, starts no thread and moves *)
(* nobody away from a yield.                                                *)
LEMMA WorkKept ==
  ASSUME SchedInv, k'.active = k.active, k'.idle = k.idle, k.pendsv => k'.pendsv,
         \A t \in Threads : k.status[t] \in OnRunqueue => k'.status[t] \in OnRunqueue,
         \A t \in Threads : Executes(k', t) /\ pc'[t] # Yield => pc[t] # Yield
  PROVE  AtWorkIsReady'
BY DEF SchedInv, AtWorkIsReady, Executes, IsActive, KernelInv, KernelType

-----------------------------------------------------------------------------
(* The initial state: main alone is ready.                                  *)
LEMMA InitInv == Init => SchedInv
<1> SUFFICES ASSUME Init PROVE SchedInv
  OBVIOUS
<1> USE SchedAssumption, KernelAssumption
<1>1. <<Main>> \in Seq(Threads) /\ <<>> \in Seq(Threads) /\ <<Main>> # <<>>
  OBVIOUS
<1>2. /\ Elems(<<Main>>) = {Main} /\ Elems(<<>>) = {}
      /\ Once(<<Main>>) /\ Once(<<>>)
  BY DEF Elems, Once
<1>3. k \in KernelType
  <2>1. [t \in Threads |-> IF t = Main THEN "PENDING" ELSE "STOPPED"] \in [Threads -> Status]
    BY DEF Status, OnRunqueue, Blocked
  <2>2. [p \in Prios |-> IF p = MainPrio THEN <<Main>> ELSE <<>>] \in [Prios -> Seq(Threads)]
    BY <1>1
  <2> QED BY <2>1, <2>2 DEF Init, KernelType
<1>4. RunqueueOK(k)
  BY <1>1, <1>2 DEF Init, RunqueueOK, IsActive, OnRunqueue
<1>5. OneRunning(k)
  BY DEF Init, OneRunning
<1>6. Others
  BY PlacesFacts DEF Init, Others, Pids
<1>7. TableOK
  <2>1. Used = {1}
    BY DEF Init, Used, Pids
  <2>2. num = Cardinality(Used)
    BY <2>1, FS_Singleton DEF Init
  <2>3. table[1] = Main /\ 1 \in Pids /\ \A i \in Pids : i # 1 => table[i] = NoThread
    BY DEF Init, Pids
  <2>4. \A t \in Threads : k.status[t] # "STOPPED" => t = Main
    BY DEF Init
  <2> QED BY <2>2, <2>3, <2>4 DEF TableOK
<1>8. AtWorkIsReady
  BY DEF Init, AtWorkIsReady, Executes
<1> QED BY <1>3, <1>4, <1>5, <1>6, <1>7, <1>8 DEF SchedInv, KernelInv

-----------------------------------------------------------------------------
(* One lemma per action.                                                    *)

(* thread_create(): the new thread takes the first free pid.                *)
LEMMA CreateStep ==
  ASSUME SchedInv, NEW t \in Threads, NEW u \in Threads, NEW p \in Prios,
         NEW flag \in CreateFlags, Create(t, u, p, flag)
  PROVE  SchedInv'
<1> DEFINE new == [k EXCEPT !.prio[u] = p]
           s == IF flag = "SLEEPING" THEN "SLEEPING" ELSE "PENDING"
<1>1. /\ InApp(t) /\ k.status[u] = "STOPPED" /\ \A i \in Pids : table[i] # u
      /\ k' = SetStatus(new, u, s)
      /\ pc' = [pc EXCEPT ![u] = Run,
                          ![t] = IF flag = "NONE" THEN [at |-> "switch", prio |-> p]
                                                  ELSE Run]
      /\ quiet' \subseteq quiet \cup {u} /\ num' = num + 1
  BY DEF Create, Free
<1>2. IsActive(k, t) /\ ~IsActive(k, u) /\ t # u
  BY <1>1, PidOfRunning DEF IsActive, OnRunqueue
<1>3. /\ KernelInv(new) /\ new.status = k.status
      /\ new.active = k.active /\ new.idle = k.idle /\ new.pendsv = k.pendsv
  BY <1>2, PrioInv DEF SchedInv, KernelInv, KernelType
<1>4. s \in Status \ {"RUNNING"} /\ s # "STOPPED"
  BY DEF Status, Blocked, OnRunqueue
<1> HIDE DEF new, s
<1>5. KernelInv(k')
  BY <1>1, <1>3, <1>4, SetStatusInv
<1>6. /\ k'.status = [k.status EXCEPT ![u] = s]
      /\ k'.active = k.active /\ k'.idle = k.idle /\ k'.pendsv = k.pendsv
  BY <1>1, <1>3, <1>4, SetStatusEffect
<1>7. PICK i \in Pids : table[i] = NoThread /\ table' = [table EXCEPT ![i] = u]
  BY DEF Create
<1>8. Others'
  BY <1>1, <1>7, PlacesFacts DEF SchedInv, Others
<1>9. TableOK'
  <2>1. num' = Cardinality(Used')
    BY <1>1, <1>7, TakeSlot DEF SchedInv, Others
  <2>2. \A j \in Pids : table'[j] = IF j = i THEN u ELSE table[j]
    BY <1>7 DEF SchedInv, Others
  <2>3. \A j, l \in Pids : table'[j] = table'[l] /\ table'[j] # NoThread => j = l
    BY <1>1, <2>2 DEF SchedInv, TableOK
  <2>4. ASSUME NEW v \in Threads, k'.status[v] # "STOPPED"
        PROVE  \E j \in Pids : table'[j] = v
    <3>1. CASE v = u BY <3>1, <2>2
    <3>2. CASE v # u
      <4>1. k.status[v] # "STOPPED"
        BY <2>4, <3>2, <1>6 DEF SchedInv, KernelInv, KernelType
      <4>2. PICK j \in Pids : table[j] = v
        BY <4>1 DEF SchedInv, TableOK
      <4>3. j # i
        BY <4>2, <1>7, KernelAssumption
      <4> QED BY <4>2, <4>3, <2>2
    <3> QED BY <3>1, <3>2
  <2> QED BY <2>1, <2>3, <2>4 DEF TableOK
<1>10. AtWorkIsReady'
  <2>1. k.active = t
    BY <1>1 DEF InApp, Executes
  <2> QED BY <1>2, <1>6, <2>1 DEF AtWorkIsReady, Executes, IsActive, SchedInv, KernelInv, KernelType
<1> QED BY <1>5, <1>8, <1>9, <1>10 DEF SchedInv

(* sched_task_exit(): the running thread gives its pid back.                *)
LEMMA ExitStep ==
  ASSUME SchedInv, NEW t \in Threads, Exit(t)
  PROVE  SchedInv'
<1> DEFINE m == SetStatus(k, t, "STOPPED")
           n == [m EXCEPT !.active = NoThread]
<1>1. /\ InApp(t) /\ num' = num - 1 /\ k' = YieldHigher(n)
      /\ table' = [table EXCEPT ![PidOf(t)] = NoThread] /\ UNCHANGED <<pc, quiet>>
  BY DEF Exit
<1>2. /\ PidOf(t) \in Pids /\ table[PidOf(t)] = t /\ table[PidOf(t)] # NoThread
      /\ \A j \in Pids : table[j] = t => j = PidOf(t)
  BY <1>1, PidOfRunning, KernelAssumption
<1>3. "STOPPED" \in Status \ {"RUNNING"}
  BY DEF Status, Blocked
<1>4. KernelInv(m) /\ m.status = [k.status EXCEPT ![t] = "STOPPED"] /\ m.active = t
  BY <1>1, <1>3, SetStatusInv, SetStatusEffect DEF SchedInv, InApp, Executes
<1> HIDE DEF m
<1>5. KernelInv(n)
  <2>1. /\ n \in KernelType /\ n.status = m.status /\ n.prio = m.prio /\ n.runq = m.runq
        /\ n.bitcache = m.bitcache
    BY <1>4 DEF KernelInv, KernelType
  <2> HIDE DEF n
  <2>2. RunqueueOK(n)
    BY <1>4, <2>1 DEF KernelInv, RunqueueOK, IsActive
  <2>3. \A u \in Threads : n.status[u] # "RUNNING"
    <3>1. m.status[t] = "STOPPED"
      BY <1>4 DEF SchedInv, KernelInv, KernelType
    <3>2. \A u \in Threads : m.status[u] = "RUNNING" => u = t
      BY <1>4 DEF KernelInv, OneRunning
    <3> QED BY <2>1, <3>1, <3>2
  <2> QED BY <2>1, <2>2, <2>3 DEF KernelInv, OneRunning
<1>6. n.status = m.status /\ n.active = NoThread
  BY <1>4 DEF KernelInv, KernelType
<1> HIDE DEF n
<1>7. KernelInv(k') /\ k'.status = [k.status EXCEPT ![t] = "STOPPED"] /\ k'.active = NoThread
  BY <1>1, <1>4, <1>5, <1>6, YieldHigherInv, YieldEffect
<1>8. Others'
  BY <1>1 DEF SchedInv, Others
<1>9. TableOK'
  <2>1. num' = Cardinality(Used')
    BY <1>1, <1>2, FreeSlot DEF SchedInv, Others
  <2>2. \A j \in Pids : table'[j] = IF j = PidOf(t) THEN NoThread ELSE table[j]
    BY <1>1, <1>2 DEF SchedInv, Others
  <2>3. \A j, l \in Pids : table'[j] = table'[l] /\ table'[j] # NoThread => j = l
    BY <2>2 DEF SchedInv, TableOK
  <2>4. ASSUME NEW v \in Threads, k'.status[v] # "STOPPED"
        PROVE  \E j \in Pids : table'[j] = v
    <3>1. v # t /\ k.status[v] # "STOPPED"
      BY <2>4, <1>7 DEF SchedInv, KernelInv, KernelType
    <3>2. PICK j \in Pids : table[j] = v
      BY <3>1 DEF SchedInv, TableOK
    <3> QED BY <1>2, <2>2, <3>1, <3>2
  <2> QED BY <2>1, <2>3, <2>4 DEF TableOK
<1>10. AtWorkIsReady'
  BY <1>7, KernelAssumption DEF AtWorkIsReady, Executes
<1> QED BY <1>7, <1>8, <1>9, <1>10 DEF SchedInv

(* thread_sleep() and thread_zombify(): a thread keeps its pid.             *)
LEMMA LeaveStep ==
  ASSUME SchedInv, NEW t \in Threads, NEW s \in {"SLEEPING", "ZOMBIE"}, Leave(t, s)
  PROVE  SchedInv'
<1>1. /\ InApp(t) /\ k' = SetStatus(k, t, s) /\ pc' = [pc EXCEPT ![t] = Yield]
      /\ UNCHANGED <<table, num, quiet>>
  BY DEF Leave, Go
<1>2. s \in Status \ {"RUNNING"}
  BY DEF Status, Blocked, OnRunqueue
<1>3. /\ KernelInv(k') /\ k'.status = [k.status EXCEPT ![t] = s]
      /\ k'.active = k.active
  BY <1>1, <1>2, SetStatusInv, SetStatusEffect DEF SchedInv
<1>4. Others'
  BY <1>1, PlacesFacts DEF SchedInv, Others
<1>5. TableOK'
  <2>1. k.status[t] # "STOPPED"
    BY <1>1, PidOfRunning DEF IsActive, OnRunqueue
  <2>2. \A v \in Threads : k'.status[v] # "STOPPED" => k.status[v] # "STOPPED"
    BY <1>3, <2>1 DEF SchedInv, KernelInv, KernelType
  <2> QED BY <1>1, <2>2, TableKept
<1>6. AtWorkIsReady'
  BY <1>1, <1>3 DEF AtWorkIsReady, Executes, InApp, SchedInv, Others
<1> QED BY <1>3, <1>4, <1>5, <1>6 DEF SchedInv

(* thread_wakeup(), in a thread and up to its sched_switch() in a handler.  *)
LEMMA WakeInv ==
  ASSUME SchedInv, NEW i \in Pids, Sleeping(i)
  PROVE  LET n == SetStatus(k, table[i], "PENDING")
         IN /\ table[i] \in Threads /\ KernelInv(n)
            /\ n.active = k.active /\ n.idle = k.idle /\ n.pendsv = k.pendsv
            /\ \A t \in Threads : n.status[t] # "STOPPED" => k.status[t] # "STOPPED"
            /\ \A t \in Threads : k.status[t] \in OnRunqueue => n.status[t] \in OnRunqueue
<1>1. table[i] \in Threads /\ k.status[table[i]] = "SLEEPING"
  BY DEF Sleeping, SchedInv, Others
<1>2. "PENDING" \in Status \ {"RUNNING"} /\ "PENDING" \in OnRunqueue
  BY DEF Status, OnRunqueue
<1> DEFINE n == SetStatus(k, table[i], "PENDING")
<1>3. /\ KernelInv(n) /\ n.status = [k.status EXCEPT ![table[i]] = "PENDING"]
      /\ n.active = k.active /\ n.idle = k.idle /\ n.pendsv = k.pendsv
  BY <1>1, <1>2, SetStatusInv, SetStatusEffect DEF SchedInv
<1> HIDE DEF n
<1>4. /\ \A t \in Threads : n.status[t] # "STOPPED" => k.status[t] # "STOPPED"
      /\ \A t \in Threads : k.status[t] \in OnRunqueue => n.status[t] \in OnRunqueue
  BY <1>1, <1>2, <1>3 DEF SchedInv, KernelInv, KernelType
<1> QED BY <1>1, <1>3, <1>4 DEF n

(* thread_wakeup() by a thread, up to its irq_restore().                    *)
LEMMA WakeupStep ==
  ASSUME SchedInv, NEW t \in Threads, NEW i \in Pids, Wakeup(t, i)
  PROVE  SchedInv'
<1>1. /\ Sleeping(i) /\ k' = SetStatus(k, table[i], "PENDING") /\ InApp(t)
      /\ pc' = [pc EXCEPT ![t] = [at |-> "switchTo", thread |-> table[i]]]
      /\ UNCHANGED <<table, num, quiet>>
  BY DEF Wakeup, Go
<1>2. TableOK' /\ KernelInv(k')
  BY <1>1, WakeInv, TableKept
<1>3. Others'
  BY <1>1, WakeInv, PlacesFacts DEF SchedInv, Others
<1>4. AtWorkIsReady'
  <2>1. \A v \in Threads : Executes(k', v) /\ pc'[v] # Yield => pc[v] # Yield
    BY <1>1, PlacesFacts DEF InApp, SchedInv, Others
  <2> QED BY <1>1, <2>1, WakeInv, WorkKept
<1> QED BY <1>2, <1>3, <1>4 DEF SchedInv

(* thread_wakeup() by a handler, sched_switch() included.                   *)
LEMMA IsrWakeupStep ==
  ASSUME SchedInv, NEW i \in Pids, IsrWakeup(i)
  PROVE  SchedInv'
<1> DEFINE m == SetStatus(k, table[i], "PENDING")
<1>1. /\ Sleeping(i) /\ UNCHANGED <<table, num, pc, quiet>>
      /\ \E test \in BOOLEAN : k' = IsrSwitch(m, test)
  BY DEF IsrWakeup, SwitchTests
<1>2. PICK test \in BOOLEAN : k' = IsrSwitch(m, test)
  BY <1>1
<1>3. /\ KernelInv(m) /\ m.active = k.active /\ m.idle = k.idle /\ m.pendsv = k.pendsv
      /\ \A t \in Threads : m.status[t] # "STOPPED" => k.status[t] # "STOPPED"
      /\ \A t \in Threads : k.status[t] \in OnRunqueue => m.status[t] \in OnRunqueue
  BY <1>1, WakeInv
<1> HIDE DEF m
<1>4. /\ KernelInv(k') /\ k'.status = m.status /\ k'.active = m.active
      /\ k'.idle = m.idle
      /\ m.pendsv => k'.pendsv
  BY <1>2, <1>3, SwitchInv, SwitchEffect
<1>5. TableOK'
  BY <1>1, <1>3, <1>4, TableKept
<1>6. AtWorkIsReady'
  <2>1. \A t \in Threads : k.status[t] \in OnRunqueue => k'.status[t] \in OnRunqueue
    BY <1>3, <1>4
  <2>2. /\ k'.active = k.active /\ k'.idle = k.idle
        /\ k.pendsv => k'.pendsv
    BY <1>3, <1>4
  <2>3. \A t \in Threads : Executes(k', t) /\ pc'[t] # Yield => pc[t] # Yield
    BY <1>1
  <2> QED BY <2>1, <2>2, <2>3, WorkKept
<1> QED BY <1>1, <1>4, <1>5, <1>6 DEF SchedInv, Others

(* thread_kill_zombie(), whoever calls it.                                  *)
LEMMA BuryStep ==
  ASSUME SchedInv, NEW i \in Pids, Bury(i)
  PROVE  SchedInv'
<1> DEFINE z == table[i]
<1>1. /\ z \in Threads /\ k.status[z] = "ZOMBIE" /\ table[i] # NoThread
      /\ table' = [table EXCEPT ![i] = NoThread] /\ num' = num - 1
      /\ k' = SetStatus(k, z, "STOPPED") /\ UNCHANGED <<pc, quiet>>
  BY DEF Bury, Zombie, SchedInv, Others
<1> HIDE DEF z
<1>2. "STOPPED" \in Status \ {"RUNNING"}
  BY DEF Status, Blocked
<1>3. /\ KernelInv(k') /\ k'.status = [k.status EXCEPT ![z] = "STOPPED"]
      /\ k'.active = k.active /\ k'.idle = k.idle /\ k'.pendsv = k.pendsv
  BY <1>1, <1>2, SetStatusInv, SetStatusEffect DEF SchedInv
<1>4. \A j \in Pids : table'[j] = IF j = i THEN NoThread ELSE table[j]
  BY <1>1 DEF SchedInv, Others
<1>5. TableOK'
  <2>1. num' = Cardinality(Used')
    BY <1>1, FreeSlot DEF SchedInv, Others
  <2>2. \A j, l \in Pids : table'[j] = table'[l] /\ table'[j] # NoThread => j = l
    BY <1>4 DEF SchedInv, TableOK
  <2>3. ASSUME NEW v \in Threads, k'.status[v] # "STOPPED"
        PROVE  \E j \in Pids : table'[j] = v
    <3>1. v # z /\ k.status[v] # "STOPPED"
      BY <1>3, <2>3 DEF SchedInv, KernelInv, KernelType
    <3>2. PICK j \in Pids : table[j] = v
      BY <3>1 DEF SchedInv, TableOK
    <3> QED BY <1>4, <3>1, <3>2 DEF z
  <2> QED BY <2>1, <2>2, <2>3 DEF TableOK
<1>6. AtWorkIsReady'
  <2>1. \A t \in Threads : k.status[t] \in OnRunqueue => k'.status[t] \in OnRunqueue
    BY <1>1, <1>3 DEF OnRunqueue, SchedInv, KernelInv, KernelType
  <2> QED BY <1>1, <1>3, <2>1, WorkKept
<1>7. Others'
  BY <1>1 DEF SchedInv, Others
<1> QED BY <1>3, <1>5, <1>6, <1>7 DEF SchedInv

(* Calls that change no thread's status to or from a runqueue.              *)
LEMMA SameStatusStep ==
  ASSUME SchedInv, KernelInv(k'), k'.status = k.status, k'.active = k.active,
         k'.idle = k.idle, k.pendsv => k'.pendsv, UNCHANGED <<table, num, quiet>>,
         pc' \in [Threads -> Places],
         \A t \in Threads : Executes(k', t) /\ pc'[t] # Yield => pc[t] # Yield
  PROVE  SchedInv'
<1>1. TableOK'
  BY TableKept
<1>2. AtWorkIsReady'
  BY WorkKept
<1> QED BY <1>1, <1>2 DEF SchedInv, Others

(* thread_yield(), up to its irq_restore().                                 *)
LEMMA ThreadYieldStep ==
  ASSUME SchedInv, NEW t \in Threads, ThreadYield(t)
  PROVE  SchedInv'
<1>1. /\ InApp(t) /\ k' = YieldRotate(k) /\ pc' = [pc EXCEPT ![t] = Yield]
      /\ UNCHANGED <<table, num, quiet>>
  BY DEF ThreadYield, Go
<1>2. k.active \in Threads /\ KernelInv(k)
  BY <1>1 DEF InApp, Executes, SchedInv
<1>3. KernelInv(k')
  BY <1>1, <1>2, YieldRotateInv
<1>4. /\ k'.status = k.status /\ k'.active = k.active /\ k'.idle = k.idle
      /\ k'.pendsv = k.pendsv
  BY <1>1, <1>2, YieldEffect
<1>5. pc' \in [Threads -> Places] /\ \A v \in Threads : pc'[v] # Yield => pc[v] # Yield
  BY <1>1, PlacesFacts DEF SchedInv, Others
<1> QED BY <1>1, <1>3, <1>4, <1>5, SameStatusStep

(* The unprotected test at the head of sched_change_priority().             *)
LEMMA CallChangePriorityStep ==
  ASSUME SchedInv, NEW t \in Threads, NEW u \in Threads, NEW p \in Prios,
         CallChangePriority(t, u, p)
  PROVE  SchedInv'
<1>1. /\ InApp(t) /\ pc' = [pc EXCEPT ![t] = [at |-> "change", thread |-> u, prio |-> p]]
      /\ UNCHANGED <<k, table, num, quiet>>
  BY DEF CallChangePriority, Go
<1>2. /\ pc' \in [Threads -> Places]
      /\ \A v \in Threads : Executes(k', v) /\ pc'[v] # Yield => pc[v] # Yield
  BY <1>1, PlacesFacts DEF SchedInv, Others, InApp
<1> QED BY <1>1, <1>2, SameStatusStep DEF SchedInv

(* The critical section of sched_change_priority().                         *)
LEMMA DoChangePriorityStep ==
  ASSUME SchedInv, NEW t \in Threads, DoChangePriority(t)
  PROVE  SchedInv'
<1>1. /\ pc[t] \in Places /\ pc[t].at = "change"
      /\ k' = Reprioritize(k, pc[t].thread, pc[t].prio)
      /\ pc' = [pc EXCEPT ![t] = [pc[t] EXCEPT !.at = "changed"]]
      /\ UNCHANGED <<table, num, quiet>>
  BY DEF DoChangePriority, Go, SchedInv, Others
<1>2. PICK u \in Threads, p \in Prios : pc[t] = [at |-> "change", thread |-> u, prio |-> p]
  BY <1>1 DEF Places, Run, Yield
<1>3. /\ k' = Reprioritize(k, u, p)
      /\ pc' = [pc EXCEPT ![t] = [at |-> "changed", thread |-> u, prio |-> p]]
  <2>1. [pc[t] EXCEPT !.at = "changed"] = [at |-> "changed", thread |-> u, prio |-> p]
    BY <1>2
  <2>2. pc[t].thread = u /\ pc[t].prio = p
    BY <1>2
  <2> QED BY <1>1, <2>1, <2>2
<1>4. KernelInv(k')
  BY <1>3, ReprioritizeInv DEF SchedInv
<1>5. /\ k'.status = k.status /\ k'.active = k.active /\ k'.idle = k.idle
      /\ k'.pendsv = k.pendsv
  BY <1>3, ChangePriorityEffect DEF SchedInv
<1>6. pc' \in [Threads -> Places] /\ \A v \in Threads : pc'[v] # Yield => pc[v] # Yield
  BY <1>2, <1>3, PlacesFacts DEF SchedInv, Others
<1> QED BY <1>1, <1>4, <1>5, <1>6, SameStatusStep

(* The test for a yield at the end of sched_change_priority().              *)
LEMMA EndChangePriorityStep ==
  ASSUME SchedInv, NEW t \in Threads, EndChangePriority(t)
  PROVE  SchedInv'
<1>1. /\ pc[t].at = "changed" /\ k' \in {k, YieldHigher(k)} /\ pc' = [pc EXCEPT ![t] = Run]
      /\ UNCHANGED <<table, num, quiet>>
  BY DEF EndChangePriority, Go
<1>2. KernelInv(k')
  BY <1>1, YieldHigherInv DEF SchedInv
<1>3. /\ k'.status = k.status /\ k'.active = k.active /\ k'.idle = k.idle
      /\ k.pendsv => k'.pendsv
  BY <1>1, YieldEffect DEF SchedInv
<1>4. pc[t] # Yield
  BY <1>1 DEF Yield
<1>5. pc' \in [Threads -> Places] /\ \A v \in Threads : pc'[v] # Yield => pc[v] # Yield
  BY <1>1, <1>4, PlacesFacts DEF SchedInv, Others
<1> QED BY <1>1, <1>2, <1>3, <1>5, SameStatusStep

(* thread_yield_higher() after a critical section.                          *)
LEMMA DoYieldStep ==
  ASSUME SchedInv, NEW t \in Threads, DoYield(t)
  PROVE  SchedInv'
<1>1. /\ Executes(k, t) /\ k' = YieldHigher(k) /\ pc' = [pc EXCEPT ![t] = Run]
      /\ UNCHANGED <<table, num, quiet>>
  BY DEF DoYield, Go
<1>2. KernelInv(k')
  BY <1>1, YieldHigherInv DEF SchedInv
<1>3. /\ k'.status = k.status /\ k'.active = k.active /\ k'.idle = k.idle /\ k'.pendsv
  BY <1>1, YieldEffect DEF SchedInv
<1>4. pc' \in [Threads -> Places] /\ \A v \in Threads : ~Executes(k', v)
  BY <1>1, <1>3, PlacesFacts DEF SchedInv, Others, Executes
<1> QED BY <1>1, <1>2, <1>3, <1>4, SameStatusStep

(* sched_switch() after a critical section.                                 *)
LEMMA DoSwitchStep ==
  ASSUME SchedInv, NEW t \in Threads, DoSwitch(t)
  PROVE  SchedInv'
<1>1. /\ pc[t].at \in {"switch", "switchTo"} /\ pc' = [pc EXCEPT ![t] = Run]
      /\ UNCHANGED <<table, num, quiet>>
      /\ \E test \in BOOLEAN : k' = ThreadSwitch(k, test)
  BY DEF DoSwitch, Go, SwitchTests
<1>2. PICK test \in BOOLEAN : k' = ThreadSwitch(k, test)
  BY <1>1
<1>3. KernelInv(k')
  BY <1>2, SwitchInv DEF SchedInv
<1>4. /\ k'.status = k.status /\ k'.active = k.active /\ k'.idle = k.idle
      /\ k.pendsv => k'.pendsv
  BY <1>2, SwitchEffect DEF SchedInv
<1>5. pc[t] # Yield
  BY <1>1 DEF Yield
<1>6. pc' \in [Threads -> Places] /\ \A v \in Threads : pc'[v] # Yield => pc[v] # Yield
  BY <1>1, <1>5, PlacesFacts DEF SchedInv, Others
<1> QED BY <1>1, <1>3, <1>4, <1>6, SameStatusStep

(* sched_change_priority() by a handler.                                    *)
LEMMA IsrChangePriorityStep ==
  ASSUME SchedInv, NEW u \in Threads, NEW p \in Prios, IsrChangePriority(u, p)
  PROVE  SchedInv'
<1>1. k' = ChangePriority(k, u, p) /\ UNCHANGED <<table, num, pc, quiet>>
  BY DEF IsrChangePriority
<1>2. KernelInv(k')
  BY <1>1, ChangePriorityInv DEF SchedInv
<1>3. /\ k'.status = k.status /\ k'.active = k.active /\ k'.idle = k.idle
      /\ k.pendsv => k'.pendsv
  BY <1>1, ChangePriorityEffect DEF SchedInv
<1> QED BY <1>1, <1>2, <1>3, SameStatusStep DEF SchedInv, Others

(* isr_pendsv() and the end of the idle loop.                               *)
LEMMA PendSVStep ==
  ASSUME SchedInv, PendSV
  PROVE  SchedInv'
<1>1. k' = SchedRun(k) /\ quiet' = {} /\ UNCHANGED <<table, num, pc>>
  BY DEF PendSV
<1>2. KernelInv(k')
  BY <1>1, SchedRunInv DEF SchedInv
<1>3. /\ \A t \in Threads : k'.status[t] \in OnRunqueue <=> k.status[t] \in OnRunqueue
      /\ \A t \in Threads : k'.status[t] \notin OnRunqueue => k'.status[t] = k.status[t]
      /\ k'.idle \/ (k'.active \in Threads /\ k.status[k'.active] \in OnRunqueue)
  BY <1>1, SchedRunEffect DEF SchedInv
<1>4. TableOK'
  <2>1. \A t \in Threads : k'.status[t] # "STOPPED" => k.status[t] # "STOPPED"
    BY <1>3 DEF OnRunqueue
  <2> QED BY <1>1, <2>1, TableKept
<1>5. AtWorkIsReady'
  BY <1>3 DEF AtWorkIsReady, Executes, IsActive
<1> QED BY <1>1, <1>2, <1>4, <1>5 DEF SchedInv, Others

(* The return from sched_run()'s idle loop.                                 *)
LEMMA EndIdleStep ==
  ASSUME SchedInv, EndIdle
  PROVE  SchedInv'
<1>1. /\ k.idle /\ k.bitcache # {} /\ k' = IdleReturn(k)
      /\ quiet' = {} /\ UNCHANGED <<table, num, pc>>
  BY DEF EndIdle
<1>2. KernelInv(k')
  BY <1>1, IdleReturnInv DEF SchedInv
<1>3. /\ \A t \in Threads : k'.status[t] \in OnRunqueue <=> k.status[t] \in OnRunqueue
      /\ \A t \in Threads : k'.status[t] \notin OnRunqueue => k'.status[t] = k.status[t]
      /\ k'.active \in Threads /\ k.status[k'.active] \in OnRunqueue
  <2>1. KernelInv(k) /\ k.bitcache # {} /\ NoThread \in Threads \cup {NoThread}
    BY <1>1 DEF SchedInv
  <2>2. k' = Dispatch(k, NoThread)
    BY <1>1 DEF IdleReturn
  <2> QED BY <2>1, <2>2, DispatchEffect
<1>4. TableOK'
  <2>1. \A t \in Threads : k'.status[t] # "STOPPED" => k.status[t] # "STOPPED"
    BY <1>3 DEF OnRunqueue
  <2> QED BY <1>1, <2>1, TableKept
<1>5. AtWorkIsReady'
  BY <1>3 DEF AtWorkIsReady, Executes, IsActive
<1> QED BY <1>1, <1>2, <1>4, <1>5 DEF SchedInv, Others

-----------------------------------------------------------------------------
(* Every step of the system keeps the inductive invariant.                  *)
LEMMA NextInv == SchedInv /\ [Next]_vars => SchedInv'
<1> SUFFICES ASSUME SchedInv, [Next]_vars PROVE SchedInv'
  OBVIOUS
<1>1. ASSUME NEW t \in Threads, ThreadCall(t) PROVE SchedInv'
  <2>1. CASE \E u \in Threads, p \in Prios, f \in CreateFlags : Create(t, u, p, f)
    BY <2>1, CreateStep
  <2>2. CASE Exit(t)
    BY <2>2, ExitStep
  <2>3. CASE Sleep(t) \/ Zombify(t)
    BY <2>3, LeaveStep DEF Sleep, Zombify
  <2>4. CASE ThreadYield(t)
    BY <2>4, ThreadYieldStep
  <2>5. CASE \E i \in Pids : Wakeup(t, i)
    BY <2>5, WakeupStep
  <2>6. CASE \E i \in Pids : KillZombie(t, i)
    BY <2>6, BuryStep DEF KillZombie
  <2>7. CASE \E u \in Threads, p \in Prios : CallChangePriority(t, u, p)
    BY <2>7, CallChangePriorityStep
  <2> QED BY <1>1, <2>1, <2>2, <2>3, <2>4, <2>5, <2>6, <2>7 DEF ThreadCall
<1>2. ASSUME NEW t \in Threads, Finish(t) PROVE SchedInv'
  BY <1>2, DoChangePriorityStep, EndChangePriorityStep, DoYieldStep, DoSwitchStep DEF Finish
<1>3. CASE Isr
  BY <1>3, IsrWakeupStep, BuryStep, IsrChangePriorityStep DEF Isr, IsrKillZombie
<1>4. CASE PendSV
  BY <1>4, PendSVStep
<1>5. CASE EndIdle
  BY <1>5, EndIdleStep
<1>6. CASE UNCHANGED vars
  BY <1>6 DEF vars, SchedInv, Others, TableOK, Used, AtWorkIsReady, Executes
<1> QED BY <1>1, <1>2, <1>3, <1>4, <1>5, <1>6 DEF Next

(* The invariant holds in every reachable state.                            *)
THEOREM Invariant == Spec => []SchedInv
BY InitInv, NextInv, PTL DEF Spec

(* All variables keep their types; the counter of threads stays within the  *)
(* pids because it counts the slots in use.                                 *)
THEOREM TypeCorrect == Spec => []TypeOK
<1>1. SchedInv => TypeOK
  <2>1. ASSUME SchedInv PROVE num \in 0 .. MaxPid
    BY <2>1, PidsFinite DEF SchedInv, TableOK, Used
  <2> QED BY <2>1 DEF SchedInv, KernelInv, Others, TypeOK
<1> QED BY <1>1, Invariant, PTL

(* Whatever calls and handlers are interleaved, runqueues, statuses, bit    *)
(* cache and sched_active_thread agree (core/sched.c).                      *)
THEOREM SchedulerAlwaysConsistent == Spec => []SchedulerConsistent
<1>1. SchedInv => SchedulerConsistent
  BY DEF SchedInv, KernelInv, SchedulerConsistent
<1> QED BY <1>1, Invariant, PTL

(* sched_threads[] and sched_num_threads agree with the control blocks      *)
(* through every creation, exit and burial (core/thread.c).                 *)
THEOREM TableAlwaysConsistent == Spec => []TableConsistent
<1>1. SchedInv => TableConsistent
  <2> SUFFICES ASSUME SchedInv PROVE TableConsistent
    OBVIOUS
  <2>1. \A t \in Threads : InApp(t) => \E i \in Pids : table[i] = t
    BY PidOfRunning
  <2> QED BY <2>1 DEF SchedInv, TableOK, Used, TableConsistent
<1> QED BY <1>1, Invariant, PTL

-----------------------------------------------------------------------------
(* Preemption is never missed: wherever a call or a handler makes a thread  *)
(* ready or moves it, somebody still has to ask for the switch.             *)

(* The ready threads that should run in place of t.                         *)
Above(t) == {u \in Threads : IsActive(k, u) /\ k.prio[u] < k.prio[t] /\ u \notin quiet}

First(s, t) == Head(s.runq[s.prio[t]]) = t

(* What t has still to do in its kernel call covers every thread above it:  *)
(* the yield, or the test of sched_switch() or sched_change_priority().     *)
Notices(t) ==
  \/ pc[t] = Yield
  \/ pc[t].at = "switch" /\ pc[t].prio < k.prio[t]
  \/ pc[t].at = "switchTo" /\ Above(t) \subseteq {pc[t].thread}
  \/ pc[t].at = "changed" /\ pc[t].thread = t
  \/ pc[t].at = "changed" /\ \A u \in Above(t) : u = pc[t].thread /\ k.prio[u] = pc[t].prio

(* t has its turn among the threads of its priority, or is about to yield.  *)
HasTurn(t) == pc[t] = Yield \/ (pc[t].at = "changed" /\ pc[t].thread = t) \/ First(k, t)

Attentive(t) == (Above(t) = {} \/ Notices(t)) /\ HasTurn(t)

PreemptInv == \A t \in Threads : Executes(k, t) => Attentive(t)

-----------------------------------------------------------------------------
(* The head of a runqueue                                                   *)

(* clist_rpush() to a list that is not empty keeps its head.                *)
LEMMA HeadAppend ==
  ASSUME NEW S, NEW q \in Seq(S), q # <<>>, NEW t \in S
  PROVE  Head(Append(q, t)) = Head(q)
<1>1. /\ Append(q, t) \in Seq(S) /\ Append(q, t) # <<>>
      /\ Append(q, t)[1] = q[1]
  BY EmptySeq, LenProperties, AppendProperties
<1> QED BY <1>1, HeadTailProperties

(* clist_remove() of another thread than the head keeps the head.           *)
LEMMA HeadUnlink ==
  ASSUME NEW S, NEW q \in Seq(S), q # <<>>, NEW t, Head(q) # t
  PROVE  Head(Unlink(q, t)) = Head(q)
<1>1. CASE t \notin Elems(q)
  BY <1>1 DEF Unlink
<1>2. CASE t \in Elems(q)
  <2> DEFINE i == CHOOSE j \in DOMAIN q : q[j] = t
             r == Without(q, i)
  <2>1. i \in DOMAIN q /\ q[i] = t
    BY <1>2 DEF Elems
  <2>2. /\ DOMAIN q = 1 .. Len(q) /\ Len(q) \in Nat \ {0} /\ Head(q) = q[1]
        /\ \A j \in 1 .. Len(q) : q[j] \in S
    BY LenProperties, EmptySeq, HeadTailProperties, ElementOfSeq
  <2> HIDE DEF i
  <2>3. i \in 2 .. Len(q)
    BY <2>1, <2>2
  <2>4. r = [j \in 1 .. Len(q) - 1 |-> IF j < i THEN q[j] ELSE q[j + 1]]
    BY DEF r, Without
  <2> HIDE DEF r
  <2>5. Len(q) - 1 \in Nat \ {0} /\ r[1] = q[1]
    BY <2>2, <2>3, <2>4
  <2>6. r \in Seq(S) /\ Len(r) = Len(q) - 1
    <3>1. \A j \in 1 .. Len(q) - 1 : (IF j < i THEN q[j] ELSE q[j + 1]) \in S
      BY <2>2
    <3> QED BY <2>4, <2>5, <3>1
  <2>7. Head(r) = r[1]
    BY <2>5, <2>6, EmptySeq, HeadTailProperties
  <2>8. Unlink(q, t) = r
    BY <1>2 DEF Unlink, i, r
  <2> QED BY <2>2, <2>5, <2>7, <2>8
<1> QED BY <1>1, <1>2

(* A ready thread's runqueue is not empty.                                  *)
LEMMA ReadyQueue ==
  ASSUME NEW s, KernelInv(s), NEW t \in Threads, IsActive(s, t)
  PROVE  /\ s.prio[t] \in Prios
         /\ s.runq[s.prio[t]] \in Seq(Threads) \ {<<>>}
<1>1. s.prio[t] \in Prios /\ s.runq[s.prio[t]] \in Seq(Threads)
  BY DEF KernelInv, KernelType
<1>2. t \in Elems(s.runq[s.prio[t]])
  BY <1>1 DEF KernelInv, RunqueueOK
<1> QED BY <1>1, <1>2, ElemsEmpty

(* sched_set_status() of another thread takes no ready thread's turn.       *)
LEMMA SetStatusTurn ==
  ASSUME NEW s, KernelInv(s), NEW t \in Threads, IsActive(s, t), First(s, t),
         NEW u \in Threads \ {t}, NEW x \in Status
  PROVE  First(SetStatus(s, u, x), t)
<1> DEFINE n == SetStatus(s, u, x)
           a == s.prio[t]
           b == s.prio[u]
<1>1. /\ a \in Prios /\ b \in Prios /\ s.runq[a] \in Seq(Threads) \ {<<>>}
      /\ Head(s.runq[a]) = t /\ s \in KernelType /\ RunqueueOK(s)
  BY ReadyQueue DEF KernelInv, KernelType, First
<1>2. n.runq[a] \in {s.runq[a], Append(s.runq[a], u), Unlink(s.runq[a], u)}
  <2>1. CASE x \in OnRunqueue /\ ~IsActive(s, u)
    BY <1>1, <2>1 DEF SetStatus, RunqueuePush, KernelType
  <2>2. CASE x \notin OnRunqueue /\ IsActive(s, u)
    BY <1>1, <2>2 DEF SetStatus, RunqueuePop, KernelType
  <2>3. CASE (x \in OnRunqueue) = IsActive(s, u)
    <3>1. /\ ~(x \in OnRunqueue /\ ~IsActive(s, u))
          /\ ~(x \notin OnRunqueue /\ IsActive(s, u))
      BY <2>3
    <3> QED BY <1>1, <3>1 DEF SetStatus, KernelType
  <2>4. /\ (x \in OnRunqueue) \in BOOLEAN /\ IsActive(s, u) \in BOOLEAN
    BY DEF IsActive
  <2> HIDE DEF n
  <2> QED BY <2>1, <2>2, <2>3, <2>4
<1>3. /\ Head(Append(s.runq[a], u)) = Head(s.runq[a])
      /\ Head(Unlink(s.runq[a], u)) = Head(s.runq[a])
  BY <1>1, HeadAppend, HeadUnlink
<1>4. n.prio = s.prio
  BY <1>1, SetStatusOK
<1> HIDE DEF n
<1> QED BY <1>1, <1>2, <1>3, <1>4 DEF First, n

(* sched_change_priority() of another thread takes no ready thread's turn.  *)
LEMMA ReprioritizeTurn ==
  ASSUME NEW s, KernelInv(s), NEW t \in Threads, IsActive(s, t), First(s, t),
         NEW u \in Threads \ {t}, NEW p \in Prios
  PROVE  /\ First(Reprioritize(s, u, p), t)
         /\ Reprioritize(s, u, p).prio = [s.prio EXCEPT ![u] = p]
<1> DEFINE n == Reprioritize(s, u, p)
           a == s.prio[t]
           b == s.prio[u]
           q == Unlink(s.runq[a], u)
<1>1. /\ a \in Prios /\ b \in Prios /\ s.runq[a] \in Seq(Threads) \ {<<>>}
      /\ Head(s.runq[a]) = t /\ s \in KernelType /\ Once(s.runq[a])
  BY ReadyQueue DEF KernelInv, KernelType, First, RunqueueOK
<1>2. n.prio = [s.prio EXCEPT ![u] = p]
  BY <1>1 DEF Reprioritize, RunqueuePush, RunqueuePop, KernelType
<1>3. n.runq[a] \in {s.runq[a], q, Append(s.runq[a], u), Append(q, u)}
  BY <1>1 DEF Reprioritize, RunqueuePush, RunqueuePop, KernelType
<1>4. q \in Seq(Threads) /\ q # <<>> /\ Head(q) = t
  <2>1. q \in Seq(Threads) /\ Elems(q) = Elems(s.runq[a]) \ {u}
    BY <1>1, ElemsUnlink
  <2>2. t \in Elems(s.runq[a])
    BY <1>1 DEF KernelInv, RunqueueOK
  <2> HIDE DEF q
  <2>3. q # <<>>
    BY <2>1, <2>2, ElemsEmpty
  <2> QED BY <1>1, <2>1, <2>3, HeadUnlink DEF q
<1> HIDE DEF q
<1>5. Head(Append(s.runq[a], u)) = t /\ Head(Append(q, u)) = t
  BY <1>1, <1>4, HeadAppend
<1>6. n.prio[t] = a
  BY <1>1, <1>2 DEF KernelType
<1> HIDE DEF n
<1>7. Head(n.runq[a]) = t
  BY <1>1, <1>3, <1>4, <1>5
<1> QED BY <1>2, <1>6, <1>7 DEF First, n

(* The thread sched_run() dispatches has its turn and nobody above it.      *)
LEMMA DispatchTurn ==
  ASSUME NEW s, KernelInv(s), s.bitcache # {}, NEW out \in Threads \cup {NoThread}
  PROVE  LET n == Dispatch(s, out)
         IN /\ n.prio = s.prio /\ First(n, n.active)
            /\ \A u \in Threads : IsActive(s, u) => s.prio[n.active] <= s.prio[u]
<1> DEFINE next == NextThread(s)
           n == Dispatch(s, out)
<1>1. /\ next \in Threads /\ First(s, next)
      /\ \A u \in Threads : IsActive(s, u) => s.prio[next] <= s.prio[u]
  BY NextThreadHighest DEF First
<1>2. n.active = next /\ n.prio = s.prio /\ n.runq = s.runq
  BY DEF Dispatch, Unschedule, KernelInv, KernelType
<1> HIDE DEF n, next
<1> QED BY <1>1, <1>2 DEF First, n

-----------------------------------------------------------------------------
(* Steps                                                                    *)

(* A thread that is not about to yield is ready.                            *)
LEMMA ReadyUnlessYield ==
  ASSUME SchedInv, NEW t \in Threads, Executes(k, t), pc[t] # Yield
  PROVE  IsActive(k, t)
BY DEF SchedInv, AtWorkIsReady

(* A thread in its own code has its turn and nobody above it.               *)
LEMMA InAppAttentive ==
  ASSUME SchedInv, PreemptInv, NEW t \in Threads, InApp(t)
  PROVE  Above(t) = {} /\ First(k, t) /\ IsActive(k, t) /\ Executes(k, t) /\ pc[t] # Yield
<1>1. Run # Yield /\ Run.at = "run"
  BY DEF Run, Yield
<1> QED BY <1>1, ReadyUnlessYield DEF PreemptInv, Attentive, InApp, Notices, HasTurn

(* Somebody who was attentive stays so while others are readied or moved    *)
(* without getting above.                                                   *)
LEMMA StaysAttentive ==
  ASSUME PreemptInv, NEW t \in Threads, Executes(k, t), pc'[t] = pc[t],
         k'.prio[t] = k.prio[t], Above(t)' \subseteq Above(t),
         \A u \in Above(t)' : k'.prio[u] = k.prio[u],
         pc[t] # Yield /\ First(k, t) => First(k', t)
  PROVE  Attentive(t)'
<1>1. Attentive(t)
  BY DEF PreemptInv
<1>2. HasTurn(t)'
  BY <1>1 DEF Attentive, HasTurn
<1>3. Above(t) = {} => Above(t)' = {}
  OBVIOUS
<1>4. Notices(t) => Notices(t)'
  BY DEF Notices
<1> QED BY <1>1, <1>2, <1>3, <1>4 DEF Attentive

(* While one thread stays the active one, only that thread can execute.     *)
LEMMA OnlyActive ==
  ASSUME NEW t \in Threads, Executes(k, t), k'.active = k.active,
         ~k'.pendsv /\ ~k'.idle => Attentive(t)'
  PROVE  PreemptInv'
BY DEF PreemptInv, Executes

(* thread_create(): the new thread is the only one that can be above, and   *)
(* then sched_switch() follows unless the flags say otherwise.              *)
LEMMA CreatePreempt ==
  ASSUME SchedInv, PreemptInv, NEW t \in Threads, NEW u \in Threads, NEW p \in Prios,
         NEW flag \in CreateFlags, Create(t, u, p, flag)
  PROVE  PreemptInv'
<1> DEFINE new == [k EXCEPT !.prio[u] = p]
           s == IF flag = "SLEEPING" THEN "SLEEPING" ELSE "PENDING"
           place == IF flag = "NONE" THEN [at |-> "switch", prio |-> p] ELSE Run
<1>1. /\ InApp(t) /\ k.status[u] = "STOPPED" /\ k' = SetStatus(new, u, s)
      /\ pc' = [pc EXCEPT ![u] = Run, ![t] = place]
      /\ quiet' = IF flag = "WOUT_YIELD" THEN quiet \cup {u} ELSE quiet
      /\ flag \in {"NONE", "SLEEPING", "WOUT_YIELD"}
  BY SchedAssumption DEF Create, Free
<1>2. /\ Above(t) = {} /\ First(k, t) /\ IsActive(k, t) /\ Executes(k, t)
      /\ ~IsActive(k, u) /\ t # u /\ k \in KernelType
  BY <1>1, InAppAttentive DEF IsActive, OnRunqueue, SchedInv, KernelInv
<1>3. /\ KernelInv(new) /\ new.status = k.status /\ new.prio = [k.prio EXCEPT ![u] = p]
      /\ new.runq = k.runq /\ new.active = k.active
  BY <1>2, PrioInv DEF SchedInv, KernelType
<1>4. First(new, t) /\ IsActive(new, t) /\ s \in Status
  BY <1>2, <1>3 DEF First, IsActive, KernelType, Status, Blocked, OnRunqueue
<1> HIDE DEF new
<1>5. /\ First(k', t) /\ k'.prio = [k.prio EXCEPT ![u] = p]
      /\ k'.status = [k.status EXCEPT ![u] = s] /\ k'.active = k.active
  <2>1. First(SetStatus(new, u, s), t)
    BY <1>2, <1>3, <1>4, SetStatusTurn
  <2>2. new \in KernelType /\ RunqueueOK(new)
    BY <1>3 DEF KernelInv
  <2> HIDE DEF s
  <2>3. /\ SetStatus(new, u, s).status = [new.status EXCEPT ![u] = s]
        /\ SetStatus(new, u, s).prio = new.prio
        /\ SetStatus(new, u, s).active = new.active
    BY <2>2, <1>4, SetStatusOK
  <2> QED BY <1>1, <1>3, <2>1, <2>3
<1>6. /\ k'.prio[t] = k.prio[t] /\ k'.prio[u] = p
      /\ \A v \in Threads \ {u} : k'.prio[v] = k.prio[v] /\ k'.status[v] = k.status[v]
      /\ k'.status[u] = s
  BY <1>2, <1>5 DEF KernelType
<1>7. /\ Above(t)' \subseteq {u}
      /\ u \in Above(t)' => p < k'.prio[t] /\ flag = "NONE"
  <2>1. \A v \in Threads \ {u} : v \in Above(t)' => v \in Above(t)
    BY <1>1, <1>6 DEF Above, IsActive
  <2>2. flag = "SLEEPING" => ~IsActive(k', u)
    BY <1>6 DEF IsActive, OnRunqueue
  <2> QED BY <1>1, <1>2, <1>6, <2>1, <2>2 DEF Above
<1>8. pc'[t] = place
  BY <1>1 DEF SchedInv, Others
<1>9. Attentive(t)'
  <2>1. CASE u \notin Above(t)'
    BY <2>1, <1>5, <1>7 DEF Attentive, HasTurn
  <2>2. CASE u \in Above(t)'
    BY <2>2, <1>5, <1>7, <1>8 DEF Attentive, HasTurn, Notices
  <2> QED BY <2>1, <2>2
<1> QED BY <1>2, <1>5, <1>9, OnlyActive

(* A call that leaves the running thread about to yield.                    *)
LEMMA YieldPreempt ==
  ASSUME NEW t \in Threads, Executes(k, t), k'.active = k.active, pc'[t] = Yield
  PROVE  PreemptInv'
<1>1. Attentive(t)'
  BY DEF Attentive, Notices, HasTurn
<1> QED BY <1>1, OnlyActive

(* A pended PendSV: no thread executes before sched_run().                  *)
LEMMA PendedPreempt ==
  ASSUME k'.pendsv \/ k'.active = NoThread
  PROVE  PreemptInv'
BY KernelAssumption DEF PreemptInv, Executes

(* sched_task_exit() pends PendSV.                                          *)
LEMMA ExitPreempt ==
  ASSUME SchedInv, NEW t \in Threads, Exit(t)
  PROVE  PreemptInv'
<1> DEFINE m == SetStatus(k, t, "STOPPED")
<1>1. k' = YieldHigher([m EXCEPT !.active = NoThread])
  BY DEF Exit
<1>2. m \in KernelType
  <2>1. "STOPPED" \in Status
    BY DEF Status, Blocked
  <2> QED BY <2>1, SetStatusOK DEF SchedInv, KernelInv
<1> HIDE DEF m
<1>3. k'.pendsv
  BY <1>1, <1>2 DEF YieldHigher, KernelType
<1> QED BY <1>3, PendedPreempt

(* thread_sleep() and thread_zombify(), up to their thread_yield_higher().  *)
LEMMA LeavePreempt ==
  ASSUME SchedInv, NEW t \in Threads, NEW s \in {"SLEEPING", "ZOMBIE"}, Leave(t, s)
  PROVE  PreemptInv'
<1>1. Executes(k, t) /\ k' = SetStatus(k, t, s) /\ pc'[t] = Yield
  BY DEF Leave, Go, InApp, SchedInv, Others
<1>2. s \in Status
  BY DEF Status, Blocked
<1>3. k'.active = k.active
  BY <1>1, <1>2, SetStatusEffect DEF SchedInv
<1> QED BY <1>1, <1>3, YieldPreempt

(* thread_wakeup(): of all threads only the one woken can get above t, and it *)
(* queues behind the others of its priority.                                *)
LEMMA WokenTurn ==
  ASSUME SchedInv, NEW t \in Threads, Executes(k, t), NEW i \in Pids, Sleeping(i),
         NEW n, n = SetStatus(k, table[i], "PENDING")
  PROVE  /\ KernelInv(n) /\ table[i] \in Threads /\ n.active = k.active /\ n.prio = k.prio
         /\ \A v \in Threads \ {table[i]} : n.status[v] = k.status[v]
         /\ pc[t] # Yield /\ First(k, t) => First(n, t)
<1>1. /\ table[i] \in Threads /\ k.status[table[i]] = "SLEEPING"
      /\ ~IsActive(k, table[i])
  BY DEF Sleeping, SchedInv, Others, IsActive, OnRunqueue
<1>2. "PENDING" \in Status \ {"RUNNING"}
  BY DEF Status, OnRunqueue
<1>3. /\ KernelInv(n) /\ n.status = [k.status EXCEPT ![table[i]] = "PENDING"]
      /\ n.active = k.active /\ n.prio = k.prio
  BY <1>1, <1>2, SetStatusInv, SetStatusOK DEF SchedInv, KernelInv
<1>4. ASSUME pc[t] # Yield, First(k, t) PROVE First(n, t)
  BY <1>1, <1>2, <1>4, ReadyUnlessYield, SetStatusTurn DEF SchedInv
<1> QED BY <1>1, <1>3, <1>4 DEF SchedInv, KernelInv, KernelType

(* thread_wakeup() by a thread, up to its irq_restore().                    *)
LEMMA WakeupPreempt ==
  ASSUME SchedInv, PreemptInv, NEW t \in Threads, NEW i \in Pids, Wakeup(t, i)
  PROVE  PreemptInv'
<1>1. /\ InApp(t) /\ Sleeping(i) /\ k' = SetStatus(k, table[i], "PENDING")
      /\ pc' = [pc EXCEPT ![t] = [at |-> "switchTo", thread |-> table[i]]]
      /\ UNCHANGED quiet
  BY DEF Wakeup, Go
<1>2. Above(t) = {} /\ First(k, t) /\ Executes(k, t) /\ pc[t] # Yield
  BY <1>1, InAppAttentive
<1>3. /\ First(k', t) /\ k'.prio = k.prio /\ k'.active = k.active
      /\ \A v \in Threads \ {table[i]} : k'.status[v] = k.status[v]
  BY <1>1, <1>2, WokenTurn
<1>4. Above(t)' \subseteq {table[i]}
  BY <1>1, <1>2, <1>3 DEF Above, IsActive
<1>5. pc'[t] = [at |-> "switchTo", thread |-> table[i]]
  BY <1>1 DEF SchedInv, Others
<1>6. Attentive(t)'
  BY <1>3, <1>4, <1>5 DEF Attentive, Notices, HasTurn
<1> QED BY <1>2, <1>3, <1>6, OnlyActive

(* The same by a handler, with its sched_switch() and cortexm_isr_end().    *)
LEMMA IsrWakeupPreempt ==
  ASSUME SchedInv, PreemptInv, NEW i \in Pids, IsrWakeup(i)
  PROVE  PreemptInv'
<1> DEFINE n == SetStatus(k, table[i], "PENDING")
           w == table[i]
<1>1. /\ Sleeping(i) /\ UNCHANGED <<pc, quiet>>
      /\ \E test \in SwitchTests(n, k.prio[w]) : k' = IsrSwitch(n, test)
  BY DEF IsrWakeup
<1>2. PICK test \in SwitchTests(n, k.prio[w]) : k' = IsrSwitch(n, test)
  BY <1>1
<1> SUFFICES ASSUME NEW t \in Threads, Executes(k', t) PROVE Attentive(t)'
  BY DEF PreemptInv
<1>3. /\ w \in Threads /\ KernelInv(n)
      /\ n.active = k.active /\ n.idle = k.idle /\ n.pendsv = k.pendsv
  BY <1>1, WakeInv
<1> HIDE DEF n, w
<1>4. ~test /\ k' = n
  BY <1>2, <1>3 DEF IsrSwitch, IsrEnd, YieldHigher, Executes, KernelInv, KernelType, SwitchTests
<1>5. Executes(k, t)
  BY <1>3, <1>4 DEF Executes
<1>6. /\ n.prio = k.prio /\ \A v \in Threads \ {w} : n.status[v] = k.status[v]
      /\ pc[t] # Yield /\ First(k, t) => First(n, t)
  BY <1>1, <1>5, WokenTurn DEF n, w
<1>7. ~(n.prio[t] > k.prio[w])
  <2>1. n.active = t /\ n.active # NoThread
    BY <1>3, <1>5, KernelAssumption DEF Executes
  <2> QED BY <1>2, <1>4, <2>1 DEF SwitchTests
<1>8. k.prio[t] \in Nat /\ k.prio[w] \in Nat
  BY <1>3, KernelAssumption DEF SchedInv, KernelInv, KernelType, Prios
<1>9. Above(t)' \subseteq Above(t)
  BY <1>1, <1>4, <1>6, <1>7, <1>8 DEF Above, IsActive
<1> QED BY <1>1, <1>4, <1>5, <1>6, <1>9, StaysAttentive

(* thread_kill_zombie() readies nobody.                                     *)
LEMMA BuryPreempt ==
  ASSUME SchedInv, PreemptInv, NEW i \in Pids, Bury(i)
  PROVE  PreemptInv'
<1> DEFINE z == table[i]
<1>1. /\ z \in Threads /\ k.status[z] = "ZOMBIE" /\ ~IsActive(k, z)
      /\ k' = SetStatus(k, z, "STOPPED") /\ UNCHANGED <<pc, quiet>>
  BY DEF Bury, Zombie, SchedInv, Others, IsActive, OnRunqueue
<1> HIDE DEF z
<1>2. "STOPPED" \in Status /\ "STOPPED" \notin OnRunqueue
  BY DEF Status, Blocked, OnRunqueue
<1>3. /\ k'.status = [k.status EXCEPT ![z] = "STOPPED"] /\ k'.prio = k.prio
      /\ k'.active = k.active /\ k'.idle = k.idle /\ k'.pendsv = k.pendsv
  BY <1>1, <1>2, SetStatusOK, SetStatusEffect DEF SchedInv, KernelInv
<1> SUFFICES ASSUME NEW t \in Threads, Executes(k', t) PROVE Attentive(t)'
  BY DEF PreemptInv
<1>4. Executes(k, t)
  BY <1>3 DEF Executes
<1>5. ASSUME pc[t] # Yield, First(k, t) PROVE First(k', t)
  <2>1. IsActive(k, t) /\ t # z
    BY <1>1, <1>4, <1>5, ReadyUnlessYield
  <2> QED BY <1>1, <1>2, <1>5, <2>1, SetStatusTurn DEF SchedInv
<1>6. Above(t)' \subseteq Above(t)
  BY <1>1, <1>2, <1>3 DEF Above, IsActive, SchedInv, KernelInv, KernelType
<1> QED BY <1>1, <1>3, <1>4, <1>5, <1>6, StaysAttentive

(* sched_change_priority() up to its critical section.                      *)
LEMMA CallChangePriorityPreempt ==
  ASSUME SchedInv, PreemptInv, NEW t \in Threads, NEW u \in Threads, NEW p \in Prios,
         CallChangePriority(t, u, p)
  PROVE  PreemptInv'
<1>1. InApp(t) /\ UNCHANGED <<k, quiet>>
  BY DEF CallChangePriority
<1>2. Above(t) = {} /\ First(k, t) /\ Executes(k, t)
  BY <1>1, InAppAttentive
<1>3. Attentive(t)'
  BY <1>1, <1>2 DEF Attentive, HasTurn, Above, First
<1> QED BY <1>1, <1>2, <1>3, OnlyActive

(* Its critical section: only the thread it moves can get above the caller, *)
(* with the priority it is given; the caller may also have moved itself.    *)
LEMMA DoChangePriorityPreempt ==
  ASSUME SchedInv, PreemptInv, NEW t \in Threads, DoChangePriority(t)
  PROVE  PreemptInv'
<1>1. /\ Executes(k, t) /\ pc[t] \in Places /\ pc[t].at = "change" /\ UNCHANGED quiet
      /\ k' = Reprioritize(k, pc[t].thread, pc[t].prio)
      /\ pc' = [pc EXCEPT ![t] = [pc[t] EXCEPT !.at = "changed"]]
  BY DEF DoChangePriority, Go, SchedInv, Others
<1>2. PICK u \in Threads, p \in Prios : pc[t] = [at |-> "change", thread |-> u, prio |-> p]
  BY <1>1 DEF Places, Run, Yield
<1>3. k' = Reprioritize(k, u, p) /\ pc'[t] = [at |-> "changed", thread |-> u, prio |-> p]
  <2>1. [pc[t] EXCEPT !.at = "changed"] = [at |-> "changed", thread |-> u, prio |-> p]
    BY <1>2
  <2>2. pc[t].thread = u /\ pc[t].prio = p
    BY <1>2
  <2> QED BY <1>1, <2>1, <2>2 DEF SchedInv, Others
<1>4. k'.status = k.status /\ k'.active = k.active
  BY <1>3, ChangePriorityEffect DEF SchedInv
<1>5. CASE u = t
  BY <1>1, <1>3, <1>4, <1>5, OnlyActive DEF Attentive, Notices, HasTurn
<1>6. CASE u # t
  <2>1. pc[t] # Yield /\ pc[t].at # "changed"
    BY <1>2 DEF Yield
  <2>2. Above(t) = {} /\ First(k, t) /\ IsActive(k, t)
    BY <1>1, <1>2, <2>1, ReadyUnlessYield DEF PreemptInv, Attentive, Notices, HasTurn
  <2>3. First(k', t) /\ k'.prio = [k.prio EXCEPT ![u] = p]
    BY <1>3, <1>6, <2>2, ReprioritizeTurn DEF SchedInv
  <2>4. k'.prio[u] = p /\ \A v \in Threads \ {u} : k'.prio[v] = k.prio[v]
    BY <2>3 DEF SchedInv, KernelInv, KernelType
  <2>5. Above(t)' \subseteq {u}
    BY <1>1, <1>4, <1>6, <2>2, <2>4 DEF Above, IsActive
  <2>6. Attentive(t)'
    BY <1>3, <2>3, <2>4, <2>5 DEF Attentive, Notices, HasTurn
  <2> QED BY <1>1, <1>4, <2>6, OnlyActive
<1> QED BY <1>5, <1>6

(* Its test for a yield, which finds the caller or a thread above it.       *)
LEMMA EndChangePriorityPreempt ==
  ASSUME SchedInv, PreemptInv, NEW t \in Threads, EndChangePriority(t)
  PROVE  PreemptInv'
<1>1. /\ Executes(k, t) /\ pc[t].at = "changed" /\ pc[t] # Yield /\ UNCHANGED quiet
      /\ k' = IF ChangeMatters(k, pc[t].thread, pc[t].prio) THEN YieldHigher(k) ELSE k
  BY DEF EndChangePriority, Yield
<1>2. CASE ChangeMatters(k, pc[t].thread, pc[t].prio)
  BY <1>1, <1>2, YieldEffect, PendedPreempt DEF SchedInv
<1>3. CASE ~ChangeMatters(k, pc[t].thread, pc[t].prio)
  <2>1. /\ k.active = t /\ pc[t].thread # t
        /\ ~(k.prio[t] > pc[t].prio /\ IsActive(k, pc[t].thread))
    BY <1>1, <1>3, KernelAssumption DEF ChangeMatters, Executes
  <2>2. /\ First(k, t)
        /\ \A u \in Above(t) : u = pc[t].thread /\ k.prio[u] = pc[t].prio
    BY <1>1, <2>1 DEF PreemptInv, Attentive, Notices, HasTurn
  <2>3. Above(t) = {}
    <3> SUFFICES ASSUME NEW u \in Above(t) PROVE FALSE
      OBVIOUS
    <3>1. IsActive(k, u) /\ k.prio[u] < k.prio[t] /\ u \in Threads
      BY DEF Above
    <3>2. k.prio[u] \in Nat /\ k.prio[t] \in Nat
      BY <3>1, KernelAssumption DEF SchedInv, KernelInv, KernelType, Prios
    <3> QED BY <2>1, <2>2, <3>1, <3>2
  <2>4. Attentive(t)'
    BY <1>1, <1>3, <2>2, <2>3 DEF Attentive, HasTurn, Above, First
  <2> QED BY <1>1, <1>3, <2>4, OnlyActive
<1> QED BY <1>2, <1>3

(* sched_switch() with the priority of the one thread that can be above.    *)
LEMMA DoSwitchPreempt ==
  ASSUME SchedInv, PreemptInv, NEW t \in Threads, DoSwitch(t)
  PROVE  PreemptInv'
<1> DEFINE other == IF pc[t].at = "switch" THEN pc[t].prio ELSE k.prio[pc[t].thread]
<1>1. /\ Executes(k, t) /\ pc[t].at \in {"switch", "switchTo"} /\ UNCHANGED quiet
      /\ pc[t] \in Places
      /\ \E test \in SwitchTests(k, other) : k' = ThreadSwitch(k, test)
  BY DEF DoSwitch, SchedInv, Others
<1>2. PICK test \in SwitchTests(k, other) : k' = ThreadSwitch(k, test)
  BY <1>1
<1>3. CASE test
  <2>1. k' = YieldHigher(k)
    BY <1>2, <1>3 DEF ThreadSwitch
  <2> QED BY <2>1, YieldEffect, PendedPreempt DEF SchedInv
<1>4. CASE ~test
  <2>1. k' = k /\ ~(k.prio[t] > other)
    BY <1>1, <1>2, <1>4, KernelAssumption DEF SwitchTests, Executes, ThreadSwitch
  <2>2. pc[t] # Yield /\ pc[t].at # "changed"
    BY <1>1 DEF Yield
  <2>3. /\ First(k, t)
        /\ \/ Above(t) = {}
           \/ pc[t].at = "switch" /\ pc[t].prio < k.prio[t]
           \/ pc[t].at = "switchTo" /\ Above(t) \subseteq {pc[t].thread}
    BY <1>1, <2>2 DEF PreemptInv, Attentive, Notices, HasTurn
  <2>4. k.prio \in [Threads -> Nat]
    BY KernelAssumption DEF SchedInv, KernelInv, KernelType, Prios
  <2>5. Above(t) = {}
    <3>1. CASE pc[t].at = "switch" /\ pc[t].prio < k.prio[t]
      <4>1. pc[t].prio \in Nat
        BY <1>1, <3>1, KernelAssumption DEF Places, Run, Yield, Prios
      <4> QED BY <2>1, <2>4, <3>1, <4>1
    <3>2. CASE pc[t].at = "switchTo" /\ Above(t) \subseteq {pc[t].thread}
      BY <2>1, <2>4, <3>2 DEF Above
    <3> QED BY <2>3, <3>1, <3>2
  <2>6. Attentive(t)'
    BY <1>1, <2>1, <2>3, <2>5 DEF Attentive, HasTurn, Above, First
  <2> QED BY <1>1, <2>1, <2>6, OnlyActive
<1> QED BY <1>2, <1>3, <1>4 DEF SwitchTests

(* sched_change_priority() by a handler: its test finds the thread it moved *)
(* above the interrupted one, or the interrupted one itself.                *)
LEMMA IsrChangePriorityPreempt ==
  ASSUME SchedInv, PreemptInv, NEW u \in Threads, NEW p \in Prios,
         IsrChangePriority(u, p)
  PROVE  PreemptInv'
<1> DEFINE n == Reprioritize(k, u, p)
<1>1. /\ UNCHANGED <<pc, quiet>>
      /\ k' = IF ChangeMatters(n, u, p) THEN YieldHigher(n) ELSE n
  BY DEF IsrChangePriority, ChangePriority
<1>2. /\ KernelInv(n) /\ n.status = k.status /\ n.active = k.active
      /\ n.idle = k.idle /\ n.pendsv = k.pendsv
  BY ReprioritizeInv, ChangePriorityEffect DEF SchedInv
<1>3. CASE ChangeMatters(n, u, p)
  <2> HIDE DEF n
  <2> QED BY <1>1, <1>2, <1>3, YieldEffect, PendedPreempt
<1>4. CASE ~ChangeMatters(n, u, p)
  <2> SUFFICES ASSUME NEW t \in Threads, Executes(k', t) PROVE Attentive(t)'
    BY DEF PreemptInv
  <2>1. k' = n /\ Executes(k, t) /\ n.active = t
    BY <1>1, <1>2, <1>4 DEF Executes
  <2>2. u # t /\ ~(n.prio[t] > p /\ IsActive(n, u))
    BY <1>4, <2>1, KernelAssumption DEF ChangeMatters
  <2>3. n.prio = [k.prio EXCEPT ![u] = p]
    BY DEF Reprioritize, RunqueuePush, RunqueuePop, SchedInv, KernelInv, KernelType
  <2>4. ASSUME pc[t] # Yield, First(k, t) PROVE First(n, t)
    BY <2>1, <2>2, <2>4, ReadyUnlessYield, ReprioritizeTurn DEF SchedInv
  <2> HIDE DEF n
  <2>5. /\ n.prio[u] = p /\ p \in Nat /\ n.prio[t] = k.prio[t] /\ k.prio[t] \in Nat
        /\ \A v \in Threads \ {u} : n.prio[v] = k.prio[v]
    BY <2>2, <2>3, KernelAssumption DEF SchedInv, KernelInv, KernelType, Prios
  <2>6. u \notin Above(t)'
    BY <2>1, <2>2, <2>5 DEF Above
  <2>7. \A v \in Threads \ {u} : v \in Above(t)' => v \in Above(t)
    BY <1>1, <1>2, <2>1, <2>5 DEF Above, IsActive
  <2>8. Above(t)' \subseteq Threads
    BY DEF Above
  <2> QED BY <1>1, <2>1, <2>4, <2>5, <2>6, <2>7, <2>8, StaysAttentive
<1> QED BY <1>3, <1>4

(* The thread sched_run() has just dispatched.                              *)
LEMMA DispatchPreempt ==
  ASSUME NEW s, KernelInv(s), s.bitcache # {}, NEW out \in Threads \cup {NoThread},
         k' = Dispatch(s, out)
  PROVE  PreemptInv'
<1> DEFINE n == Dispatch(s, out)
<1>1. /\ n.prio = s.prio /\ First(n, n.active) /\ n.active \in Threads
      /\ \A u \in Threads : IsActive(s, u) => s.prio[n.active] <= s.prio[u]
      /\ \A u \in Threads : IsActive(n, u) <=> IsActive(s, u)
  BY DispatchTurn, DispatchEffect DEF IsActive
<1> HIDE DEF n
<1>2. s.prio \in [Threads -> Nat]
  BY KernelAssumption DEF KernelInv, KernelType, Prios
<1> SUFFICES ASSUME NEW t \in Threads, Executes(k', t) PROVE Attentive(t)'
  BY DEF PreemptInv
<1>3. k' = n /\ t = n.active
  BY DEF Executes, n
<1>4. Above(t)' = {}
  BY <1>1, <1>2, <1>3 DEF Above
<1> QED BY <1>1, <1>3, <1>4 DEF Attentive, HasTurn

(* isr_pendsv(): sched_run() dispatches a thread or enters its idle loop.   *)
LEMMA PendSVPreempt ==
  ASSUME SchedInv, PendSV
  PROVE  PreemptInv'
<1> DEFINE e == [k EXCEPT !.pendsv = FALSE]
<1>1. /\ KernelInv(e) /\ e.bitcache = k.bitcache /\ e.active = k.active
      /\ e.active \in Threads \cup {NoThread}
  BY FrameInv DEF SchedInv, KernelInv, KernelType
<1>2. CASE k.bitcache # {}
  <2>1. k' = Dispatch(e, e.active)
    BY <1>1, <1>2 DEF PendSV, SchedRun
  <2> HIDE DEF e
  <2> QED BY <1>1, <1>2, <2>1, DispatchPreempt
<1>3. CASE k.bitcache = {}
  <2>1. k'.idle
    BY <1>3 DEF PendSV, SchedRun, Unschedule, SchedInv, KernelInv, KernelType
  <2> QED BY <2>1 DEF PreemptInv, Executes
<1> QED BY <1>2, <1>3

(* The end of the idle loop.                                                *)
LEMMA EndIdlePreempt ==
  ASSUME SchedInv, EndIdle
  PROVE  PreemptInv'
<1>1. k' = Dispatch(k, NoThread) /\ k.bitcache # {} /\ KernelInv(k)
  BY DEF EndIdle, IdleReturn, SchedInv
<1>2. NoThread \in Threads \cup {NoThread}
  OBVIOUS
<1> QED BY <1>1, <1>2, DispatchPreempt

-----------------------------------------------------------------------------
(* Every step keeps the executing thread attentive.                         *)
LEMMA NextPreempt == SchedInv /\ PreemptInv /\ [Next]_vars => PreemptInv'
<1> SUFFICES ASSUME SchedInv, PreemptInv, [Next]_vars PROVE PreemptInv'
  OBVIOUS
<1>1. ASSUME NEW t \in Threads, ThreadCall(t) PROVE PreemptInv'
  <2>1. CASE \E u \in Threads, p \in Prios, f \in CreateFlags : Create(t, u, p, f)
    BY <2>1, CreatePreempt
  <2>2. CASE Exit(t)
    BY <2>2, ExitPreempt
  <2>3. CASE Sleep(t) \/ Zombify(t)
    BY <2>3, LeavePreempt DEF Sleep, Zombify
  <2>4. CASE ThreadYield(t)
    <3>1. /\ Executes(k, t) /\ k' = YieldRotate(k) /\ pc'[t] = Yield
      BY <2>4 DEF ThreadYield, Go, InApp, SchedInv, Others
    <3> QED BY <3>1, YieldEffect, YieldPreempt DEF SchedInv
  <2>5. CASE \E i \in Pids : Wakeup(t, i)
    BY <2>5, WakeupPreempt
  <2>6. CASE \E i \in Pids : KillZombie(t, i)
    BY <2>6, BuryPreempt DEF KillZombie
  <2>7. CASE \E u \in Threads, p \in Prios : CallChangePriority(t, u, p)
    BY <2>7, CallChangePriorityPreempt
  <2> QED BY <1>1, <2>1, <2>2, <2>3, <2>4, <2>5, <2>6, <2>7 DEF ThreadCall
<1>2. ASSUME NEW t \in Threads, Finish(t) PROVE PreemptInv'
  <2>1. CASE DoYield(t)
    BY <2>1, YieldEffect, PendedPreempt DEF DoYield, SchedInv
  <2> QED BY <1>2, <2>1, DoChangePriorityPreempt, EndChangePriorityPreempt,
             DoSwitchPreempt DEF Finish
<1>3. CASE Isr
  BY <1>3, IsrWakeupPreempt, BuryPreempt, IsrChangePriorityPreempt DEF Isr, IsrKillZombie
<1>4. CASE PendSV
  BY <1>4, PendSVPreempt
<1>5. CASE EndIdle
  BY <1>5, EndIdlePreempt
<1>6. CASE UNCHANGED vars
  BY <1>6 DEF vars, PreemptInv, Attentive, Above, Notices, HasTurn, Executes, First
<1> QED BY <1>1, <1>2, <1>3, <1>4, <1>5, <1>6 DEF Next

(* Whatever calls and handlers are interleaved, a thread that is back in its *)
(* own code with no switch pending is the one that should run: the tests of *)
(* thread_yield_higher(), sched_switch() and sched_change_priority() miss no *)
(* thread that a call or a handler put above it (core/sched.c, core/thread.c). *)
THEOREM PreemptionNeverMissed == Spec => []NoMissedPreemption
<1>1. Init => PreemptInv
  BY DEF Init, PreemptInv, Executes
<1>2. SchedInv /\ PreemptInv => NoMissedPreemption
  <2> SUFFICES ASSUME SchedInv, PreemptInv PROVE NoMissedPreemption
    OBVIOUS
  <2> QED BY InAppAttentive DEF NoMissedPreemption, Above, First
<1>3. Spec => []PreemptInv
  BY <1>1, NextPreempt, Invariant, PTL DEF Spec
<1> QED BY <1>2, <1>3, Invariant, PTL

-----------------------------------------------------------------------------
(* Threads of one priority run in turn                                      *)

(* Who is in front of another in a list that holds both once.               *)
LEMMA BeforeOnce ==
  ASSUME NEW S, NEW q \in Seq(S), Once(q), NEW t, NEW u, Before(q, t, u)
  PROVE  ~Before(q, u, t) /\ t \in Elems(q)
<1>1. DOMAIN q = 1 .. Len(q) /\ Len(q) \in Nat
  BY LenProperties
<1> QED BY <1>1 DEF Before, Once, Elems

(* clist_rpush(): only the new thread is behind others.                     *)
LEMMA BeforeAppend ==
  ASSUME NEW S, NEW q \in Seq(S), NEW v \in S, NEW t, NEW u, Before(Append(q, v), u, t)
  PROVE  Before(q, u, t) \/ t = v
<1> DEFINE r == Append(q, v)
           n == Len(q)
<1>1. /\ n \in Nat /\ DOMAIN q = 1 .. n /\ DOMAIN r = 1 .. n + 1
      /\ \A i \in 1 .. n : r[i] = q[i]
      /\ r[n + 1] = v
  BY AppendProperties, LenProperties
<1>2. PICK i \in DOMAIN r, j \in DOMAIN r : i < j /\ r[i] = u /\ r[j] = t
  BY DEF Before
<1> HIDE DEF r, n
<1>3. i \in 1 .. n /\ (j \in 1 .. n \/ j = n + 1)
  BY <1>1, <1>2
<1> QED BY <1>1, <1>2, <1>3 DEF Before

(* clist_remove(): the others keep their order.                             *)
LEMMA BeforeUnlink ==
  ASSUME NEW S, NEW q \in Seq(S), NEW v \in Elems(q), NEW t, NEW u, Before(Unlink(q, v), u, t)
  PROVE  Before(q, u, t)
<1> DEFINE c == CHOOSE j \in DOMAIN q : q[j] = v
           r == Without(q, c)
           n == Len(q)
<1>1. Unlink(q, v) = r
  BY DEF Unlink
<1>2. c \in DOMAIN q
  BY DEF Elems
<1>3. n \in Nat /\ DOMAIN q = 1 .. n /\ c \in 1 .. n
  BY <1>2, LenProperties
<1> HIDE DEF c
<1>4. DOMAIN r = 1 .. n - 1 /\ \A i \in 1 .. n - 1 : r[i] = IF i < c THEN q[i] ELSE q[i + 1]
  BY <1>3 DEF Without
<1> HIDE DEF r, n
<1>5. PICK i \in 1 .. n - 1, j \in 1 .. n - 1 : i < j /\ r[i] = u /\ r[j] = t
  BY <1>1, <1>4 DEF Before
<1> DEFINE from(l) == IF l < c THEN l ELSE l + 1
<1>6. from(i) \in 1 .. n /\ from(j) \in 1 .. n /\ from(i) < from(j)
  BY <1>3, <1>5
<1>7. r[i] = q[from(i)] /\ r[j] = q[from(j)]
  BY <1>4
<1> HIDE DEF from
<1> QED BY <1>3, <1>5, <1>6, <1>7 DEF Before

(* clist_lpoprpush(): only the head gives its turn away.                    *)
LEMMA BeforeRotate ==
  ASSUME NEW S, NEW q \in Seq(S), q # <<>>, NEW t, NEW u, Before(Rotate(q), u, t)
  PROVE  Before(q, u, t) \/ t = Head(q)
<1> DEFINE n == Len(q)
           r == Tail(q)
<1>1. /\ n \in Nat \ {0} /\ DOMAIN q = 1 .. n /\ r \in Seq(S) /\ Head(q) \in S
      /\ DOMAIN r = 1 .. n - 1 /\ \A i \in 1 .. n - 1 : r[i] = q[i + 1]
  BY HeadTailProperties, LenProperties, EmptySeq
<1>2. Before(Append(r, Head(q)), u, t)
  BY DEF Rotate
<1> HIDE DEF r, n
<1>3. CASE Before(r, u, t)
  <2>1. PICK i \in 1 .. n - 1, j \in 1 .. n - 1 : i < j /\ r[i] = u /\ r[j] = t
    BY <1>1, <1>3 DEF Before
  <2>2. i + 1 \in 1 .. n /\ j + 1 \in 1 .. n /\ i + 1 < j + 1
    BY <1>1, <2>1
  <2> QED BY <1>1, <2>1, <2>2 DEF Before
<1> QED BY <1>1, <1>2, <1>3, BeforeAppend

(* What the functions of core/sched.c do to a runqueue, but for a yield: a  *)
(* thread that was in no queue joins at the end, or one leaves.             *)
Turns(s, n) ==
  \A p \in Prios :
    LET q == s.runq[p]
        r == n.runq[p]
    IN \/ r = q
       \/ \E v \in Threads \ Elems(q) : r = Append(q, v)
       \/ \E v \in Elems(q) : r = Unlink(q, v)

LEMMA StatusTurns ==
  ASSUME NEW s, KernelInv(s), NEW t \in Threads, NEW v \in Status
  PROVE  Turns(s, SetStatus(s, t, v))
<1> DEFINE n == SetStatus(s, t, v)
           m == s.prio[t]
<1>1. /\ m \in Prios /\ s \in KernelType
      /\ \A p \in Prios : Elems(s.runq[p]) = {u \in Threads : IsActive(s, u) /\ s.prio[u] = p}
  BY DEF KernelInv, KernelType, RunqueueOK
<1>2. \A p \in Prios :
        n.runq[p] = IF p = m /\ v \in OnRunqueue /\ ~IsActive(s, t) THEN Append(s.runq[p], t)
                    ELSE IF p = m /\ v \notin OnRunqueue /\ IsActive(s, t)
                    THEN Unlink(s.runq[p], t) ELSE s.runq[p]
  <2>1. CASE v \in OnRunqueue /\ ~IsActive(s, t)
    <3>1. n = [RunqueuePush(s, t, m) EXCEPT !.status[t] = v]
      BY <2>1 DEF SetStatus
    <3>2. n.runq = [s.runq EXCEPT ![m] = Append(s.runq[m], t)]
      BY <1>1, <3>1 DEF RunqueuePush, KernelType
    <3> QED BY <1>1, <2>1, <3>2 DEF KernelType
  <2>2. CASE v \notin OnRunqueue /\ IsActive(s, t)
    <3>1. n = [RunqueuePop(s, t) EXCEPT !.status[t] = v]
      BY <2>2 DEF SetStatus
    <3>2. n.runq = [s.runq EXCEPT ![m] = Unlink(s.runq[m], t)]
      BY <1>1, <3>1 DEF RunqueuePop, KernelType
    <3> QED BY <1>1, <2>2, <3>2 DEF KernelType
  <2>3. CASE ~(v \in OnRunqueue /\ ~IsActive(s, t)) /\ ~(v \notin OnRunqueue /\ IsActive(s, t))
    <3>1. n = [s EXCEPT !.status[t] = v]
      BY <2>3 DEF SetStatus
    <3>2. n.runq = s.runq
      BY <1>1, <3>1 DEF KernelType
    <3> QED BY <2>3, <3>2
  <2> QED BY <2>1, <2>2, <2>3
<1>3. t \in Elems(s.runq[m]) <=> IsActive(s, t)
  BY <1>1
<1> HIDE DEF n
<1>4. \A p \in Prios :
        \/ n.runq[p] = s.runq[p]
        \/ p = m /\ ~IsActive(s, t) /\ n.runq[p] = Append(s.runq[p], t)
        \/ p = m /\ IsActive(s, t) /\ n.runq[p] = Unlink(s.runq[p], t)
  BY <1>2
<1> QED BY <1>3, <1>4 DEF Turns, n

LEMMA MoveTurns ==
  ASSUME NEW s, KernelInv(s), NEW t \in Threads, NEW p \in Prios
  PROVE  /\ s.prio[t] # p => Turns(s, Reprioritize(s, t, p))
         /\ \A o \in Prios : s.prio[t] = p =>
              \/ Reprioritize(s, t, p).runq[o] = s.runq[o]
              \/ /\ o = p /\ t \in Elems(s.runq[p])
                 /\ Reprioritize(s, t, p).runq[o] = Append(Unlink(s.runq[p], t), t)
<1> DEFINE n == Reprioritize(s, t, p)
           m == s.prio[t]
<1>1. /\ m \in Prios /\ s \in KernelType
      /\ \A o \in Prios : Elems(s.runq[o]) = {u \in Threads : IsActive(s, u) /\ s.prio[u] = o}
  BY DEF KernelInv, KernelType, RunqueueOK
<1>2. CASE ~IsActive(s, t)
  <2>1. n.runq = s.runq
    BY <1>1, <1>2 DEF Reprioritize, KernelType
  <2> QED BY <2>1 DEF Turns
<1>3. CASE IsActive(s, t)
  <2> DEFINE a == RunqueuePop(s, t)
  <2>1. \A o \in Prios : a.runq[o] = IF o = m THEN Unlink(s.runq[o], t) ELSE s.runq[o]
    BY <1>1 DEF RunqueuePop, KernelType
  <2>2. a.runq \in [Prios -> Seq(Threads)]
    <3>1. Unlink(s.runq[m], t) \in Seq(Threads)
      BY <1>1, ElemsUnlink DEF KernelInv, RunqueueOK, KernelType
    <3> QED BY <1>1, <3>1 DEF RunqueuePop, KernelType
  <2>3. n.runq = RunqueuePush(a, t, p).runq
    <3>1. n = [RunqueuePush(a, t, p) EXCEPT !.prio[t] = p]
      BY <1>3 DEF Reprioritize
    <3>2. RunqueuePush(a, t, p) = [s EXCEPT !.runq = RunqueuePush(a, t, p).runq,
                                            !.bitcache = RunqueuePush(a, t, p).bitcache]
      BY <1>1 DEF RunqueuePush, RunqueuePop, KernelType
    <3> QED BY <1>1, <3>1, <3>2 DEF KernelType
  <2>4. \A o \in Prios : n.runq[o] = IF o = p THEN Append(a.runq[o], t) ELSE a.runq[o]
    <3>1. RunqueuePush(a, t, p).runq = [a.runq EXCEPT ![p] = Append(a.runq[p], t)]
      BY <1>1 DEF RunqueuePush, RunqueuePop, KernelType
    <3> QED BY <2>2, <2>3, <3>1
  <2> HIDE DEF a, n
  <2>5. t \in Elems(s.runq[m]) /\ (m # p => t \notin Elems(s.runq[p]))
    BY <1>1, <1>3
  <2> QED BY <1>1, <2>1, <2>4, <2>5 DEF Turns, n
<1> QED BY <1>2, <1>3

(* Requests for a switch, and the switch itself, move nobody.               *)
LEMMA RunqKept ==
  ASSUME NEW s, KernelInv(s)
  PROVE  /\ YieldHigher(s).runq = s.runq
         /\ \A test \in BOOLEAN : /\ ThreadSwitch(s, test).runq = s.runq
                                  /\ IsrSwitch(s, test).runq = s.runq
BY DEF YieldHigher, ThreadSwitch, IsrSwitch, IsrEnd, KernelInv, KernelType

LEMMA RunKeepsRunq ==
  ASSUME KernelInv(k), PendSV \/ EndIdle
  PROVE  k'.runq = k.runq
<1>1. ASSUME NEW s \in KernelType, NEW out \in Threads \cup {NoThread}
      PROVE  Dispatch(s, out).runq = s.runq
  BY DEF Dispatch, Unschedule, KernelType
<1>2. CASE PendSV
  <2> DEFINE e == [k EXCEPT !.pendsv = FALSE]
  <2>1. e \in KernelType /\ e.runq = k.runq /\ k.active \in Threads \cup {NoThread}
    BY DEF KernelInv, KernelType
  <2>2. CASE k.bitcache = {}
    BY <1>2, <2>2 DEF PendSV, SchedRun, Unschedule, KernelInv, KernelType
  <2>3. CASE k.bitcache # {}
    <3>1. k' = Dispatch(e, k.active)
      BY <1>2, <2>3 DEF PendSV, SchedRun
    <3> HIDE DEF e
    <3> QED BY <1>1, <2>1, <3>1
  <2> QED BY <2>2, <2>3
<1>3. CASE EndIdle
  BY <1>1, <1>3 DEF EndIdle, IdleReturn, KernelInv
<1> QED BY <1>2, <1>3

(* One step of a runqueue.                                                  *)
QueueStep(p) ==
  LET q == k.runq[p]
      r == k'.runq[p]
  IN \/ r = q
     \/ \E v \in Threads \ Elems(q) : r = Append(q, v)
     \/ \E v \in Elems(q) : r = Unlink(q, v)
     \/ q # <<>> /\ Head(q) = k.active /\ r = Rotate(q)
     \/ \E v \in Elems(q) : PushedAgain(v, p) /\ r = Append(Unlink(q, v), v)

(* thread_create() and sched_task_exit()                                    *)
LEMMA LifeTurns ==
  ASSUME SchedInv, NEW t \in Threads,
         \/ \E u \in Threads, p \in Prios, f \in CreateFlags : Create(t, u, p, f)
         \/ Exit(t)
  PROVE  Turns(k, k')
<1>1. KernelInv(k) /\ {"SLEEPING", "PENDING", "STOPPED"} \subseteq Status \ {"RUNNING"}
  BY DEF SchedInv, Status, Blocked, OnRunqueue
<1>2. ASSUME NEW u \in Threads, NEW p \in Prios, NEW f \in CreateFlags, Create(t, u, p, f)
      PROVE  Turns(k, k')
  <2> DEFINE new == [k EXCEPT !.prio[u] = p]
  <2>1. k.status[u] = "STOPPED" /\ \E s \in {"SLEEPING", "PENDING"} : k' = SetStatus(new, u, s)
    BY <1>2 DEF Create, Free
  <2>2. /\ new \in KernelType /\ new.status = k.status /\ new.runq = k.runq
        /\ new.bitcache = k.bitcache /\ new.active = k.active /\ new.idle = k.idle
        /\ \A v \in Threads : v # u => new.prio[v] = k.prio[v]
    BY <1>1 DEF KernelInv, KernelType
  <2>3. ~IsActive(k, u)
    BY <2>1 DEF IsActive, OnRunqueue
  <2> HIDE DEF new
  <2>4. KernelInv(new)
    BY <1>1, <2>2, <2>3 DEF KernelInv, RunqueueOK, OneRunning, IsActive
  <2>5. Turns(new, k')
    BY <1>1, <2>1, <2>4, StatusTurns
  <2> QED BY <2>2, <2>5 DEF Turns
<1>3. CASE Exit(t)
  <2> DEFINE m == SetStatus(k, t, "STOPPED")
  <2>1. k' = YieldHigher([m EXCEPT !.active = NoThread])
    BY <1>3 DEF Exit
  <2>2. KernelInv(m) /\ Turns(k, m)
    BY <1>1, StatusTurns, SetStatusInv
  <2> HIDE DEF m
  <2>3. k'.runq = m.runq
    BY <2>1, <2>2 DEF YieldHigher, KernelInv, KernelType
  <2> QED BY <2>2, <2>3 DEF Turns
<1> QED BY <1>2, <1>3

(* thread_sleep(), thread_zombify(), thread_wakeup(), thread_kill_zombie()  *)
LEMMA SleepTurns ==
  ASSUME SchedInv,
         \/ \E t \in Threads : Sleep(t) \/ Zombify(t) \/ \E i \in Pids : Wakeup(t, i)
         \/ \E i \in Pids : Bury(i) \/ IsrWakeup(i)
  PROVE  Turns(k, k')
<1>1. KernelInv(k) /\ {"SLEEPING", "ZOMBIE", "PENDING", "STOPPED"} \subseteq Status \ {"RUNNING"}
  BY DEF SchedInv, Status, Blocked, OnRunqueue
<1>2. \A i \in Pids : table[i] # NoThread => table[i] \in Threads
  BY DEF SchedInv, Others
<1>3. \E u \in Threads, s \in Status \ {"RUNNING"} :
        \/ k' = SetStatus(k, u, s)
        \/ \E test \in BOOLEAN : k' = IsrSwitch(SetStatus(k, u, s), test)
  BY <1>1, <1>2 DEF Sleep, Zombify, Leave, Wakeup, Bury, Zombie, Sleeping, IsrWakeup, SwitchTests
<1>4. PICK u \in Threads, s \in Status \ {"RUNNING"} :
        \/ k' = SetStatus(k, u, s)
        \/ \E test \in BOOLEAN : k' = IsrSwitch(SetStatus(k, u, s), test)
  BY <1>3
<1> DEFINE n == SetStatus(k, u, s)
<1>5. KernelInv(n) /\ Turns(k, n)
  BY <1>1, StatusTurns, SetStatusInv
<1>6. k' = n \/ \E test \in BOOLEAN : k' = IsrSwitch(n, test)
  BY <1>4
<1> HIDE DEF n
<1>7. k'.runq = n.runq
  BY <1>5, <1>6, RunqKept
<1> QED BY <1>5, <1>7 DEF Turns

(* sched_change_priority() by a handler, and by a thread after its test.    *)
LEMMA ChangeTurns ==
  ASSUME SchedInv,
         \/ \E u \in Threads, o \in Prios : IsrChangePriority(u, o)
         \/ \E t \in Threads : DoChangePriority(t),
         NEW p \in Prios
  PROVE  QueueStep(p)
<1>1. KernelInv(k)
  BY DEF SchedInv
<1>2. ASSUME NEW u \in Threads, NEW o \in Prios, IsrChangePriority(u, o)
      PROVE  QueueStep(p)
  <2> DEFINE m == Reprioritize(k, u, o)
  <2>1. k.prio[u] # o /\ (k' = m \/ k' = YieldHigher(m))
    BY <1>2 DEF IsrChangePriority, ChangePriority
  <2>2. KernelInv(m) /\ Turns(k, m)
    BY <1>1, <2>1, ReprioritizeInv, MoveTurns
  <2> HIDE DEF m
  <2>3. k'.runq = m.runq
    BY <2>1, <2>2, RunqKept
  <2> QED BY <2>2, <2>3 DEF Turns, QueueStep
<1>3. ASSUME NEW t \in Threads, DoChangePriority(t)
      PROVE  QueueStep(p)
  <2> DEFINE u == pc[t].thread
             o == pc[t].prio
  <2>1. /\ Executes(k, t) /\ pc[t] = [at |-> "change", thread |-> u, prio |-> o]
        /\ u \in Threads /\ o \in Prios /\ k' = Reprioritize(k, u, o)
    <3>1. pc[t] \in Places /\ pc[t].at = "change"
      BY <1>3 DEF DoChangePriority, SchedInv, Others
    <3> QED BY <1>3, <3>1 DEF DoChangePriority, Places, Run, Yield
  <2> HIDE DEF u, o
  <2>2. CASE k.prio[u] # o
    BY <1>1, <2>1, <2>2, MoveTurns DEF Turns, QueueStep
  <2>3. CASE k.prio[u] = o
    <3>1. PushedAgain(u, o)
      BY <2>1 DEF PushedAgain
    <3> QED BY <1>1, <2>1, <2>3, <3>1, MoveTurns DEF QueueStep
  <2> QED BY <2>2, <2>3
<1> QED BY <1>2, <1>3

(* thread_yield() turns the queue whose head is the caller.                 *)
LEMMA YieldTurns ==
  ASSUME SchedInv, PreemptInv, NEW t \in Threads, ThreadYield(t), NEW p \in Prios
  PROVE  QueueStep(p)
<1>1. InApp(t) /\ k' = YieldRotate(k) /\ k.active = t /\ k \in KernelType
  BY DEF ThreadYield, InApp, Executes, SchedInv, KernelInv
<1>2. First(k, t) /\ IsActive(k, t)
  BY <1>1, InAppAttentive
<1>3. k.prio[t] \in Prios /\ t \in Elems(k.runq[k.prio[t]])
  BY <1>1, <1>2 DEF SchedInv, KernelInv, RunqueueOK, KernelType
<1>4. k.runq[k.prio[t]] # <<>>
  BY <1>3 DEF Elems
<1>5. k'.runq = [k.runq EXCEPT ![k.prio[t]] = Rotate(k.runq[k.prio[t]])]
  BY <1>1, <1>2 DEF YieldRotate, RunqAdvance, KernelType
<1>6. k'.runq[p] = IF p = k.prio[t] THEN Rotate(k.runq[p]) ELSE k.runq[p]
  BY <1>1, <1>3, <1>5 DEF KernelType
<1> QED BY <1>1, <1>2, <1>4, <1>6 DEF First, QueueStep

(* Every step.                                                              *)
LEMMA NextTurns ==
  ASSUME SchedInv, PreemptInv, [Next]_vars, NEW p \in Prios
  PROVE  QueueStep(p)
<1>1. ASSUME Turns(k, k') PROVE QueueStep(p)
  BY <1>1 DEF Turns, QueueStep
<1>2. ASSUME k'.runq = k.runq PROVE QueueStep(p)
  BY <1>2 DEF QueueStep
<1>3. KernelInv(k)
  BY DEF SchedInv
<1>4. ASSUME NEW t \in Threads, ThreadCall(t) PROVE QueueStep(p)
  <2>1. CASE \E u \in Threads, o \in Prios : CallChangePriority(t, u, o)
    BY <1>2, <2>1 DEF CallChangePriority
  <2> QED BY <1>1, <1>4, <2>1, LifeTurns, SleepTurns, YieldTurns DEF ThreadCall, KillZombie
<1>5. ASSUME NEW t \in Threads, Finish(t) PROVE QueueStep(p)
  <2>1. CASE EndChangePriority(t) \/ DoYield(t) \/ DoSwitch(t)
    <3>1. \/ k' = k \/ k' = YieldHigher(k)
          \/ \E test \in BOOLEAN : k' = ThreadSwitch(k, test)
      BY <2>1 DEF EndChangePriority, DoYield, DoSwitch, SwitchTests
    <3> QED BY <1>2, <1>3, <3>1, RunqKept
  <2> QED BY <1>5, <2>1, ChangeTurns DEF Finish
<1>6. CASE Isr
  BY <1>1, <1>6, SleepTurns, ChangeTurns DEF Isr, IsrKillZombie
<1>7. CASE PendSV \/ EndIdle
  BY <1>2, <1>3, <1>7, RunKeepsRunq
<1>8. CASE UNCHANGED vars
  BY <1>2, <1>8 DEF vars
<1> QED BY <1>4, <1>5, <1>6, <1>7, <1>8 DEF Next

(* What TurnsKept says of one step.                                         *)
KeepsTurns ==
  \A p \in Prios, t, u \in Threads :
       Before(k.runq[p], t, u) /\ Before(k'.runq[p], u, t)
         => (t = Head(k.runq[p]) /\ t = k.active) \/ PushedAgain(t, p)

LEMMA StepKeepsTurns ==
  ASSUME SchedInv, PreemptInv, [Next]_vars
  PROVE  KeepsTurns
<1> SUFFICES ASSUME NEW p \in Prios, NEW t \in Threads, NEW u \in Threads,
                    Before(k.runq[p], t, u), Before(k'.runq[p], u, t)
             PROVE  (t = Head(k.runq[p]) /\ t = k.active) \/ PushedAgain(t, p)
  BY DEF KeepsTurns
<1> DEFINE q == k.runq[p]
           r == k'.runq[p]
<1>1. q \in Seq(Threads) /\ Once(q)
  BY DEF SchedInv, KernelInv, KernelType, RunqueueOK
<1>2. \/ r = q
      \/ \E v \in Threads \ Elems(q) : r = Append(q, v)
      \/ \E v \in Elems(q) : r = Unlink(q, v)
      \/ q # <<>> /\ Head(q) = k.active /\ r = Rotate(q)
      \/ \E v \in Elems(q) : PushedAgain(v, p) /\ r = Append(Unlink(q, v), v)
  BY NextTurns DEF QueueStep
<1>3. Before(q, t, u) /\ Before(r, u, t)
  OBVIOUS
<1> HIDE DEF q, r
<1>4. ~Before(q, u, t) /\ t \in Elems(q)
  BY <1>1, <1>3, BeforeOnce
<1>5. ASSUME NEW v \in Threads \ Elems(q), r = Append(q, v) PROVE FALSE
  BY <1>1, <1>3, <1>4, <1>5, BeforeAppend
<1>6. ASSUME NEW v \in Elems(q), r = Unlink(q, v) PROVE FALSE
  BY <1>1, <1>3, <1>4, <1>6, BeforeUnlink
<1>7. ASSUME q # <<>>, r = Rotate(q) PROVE t = Head(q)
  BY <1>1, <1>3, <1>4, <1>7, BeforeRotate
<1>8. ASSUME NEW v \in Elems(q), r = Append(Unlink(q, v), v) PROVE t = v
  <2>1. v \in Threads /\ Unlink(q, v) \in Seq(Threads)
    BY <1>1, ElemsEmpty, ElemsUnlink
  <2>2. Before(Unlink(q, v), u, t) \/ t = v
    BY <1>3, <1>8, <2>1, BeforeAppend
  <2> QED BY <1>1, <1>4, <2>2, BeforeUnlink
<1> QED BY <1>2, <1>3, <1>4, <1>5, <1>6, <1>7, <1>8 DEF q

(* Threads of one priority run in turn (core/sched.c): two of them change   *)
(* their order only when the first one yields, or when one is given the     *)
(* priority it got since the test of sched_change_priority().               *)
THEOREM TurnsAlwaysKept == Spec => TurnsKept
<1>1. Init => PreemptInv
  BY DEF Init, PreemptInv, Executes
<1>2. SchedInv /\ PreemptInv /\ [Next]_vars => KeepsTurns
  BY StepKeepsTurns
<1>3. Spec => []PreemptInv
  BY <1>1, NextPreempt, Invariant, PTL DEF Spec
<1> QED BY <1>2, <1>3, Invariant, PTL DEF Spec, TurnsKept, KeepsTurns
=============================================================================
