-------------------------------- MODULE Mbox --------------------------------
(***************************************************************************)
(* RIOT's mailboxes (core/mbox.c): a circular buffer of messages between    *)
(* threads and interrupt handlers, with two lists of blocked threads, on the *)
(* scheduler of module Kernel and the counters of module Cib.               *)
(***************************************************************************)
EXTENDS Kernel, Cib

CONSTANTS Boxes,
          Size,       \* the number of places of each mailbox
          Putters,    \* the mailboxes on which threads call mbox_put()
          Getters,    \* the mailboxes on which threads call mbox_get()
          BasePrio, Starters,
          N           \* the messages of a mailbox are numbered modulo N

ASSUME MboxAssumption ==
  /\ IsFiniteSet(Threads)
  /\ Size \in [Boxes -> Sizes]
  /\ Putters \subseteq Boxes /\ Getters \subseteq Boxes
  /\ BasePrio \in [Threads -> Prios] /\ Starters \subseteq Threads
  /\ N \in Nat \ {0, 1}

VARIABLES k,
          cib,       \* mbox_t.cib
          array,     \* mbox_t.msg_array, the number of the message in a place
          readers,   \* mbox_t.readers
          writers,   \* mbox_t.writers
          pc,
          sent,      \* history: the number of the last message put
          got        \* history: the number of the last message handed out

vars == <<k, cib, array, readers, writers, pc, sent, got>>

(* "yield" is before the thread_yield() of _wait(), "retry" before the test *)
(* of cib_full() after it, "switch" before the sched_switch() of            *)
(* _wake_waiter(). A reader has its message when it is woken up.            *)
Run == [at |-> "run"]
Places == {Run} \cup [at : {"yield"}, next : {"run", "retry"}, box : Boxes]
          \cup [at : {"retry"}, box : Boxes] \cup [at : {"switch"}, prio : Prios]

TypeOK == /\ k \in KernelType
          /\ cib \in [Boxes -> CibType]
          /\ array \in [Boxes -> [0 .. Word - 1 -> 0 .. N - 1]]
          /\ readers \in [Boxes -> Seq(Threads)]
          /\ writers \in [Boxes -> Seq(Threads)]
          /\ pc \in [Threads -> Places]
          /\ sent \in [Boxes -> 0 .. N - 1]
          /\ got \in [Boxes -> 0 .. N - 1]

Init == /\ k \in StartStates(BasePrio, Starters)
        /\ cib = [b \in Boxes |-> CibInit(Size[b])]
        /\ array = [b \in Boxes |-> [i \in 0 .. Word - 1 |-> 0]]
        /\ readers = [b \in Boxes |-> <<>>]
        /\ writers = [b \in Boxes |-> <<>>]
        /\ pc = [t \in Threads |-> Run]
        /\ sent = [b \in Boxes |-> 0]
        /\ got = [b \in Boxes |-> 0]

Go(t, place) == pc' = [pc EXCEPT ![t] = place]
At(t, p) == Executes(k, t) /\ pc[t].at = p
Fresh(b) == (sent[b] + 1) % N
Sent(b) == sent' = [sent EXCEPT ![b] = Fresh(b)]

-----------------------------------------------------------------------------
(* The critical sections, for threads and handlers alike. A handler's call  *)
(* ends with sched_switch() at once, a thread's call after its irq_restore(). *)

(* _mbox_put() to a waiting reader, and _mbox_put() into the buffer         *)
PutDirect(b) ==
  /\ readers[b] # <<>>
  /\ Sent(b)
  /\ got' = [got EXCEPT ![b] = Fresh(b)]
  /\ readers' = [readers EXCEPT ![b] = Tail(@)]
  /\ UNCHANGED <<cib, array, writers>>

Store(b) ==
  /\ ~CibFull(cib[b])
  /\ array' = [array EXCEPT ![b][PutPlace(cib[b])] = Fresh(b)]
  /\ cib' = [cib EXCEPT ![b] = CibPut(@)]
  /\ Sent(b)
  /\ UNCHANGED <<got, readers, writers>>

(* Mutant of Fetch: the writer that is woken up stays in the list.          *)
FetchKeepsWriter(b) ==
  /\ CibAvail(cib[b]) # 0
  /\ got' = [got EXCEPT ![b] = array[b][GetPlace(cib[b])]]
  /\ cib' = [cib EXCEPT ![b] = CibGet(@)]
  /\ UNCHANGED <<array, readers, writers, sent>>

(* _mbox_get() of a queued message; the first writer is taken off its list. *)
Fetch(b) ==
  /\ CibAvail(cib[b]) # 0
  /\ got' = [got EXCEPT ![b] = array[b][GetPlace(cib[b])]]
  /\ cib' = [cib EXCEPT ![b] = CibGet(@)]
  /\ writers' = [writers EXCEPT ![b] = IF @ = <<>> THEN @ ELSE Tail(@)]
  /\ UNCHANGED <<array, readers, sent>>

(* _wake_waiter(): the state when the thread w is ready again.              *)
Woken(w) == SetStatus(k, w, "PENDING")

ThreadWakes(t, w) == k' = Woken(w) /\ Go(t, [at |-> "switch", prio |-> k.prio[w]])
IsrWakes(w) == /\ \E test \in SwitchTests(Woken(w), k.prio[w]) :
                    k' = IsrSwitch(Woken(w), test)
               /\ UNCHANGED pc

(* _wait(), up to its irq_restore(): t is blocked, and joins a list.        *)
Blocking(t) == SetStatus(k, t, "MBOX_BLOCKED")
Waits(t, next, b) ==
  k' = Blocking(t) /\ Go(t, [at |-> "yield", next |-> next, box |-> b])

-----------------------------------------------------------------------------
(* Calls of thread t: mbox_put() and mbox_try_put(), mbox_get() and         *)
(* mbox_try_get(). The try functions return 0 where the others block.       *)

PutToReader(t, b) ==
  /\ At(t, "run") /\ PutDirect(b)
  /\ ThreadWakes(t, Head(readers[b]))

(* Mutant of PutStores: the list of readers is not looked at.               *)
PutStoresUnseeing(t, b) ==
  /\ At(t, "run") /\ Store(b)
  /\ UNCHANGED <<k, pc>>

PutStores(t, b) ==
  /\ At(t, "run") /\ readers[b] = <<>> /\ Store(b)
  /\ UNCHANGED <<k, pc>>

PutWaits(t, b) ==
  /\ At(t, "run") /\ b \in Putters /\ readers[b] = <<>> /\ CibFull(cib[b])
  /\ Waits(t, "retry", b)
  /\ writers' = [writers EXCEPT ![b] = AddToList(Blocking(t), @, t)]
  /\ UNCHANGED <<cib, array, readers, sent, got>>

(* The loop of _mbox_put() after _wait(): only the buffer is tested again.  *)
PutRetries(t) ==
  /\ At(t, "retry")
  /\ LET b == pc[t].box
     IN \/ Store(b) /\ Go(t, Run) /\ UNCHANGED k
        \/ /\ CibFull(cib[b])
           /\ Waits(t, "retry", b)
           /\ writers' = [writers EXCEPT ![b] = AddToList(Blocking(t), @, t)]
           /\ UNCHANGED <<cib, array, readers, sent, got>>

(* Mutant of GetFetches: no writer is woken up.                             *)
GetFetchesSilently(t, b) ==
  /\ At(t, "run") /\ CibAvail(cib[b]) # 0
  /\ got' = [got EXCEPT ![b] = array[b][GetPlace(cib[b])]]
  /\ cib' = [cib EXCEPT ![b] = CibGet(@)]
  /\ UNCHANGED <<k, array, readers, writers, pc, sent>>

GetFetches(t, b) ==
  /\ At(t, "run") /\ Fetch(b)
  /\ IF writers[b] = <<>> THEN UNCHANGED <<k, pc>>
                          ELSE ThreadWakes(t, Head(writers[b]))

GetWaits(t, b) ==
  /\ At(t, "run") /\ b \in Getters /\ CibAvail(cib[b]) = 0
  /\ Waits(t, "run", b)
  /\ readers' = [readers EXCEPT ![b] = AddToList(Blocking(t), @, t)]
  /\ UNCHANGED <<cib, array, writers, sent, got>>

(* thread_yield() of _wait(): a thread that a handler has woken up in the   *)
(* meantime goes to the end of its runqueue.                                *)
DoYield(t) ==
  /\ At(t, "yield")
  /\ k' = YieldHigher(YieldRotate(k))
  /\ Go(t, IF pc[t].next = "run" THEN Run ELSE [at |-> "retry", box |-> pc[t].box])
  /\ UNCHANGED <<cib, array, readers, writers, sent, got>>

DoSwitch(t) ==
  /\ At(t, "switch")
  /\ \E test \in SwitchTests(k, pc[t].prio) : k' = ThreadSwitch(k, test)
  /\ Go(t, Run)
  /\ UNCHANGED <<cib, array, readers, writers, sent, got>>

-----------------------------------------------------------------------------
(* mbox_try_put() and mbox_try_get() of handlers, and the processor         *)

IsrPut(b) == \/ PutDirect(b) /\ IsrWakes(Head(readers[b]))
             \/ readers[b] = <<>> /\ Store(b) /\ UNCHANGED <<k, pc>>

IsrGet(b) == Fetch(b) /\ IF writers[b] = <<>> THEN UNCHANGED <<k, pc>>
                                              ELSE IsrWakes(Head(writers[b]))

(* thread_wakeup() of a thread that waits to start                          *)
IsrStart(t) ==
  /\ k.status[t] = "SLEEPING" /\ IsrWakes(t)
  /\ UNCHANGED <<cib, array, readers, writers, sent, got>>

PendSV == /\ k.pendsv /\ ~k.idle /\ k' = SchedRun(k)
          /\ UNCHANGED <<cib, array, readers, writers, pc, sent, got>>
EndIdle == /\ k.idle /\ k.bitcache # {} /\ k' = IdleReturn(k)
           /\ UNCHANGED <<cib, array, readers, writers, pc, sent, got>>

-----------------------------------------------------------------------------
Finish(t) == PutRetries(t) \/ DoYield(t) \/ DoSwitch(t)

Next == \/ \E t \in Threads :
             \/ \E b \in Boxes : \/ PutToReader(t, b) \/ PutStores(t, b) \/ PutWaits(t, b)
                                 \/ GetFetches(t, b) \/ GetWaits(t, b)
             \/ Finish(t) \/ IsrStart(t)
        \/ \E b \in Boxes : IsrPut(b) \/ IsrGet(b)
        \/ PendSV \/ EndIdle

Spec == Init /\ [][Next]_vars

-----------------------------------------------------------------------------
(* Properties                                                               *)

(* The lists of blocked threads and the runqueues share rq_entry: a blocked *)
(* thread is in exactly one list, once, a ready one in none; and the counters *)
(* never disagree with the size, also when they wrap.                       *)
ListsConsistent ==
  /\ TypeOK /\ RunqueueOK(k) /\ OneRunning(k)
  /\ \A t \in Threads :
       k.status[t] = "MBOX_BLOCKED" <=>
         \E b \in Boxes : t \in Elems(readers[b]) \cup Elems(writers[b])
  /\ \A b \in Boxes :
       /\ Cardinality(Elems(readers[b]) \cup Elems(writers[b]))
            = Len(readers[b]) + Len(writers[b])
       /\ CibAvail(cib[b]) <= Size[b]

(* Every mailbox is a FIFO channel for the messages that were put.          *)
Content(b) == [i \in 1 .. CibAvail(cib[b]) |-> array[b][PlaceAt(cib[b], i - 1)]]
Abstract == INSTANCE Channels WITH Pairs <- Boxes,
                                   chan <- [b \in Boxes |-> Content(b)]
FifoSpec == Abstract!Spec

(* "If the mailbox is empty, this function will block until a message       *)
(* becomes available": no reader is blocked while a message is queued.      *)
NoReaderBesideMessage ==
  \A b \in Boxes : readers[b] # <<>> => CibAvail(cib[b]) = 0

(* "this function will block until space becomes available": for each free  *)
(* place of a mailbox that has writers, one of them was woken up to use it. *)
Retrying(b) == {t \in Threads : /\ pc[t].at \in {"yield", "retry"} /\ pc[t].box = b
                                /\ (pc[t].at = "yield" => pc[t].next = "retry")
                                /\ t \notin Elems(writers[b])}
WritersNotStranded ==
  \A b \in Boxes : writers[b] # <<>> =>
    Size[b] - CibAvail(cib[b]) <= Cardinality(Retrying(b))
=============================================================================
