# A verification of the RIOT kernel in this repository

The repository holds a seminar's applications (`src/apps`) and the complete
RIOT operating system they are built on (`src/RIOT`). The applications are
single loops over a sensor and a display; everything that is concurrent, that
blocks or that can be preempted is the RIOT kernel in `src/RIOT/core` and what
stands directly on it. The modules here model that kernel as it is built for the
applications' board, a Cortex-M (Seeedstudio XIAO nRF52840): no idle thread,
context switches by the PendSV exception, interrupts that may come wherever they
are not disabled. Beside it they model the event queue and the ztimer clock, and
the largest of the applications, the game collection.

All paths below are relative to `src/RIOT` unless they start with `src/`.

## Inventory

| Component | State | Operations | Interacts with | Hard behaviour | What makes it correct |
|---|---|---|---|---|---|
| Scheduler `core/sched.c` | run queues, `runqueue_bitcache`, `sched_active_thread`, status and priority of each thread, `sched_context_switch_request` | `sched_set_status`, `sched_run`, `sched_switch`, `sched_change_priority`, `sched_task_exit` | called by everything below; PendSV runs it | decisions taken after interrupts are enabled again; the idle loop inside PendSV; a NULL active thread | queues, statuses and bits agree; no preemption is missed; equals run in turn |
| Threads `core/thread.c` | `sched_threads[]`, `sched_num_threads` | create, sleep, wakeup, yield, zombify, kill a zombie | scheduler | pids are reused; handlers kill a zombie before it yields | table, counter and control blocks agree |
| Mutex `core/mutex.c` | word of the mutex (free, locked, list of waiters), owner and its priority, `mutex_cancel_t` | lock, trylock, cancelable lock, cancel, unlock, unlock-and-sleep | scheduler, timers (`ztimer_mutex_lock_timeout`) | hand-over, cancellation racing it, priority inheritance | exclusion across the hand-over, order of waiters, bounded inversion, cancelled calls end |
| Messages `core/msg.c` | queue (cib and array), list of senders, `wait_data` of each thread | send, try-send, send to self and from handlers, receive, send-receive, reply | scheduler, cib | three ways a message can take, all of them in order; one list node for run queues and senders | FIFO channels, no lost wakeup, replies match |
| Mailboxes `core/mbox.c` | cib, array, readers, writers | put, get, and their try forms | scheduler, cib | wakeups without a hand-over | FIFO, nobody waits for what is there |
| Circular integer buffer `core/lib/include/cib.h` | two counters, a mask | put, get, peek, full, avail | messages, mailboxes | wrap-around, size zero, signed compare | exact count, distinct places |
| Lists `core/lib/include/{list,clist}.h` | pointers | push, pop, rotate, remove | all of the above | | |
| Cortex-M port `cpu/cortexm_common` | pending PendSV | `thread_yield_higher`, `isr_pendsv`, `cortexm_isr_end`, `sched_arch_idle` | scheduler | | |
| Condition variables `core/cond.c` | the list of waiters | wait, signal, broadcast | mutex, scheduler | the mutex is released and the list joined in one critical section; signals of handlers | no wakeup is lost, the condition is tested under the mutex |
| Recursive mutex `core/lib/rmutex.c` | owner, `refcount`, the mutex inside | lock, trylock, unlock | mutex | owner and counter are read outside of critical sections | a reentrant lock |
| Thread flags `core/thread_flags.c` | flags of each thread, the mask it waits with | set, clear, wait for any, one, all | scheduler, timers, event queue | flags are tested, awaited and cleared in separate critical sections | a wait lasts exactly until the flags are enough |
| Event queue `sys/event/event.c` | lists of events, the thread that claimed each | post, cancel, get, wait on several queues, wait with a timeout, sync, claim | thread flags, mutex (`event_sync`), timers | list and flag are not updated together | every post is handled, none is slept through, `event_sync()` is a barrier |
| Timers `sys/ztimer/core.c` | chain of offsets, time of the last update, checkpoint, alarm | set, remove, handler | mutex (`ztimer_mutex_lock_timeout`), thread flags | relative offsets, a short counter that wraps, alarms that come late | a callback comes once, not early and not later than its interrupt |
| Message bus, round-robin scheduling, groups of thread flags | subscriptions; a timer and the run queues; bitmaps of threads | | messages, timers, thread flags | | not modelled |
| Game collection `src/apps/Project_Game_Collection/main.c` | menu entry, scores, cards, questions, obstacles; three high-score files | menus, five games, `_tee`, reset of scores | file system, ztimer | long sequences of presses, arrays at their limits, scores that outlive a game | hands and obstacles fit, the scores stored are the best |
| Drivers, boards, network stack, file systems, packages | | | | | outside the scope |

`PROJECT.json` lists each component with its status and every hazard found in
this code with its line and the properties that cover it.

## Modules

| Module | Models | Stands on |
|---|---|---|
| `Kernel` | the scheduler's state as one record and its functions as operators on it; lists as sequences; what the processor executes next | |
| `Sched` | the life of threads, with every call split at its `irq_restore()`; handlers | `Kernel` |
| `Mutex` | mutexes, cancellation, priority inheritance | `Kernel` |
| `Msg` | messages between threads and from handlers | `Kernel` |
| `Cib` | the counters of the circular buffer | |
| `Mbox` | mailboxes | `Kernel`, `Cib` |
| `Channels` | what messages and mailboxes promise: FIFO channels that lose, duplicate and reorder nothing | |
| `Monitor` | condition variables and recursive mutexes, and the application `cond.h` documents: consumers, producers, users of the recursive mutex | `Mutex` |
| `Reentrant` | what a recursive mutex promises | |
| `Events` | thread flags and event queues, a thread that serves two queues, posters, `event_sync()`, a timeout | `Mutex` |
| `Sync` | one kernel image, with the application of `Monitor` or of `Events` | `Monitor`, `Events` |
| `Timer` | a ztimer clock on a counter shorter than a word | |
| `AlarmClock` | what a clock promises: an armed timer expires once, neither early nor late | |
| `Games` | the loop of the game collection, its menus, games and files | |
| `Device` | one board, observed at its clock or at its games | `Timer`, `Games` |
| `MCSched`, `MCMutex`, `MCMsg`, `MCMbox`, `MCSync`, `MCEvents`, `MCDevice` | instances for TLC | |
| `KernelProofs`, `SchedProofs`, `MutexProofs`, `MonitorProofs`, `EventsProofs`, `MsgProofs`, `MboxProofs`, `DeviceProofs` | theorems | |

**How the code maps to actions.** A critical section (`irq_disable()` to
`irq_restore()`) is one step; so is a whole call of an interrupt handler, which
has the processor to itself. What a thread does after `irq_restore()` - the
call of `sched_switch()` or `thread_yield_higher()`, the second half of
`sched_change_priority()`, the return of a lock call - is a further step, and
`pc[t]` says which one is next. Functions that call the kernel several times
have their place in a variable of their own, `doing[t]` in `Monitor` and
`act[t]` in `Events`: a step is taken there only when `pc[t]` says that no
kernel call is open, so that everything may happen between two calls. A
function that runs with interrupts disabled throughout (`ztimer_set()`,
`ztimer_handler()`) is one step, and one iteration of a loop of the game
collection is one step. A thread takes a step only when it is
`sched_active_thread`, no PendSV is pending and the scheduler is not in its
idle loop (`Executes`): PendSV has the lowest priority of the exceptions but
preempts every thread. `Kernel` follows `sched_run()` into the idle loop, where
`sched_active_thread` keeps its value and handlers may ready threads before the
loop looks again. After `sched_task_exit()` the active thread is NULL;
`sched_switch()` reads through it, which is undefined, and the model takes
either outcome of its test.

**History variables.** `quiet` (threads created with
`THREAD_CREATE_WOUT_YIELD`), `held` (mutexes that a thread's calls told it it
has), `todo` (requests to answer), `sent` and `got` (numbers of the last
message accepted and received), `items` and `nest` (the condition of `Monitor`,
and the unlocks its threads owe), `owed`, `ahead` and `inhand` (events posted and
not handled, those before the event of `event_sync()`, and the one the looper
has), `time` and `left` (a clock that does not wrap and what each timer has still
to wait), `session` and `done` (the games of a power-on and all their scores),
`lost` (the score files that a failed access has left without some scores) and
`late` (the moves of the runner that came too late) exist for the properties and for what an
application may call next; `held` restricts `unlock` to holders, as the API
asks. `inhand` is also a local variable of the event loop.

**Abstractions.** A message is its sender, a number modulo `N` and whether it
is data, a request or a reply. Stacks, names, debug output, statistics and the
run-queue callback are left out. A thread that does not exist is a member of
`Gone`. The timer of `event_wait_timeout_ztimer()` and of
`ztimer_mutex_lock_timeout()` may expire whenever it is set: they use the promise
of `AlarmClock` with any time. An event is its node; what its handler does is the
application's, except for the one of `event_sync()`. A card is its number; the
box and sort games end with some score; the button is a choice at each iteration.
The clock goes on by any time before each of the runner's three checks, in a
pause and in an iteration whose read of the sensor fails, which does nothing else
(`main.c:986`); a check and the `ztimer_now()` that resets its clock afterwards
are at the instant of the latter, when the check would have come out the same.
A time is counted up to the value at which it is due, and no stretch is longer
than the first spawn interval, after which everything is due. `open()`, `read()`, `fopen()`, `fwrite()` and `fclose()` of a score
file may fail: a failed read leaves zeros in the variables, a failed write the
file as it was or an empty one, since littlefs has the new contents only when the
file is closed, and nobody looks at what `_tee()` returns (`main.c:1150`). The
capacity of a message queue is a constant; `Room` stands for the
signed compare of `cib_put()`, which `MboxProofs!FullIsExact` shows to be exact.

## Runs

| Run | Question | Bounds | Properties |
|---|---|---|---|
| `sched` | do the scheduler's data agree under every interleaving of calls and handlers? | 3 control blocks, 3 pids, 2 priorities; one thread calls `sched_change_priority` | `TypeOK`, `SchedulerConsistent`, `TableConsistent`, `NoMissedPreemption`, `TurnsKept` |
| `mutex` | exclusion, lists and cancellation without inheritance | 3 threads on 2 priorities, 1 mutex, 1 signal unlocked by a handler, all calls | `ListsConsistent`, `MutualExclusion`, `CancelEndsWait`, `WaitersInOrder` |
| `mutex_pi` | does inheritance bound the highest thread's wait? | 3 threads on 3 priorities, the middle one without mutexes and never leaving the processor | `QuietMeansBase`, `HolderInherits`, `HighestGets` |
| `mutex_cancel` (discrepancy) | is a locked mutex always somebody's? | as `mutex`, without the signal | `LockedIsHeld` |
| `mutex_handover` (discrepancy) | does the holder inherit after a hand-over? | 3 lockers on 3 priorities | `HolderInherits` |
| `msg` | are messages FIFO channels whatever way they take? | 3 threads, one with a queue of 1; senders: 2 threads, a handler, the server itself | `SendersListed`, `BlockedReceiverHasNothing`, `RepliesMatch`, `ChannelsSpec` |
| `msg_gone` (discrepancy) | is a thread that runs its own code ready? | as `msg`, with a target that does not exist | `RunningIsReady` |
| `mbox` | are mailboxes FIFO, and is nobody left waiting? | 3 threads, one box of 1 place with blocking readers, one of 2 places with blocking writers, words of 3 bits | `ListsConsistent`, `NoReaderBesideMessage`, `WritersNotStranded`, `FifoSpec` |
| `mbox_lost` (discrepancy) | the same for one box with both | 3 threads, one box of 1 place | `NoReaderBesideMessage` |
| `sync` | are condition variables, recursive mutexes, thread flags and event queues safe against every interleaving, and do they wake whom they have to? | 3 threads on 3 priorities; at most 2 items and 2 nested locks; 2 events and the one of `event_sync()` on 2 queues | `MonitorLists`, `NoLostWakeup`, `ConditionGuarded`, `HolderNests`, `RecursiveMutex`, `WaiterWoken`; `NodesLinked`, `WaitsHonoured`, `PostsAnswered`, `NotSleptThrough`, `SyncIsBarrier`, `EventsHandled` |
| `events_timeout` (discrepancy) | does a wait with a timeout end? | 2 threads, 1 queue, 1 event | `BlocksUntilTimeout` |
| `device` | does the clock tell the time and fire exactly when it has to; do the games keep to their arrays, rules and scores? | 3 timers on a counter of 4 values and words of 16; 5 games, their numbers below | `TimeExtended`, `ChainExact`, `AlarmClockSpec`; `HandsFit`, `QuestionsOnce`, `PlacesSuffice`, `ScoresKept`, `StayEnds` |

**Why the bounds are enough.** Three threads give a running thread, a waiter
and a third party that overtakes, preempts or cancels; two priorities give
preemption and turns among equals, three a priority inversion. In `sched` there
are as many pids as control blocks: a slot is freed and taken again while its
former thread is still on the processor. A queue of one place fills, and has
senders waiting behind it. Words of three bits make the counters of a mailbox
wrap several times, and numbers modulo 2 tell a message from its neighbours; a
loss or a reordering shows in the next number.

`sync` has a thread above and one below the one whose calls are to be
interrupted; a condition with two items tells a signal from a broadcast, two
nested locks a count from a flag, and two events on two queues an order within a
queue from the priority between queues. The counter of four values in `device`
wraps while a timer is set and while none is, three timers give an entry a
predecessor and a successor, and a word of 16 leaves room to tell a time that has
passed from one to come (`TimerAssumption`) and wraps as well. Of the games, the
pack of 11 cards is the real one. The other numbers are scaled so that each limit
is reached in few steps: 5 questions leave one that is not asked in 4 rounds, and
the runner has 3 places, obstacles that cross the screen in 4 moves and a spawn
interval that falls in one step to 3 times that of a move. A move is late when it
is more than one unit over its time (`Lag`), and a game has one late move at most
(`MaxLate`): the bound of `PlacesSuffice` without late moves is reached, and one
late move is enough to write behind the array. With the source's 8 places, the
display's default of 128 rows and moves that are at most 100 ms late, 7 obstacles
at most are active until a move is late. A power-on plays games of one kind: what the
games share is the menu's `action`, which is reset on the way into each, and the
three high-score variables `table`, which each game that has scores loads at its
start. Four finished games put every order of three scores and one more into the
table.

TLC's symmetry sets are sound:
they exchange threads of the same priority that no constant tells apart, and
are used with safety properties only.

**What is deliberately kept apart.** The run `mbox` has blocking readers on one
box and blocking writers on the other, because one box with both shows the
discrepancy of `mbox_lost`. The run `mutex_pi` has two lockers, so that a mutex
is never handed over while others wait; with three, `mutex_handover` shows the
discrepancy. In `sync` the events the looper may be taking are cancelled by the
looper and by threads below it only (`OwnCancels`); a cancellation by a handler or
a thread above, between the critical section of `event_get()` and the store to
`list_node.next` behind it (`sys/event/event.c:83`), followed by a post, leaves a
queued event with a cleared node. None is a restriction of the module, only of
its instance. `Sync` and `Device` put two independent systems into one run, by a
variable that never changes (`image`, `part`): each behaviour is one of the
first system or one of the second, and TLC explores both completely.

**Deadlock** is checked in all passing runs but `sched`, where all threads may
exit or sleep with nobody to wake them, which is a legal end. The discrepancy
runs look for one state and do not need it.

**Fairness** is used by three runs. In `mutex_pi` (`FairSpec`) a pending PendSV is taken
and an idle loop that found a ready thread ends (the hardware); a thread that
has the processor executes the rest of its call; a thread that has a mutex and
keeps the processor unlocks it sometime (an assumption on the application, and
the only one). In `sync` (`SyncFairSpec`) the same holds of the exceptions and of the call a
thread is in; nobody has to begin a call, so that `EventsHandled` is about an
event that is queued and a looper that is in its loop, undisturbed by threads
above. In `device` (`DeviceFairSpec`) the loop of the quiz and of blackjack goes round:
nothing in it blocks. Nothing is assumed of handlers, of the scheduler's choice or of
threads that do not have the processor.

## Where code and documentation disagree

1. `mutex_cancel`: a cancellation after the hand-over makes
   `mutex_lock_cancelable()` return `-ECANCELED` (`core/mutex.c:180`) while the
   mutex stays locked for the caller. `core/include/mutex.h:232` says it was not
   locked. `ztimer_mutex_lock_timeout()` inherits this.
2. `mutex_handover`: `mutex_unlock()` does not update the owner
   (`core/mutex.c:204`), so that a holder that got the mutex by hand-over is not
   boosted; `core/include/mutex.h:46` and
   `tests/core/thread_priority_inversion/README.md:7` say otherwise.
3. `msg_gone`: `msg_send_receive()` to a pid without a thread returns -1 to a
   caller that is `STATUS_REPLY_BLOCKED` and on no run queue
   (`core/msg.c:278`): its next context switch is its last.
4. `mbox_lost`: a woken writer stores its message without looking for readers
   (`core/mbox.c:73`); a reader can stay blocked beside a message, against
   `core/include/mbox.h:131`.
5. `events_timeout`: `_wait_timeout()` goes round its loop as long as the event
   flag was among those it took (`sys/event/event.c:129`). A stale event flag and
   the timeout flag can be taken together; the queue is empty, and the thread
   blocks again although its timer has gone. `sys/include/event.h:388` says it
   blocks "until timeout expires".
6. By proof, without a run: `cib_full()` is never true for a buffer of
   `(UINT_MAX + 1) / 2` elements, the size that `core/lib/include/cib.h:50` still
   allows (`MboxProofs!NeverFullAtTheLimit`).

Smaller ones, met while modelling and stated where the models have them:
`HandsFit` excepts a player who holds the six lowest cards (21) and may draw a
seventh, which `cards_player[6]` (`src/apps/Project_Game_Collection/main.c:852`)
has no place for; `PlacesSuffice` excepts a runner whose moves are late, because
of pauses, of reads of the sensor that fail (`main.c:986`) or of slow iterations:
obstacles stand still while new ones appear, all places may be taken, and
`index <= MAX_OBSTACLES` (`main.c:995`) lets one more be written; `QuestionsOnce` counts nine answers of ten questions, because the tenth
is shown and not waited for (`main.c:595`); and `ScoresKept` allows a third score
that is too high, because the buffer it is read into is not terminated, and lost
scores where an access of a file failed: after a failed `open()` or `read()`
(`main.c:186`) the next finished game writes its table of zeros over better
scores, and a `_tee()` that fails (`main.c:72`) loses the new ones and may empty
the file. Outside
of the models: after a pause of the box game, `start` is a duration and not a
point in time (`main.c:275`), and the game may be over at once.

## Proofs

All theorems hold for every value of the constants that satisfies the named
assumptions: `KernelAssumption` (NULL is no thread, at least one priority),
`SchedAssumption` (at least one pid, main exists and has a priority, the flags
are those of `thread_create()`), `CibAssumption` (a word has an even number
of values), `MutexAssumption` and `MboxAssumption` (finitely many threads, each
with a priority; mutexes and signals differ; sizes are powers of two below half
of a word, or zero), `MsgAssumption` and `NoMsgAssumption` (finitely many
threads; links lead from threads and handlers to threads; at least two numbers
for messages; `NoMsg` is no message), `MonitorAssumption` (the two mutexes are
different ones of `Mutexes`, their users may lock, the bounds are positive),
`EventsAssumption` (the looper does not post, `event_sync()` and its mutex belong
together, each event has its queue), `TimerAssumption` (the latency of the handler
against the counter and the word, see `DeviceProofs`) and
`GamesAssumption` (enough questions for the rounds; the spawn interval falls in
whole steps; a move in time, a point and a pause fit into the first interval).

* `KernelProofs` shows of each operator of `Kernel` that it preserves
  `KernelInv`: types, agreement of run queues, statuses, priorities and bit
  cache, and that only the active thread has `STATUS_RUNNING`. The lists are
  handled by lemmas on what push, unlink and rotate do to the elements.
  `NextThreadHighest` is the reason the agreement matters: the thread that
  `sched_run()` picks exists, is ready and the first of its run queue, and no
  ready thread has a higher priority. The lemmas on `thread_add_to_list()` serve
  every list of waiters.
* `SchedProofs` shows `SchedInv == KernelInv(k) /\ Others /\ TableOK /\
  AtWorkIsReady` inductive, one lemma for each action, and from it
  `Spec => []TypeOK`, `Spec => []SchedulerConsistent` and
  `Spec => []TableConsistent`. `TableConsistent` is not inductive as it stands:
  it says that a thread that executes is in the table, which an exit has to
  break for no thread but the one that exits. `AtWorkIsReady` is what is
  missing: a thread that executes, and is not about to yield, is on a run queue.
  With it, a thread that exits, sleeps or wakes others has a pid, and a zombie
  that is killed cannot be executing its own code.

  The second part of the module shows `Spec => []NoMissedPreemption`. The
  property speaks of threads in their own code only; between a critical section and the scheduler
  call that follows it a thread above may well be ready. `PreemptInv`, inductive
  together with `SchedInv`, says what holds there: either no thread is above the
  one that executes, or what that thread still has to do in its call will notice
  (`Notices`). A yield notices everything; the argument of a pending
  `sched_switch()` is the priority of the one thread that can be above; the test
  at the end of `sched_change_priority()` sees either the caller itself or the
  thread it moved, at the priority asked for. A handler that puts one more
  thread above pends PendSV itself, so it never relies on the interrupted test.

  The third part is the action property `TurnsKept`. In one step a run queue gets
  a thread at its end that was in none, loses one, is turned by a yield of
  its head, or has a thread taken out and pushed again (`QueueStep`); that the
  caller of `thread_yield()` is the head of its queue is `PreemptInv` again.
* `MutexProofs` shows `MutexInv` inductive and from it `ListsConsistent`,
  `MutualExclusion` and `CancelEndsWait`, for any threads, mutexes and
  priorities, with inheritance and without. Beside `KernelInv` its parts are:
  `Lists`, a thread is blocked exactly while it is in the list of one mutex, once;
  `Owned`, a mutex is locked as long as a thread was told that it has it or is on
  its way back from a call that got it, and there is one such thread; `Rests`,
  threads that are off the processor stand at a place where a critical section
  has ended; `AtWork`, the one that executes is ready; `Cancelling`, what is known
  of a cancelable call at each of its places. `MutualExclusion` alone is not
  inductive: a hand-over gives the mutex to a thread that has not run since, and
  only `Lists` and `Owned` together say that no other thread believes to have it.
  `WaitersServedInOrder` assumes that there is no inheritance (`~PI`, the default
  build), with which a thread may change its priority while it is queued: no step
  changes a priority then (`ListChanges`), so that the lists stay sorted and
  a hand-over takes the first of them. `LoansAreReturned` is `QuietMeansBase` for an
  application with one mutex that does not cancel and does not call
  `mutex_unlock_and_sleep()`: only the thread that the owner field names has
  another priority than its own, and only while there are waiters (`Loans`). The
  hypotheses are those of the run `mutex_pi`; without them it is false, see the
  hazards at `core/mutex.c:118` and `:233`.
  `HolderAlwaysInherits` is `HolderInherits` for such an application when at most
  two of its threads use the mutex (`TwoUsers`), among any number of others that
  run, sleep and are woken in between. It holds although `mutex_unlock()` leaves the
  owner field as it was (`core/mutex.c:204`), and `PairInv` says why: the field
  names the holder or the waiter (`Named`), the thread that executes has the
  highest priority of the ready ones, the holder among them (`Attends`, which takes
  in what `sched_run()` chooses and when a handler's `sched_switch()` pends it), so
  that it is at least the holder's equal when it blocks; and the thread the field
  names is never above the holder (`Lent`). If the field names
  the thread that blocks itself the two have the same priority, and nothing
  had to be lent. With a third user the field may name neither of the two, and
  the run `mutex_handover` shows the holder left below its waiter.
* `MonitorProofs` stands on `MutexProofs` as `Monitor` stands on `Mutex`: the
  steps inside a mutex call keep `MutexInv` by its lemmas, and `MonitorInv` adds
  what the functions around the calls know. `InPlace` relates the place in the
  outer function to the place in the call and to the mutexes held; `Counted` and
  `Unused` say when owner and counter of the recursive mutex speak of the thread
  that holds it, although both are accessed outside of critical sections; `Waits`
  that the list of the condition has the threads in `cond_wait()` and that who is
  about to enter it has just seen that there is no item. With these parts
  `NoLostWakeup` is inductive: an item appears only while its producer holds
  the mutex and has yet to signal, a signal trades the producer for a woken
  thread, and a woken thread that tests takes the item or finds it
  gone. `ConditionGuarded` and `HolderNests` follow from `MonitorInv`. Of the
  threads that one signal wakes, the proof takes the first that would break the
  kernel's invariant and shows that there is none (`UpTo`). `MonitorListsKept`
  assumes that there is no inheritance (`~PI`, the default build): the list of a
  condition variable is sorted when a thread enters it, and a priority that
  changes afterwards leaves it as it is. `RecursiveMutexIsReentrant` is the
  refinement. The holder of the reentrant lock is the owner of the mutex inside,
  a thread that was handed it and has not run since included (`Has`), and the
  depth is the counter, with one more between a change of the mutex and that of
  the counter (`DepthOf`); the lock is taken when the mutex is, and given back
  in the step that unlocks it or hands it over.
* `EventsProofs` stands on `MutexProofs` as well, since `event_sync()` waits for a
  mutex. `EventsInv`, its inductive invariant, is about the gaps between the
  critical sections of an event queue and of the thread flags. `Roles` and
  `Claimed` say which thread is where and that the looper has its queues;
  `FlagWaits` relates status, flags, mask and place of each thread, since a wait
  is tested, slept through and taken back in three critical sections. `Noticed` is
  the invariant behind `NotSleptThrough`: as soon as the looper is past the
  test that found its queues empty, and not only when it is blocked, each event
  in them has its flag set or a poster on its way to set it. `EventsKept` follows
  an event between queue and hand, which gives `PostsAnswered`. For
  `SyncIsBarrier`, `SyncOnce` says that the one event of `event_sync()` is queued
  at most once, and that the mutex stays locked until its handler unlocks it,
  although the node lies on the stack of a thread that waits; `AheadKept`, that
  every event that was queued before it is still in front of it, through each
  push, cancel and pop. A push of an event that is queued already changes nothing,
  which is why the order of a queue is kept. `NodesAlwaysLinked` assumes that only
  the looper cancels events of the queue that it reads with `event_get()`
  (`CancelsAreOwn`, true of the instance of the run `sync`): otherwise it is false,
  see the hazard at `sys/event/event.c:83`. The proofs of the other four do not
  use it, yet the queues of the module are the lists of the code only as long as
  their nodes are linked, so they say something of the code for such programs too.
* `MsgProofs` shows `MsgInv` inductive and from it `SendersListed`,
  `BlockedReceiverHasNothing` and `RepliesMatch`. `Lists` says that a blocked
  sender is in the list of one thread, once, with its own message; `Queues`, that
  senders wait only for a thread whose queue is full, so that a receiver that
  finds nothing in its queue has no senders either; `Receivers`, that a thread in
  `msg_receive()` is blocked with nothing at hand until it is given a message, and
  ready from then on; `AtWork`, that a thread that executes is in no list and,
  unless it is about to yield, ready (or has sent a request to a thread that does
  not exist, discrepancy 3). `RepliesMatch` is about one moment, the return
  of `msg_send_receive()`. What makes it inductive is where the request is until
  then: `Pending` names its four places (the queue, the receiver's hands, the
  list of senders, the answers due), `Requests` says that its sender waits for
  the reply, `OneRequest` that a thread has one request at one place, and
  `Answered` that a thread that waits no more has the reply.
  `MessagesAreChannels` is the refinement. The content of the channel from one
  sender to one target is what the target was given and has not looked at, the
  sender's messages in its queue, in their order, and behind them the message of
  a blocked sender. A message that is appended to such a line is appended to
  its sender's part and to no other (`FromAppend`), and so with the first one
  taken (`FromTail`); each send is then `Accept`, each return of `msg_receive()`
  is `Deliver`, and a sender that is moved from the list to the queue changes no
  channel.
* `MboxProofs` begins with the counters of `Cib`: the count is exact, `cib_full()`
  is exact for every size below half of a word, and all elements are in places of
  their own, across the wrap-around of the counters. Then it shows `MboxInv`
  inductive. Readers and writers of all mailboxes
  are one family of lists (`Ends`), so that one argument covers them. With it,
  `WritersNotStranded` is part of the invariant: for each free place of a mailbox
  with blocked writers there is a woken writer that has not tried again, and each
  get, put, wakeup and failed retry keeps the balance. `ReadersAreServed` and
  `MailboxesAreChannels` assume that no mailbox has both blocking readers and
  blocking writers (`Putters \cap Getters = {}`); the run `mbox_lost` is what
  happens without. `MailboxesAreChannels` is the refinement: the content of a
  mailbox is the sequence of what is between the counters, a put appends to it, a
  get takes its first element (`StoreAppends`, `FetchTakesFirst`, on
  `PlacesDiffer` and `PlacesMove`), a put to a blocked reader passes
  through an empty channel, and every other step leaves it.
* `DeviceProofs` shows of the ztimer clock that `ClockInv` is inductive, for any
  timers, any width of the counter and of a word, with and without the extension
  in software. `Exact` gives the list its meaning: the time from the base to an
  entry's turn, less what has passed since the base, is what the timer has left.
  `Timed` is `TimeExtended` and its like for the base. `Alarmed` is what makes both
  inductive: the alarm comes before the first timer is late, and before half of
  the counter has passed since the last read of it, so that a tick can neither
  lose a round of the counter nor let a timer pass unnoticed; every call that
  changes the list sets the alarm anew, and a handler that finds nothing due sets it
  from what `Postponed` finds. `Target` sums up the offsets recursively. What it
  is of a list that was inserted into, cut or updated is had from its equation: two
  functions with the same first value and the same differences would differ
  at a least place (`TargetIs`). `ClockIsAlarmClock` is the refinement: `ZtimerSet`
  arms a timer, `ZtimerRemove` disarms it, the handler expires just those that have
  no time left, and a tick comes while none is later than the latency. The
  assumption about the constants (`TimerAssumption`) is what `ztimer.h` expects of
  a platform: the handler's latency fits into the half of the counter behind
  the checkpoint, a word is even, and the longest time with the latency is less
  than half of a word.
* Of the games, `DeviceProofs` shows `QuestionsOnce`. The quiz is one of five games that share
  the loop, so `LocalsOK` says first whose variables exist on which screen; and
  `QuizOK` says what is known between an answer and the next question, when
  nothing is marked and the answer must not count twice. `ScoresOK` is behind
  `ScoresKept`: it says of the file of each game, and of the table in memory as
  long as the screen's variables are those of a scored game, how many of the
  scores so far are above each place and how many reach it (`Accounts`), which makes
  the first two places exact and the third never too low; a new score then moves
  each place by the one before it. Of those in `lost` it only says that the first
  two places are not above the two best scores (`Below`): a failed access can lose
  scores, and never makes one of the two better than what was played. `HandsOK` is behind `HandsFit`, which is shown for
  the pack of eleven cards of the source: six cards are worth 21 at least and
  seven 28, so that two hands of at most 21 leave two cards in the pack.
  `RunsOK` is behind `PlacesSuffice`: of the obstacles that have been moved fewer
  than k times, for every k, all but the first and two for each late move took no
  longer to appear than k - 1 moves in time take, and the time since the last of
  them (`Apart`, `Margin`). However long the clock goes on, both times pass, or the
  next move is late already; a new obstacle uses up the time to it, or is the
  one that may appear while a move is late; and a move turns those below k - 1
  moves into those below k, a late one for the price of one obstacle more. With the least k
  whose moves cross the screen this is the bound.

**Only model-checked.** Liveness (`HighestGets`, `WaiterWoken`, `EventsHandled`,
`StayEnds`): the prover has no rules for fairness and `ENABLED`. Every invariant,
action property and refinement of a run that passes is a theorem, under the
hypotheses named above.

## Not modelled, and why

* Within the kernel: `msg_init_queue()` of a thread that is already sent messages
  (`core/msg.c:499`) and threads that exit with senders waiting for them
  (`core/msg.c:315`), both hazards without a property; two mutexes held at once
  with inheritance (`core/mutex.c:118`), waiters whose priority changes while
  they are queued (`core/mutex.c:73`) and the priority of a boosted owner after
  `mutex_unlock_and_sleep()` or `mutex_cancel()` (`core/mutex.c:233`): no document
  of the repository says what should hold there. `core/thread_flags_group.c`, the
  message bus and round-robin scheduling: optional modules none of the
  applications names.
* Of the event queue: the xtimer variants, which repeat the ztimer ones, and the
  wrappers that post from a timer or a thread of their own, which are the
  model's handlers and posters.
* Of ztimer: `MODULE_ZTIMER_ONDEMAND`, timers set from inside a callback,
  `periodic.c`, the conversions between frequencies, `ztimer_msg_receive_timeout()`,
  and xtimer.
* Of the game collection: how the sensor moves the box, the clocks of the box and
  sort games, and all drawing. A reset while a score is written leaves the old
  file or the new one, as littlefs commits a file when it is closed. A board whose
  sensor never answers stays in the runner for good: no property asks for its end.
* The other applications are earlier versions of the games: sequential loops over
  a sensor and a display.
* Drivers, boards and other processors, the network stack, file systems and
  packages: hardware access and large subsystems that the applications reach
  through a few calls; stack measurement, statistics and names have no effect on
  the kernel's behaviour.

What would be added next: nested mutexes in `Mutex`, and initialisation and exit in
`Msg`.
