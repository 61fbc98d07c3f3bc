------------------------------- MODULE Timer --------------------------------
(***************************************************************************)
(* A ztimer clock (sys/ztimer/core.c): the list of its timers, each with the *)
(* offset from the one before it, on a hardware counter that may be shorter *)
(* than a word and is then extended in software (MODULE_ZTIMER_EXTEND).     *)
(*                                                                          *)
(* Timers are set and removed by threads and handlers; each call runs with  *)
(* interrupts disabled and is one step. The alarm interrupt is taken some   *)
(* time after the counter has reached it. left[t] is not in the program: it *)
(* is the time that timer t still has to wait, by a clock that never wraps. *)
(***************************************************************************)
EXTENDS Integers, Sequences

CONSTANTS Timers, NoTimer,
          ClockWord,   \* the numbers a uint32_t has
          MaxValue,    \* clock->max_value, the greatest value of the counter
          MaxOffset,   \* bound: the longest time a timer is set to
          Latency      \* bound: ticks from an alarm to its interrupt handler

(* The handler comes in time to see the counter before it wraps, a time is  *)
(* not mistaken for one that has passed, and a word is a whole number of bits. *)
ASSUME TimerAssumption ==
  /\ NoTimer \notin Timers
  /\ {ClockWord, MaxValue, MaxOffset, Latency} \subseteq Nat
  /\ 1 < MaxValue /\ MaxValue < ClockWord
  /\ MaxValue \div 2 + Latency <= MaxValue
  /\ 2 * (MaxOffset + Latency) < ClockWord /\ ClockWord % 2 = 0

Extended == MaxValue < ClockWord - 1
Off == MaxOffset + MaxValue   \* clock->ops->cancel(): no alarm

(* clk.list is clock->list.next and the entries after it, clk.base is       *)
(* clock->list.offset, clk.blocked the times this clock has called pm_block() *)
(* without pm_unblock(). clk.alarm is the ticks until the alarm.            *)
VARIABLES clk, counter, time, left
clockVars == <<clk, counter, time, left>>

Words == 0 .. ClockWord - 1
Entries == [timer : Timers, offset : 0 .. MaxOffset]
ClockType ==
  /\ clk \in [list : Seq(Entries), base : Words, last : Timers \cup {NoTimer},
              checkpoint : Words, lower : 0 .. MaxValue, blocked : 0 .. 1,
              alarm : -Latency .. Off]
  /\ counter \in 0 .. MaxValue /\ time \in Words
  /\ left \in [Timers -> -Latency - 1 .. MaxOffset]

Listed(c) == {c.list[i].timer : i \in DOMAIN c.list}
NonNegative(n) == IF n < 0 THEN 0 ELSE n
Smaller(m, n) == IF m < n THEN m ELSE n

(* The time from clk.base to each entry's turn.                             *)
Target(list) ==
  LET sum[i \in 0 .. Len(list)] == IF i = 0 THEN 0 ELSE sum[i - 1] + list[i].offset
  IN sum

(* Mutant of AddModulo: a counter of max values, not of max + 1.            *)
AddModuloShort(a, b) == IF a < b THEN a + MaxValue - b ELSE a - b

(* _add_modulo(a, b, max_value)                                             *)
AddModulo(a, b) == IF a < b THEN a + MaxValue + 1 - b ELSE a - b

(* ztimer_now(): with extension it moves the checkpoint.                    *)
NowRead(c) ==
  IF Extended THEN [c EXCEPT !.checkpoint = (@ + AddModulo(counter, c.lower)) % ClockWord,
                             !.lower = counter]
              ELSE c
Now(c) == IF Extended THEN NowRead(c).checkpoint ELSE counter

(* _ztimer_update_head_offset(): the time since clk.base is taken from the  *)
(* first entries, as far as they have it.                                   *)
UpdateHead(c) ==
  LET diff == (Now(c) - c.base) % ClockWord
      Rest(i) == NonNegative(Target(c.list)[i] - diff)
  IN [NowRead(c) EXCEPT
        !.list = [i \in DOMAIN @ |-> [timer |-> @[i].timer, offset |-> Rest(i) - Rest(i - 1)]],
        !.base = Now(c)]

(* _is_set(): the entry has a successor, or it is the last one.             *)
IsSet(c, t) == c.list # <<>> /\ (c.last = t \/ \E i \in 1 .. Len(c.list) - 1 : c.list[i].timer = t)

Blocks(c) == [c EXCEPT !.blocked = IF c.list = <<>> THEN @ + 1 ELSE @]
Unblocks(c) == [c EXCEPT !.blocked = IF c.list = <<>> THEN @ - 1 ELSE @]

(* Mutant of Del: the next timer is not given the time of the removed one.  *)
DelForgets(c, t) ==
  LET n == CHOOSE i \in DOMAIN c.list : c.list[i].timer = t
      m == Len(c.list)
  IN Unblocks([c EXCEPT
       !.list = [i \in 1 .. m - 1 |-> IF i < n THEN @[i] ELSE @[i + 1]],
       !.last = IF n < m THEN @ ELSE IF n = 1 THEN NoTimer ELSE c.list[n - 1].timer])

(* _del_entry_from_list() of an entry that the list holds                   *)
Del(c, t) ==
  LET n == CHOOSE i \in DOMAIN c.list : c.list[i].timer = t
      m == Len(c.list)
      Later(e) == [e EXCEPT !.offset = @ + c.list[n].offset]
  IN Unblocks([c EXCEPT
       !.list = [i \in 1 .. m - 1 |->
                   IF i < n THEN @[i] ELSE IF i > n THEN @[i + 1] ELSE Later(@[i + 1])],
       !.last = IF n < m THEN @ ELSE IF n = 1 THEN NoTimer ELSE c.list[n - 1].timer])

(* _add_entry_to_list(): behind the entries that are due before or with it. *)
Add(c, t, val) ==
  LET m == Len(c.list)
      n == CHOOSE j \in 0 .. m : /\ Target(c.list)[j] <= val
                                 /\ j < m => Target(c.list)[j + 1] > val
      entry == [timer |-> t, offset |-> val - Target(c.list)[n]]
      Sooner(e) == [e EXCEPT !.offset = @ - entry.offset]
  IN [Blocks(c) EXCEPT
        !.list = [i \in 1 .. m + 1 |->
                    IF i <= n THEN @[i]
                    ELSE IF i = n + 1 THEN entry
                    ELSE IF i = n + 2 THEN Sooner(@[n + 1])
                    ELSE @[i - 1]],
        !.last = IF n = m THEN t ELSE @]

(* Mutant of Alarm: a clock without timers is not woken up.                 *)
AlarmOnlyForTimers(c) ==
  IF c.list = <<>> THEN Off
  ELSE IF Extended THEN Smaller(c.list[1].offset, MaxValue \div 2) ELSE c.list[1].offset

(* _ztimer_update(): the ticks to the alarm it sets or cancels, ...         *)
Alarm(c) ==
  LET first == IF c.list = <<>> THEN Off ELSE c.list[1].offset
  IN IF Extended THEN Smaller(first, MaxValue \div 2) ELSE first

(* ... and when an alarm of no ticks is set while one is pending, its handler *)
(* comes no later than the one that was pending.                            *)
Update(c) == [c EXCEPT !.alarm = IF Alarm(c) = 0 THEN Smaller(@, 0) ELSE Alarm(c)]

(* _now_next(), as often as it finds a timer: the first n entries.          *)
Popped(c, n) ==
  IF n = 0 THEN c
  ELSE Unblocks([c EXCEPT !.list = SubSeq(@, n + 1, Len(@)),
                          !.last = IF n = Len(c.list) THEN NoTimer ELSE @])
Expired(c) == CHOOSE n \in 0 .. Len(c.list) :
                /\ Target(c.list)[n] = 0
                /\ n < Len(c.list) => Target(c.list)[n + 1] > 0

-----------------------------------------------------------------------------
(* ztimer_init_extend(); the counter runs already.                          *)
ClockInit ==
  /\ clk = [list |-> <<>>, base |-> 0, last |-> NoTimer, checkpoint |-> 0,
            lower |-> 0, blocked |-> 0, alarm |-> IF Extended THEN MaxValue \div 2 ELSE Off]
  /\ counter = 0 /\ time = 0
  /\ left = [t \in Timers |-> 0]

(* ztimer_set() of a timer that may be set already. The structure may be on *)
(* the stack and not initialised (event.c:169): then _is_set() may take it  *)
(* for set, and no entry is found to delete.                                *)
ZtimerSet(t, val) ==
  /\ LET c == UpdateHead(clk)
         d == IF IsSet(c, t) THEN Del(c, t) ELSE c
     IN clk' = Update(Add(d, t, val))
  /\ left' = [left EXCEPT ![t] = val]
  /\ UNCHANGED <<counter, time>>

(* ztimer_remove()                                                          *)
ZtimerRemove(t) ==
  /\ IsSet(clk, t)
  /\ clk' = Update(Del(UpdateHead(clk), t))
  /\ UNCHANGED <<counter, time, left>>

(* Mutant of Postponed: the handler does not look at the time.              *)
NotPostponed(c) == 0

(* The time that is left until the first timer is due: the handler came for *)
(* a checkpoint, or for a timer that has been removed since.                *)
Postponed(c) ==
  LET diff == (c.base + c.list[1].offset - Now(c)) % ClockWord
  IN IF Extended /\ diff < ClockWord \div 2 THEN diff ELSE 0

(* The timers whose callbacks ztimer_handler() calls: those that are due at *)
(* the target of the first, then those that are due by now.                 *)
AtTarget(c) == [c EXCEPT !.base = (@ + c.list[1].offset) % ClockWord, !.list[1].offset = 0]
ZtimerHandler ==
  /\ clk.alarm <= 0
  /\ LET c == IF Extended THEN NowRead(clk) ELSE clk
     IN \/ /\ c.list = <<>>
           /\ clk' = Update(c)
        \/ /\ c.list # <<>> /\ Postponed(c) > 0
           /\ clk' = [c EXCEPT !.alarm = Smaller(Postponed(c), MaxValue \div 2)]
        \/ /\ c.list # <<>> /\ Postponed(c) = 0
           /\ LET first == Popped(AtTarget(c), Expired(AtTarget(c)))
                  rest  == UpdateHead(first)
              IN clk' = Update(Popped(rest, Expired(rest)))
  /\ UNCHANGED <<counter, time, left>>

(* A tick of the hardware. The handler is not delayed for ever.             *)
Tick ==
  /\ clk.alarm > -Latency
  /\ clk' = [clk EXCEPT !.alarm = IF @ = Off THEN @ ELSE @ - 1]
  /\ counter' = (counter + 1) % (MaxValue + 1)
  /\ time' = (time + 1) % ClockWord
  /\ left' = [t \in Timers |-> IF left[t] < -Latency THEN left[t] ELSE left[t] - 1]

ClockNext ==
  \/ \E t \in Timers : ZtimerRemove(t) \/ \E val \in 0 .. MaxOffset : ZtimerSet(t, val)
  \/ ZtimerHandler \/ Tick

ClockSpec == ClockInit /\ [][ClockNext]_clockVars

-----------------------------------------------------------------------------
(* Properties                                                               *)

(* The clock tells the time although the counter wraps between two reads of *)
(* it: the checkpoints come often enough.                                   *)
TimeExtended == (clk.checkpoint + AddModulo(counter, clk.lower)) % ClockWord = time

(* The chain of offsets says of every timer when it is due, through all     *)
(* insertions, removals and the time that is taken from the head; timers    *)
(* that are due are in the order they have been set for, the last entry is  *)
(* known, and the power mode is blocked exactly while a timer is set.       *)
ChainExact ==
  /\ ClockType
  /\ \A i \in DOMAIN clk.list :
       LET elapsed == (time - clk.base) % ClockWord
       IN NonNegative(Target(clk.list)[i] - elapsed) = NonNegative(left[clk.list[i].timer])
  /\ \A i, j \in DOMAIN clk.list : i < j =>
       /\ clk.list[i].timer # clk.list[j].timer
       /\ left[clk.list[i].timer] <= left[clk.list[j].timer]
  /\ clk.last = IF clk.list = <<>> THEN NoTimer ELSE clk.list[Len(clk.list)].timer
  /\ clk.blocked = IF clk.list = <<>> THEN 0 ELSE 1

(* The clock implements the abstract alarm clock: whatever was set, removed *)
(* and fired meanwhile, also when the handler runs for a checkpoint or for a *)
(* timer that is gone, no callback comes before its time and none more than *)
(* the latency of the interrupt after it.                                   *)
Alarms == INSTANCE AlarmClock WITH armed <- Listed(clk)
AlarmClockSpec == Alarms!Spec
=============================================================================
