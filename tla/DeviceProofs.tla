---------------------------- MODULE DeviceProofs ----------------------------
(***************************************************************************)
(* The parts of a board besides the kernel, for all sizes.                  *)
(*                                                                          *)
(* A ztimer clock, with and without its extension in software: the list     *)
(* says of every timer when it is due (ChainExact), the clock tells the time *)
(* (TimeExtended), and the whole is the alarm clock that ztimer.h promises  *)
(* (AlarmClockSpec). The invariant adds to the list's meaning that the alarm *)
(* is early enough: for the first timer, and for the counter not to go round *)
(* between two reads. What Target computes of a list is had from its        *)
(* equation, with the least entry that would differ.                        *)
(*                                                                          *)
(* The game collection, for any questions, rounds, scores and numbers of    *)
(* games: QuestionsOnce, ScoresKept, PlacesSuffice and, with the source's   *)
(* pack of eleven cards, HandsFit hold in every state, whatever menus, games *)
(* and resets came before. The invariant says whose variables are alive on  *)
(* which screen, what those of the quiz count, that the tables of scores    *)
(* hold the best, what hands the players can have, and that the obstacles of *)
(* the runner have appeared as far apart in time as they moved.             *)
(***************************************************************************)
EXTENDS Device, SequenceTheorems, FiniteSetTheorems, WellFoundedInduction, TLAPS

-----------------------------------------------------------------------------
(* Lists of timers                                                          *)

(* A list of a clock, whatever its offsets.                                 *)
Links == [timer : Timers, offset : Nat]

(* What Target defines, up to the n-th entry.                               *)
Sums(list, f, n) ==
  f = [i \in 0 .. n |-> IF i = 0 THEN 0 ELSE f[i - 1] + list[i].offset]

(* A set of numbers has a least one.                                        *)
LEMMA LeastNumber ==
  ASSUME NEW S \in SUBSET Nat, S # {}
  PROVE  \E m \in S : \A n \in S : m <= n
<1>1. PICK m \in S : \A n \in S : <<n, m>> \notin OpToRel(<, Nat)
  BY WFMin, NatLessThanWellFounded, Zenon
<1>2. \A n \in S : ~ (n < m)
  BY <1>1, Zenon DEF OpToRel
<1> QED BY <1>2

(* A function as Target defines it exists: otherwise there is a first entry *)
(* that none reaches, and the one that reaches the entry before is extended. *)
LEMMA SumsExist ==
  ASSUME NEW list \in Seq(Links)
  PROVE  \E f : Sums(list, f, Len(list))
<1> DEFINE m == Len(list)
           Bad == {n \in 0 .. m : ~ \E f : Sums(list, f, n)}
<1>1. m \in Nat
  BY LenProperties
<1>2. SUFFICES ASSUME Bad # {} PROVE FALSE
  BY <1>1
<1>3. PICK n \in Bad : \A i \in Bad : n <= i
  <2>1. Bad \in SUBSET Nat
    BY <1>1
  <2> HIDE DEF Bad
  <2> QED BY <1>2, <2>1, LeastNumber
<1>4. n \in 0 .. m /\ ~ \E f : Sums(list, f, n)
  OBVIOUS
<1>5. CASE n = 0
  <2> DEFINE g == [i \in 0 .. 0 |-> 0]
  <2>1. Sums(list, g, 0)
    BY DEF Sums
  <2> QED BY <1>4, <1>5, <2>1
<1>6. CASE n # 0
  <2>1. n - 1 \in 0 .. m /\ n - 1 \notin Bad
    BY <1>1, <1>3, <1>4, <1>6
  <2>2. PICK f : Sums(list, f, n - 1)
    BY <2>1
  <2> DEFINE g == [i \in 0 .. n |-> IF i = n THEN f[n - 1] + list[n].offset ELSE f[i]]
  <2>3. \A i \in 0 .. n - 1 : f[i] = IF i = 0 THEN 0 ELSE f[i - 1] + list[i].offset
    BY <2>2 DEF Sums
  <2>4. ASSUME NEW i \in 0 .. n
        PROVE  g[i] = IF i = 0 THEN 0 ELSE g[i - 1] + list[i].offset
    <3>1. n \in Nat \ {0} /\ i \in Nat /\ (i # 0 => i - 1 \in 0 .. n /\ i - 1 # n)
      BY <1>1, <1>4, <1>6
    <3>2. CASE i = n
      BY <3>1, <3>2
    <3>3. CASE i # n
      <4>1. i \in 0 .. n - 1 /\ g[i] = f[i] /\ (i # 0 => g[i - 1] = f[i - 1])
        BY <3>1, <3>3
      <4> QED BY <2>3, <4>1
    <3> QED BY <3>2, <3>3
  <2>5. g = [i \in 0 .. n |-> g[i]]
    OBVIOUS
  <2>6. Sums(list, g, n)
    <3> HIDE DEF g
    <3>1. [i \in 0 .. n |-> g[i]]
            = [i \in 0 .. n |-> IF i = 0 THEN 0 ELSE g[i - 1] + list[i].offset]
      BY <2>4
    <3> QED BY <2>5, <3>1 DEF Sums
  <2> QED BY <1>4, <2>6
<1> QED BY <1>5, <1>6

(* The time to an entry's turn is a number, and adds the offset of the entry *)
(* to the time to the one before.                                           *)
LEMMA TargetOf ==
  ASSUME NEW list \in Seq(Links)
  PROVE  /\ Target(list) \in [0 .. Len(list) -> Nat] /\ Target(list)[0] = 0
         /\ \A i \in 1 .. Len(list) : Target(list)[i] = Target(list)[i - 1] + list[i].offset
<1> DEFINE m == Len(list)
           T == Target(list)
           Bad == {n \in 0 .. m : T[n] \notin Nat}
<1>1. m \in Nat /\ \A i \in 1 .. m : list[i].offset \in Nat
  <2>1. m \in Nat
    BY LenProperties
  <2>2. \A i \in 1 .. m : list[i] \in Links
    BY ElementOfSeq
  <2> QED BY <2>1, <2>2 DEF Links
<1>2. Sums(list, T, m)
  <2>1. T = CHOOSE f : Sums(list, f, m)
    BY DEF Target, Sums
  <2> HIDE DEF T
  <2> QED BY <2>1, SumsExist
<1> HIDE DEF T, m
<1>3. \A i \in 0 .. m : T[i] = IF i = 0 THEN 0 ELSE T[i - 1] + list[i].offset
  BY <1>2 DEF Sums
<1>4. T = [i \in 0 .. m |-> T[i]]
  BY <1>2 DEF Sums
<1>5. T[0] = 0 /\ \A i \in 1 .. m : T[i] = T[i - 1] + list[i].offset
  <2>1. 0 \in 0 .. m /\ \A i \in 1 .. m : i \in 0 .. m /\ i # 0
    BY <1>1
  <2> QED BY <1>3, <2>1
<1>6. Bad = {}
  <2> SUFFICES ASSUME Bad # {} PROVE FALSE
    OBVIOUS
  <2>1. PICK n \in Bad : \A i \in Bad : n <= i
    <3>1. Bad \in SUBSET Nat
      BY <1>1
    <3> HIDE DEF Bad
    <3> QED BY <3>1, LeastNumber
  <2>2. n \in 0 .. m /\ T[n] \notin Nat
    OBVIOUS
  <2>3. n \in 1 .. m /\ n - 1 \in 0 .. m /\ ~(n <= n - 1)
    BY <1>1, <1>5, <2>2
  <2>4. T[n - 1] \in Nat
    BY <2>1, <2>3
  <2>5. T[n] = T[n - 1] + list[n].offset /\ list[n].offset \in Nat
    BY <1>1, <1>5, <2>3
  <2> QED BY <2>2, <2>4, <2>5
<1>7. \A i \in 0 .. m : T[i] \in Nat
  BY <1>6
<1> QED BY <1>4, <1>5, <1>7 DEF T, m

(* It is the only function that does.                                       *)
LEMMA TargetIs ==
  ASSUME NEW list \in Seq(Links), NEW g, g[0] = 0,
         \A i \in 1 .. Len(list) : g[i] = g[i - 1] + list[i].offset
  PROVE  \A i \in 0 .. Len(list) : Target(list)[i] = g[i]
<1> DEFINE m == Len(list)
           T == Target(list)
           Bad == {n \in 0 .. m : T[n] # g[n]}
<1>1. m \in Nat /\ T[0] = 0 /\ \A i \in 1 .. m : T[i] = T[i - 1] + list[i].offset
  BY LenProperties, TargetOf
<1> HIDE DEF T
<1>2. SUFFICES ASSUME Bad # {} PROVE FALSE
  BY DEF T
<1>3. PICK n \in Bad : \A i \in Bad : n <= i
  <2>1. Bad \in SUBSET Nat
    BY <1>1
  <2> HIDE DEF Bad
  <2> QED BY <1>2, <2>1, LeastNumber
<1>4. n \in 0 .. m /\ T[n] # g[n]
  OBVIOUS
<1>5. n \in 1 .. m /\ n - 1 \in 0 .. m /\ ~(n <= n - 1)
  BY <1>1, <1>4
<1>6. T[n - 1] = g[n - 1]
  BY <1>3, <1>5
<1> QED BY <1>1, <1>4, <1>5, <1>6

(* The entries are in the order of their turns, ...                         *)
LEMMA TargetGrows ==
  ASSUME NEW list \in Seq(Links), NEW i \in 0 .. Len(list), NEW j \in 0 .. Len(list), i <= j
  PROVE  Target(list)[i] <= Target(list)[j]
<1> DEFINE m == Len(list)
           T == Target(list)
           Bad == {n \in i .. m : T[n] < T[i]}
<1>1. m \in Nat /\ \A n \in 1 .. m : list[n].offset \in Nat
  <2>1. m \in Nat
    BY LenProperties
  <2>2. \A n \in 1 .. m : list[n] \in Links
    BY ElementOfSeq
  <2> QED BY <2>1, <2>2 DEF Links
<1>2. T \in [0 .. m -> Nat] /\ \A n \in 1 .. m : T[n] = T[n - 1] + list[n].offset
  BY TargetOf
<1> HIDE DEF T
<1>3. Bad = {}
  <2> SUFFICES ASSUME Bad # {} PROVE FALSE
    OBVIOUS
  <2>1. PICK n \in Bad : \A l \in Bad : n <= l
    <3>1. Bad \in SUBSET Nat
      BY <1>1
    <3> HIDE DEF Bad
    <3> QED BY <3>1, LeastNumber
  <2>2. n \in i .. m /\ T[n] < T[i]
    OBVIOUS
  <2>3. n # i
    <3>1. T[i] \in Nat
      BY <1>2
    <3> QED BY <2>2, <3>1
  <2>4. /\ n \in 1 .. m /\ n \in 0 .. m /\ i \in 0 .. m
        /\ n - 1 \in i .. m /\ n - 1 \in 0 .. m /\ ~(n <= n - 1)
    BY <1>1, <2>2, <2>3
  <2>5. ~(T[n - 1] < T[i])
    BY <2>1, <2>4
  <2>6. /\ T[n] \in Nat /\ T[i] \in Nat /\ T[n - 1] \in Nat /\ list[n].offset \in Nat
        /\ T[n] = T[n - 1] + list[n].offset
    BY <1>1, <1>2, <2>4
  <2> DEFINE a == T[n]
             b == T[n - 1]
             d == list[n].offset
             e == T[i]
  <2>7. /\ a \in Nat /\ b \in Nat /\ d \in Nat /\ e \in Nat
        /\ a = b + d /\ a < e /\ ~(b < e)
    BY <2>2, <2>5, <2>6
  <2> HIDE DEF a, b, d, e
  <2> QED BY <2>7
<1>4. j \in i .. m /\ T[i] \in Nat /\ T[j] \in Nat
  BY <1>1, <1>2
<1>5. ~(T[j] < T[i])
  BY <1>3, <1>4
<1> QED BY <1>4, <1>5 DEF T

(* ... so that there is a place for a new one: behind those that have their *)
(* turn before it or with it.                                               *)
IsTurn(list, n, val) ==
  /\ n \in 0 .. Len(list) /\ Target(list)[n] <= val
  /\ n < Len(list) => Target(list)[n + 1] > val

(* There is such a place, ...                                               *)
LEMMA TurnExists ==
  ASSUME NEW list \in Seq(Links), NEW val \in Nat
  PROVE  \E n : IsTurn(list, n, val)
<1> DEFINE m == Len(list)
           T == Target(list)
           Fit == {n \in 0 .. m : n = m \/ T[n + 1] > val}
<1>1. m \in Nat /\ T[0] = 0 /\ T \in [0 .. m -> Nat]
  BY LenProperties, TargetOf
<1>2. PICK n \in Fit : \A i \in Fit : n <= i
  <2>1. Fit \in SUBSET Nat /\ Fit # {}
    <3>1. m \in Fit
      BY <1>1
    <3> QED BY <1>1, <3>1
  <2> HIDE DEF Fit
  <2> QED BY <2>1, LeastNumber
<1> HIDE DEF T
<1>3. n \in 0 .. m /\ (n < m => T[n + 1] > val)
  BY <1>1
<1>4. T[n] <= val
  <2>1. CASE n = 0
    BY <1>1, <2>1
  <2>2. CASE n # 0
    <3>1. n - 1 \in 0 .. m /\ ~(n <= n - 1) /\ n - 1 # m
      BY <1>1, <1>3, <2>2
    <3>2. ~(T[(n - 1) + 1] > val)
      BY <1>2, <3>1
    <3>3. (n - 1) + 1 = n /\ T[n] \in Nat
      BY <1>1, <1>3
    <3> QED BY <3>2, <3>3
  <2> QED BY <2>1, <2>2
<1> QED BY <1>3, <1>4 DEF IsTurn, T

(* ... and it divides the entries.                                          *)
LEMMA TurnSplits ==
  ASSUME NEW list \in Seq(Links), NEW val \in Nat, NEW n, IsTurn(list, n, val)
  PROVE  /\ \A i \in 0 .. n : Target(list)[i] <= val
         /\ \A i \in n + 1 .. Len(list) : Target(list)[i] > val
<1>1. Len(list) \in Nat /\ n \in 0 .. Len(list) /\ Target(list) \in [0 .. Len(list) -> Nat]
  BY LenProperties, TargetOf DEF IsTurn
<1>2. ASSUME NEW i \in 0 .. n PROVE Target(list)[i] <= val
  <2>1. i \in 0 .. Len(list) /\ i <= n
    BY <1>1
  <2>2. Target(list)[i] <= Target(list)[n] /\ Target(list)[n] <= val
    BY <1>1, <2>1, TargetGrows DEF IsTurn
  <2>3. Target(list)[i] \in Nat /\ Target(list)[n] \in Nat
    BY <1>1, <2>1
  <2> QED BY <2>2, <2>3
<1>3. ASSUME NEW i \in n + 1 .. Len(list) PROVE Target(list)[i] > val
  <2>1. n + 1 \in 0 .. Len(list) /\ i \in 0 .. Len(list) /\ n + 1 <= i /\ n < Len(list)
    BY <1>1
  <2>2. Target(list)[n + 1] <= Target(list)[i] /\ Target(list)[n + 1] > val
    BY <2>1, TargetGrows DEF IsTurn
  <2>3. Target(list)[i] \in Nat /\ Target(list)[n + 1] \in Nat
    BY <1>1, <2>1
  <2> QED BY <2>2, <2>3
<1> QED BY <1>2, <1>3

-----------------------------------------------------------------------------
(* Numbers and lists                                                        *)

(* A number is determined by its quotient and remainder.                    *)
LEMMA QuotientUnique ==
  ASSUME NEW s \in Nat \ {0}, NEW n \in Int, NEW z \in Int, NEW r \in 0 .. s - 1,
         n = s * z + r
  PROVE  n % s = r
<1> DEFINE y == n \div s
           q == n % s
<1>1. y \in Int /\ q \in 0 .. s - 1 /\ n = s * y + q
  OBVIOUS
<1> HIDE DEF y, q
<1>2. s * (y - z) = r - q
  BY <1>1
<1>3. CASE y - z >= 1
  <2>1. s * (y - z) >= s
    BY <1>1, <1>3
  <2> QED BY <1>1, <1>2, <2>1
<1>4. CASE y - z <= -1
  <2>1. s * (z - y) >= s
    BY <1>1, <1>4
  <2>2. s * (z - y) = q - r
    BY <1>1, <1>2
  <2> QED BY <1>1, <2>1, <2>2
<1>5. CASE y = z
  BY <1>1, <1>5 DEF q
<1> QED BY <1>1, <1>3, <1>4, <1>5

(* The word that a sum or a difference of two words wraps to.               *)
LEMMA WordOf ==
  ASSUME NEW n \in -ClockWord .. 2 * ClockWord - 1
  PROVE  n % ClockWord = IF n < 0 THEN n + ClockWord
                         ELSE IF n < ClockWord THEN n ELSE n - ClockWord
<1>1. ClockWord \in Nat \ {0}
  BY TimerAssumption DEF TimerAssumption
<1>2. CASE n < 0
  <2>1. n = ClockWord * (-1) + (n + ClockWord) /\ n + ClockWord \in 0 .. ClockWord - 1
    BY <1>1, <1>2
  <2> QED BY <1>1, <1>2, <2>1, QuotientUnique
<1>3. CASE n \in 0 .. ClockWord - 1
  <2>1. n = ClockWord * 0 + n
    BY <1>1, <1>3
  <2> QED BY <1>1, <1>3, <2>1, QuotientUnique
<1>4. CASE n >= ClockWord
  <2>1. n = ClockWord * 1 + (n - ClockWord) /\ n - ClockWord \in 0 .. ClockWord - 1
    BY <1>1, <1>4
  <2> QED BY <1>1, <1>4, <2>1, QuotientUnique
<1> QED BY <1>1, <1>2, <1>3, <1>4

(* The counter after a tick.                                                *)
LEMMA CounterOf ==
  ASSUME NEW n \in 0 .. MaxValue
  PROVE  (n + 1) % (MaxValue + 1) = IF n = MaxValue THEN 0 ELSE n + 1
<1>1. MaxValue + 1 \in Nat \ {0} /\ MaxValue \in Nat
  BY TimerAssumption DEF TimerAssumption
<1>2. CASE n = MaxValue
  <2>1. n + 1 = (MaxValue + 1) * 1 + 0 /\ 0 \in 0 .. (MaxValue + 1) - 1
    BY <1>1, <1>2
  <2> QED BY <1>1, <1>2, <2>1, QuotientUnique
<1>3. CASE n # MaxValue
  <2>1. n + 1 = (MaxValue + 1) * 0 + (n + 1) /\ n + 1 \in 0 .. (MaxValue + 1) - 1
    BY <1>1, <1>3
  <2> QED BY <1>1, <1>3, <2>1, QuotientUnique
<1> QED BY <1>2, <1>3

(* A function on the first numbers is a list.                               *)
LEMMA IsList ==
  ASSUME NEW S, NEW n \in Nat, NEW f \in [1 .. n -> S]
  PROVE  f \in Seq(S) /\ Len(f) = n
<1>1. f \in Seq(S)
  BY SeqDef
<1>2. Len(f) \in Nat /\ 1 .. Len(f) = 1 .. n
  BY <1>1, LenProperties
<1> QED BY <1>1, <1>2

-----------------------------------------------------------------------------
(* The functions of the clock                                               *)

Clocks == [list : Seq(Links), base : Words, last : Timers \cup {NoTimer},
           checkpoint : Words, lower : 0 .. MaxValue, blocked : Int, alarm : Int]

(* The clock can tell the time.                                             *)
Timed(c) == /\ counter \in 0 .. MaxValue /\ time \in Words
            /\ (c.checkpoint + AddModulo(counter, c.lower)) % ClockWord = time
            /\ ~Extended => counter = time /\ c.checkpoint = 0 /\ c.lower = 0
Since(c) == (time - c.base) % ClockWord

(* ztimer_now() tells it, and remembers when it was asked.                  *)
LEMMA Reads ==
  ASSUME NEW c \in Clocks, Timed(c)
  PROVE  /\ Now(c) = time /\ NowRead(c) \in Clocks /\ Timed(NowRead(c))
         /\ Extended => NowRead(c).lower = counter
         /\ NowRead(c).list = c.list /\ NowRead(c).base = c.base /\ NowRead(c).last = c.last
         /\ NowRead(c).blocked = c.blocked /\ NowRead(c).alarm = c.alarm
<1>1. CASE Extended
  <2>1. NowRead(c) = [c EXCEPT !.checkpoint = time, !.lower = counter]
    BY <1>1 DEF NowRead, Timed, Clocks
  <2>2. /\ NowRead(c).checkpoint = time /\ NowRead(c).lower = counter
        /\ NowRead(c) \in Clocks
    BY <2>1 DEF Clocks, Timed
  <2>3. AddModulo(counter, counter) = 0 /\ (time + 0) % ClockWord = time
    <3>1. ClockWord \in Nat /\ time \in 0 .. ClockWord - 1 /\ counter \in Nat
      BY TimerAssumption DEF TimerAssumption, Timed, Words
    <3>2. time + 0 = time /\ time \in -ClockWord .. 2 * ClockWord - 1
      BY <3>1
    <3> QED BY <3>1, <3>2, WordOf DEF AddModulo
  <2> QED BY <1>1, <2>1, <2>2, <2>3 DEF Now, Timed, Clocks
<1>2. CASE ~Extended
  BY <1>2 DEF NowRead, Now, Timed
<1> QED BY <1>1, <1>2

(* _ztimer_update_head_offset() takes the time since the base from every    *)
(* timer that has it left.                                                  *)
LEMMA UpdateHeadIs ==
  ASSUME NEW c \in Clocks, Timed(c)
  PROVE  LET u == UpdateHead(c)
         IN /\ u \in Clocks /\ Timed(u) /\ (Extended => u.lower = counter)
            /\ u.base = time /\ u.last = c.last /\ u.blocked = c.blocked /\ u.alarm = c.alarm
            /\ Len(u.list) = Len(c.list)
            /\ \A i \in 1 .. Len(c.list) : u.list[i].timer = c.list[i].timer
            /\ \A i \in 0 .. Len(c.list) :
                 Target(u.list)[i] = NonNegative(Target(c.list)[i] - Since(c))
<1> DEFINE m == Len(c.list)
           T == Target(c.list)
           Rest(i) == NonNegative(T[i] - Since(c))
           r == NowRead(c)
           l == [i \in 1 .. m |-> [timer |-> c.list[i].timer, offset |-> Rest(i) - Rest(i - 1)]]
           u == UpdateHead(c)
<1>1. /\ m \in Nat /\ DOMAIN c.list = 1 .. m /\ c.list \in Seq(Links)
      /\ \A i \in 1 .. m : c.list[i] \in Links
  BY LenProperties, ElementOfSeq DEF Clocks
<1>2. T \in [0 .. m -> Nat] /\ T[0] = 0
  BY <1>1, TargetOf
<1>3. Since(c) \in Nat
  <2>1. ClockWord \in Nat \ {0} /\ time \in Int /\ c.base \in Int
    <3>1. ClockWord \in Nat \ {0} /\ time \in Words /\ c.base \in Words
      BY TimerAssumption DEF TimerAssumption, Timed, Clocks
    <3> QED BY <3>1 DEF Words
  <2> QED BY <2>1 DEF Since
<1>4. u = [r EXCEPT !.list = l, !.base = time]
  <2>1. r.list = c.list /\ Now(c) = time
    BY Reads
  <2> QED BY <1>1, <2>1 DEF UpdateHead, Since
<1>5. \A i \in 1 .. m : i \in 0 .. m /\ i - 1 \in 0 .. m /\ i - 1 <= i
  BY <1>1
<1>6. ASSUME NEW i \in 1 .. m
      PROVE  Rest(i) - Rest(i - 1) \in Nat
  <2>1. T[i - 1] \in Nat /\ T[i] \in Nat /\ T[i - 1] <= T[i]
    BY <1>1, <1>2, <1>5, TargetGrows
  <2> HIDE DEF T
  <2> QED BY <1>3, <2>1 DEF NonNegative
<1>7. l \in Seq(Links) /\ Len(l) = m
  <2>1. l \in [1 .. m -> Links]
    BY <1>1, <1>6 DEF Links
  <2> HIDE DEF l, m
  <2> QED BY <1>1, <2>1, IsList
<1>8. \A i \in 0 .. m : Target(l)[i] = Rest(i)
  <2> DEFINE g == [i \in 0 .. m |-> Rest(i)]
  <2>1. g[0] = 0
    <3>1. 0 \in 0 .. m /\ Rest(0) = 0
      BY <1>1, <1>2, <1>3 DEF NonNegative
    <3> QED BY <3>1
  <2>2. ASSUME NEW i \in 1 .. m PROVE g[i] = g[i - 1] + l[i].offset
    <3>1. g[i] = Rest(i) /\ g[i - 1] = Rest(i - 1) /\ l[i].offset = Rest(i) - Rest(i - 1)
      BY <1>5
    <3>2. Rest(i) \in Int /\ Rest(i - 1) \in Int
      <4>1. T[i] \in Nat /\ T[i - 1] \in Nat
        BY <1>2, <1>5
      <4> HIDE DEF T
      <4> QED BY <1>3, <4>1 DEF NonNegative
    <3> HIDE DEF g, l, Rest
    <3> QED BY <3>1, <3>2
  <2>3. \A i \in 0 .. m : Target(l)[i] = g[i]
    <3> HIDE DEF g, l, Rest
    <3>1. l \in Seq(Links) /\ Len(l) = m
      BY <1>7
    <3> HIDE DEF m
    <3>2. g[0] = 0 /\ \A i \in 1 .. Len(l) : g[i] = g[i - 1] + l[i].offset
      BY <2>1, <2>2, <3>1
    <3>3. \A i \in 0 .. Len(l) : Target(l)[i] = g[i]
      BY <3>1, <3>2, TargetIs
    <3> QED BY <3>1, <3>3
  <2> QED BY <2>3
<1>9. /\ r \in Clocks /\ Timed(r) /\ (Extended => r.lower = counter)
      /\ r.last = c.last /\ r.blocked = c.blocked /\ r.alarm = c.alarm
  BY Reads
<1>10. time \in Words
  BY DEF Timed
<1>11. \A i \in 1 .. m : l[i].timer = c.list[i].timer
  OBVIOUS
<1> HIDE DEF l, r, u, T
<1>12. /\ u \in Clocks /\ u.list = l /\ u.base = time /\ u.last = c.last
       /\ u.blocked = c.blocked /\ u.alarm = c.alarm
       /\ u.lower = r.lower /\ u.checkpoint = r.checkpoint
  BY <1>4, <1>7, <1>9, <1>10 DEF Clocks
<1>13. Timed(u) /\ (Extended => u.lower = counter)
  BY <1>9, <1>12 DEF Timed
<1> QED BY <1>7, <1>8, <1>11, <1>12, <1>13 DEF u, T

(* _del_entry_from_list() leaves the other timers their time.               *)
LEMMA DelIs ==
  ASSUME NEW c \in Clocks, NEW t \in Timers, NEW n \in 1 .. Len(c.list), c.list[n].timer = t,
         \A i \in 1 .. Len(c.list) : c.list[i].timer = t => i = n
  PROVE  LET d == Del(c, t)
             m == Len(c.list)
         IN /\ d \in Clocks /\ d.base = c.base /\ d.checkpoint = c.checkpoint
            /\ d.lower = c.lower /\ d.alarm = c.alarm /\ Len(d.list) = m - 1
            /\ d.last = IF n < m THEN c.last ELSE IF n = 1 THEN NoTimer ELSE c.list[n - 1].timer
            /\ d.blocked = IF m = 1 THEN c.blocked - 1 ELSE c.blocked
            /\ \A i \in 1 .. m - 1 :
                 d.list[i].timer = IF i < n THEN c.list[i].timer ELSE c.list[i + 1].timer
            /\ \A i \in 0 .. m - 1 :
                 Target(d.list)[i] = IF i < n THEN Target(c.list)[i] ELSE Target(c.list)[i + 1]
<1> DEFINE m == Len(c.list)
           T == Target(c.list)
           l == [i \in 1 .. m - 1 |->
                   IF i < n THEN c.list[i]
                   ELSE IF i > n THEN c.list[i + 1]
                   ELSE [c.list[i + 1] EXCEPT !.offset = @ + c.list[n].offset]]
           e == IF n < m THEN c.last ELSE IF n = 1 THEN NoTimer ELSE c.list[n - 1].timer
           g == [i \in 0 .. m - 1 |-> IF i < n THEN T[i] ELSE T[i + 1]]
           d == Del(c, t)
<1>1. /\ m \in Nat /\ n \in 1 .. m /\ DOMAIN c.list = 1 .. m /\ c.list \in Seq(Links)
      /\ \A i \in 1 .. m : c.list[i] \in Links
  BY LenProperties, ElementOfSeq DEF Clocks
<1>2. T \in [0 .. m -> Nat] /\ T[0] = 0 /\ \A i \in 1 .. m : T[i] = T[i - 1] + c.list[i].offset
  BY <1>1, TargetOf
<1>3. (CHOOSE i \in DOMAIN c.list : c.list[i].timer = t) = n
  BY <1>1
<1>4. d = Unblocks([c EXCEPT !.list = l, !.last = e])
  <2> DEFINE Later(x, y) == [y EXCEPT !.offset = @ + c.list[x].offset]
             L(x) == [i \in 1 .. m - 1 |->
                        IF i < x THEN c.list[i]
                        ELSE IF i > x THEN c.list[i + 1] ELSE Later(x, c.list[i + 1])]
             E(x) == IF x < m THEN c.last ELSE IF x = 1 THEN NoTimer ELSE c.list[x - 1].timer
             j == CHOOSE i \in DOMAIN c.list : c.list[i].timer = t
  <2>1. d = Unblocks([c EXCEPT !.list = L(j), !.last = E(j)])
    BY DEF Del, Clocks
  <2>2. L(n) = l /\ E(n) = e
    OBVIOUS
  <2> HIDE DEF L, E
  <2> QED BY <1>3, <2>1, <2>2
<1>5. l \in Seq(Links) /\ Len(l) = m - 1
  <2>1. ASSUME NEW i \in 1 .. m - 1 PROVE l[i] \in Links
    <3>1. i \in 1 .. m /\ i + 1 \in 1 .. m
      BY <1>1
    <3>2. c.list[i] \in Links /\ c.list[i + 1] \in Links /\ c.list[n] \in Links
      BY <1>1, <3>1
    <3>3. [c.list[i + 1] EXCEPT !.offset = @ + c.list[n].offset] \in Links
      BY <3>2 DEF Links
    <3>4. \/ l[i] = c.list[i] \/ l[i] = c.list[i + 1]
          \/ l[i] = [c.list[i + 1] EXCEPT !.offset = @ + c.list[n].offset]
      OBVIOUS
    <3> HIDE DEF l
    <3> QED BY <3>2, <3>3, <3>4
  <2>2. l = [i \in 1 .. m - 1 |-> l[i]] /\ m - 1 \in Nat
    BY <1>1
  <2> HIDE DEF l
  <2>3. l \in [1 .. m - 1 -> Links]
    BY <2>1, <2>2
  <2> QED BY <2>2, <2>3, IsList
<1>6. \A i \in 0 .. m - 1 : Target(l)[i] = g[i]
  <2>1. g[0] = 0
    BY <1>1, <1>2
  <2>2. ASSUME NEW i \in 1 .. m - 1 PROVE g[i] = g[i - 1] + l[i].offset
    <3>1. i \in 1 .. m /\ i + 1 \in 1 .. m /\ i - 1 \in 0 .. m - 1 /\ i \in 0 .. m - 1
      BY <1>1
    <3>2. /\ T[i] = T[i - 1] + c.list[i].offset /\ T[i + 1] = T[i] + c.list[i + 1].offset
          /\ T[i] \in Nat /\ T[i - 1] \in Nat /\ T[i + 1] \in Nat
      <4>1. (i + 1) - 1 = i /\ i - 1 \in 0 .. m /\ i \in 0 .. m /\ i + 1 \in 0 .. m
        BY <1>1
      <4> QED BY <1>2, <3>1, <4>1
    <3>3. /\ c.list[i].offset \in Nat /\ c.list[i + 1].offset \in Nat
          /\ c.list[i + 1] \in Links
      BY <1>1, <3>1 DEF Links
    <3>4. /\ g[i] = IF i < n THEN T[i] ELSE T[i + 1]
          /\ g[i - 1] = IF i - 1 < n THEN T[i - 1] ELSE T[i]
      <4>1. (i - 1) + 1 = i
        OBVIOUS
      <4> QED BY <3>1, <4>1
    <3>5. CASE i < n
      <4>1. l[i] = c.list[i] /\ i - 1 < n
        BY <1>1, <3>5
      <4> HIDE DEF T, g, l
      <4> QED BY <3>2, <3>4, <3>5, <4>1
    <3>6. CASE i = n
      <4>1. l[i] = [c.list[i + 1] EXCEPT !.offset = @ + c.list[n].offset]
        BY <1>1, <3>6
      <4>2. l[i].offset = c.list[i + 1].offset + c.list[i].offset /\ i - 1 < n /\ ~(i < n)
        <5>1. l[i].offset = c.list[i + 1].offset + c.list[n].offset
          <6> HIDE DEF l
          <6> QED BY <3>3, <4>1 DEF Links
        <5>2. c.list[n] = c.list[i] /\ i - 1 < n /\ ~(i < n)
          BY <1>1, <3>6
        <5> HIDE DEF l
        <5> QED BY <5>1, <5>2
      <4> HIDE DEF T, g, l
      <4>3. g[i] = T[i + 1] /\ g[i - 1] = T[i - 1]
        BY <3>4, <4>2
      <4>4. T[i + 1] = T[i - 1] + (c.list[i + 1].offset + c.list[i].offset)
        <5> DEFINE x == T[i - 1]
                   y == c.list[i].offset
                   z == c.list[i + 1].offset
        <5>1. T[i + 1] = (x + y) + z /\ x \in Nat /\ y \in Nat /\ z \in Nat
          BY <3>2, <3>3
        <5> HIDE DEF x, y, z
        <5>2. T[i + 1] = x + (z + y)
          BY <5>1
        <5> QED BY <5>2 DEF x, y, z
      <4> QED BY <4>2, <4>3, <4>4
    <3>7. CASE i > n
      <4>1. l[i] = c.list[i + 1] /\ ~(i < n) /\ ~(i - 1 < n)
        BY <1>1, <3>7
      <4> HIDE DEF T, g, l
      <4> QED BY <3>2, <3>4, <4>1
    <3> QED BY <1>1, <3>5, <3>6, <3>7
  <2> HIDE DEF g, l
  <2> QED BY <1>5, <2>1, <2>2, TargetIs
<1>7. ASSUME NEW i \in 1 .. m - 1
      PROVE  l[i].timer = IF i < n THEN c.list[i].timer ELSE c.list[i + 1].timer
  <2>1. c.list[i + 1] \in Links
    BY <1>1
  <2> QED BY <1>1, <2>1 DEF Links
<1>8. e \in Timers \cup {NoTimer}
  <2>1. n # 1 => c.list[n - 1] \in Links
    BY <1>1
  <2> QED BY <2>1 DEF Clocks, Links
<1>9. \A i \in 0 .. m - 1 : g[i] = IF i < n THEN T[i] ELSE T[i + 1]
  OBVIOUS
<1>10. l = <<>> <=> m = 1
  <2>1. l = <<>> <=> Len(l) = 0
    BY <1>5, EmptySeq
  <2> HIDE DEF l
  <2> QED BY <1>1, <1>5, <2>1
<1> HIDE DEF T, g, l, e
<1>11. /\ d \in Clocks /\ d.list = l /\ d.last = e /\ d.base = c.base /\ d.lower = c.lower
       /\ d.checkpoint = c.checkpoint /\ d.alarm = c.alarm
       /\ d.blocked = IF l = <<>> THEN c.blocked - 1 ELSE c.blocked
  <2> DEFINE b == [c EXCEPT !.list = l, !.last = e]
  <2>1. /\ b \in Clocks /\ b.list = l /\ b.last = e /\ b.base = c.base /\ b.lower = c.lower
        /\ b.checkpoint = c.checkpoint /\ b.alarm = c.alarm /\ b.blocked = c.blocked
    BY <1>5, <1>8 DEF Clocks
  <2>2. d = [b EXCEPT !.blocked = IF l = <<>> THEN b.blocked - 1 ELSE b.blocked]
    BY <1>4, <2>1 DEF Unblocks, Clocks
  <2> DEFINE k == IF l = <<>> THEN c.blocked - 1 ELSE c.blocked
  <2>3. k \in Int /\ d = [b EXCEPT !.blocked = k]
    BY <2>1, <2>2 DEF Clocks
  <2>4. k = IF l = <<>> THEN c.blocked - 1 ELSE c.blocked
    OBVIOUS
  <2> HIDE DEF b, d, k
  <2> QED BY <2>1, <2>3, <2>4 DEF Clocks
<1> HIDE DEF d
<1> QED BY <1>5, <1>6, <1>7, <1>9, <1>10, <1>11 DEF d, e, T

(* _add_entry_to_list() puts a timer in its turn and leaves the others their *)
(* time.                                                                    *)
LEMMA AddIs ==
  ASSUME NEW c \in Clocks, NEW t \in Timers, NEW val \in Nat
  PROVE  LET a == Add(c, t, val)
             m == Len(c.list)
         IN /\ a \in Clocks /\ a.base = c.base /\ a.checkpoint = c.checkpoint
            /\ a.lower = c.lower /\ a.alarm = c.alarm /\ Len(a.list) = m + 1
            /\ a.blocked = IF m = 0 THEN c.blocked + 1 ELSE c.blocked
            /\ \E n : /\ IsTurn(c.list, n, val)
                      /\ a.last = IF n = m THEN t ELSE c.last
                      /\ \A i \in 1 .. m + 1 :
                           a.list[i].timer = IF i <= n THEN c.list[i].timer
                                             ELSE IF i = n + 1 THEN t ELSE c.list[i - 1].timer
                      /\ \A i \in 0 .. m + 1 :
                           Target(a.list)[i] = IF i <= n THEN Target(c.list)[i]
                                               ELSE IF i = n + 1 THEN val ELSE Target(c.list)[i - 1]
<1> DEFINE m == Len(c.list)
           T == Target(c.list)
           a == Add(c, t, val)
           Turns(j) == j \in 0 .. m /\ T[j] <= val /\ (j < m => T[j + 1] > val)
           n == CHOOSE j \in 0 .. m : T[j] <= val /\ (j < m => T[j + 1] > val)
<1>1. /\ m \in Nat /\ DOMAIN c.list = 1 .. m /\ c.list \in Seq(Links)
      /\ \A i \in 1 .. m : c.list[i] \in Links
  BY LenProperties, ElementOfSeq DEF Clocks
<1>2. T \in [0 .. m -> Nat] /\ T[0] = 0 /\ \A i \in 1 .. m : T[i] = T[i - 1] + c.list[i].offset
  BY <1>1, TargetOf
<1>3. Turns(n)
  <2>1. PICK j : IsTurn(c.list, j, val)
    BY <1>1, TurnExists
  <2>2. Turns(j)
    BY <2>1 DEF IsTurn
  <2> QED BY <2>2
<1> DEFINE entry == [timer |-> t, offset |-> val - T[n]]
           Sooner(e) == [e EXCEPT !.offset = @ - entry.offset]
           l == [i \in 1 .. m + 1 |->
                   IF i <= n THEN c.list[i]
                   ELSE IF i = n + 1 THEN entry
                   ELSE IF i = n + 2 THEN Sooner(c.list[n + 1])
                   ELSE c.list[i - 1]]
           e == IF n = m THEN t ELSE c.last
           g == [i \in 0 .. m + 1 |-> IF i <= n THEN T[i] ELSE IF i = n + 1 THEN val ELSE T[i - 1]]
           b == Blocks(c)
<1>4. b = [c EXCEPT !.blocked = IF c.list = <<>> THEN c.blocked + 1 ELSE c.blocked]
  BY DEF Blocks, Clocks
<1>5. b.list = c.list /\ b.last = c.last
  BY <1>4 DEF Clocks
<1>6. a = [b EXCEPT !.list = l, !.last = e]
  <2> HIDE DEF b, n
  <2>1. a = [b EXCEPT !.list = [i \in 1 .. m + 1 |->
                                  IF i <= n THEN b.list[i]
                                  ELSE IF i = n + 1 THEN entry
                                  ELSE IF i = n + 2 THEN Sooner(b.list[n + 1])
                                  ELSE b.list[i - 1]],
                      !.last = IF n = m THEN t ELSE b.last]
    BY DEF Add, b, n, Blocks
  <2> QED BY <1>5, <2>1
<1> HIDE DEF T, n
<1>7. /\ n \in 0 .. m /\ T[n] \in Nat /\ T[n] <= val /\ entry.offset = val - T[n]
      /\ entry.offset \in Nat /\ entry \in Links
      /\ n < m => /\ c.list[n + 1] \in Links /\ T[n + 1] \in Nat /\ T[n + 1] > val
                  /\ T[n + 1] = T[n] + c.list[n + 1].offset
  <2>1. n \in 0 .. m /\ T[n] \in Nat /\ T[n] <= val /\ (n < m => T[n + 1] > val)
    BY <1>2, <1>3
  <2>2. val - T[n] \in Nat
    BY <2>1
  <2>3. ASSUME n < m
        PROVE  /\ c.list[n + 1] \in Links /\ T[n + 1] \in Nat
               /\ T[n + 1] = T[n] + c.list[n + 1].offset
    <3>1. n + 1 \in 1 .. m /\ n + 1 \in 0 .. m /\ (n + 1) - 1 = n
      BY <1>1, <2>1, <2>3
    <3> QED BY <1>1, <1>2, <3>1
  <2> QED BY <2>1, <2>2, <2>3 DEF Links
<1>8. n < m => /\ Sooner(c.list[n + 1]) \in Links
               /\ Sooner(c.list[n + 1]).offset = c.list[n + 1].offset - entry.offset
               /\ Sooner(c.list[n + 1]).timer = c.list[n + 1].timer
  <2> SUFFICES ASSUME n < m
               PROVE  /\ Sooner(c.list[n + 1]) \in Links
                      /\ Sooner(c.list[n + 1]).offset = c.list[n + 1].offset - entry.offset
                      /\ Sooner(c.list[n + 1]).timer = c.list[n + 1].timer
    OBVIOUS
  <2>1. c.list[n + 1] \in [timer : Timers, offset : Nat]
    BY <1>7 DEF Links
  <2> HIDE DEF entry
  <2>2. c.list[n + 1].offset - entry.offset \in Nat
    <3>1. /\ c.list[n + 1].offset \in Nat /\ T[n] \in Nat /\ T[n + 1] \in Nat
          /\ entry.offset = val - T[n] /\ T[n + 1] > val
          /\ T[n + 1] = T[n] + c.list[n + 1].offset
      BY <1>7, <2>1
    <3> QED BY <3>1
  <2> QED BY <2>1, <2>2 DEF Links
<1> HIDE DEF entry, Sooner
<1>9. \A i \in 1 .. m + 1 :
        /\ i <= n => l[i] = c.list[i] /\ i \in 1 .. m
        /\ i = n + 1 => l[i] = entry
        /\ i = n + 2 => l[i] = Sooner(c.list[n + 1]) /\ n < m /\ i - 1 = n + 1
        /\ i > n + 2 => l[i] = c.list[i - 1] /\ i - 1 \in 1 .. m
        /\ i <= n \/ i = n + 1 \/ i = n + 2 \/ i > n + 2
  BY <1>1, <1>7
<1>10. l \in Seq(Links) /\ Len(l) = m + 1
  <2>1. l = [i \in 1 .. m + 1 |-> l[i]]
    OBVIOUS
  <2> HIDE DEF l
  <2>2. ASSUME NEW i \in 1 .. m + 1 PROVE l[i] \in Links
    BY <1>1, <1>7, <1>8, <1>9
  <2>3. l \in [1 .. m + 1 -> Links]
    BY <2>1, <2>2
  <2>4. m + 1 \in Nat
    BY <1>1
  <2> QED BY <2>3, <2>4, IsList
<1>11. \A i \in 0 .. m + 1 :
         /\ g[i] = IF i <= n THEN T[i] ELSE IF i = n + 1 THEN val ELSE T[i - 1]
         /\ i <= n => g[i] = T[i]
         /\ i = n + 1 => g[i] = val
         /\ i > n + 1 => g[i] = T[i - 1]
  BY <1>7
<1>12. \A i \in 0 .. m + 1 : Target(l)[i] = g[i]
  <2>1. g[0] = 0
    BY <1>1, <1>2, <1>7
  <2>2. ASSUME NEW i \in 1 .. m + 1 PROVE g[i] = g[i - 1] + l[i].offset
    <3>1. /\ i \in 0 .. m + 1 /\ i - 1 \in 0 .. m + 1 /\ n \in Nat /\ i \in Nat
          /\ val \in Nat /\ (i > n + 2 => i - 1 \in 1 .. m)
      BY <1>1, <1>7
    <3> HIDE DEF g, l
    <3>2. CASE i <= n
      <4>1. l[i] = c.list[i] /\ i \in 1 .. m /\ i - 1 <= n
        BY <1>9, <3>1, <3>2
      <4>2. g[i] = T[i] /\ g[i - 1] = T[i - 1]
        BY <1>11, <3>1, <3>2, <4>1
      <4> QED BY <1>2, <4>1, <4>2
    <3>3. CASE i = n + 1
      <4>1. l[i] = entry /\ i - 1 = n /\ i - 1 <= n
        BY <1>9, <3>1, <3>3
      <4>2. g[i] = val /\ g[i - 1] = T[n]
        BY <1>11, <3>1, <3>3, <4>1
      <4> QED BY <1>7, <3>1, <4>1, <4>2
    <3>4. CASE i = n + 2
      <4>1. l[i] = Sooner(c.list[n + 1]) /\ n < m /\ i - 1 = n + 1 /\ i > n + 1
        BY <1>9, <3>1, <3>4
      <4>2. g[i] = T[n + 1] /\ g[i - 1] = val
        BY <1>11, <3>1, <4>1
      <4>3. l[i].offset = c.list[n + 1].offset - entry.offset /\ c.list[n + 1].offset \in Nat
        BY <1>7, <1>8, <4>1 DEF Links
      <4> QED BY <1>7, <3>1, <4>1, <4>2, <4>3
    <3>5. CASE i > n + 2
      <4>1. l[i] = c.list[i - 1] /\ i - 1 \in 1 .. m /\ i - 1 > n + 1 /\ i > n + 1
        BY <1>9, <3>1, <3>5
      <4>2. g[i] = T[i - 1] /\ g[i - 1] = T[(i - 1) - 1]
        BY <1>11, <3>1, <4>1
      <4> QED BY <1>2, <4>1, <4>2
    <3> QED BY <3>1, <3>2, <3>3, <3>4, <3>5
  <2> HIDE DEF g, l
  <2> QED BY <1>10, <2>1, <2>2, TargetIs
<1>13. ASSUME NEW i \in 1 .. m + 1
       PROVE  l[i].timer = IF i <= n THEN c.list[i].timer
                           ELSE IF i = n + 1 THEN t ELSE c.list[i - 1].timer
  <2>1. i \in Nat /\ n \in Nat /\ entry.timer = t
    BY <1>1, <1>7 DEF entry
  <2> HIDE DEF l
  <2>2. CASE i <= n
    BY <1>9, <2>2
  <2>3. CASE i = n + 1
    BY <1>9, <2>1, <2>3
  <2>4. CASE i = n + 2
    <3>1. l[i].timer = c.list[n + 1].timer /\ i - 1 = n + 1
      BY <1>8, <1>9, <2>4
    <3> QED BY <2>1, <2>4, <3>1
  <2>5. CASE i > n + 2
    <3>1. l[i] = c.list[i - 1]
      BY <1>9, <2>5
    <3> QED BY <2>1, <2>5, <3>1
  <2> QED BY <1>9, <2>2, <2>3, <2>4, <2>5
<1>14. b.list = <<>> <=> m = 0
  <2>1. c.list = <<>> <=> Len(c.list) = 0
    BY <1>1, EmptySeq
  <2> QED BY <1>5, <2>1
<1>15. e \in Timers \cup {NoTimer}
  BY DEF Clocks
<1> HIDE DEF l, e, g
<1>16. /\ a \in Clocks /\ a.list = l /\ a.last = e /\ a.base = c.base /\ a.lower = c.lower
       /\ a.checkpoint = c.checkpoint /\ a.alarm = c.alarm
       /\ a.blocked = IF m = 0 THEN c.blocked + 1 ELSE c.blocked
  <2>1. /\ b \in Clocks /\ b.base = c.base /\ b.lower = c.lower /\ b.checkpoint = c.checkpoint
        /\ b.alarm = c.alarm /\ b.blocked = IF m = 0 THEN c.blocked + 1 ELSE c.blocked
    BY <1>4, <1>5, <1>14 DEF Clocks
  <2> HIDE DEF a, b
  <2> QED BY <1>6, <1>10, <1>15, <2>1 DEF Clocks
<1>17. IsTurn(c.list, n, val)
  BY <1>3, <1>7 DEF IsTurn, T
<1>18. /\ a.last = IF n = m THEN t ELSE c.last
       /\ \A i \in 1 .. m + 1 :
            a.list[i].timer = IF i <= n THEN c.list[i].timer
                              ELSE IF i = n + 1 THEN t ELSE c.list[i - 1].timer
       /\ \A i \in 0 .. m + 1 :
            Target(a.list)[i] = IF i <= n THEN Target(c.list)[i]
                                ELSE IF i = n + 1 THEN val ELSE Target(c.list)[i - 1]
  <2> HIDE DEF a
  <2>1. a.last = IF n = m THEN t ELSE c.last
    BY <1>16 DEF e
  <2>2. \A i \in 0 .. m + 1 : Target(a.list)[i] = g[i]
    BY <1>12, <1>16
  <2>3. \A i \in 0 .. m + 1 :
            Target(a.list)[i] = IF i <= n THEN T[i] ELSE IF i = n + 1 THEN val ELSE T[i - 1]
    BY <1>11, <2>2
  <2> QED BY <1>13, <1>16, <2>1, <2>3 DEF T
<1> HIDE DEF a
<1>19. Len(a.list) = m + 1
  BY <1>10, <1>16
<1> QED BY <1>16, <1>17, <1>18, <1>19 DEF a

(* _now_next() takes the first timers and leaves the others their time, if  *)
(* the last one taken is due.                                               *)
LEMMA PoppedIs ==
  ASSUME NEW c \in Clocks, NEW n \in 0 .. Len(c.list), Target(c.list)[n] = 0
  PROVE  LET p == Popped(c, n)
             m == Len(c.list)
         IN /\ p \in Clocks /\ p.base = c.base /\ p.checkpoint = c.checkpoint
            /\ p.lower = c.lower /\ p.alarm = c.alarm /\ Len(p.list) = m - n
            /\ p.last = IF n > 0 /\ n = m THEN NoTimer ELSE c.last
            /\ p.blocked = IF n > 0 /\ n = m THEN c.blocked - 1 ELSE c.blocked
            /\ \A i \in 1 .. m - n : p.list[i].timer = c.list[n + i].timer
            /\ \A i \in 0 .. m - n : Target(p.list)[i] = Target(c.list)[n + i]
<1> DEFINE m == Len(c.list)
           T == Target(c.list)
           l == SubSeq(c.list, n + 1, m)
           e == IF n = m THEN NoTimer ELSE c.last
           g == [i \in 0 .. m - n |-> T[n + i]]
           p == Popped(c, n)
<1>1. /\ m \in Nat /\ n \in 0 .. m /\ c.list \in Seq(Links)
      /\ \A i \in 1 .. m : c.list[i] \in Links
  BY LenProperties, ElementOfSeq DEF Clocks
<1>2. T \in [0 .. m -> Nat] /\ T[n] = 0 /\ \A i \in 1 .. m : T[i] = T[i - 1] + c.list[i].offset
  BY <1>1, TargetOf
<1>3. CASE n = 0
  <2>1. p = c
    BY <1>3 DEF Popped
  <2>2. \A i \in 0 .. m : n + i = i
    BY <1>1, <1>3
  <2> HIDE DEF p
  <2> QED BY <1>1, <1>3, <2>1, <2>2 DEF p
<1>4. CASE n # 0
  <2>1. l \in Seq(Links) /\ Len(l) = m - n /\ \A i \in 1 .. m - n : l[i] = c.list[n + i]
    <3>1. \A i \in n + 1 .. m : c.list[i] \in Links
      BY <1>1
    <3>2. n + 1 \in Int /\ m \in Int
      BY <1>1
    <3>3. /\ l \in Seq(Links) /\ Len(l) = IF n + 1 <= m THEN m - (n + 1) + 1 ELSE 0
          /\ \A i \in 1 .. m - (n + 1) + 1 : l[i] = c.list[(n + 1) + i - 1]
      BY <3>1, <3>2, SubSeqProperties
    <3> HIDE DEF l
    <3>4. m - (n + 1) + 1 = m - n /\ (IF n + 1 <= m THEN m - (n + 1) + 1 ELSE 0) = m - n
      BY <1>1
    <3>5. ASSUME NEW i \in 1 .. m - n PROVE l[i] = c.list[n + i]
      <4>1. i \in 1 .. m - (n + 1) + 1 /\ (n + 1) + i - 1 = n + i
        BY <1>1
      <4>2. l[i] = c.list[(n + 1) + i - 1]
        BY <3>3, <4>1
      <4> QED BY <4>1, <4>2
    <3> QED BY <3>3, <3>4, <3>5
  <2>2. \A i \in 0 .. m - n : Target(l)[i] = g[i]
    <3>1. g[0] = 0
      BY <1>1, <1>2
    <3>2. ASSUME NEW i \in 1 .. m - n PROVE g[i] = g[i - 1] + l[i].offset
      <4>1. /\ i \in 0 .. m - n /\ i - 1 \in 0 .. m - n /\ n + i \in 1 .. m
            /\ n + (i - 1) = (n + i) - 1
        BY <1>1
      <4>2. g[i] = T[n + i] /\ g[i - 1] = T[(n + i) - 1]
        BY <4>1
      <4>3. l[i] = c.list[n + i]
        BY <2>1
      <4> HIDE DEF g, l, T
      <4> QED BY <1>2, <4>1, <4>2, <4>3
    <3> HIDE DEF g, l, m
    <3>3. \A i \in 1 .. Len(l) : g[i] = g[i - 1] + l[i].offset
      BY <2>1, <3>2
    <3>4. \A i \in 0 .. Len(l) : Target(l)[i] = g[i]
      BY <2>1, <3>1, <3>3, TargetIs
    <3> QED BY <2>1, <3>4
  <2>3. p = Unblocks([c EXCEPT !.list = l, !.last = e])
    BY <1>4 DEF Popped, Clocks
  <2>4. l = <<>> <=> n = m
    <3>1. l = <<>> <=> Len(l) = 0
      BY <2>1, EmptySeq
    <3> HIDE DEF l
    <3> QED BY <1>1, <2>1, <3>1
  <2>5. e \in Timers \cup {NoTimer}
    BY DEF Clocks
  <2>6. \A i \in 0 .. m - n : g[i] = T[n + i]
    OBVIOUS
  <2>7. n > 0
    BY <1>1, <1>4
  <2> HIDE DEF l, e, p, g
  <2>8. /\ p \in Clocks /\ p.list = l /\ p.last = e /\ p.base = c.base /\ p.lower = c.lower
        /\ p.checkpoint = c.checkpoint /\ p.alarm = c.alarm
        /\ p.blocked = IF n = m THEN c.blocked - 1 ELSE c.blocked
    <3> DEFINE b == [c EXCEPT !.list = l, !.last = e]
    <3>1. /\ b \in Clocks /\ b.list = l /\ b.last = e /\ b.base = c.base /\ b.lower = c.lower
          /\ b.checkpoint = c.checkpoint /\ b.alarm = c.alarm /\ b.blocked = c.blocked
      BY <2>1, <2>5 DEF Clocks
    <3>2. p = [b EXCEPT !.blocked = IF l = <<>> THEN b.blocked - 1 ELSE b.blocked]
      BY <2>3, <3>1 DEF Unblocks, Clocks
    <3> HIDE DEF b
    <3> QED BY <2>4, <3>1, <3>2 DEF Clocks
  <2>9. /\ p.last = IF n > 0 /\ n = m THEN NoTimer ELSE c.last
        /\ p.blocked = IF n > 0 /\ n = m THEN c.blocked - 1 ELSE c.blocked
    BY <2>7, <2>8 DEF e
  <2>10. \A i \in 0 .. m - n : Target(p.list)[i] = T[n + i]
    BY <2>2, <2>6, <2>8
  <2>11. /\ Len(p.list) = m - n
         /\ \A i \in 1 .. m - n : p.list[i].timer = c.list[n + i].timer
    BY <2>1, <2>8
  <2> QED BY <2>8, <2>9, <2>10, <2>11 DEF p
<1> QED BY <1>3, <1>4

(* It takes as many as are due.                                             *)
LEMMA ExpiredIs ==
  ASSUME NEW c \in Clocks
  PROVE  /\ IsTurn(c.list, Expired(c), 0) /\ Expired(c) \in 0 .. Len(c.list)
         /\ Target(c.list)[Expired(c)] = 0
<1> DEFINE m == Len(c.list)
           T == Target(c.list)
           Is(n) == n \in 0 .. m /\ T[n] = 0 /\ (n < m => T[n + 1] > 0)
<1>1. c.list \in Seq(Links) /\ T \in [0 .. m -> Nat]
  BY TargetOf DEF Clocks
<1>2. \E n : Is(n)
  <2>1. PICK n : IsTurn(c.list, n, 0)
    BY <1>1, TurnExists
  <2>2. n \in 0 .. m /\ T[n] <= 0 /\ (n < m => T[n + 1] > 0)
    BY <2>1 DEF IsTurn
  <2>3. T[n] \in Nat
    BY <1>1, <2>2
  <2>4. T[n] = 0
    BY <2>2, <2>3
  <2> QED BY <2>2, <2>4
<1>3. Is(Expired(c))
  BY <1>2 DEF Expired
<1>4. T[Expired(c)] <= 0
  BY <1>3
<1> QED BY <1>3, <1>4 DEF IsTurn

(* Handling the first timer moves the base to its turn.                     *)
LEMMA AtTargetIs ==
  ASSUME NEW c \in Clocks, c.list # <<>>
  PROVE  LET a == AtTarget(c)
             m == Len(c.list)
         IN /\ a \in Clocks /\ a.base = (c.base + Target(c.list)[1]) % ClockWord
            /\ a.last = c.last /\ a.checkpoint = c.checkpoint /\ a.blocked = c.blocked
            /\ a.lower = c.lower /\ a.alarm = c.alarm /\ Len(a.list) = m
            /\ \A i \in 1 .. m : a.list[i].timer = c.list[i].timer
            /\ \A i \in 1 .. m : Target(a.list)[i] = Target(c.list)[i] - Target(c.list)[1]
            /\ Target(a.list)[0] = 0
<1> DEFINE m == Len(c.list)
           T == Target(c.list)
           l == [c.list EXCEPT ![1].offset = 0]
           g == [i \in 0 .. m |-> IF i = 0 THEN 0 ELSE T[i] - T[1]]
           a == AtTarget(c)
<1>1. /\ m \in Nat \ {0} /\ DOMAIN c.list = 1 .. m /\ c.list \in Seq(Links)
      /\ \A i \in 1 .. m : c.list[i] \in Links
  BY LenProperties, ElementOfSeq, EmptySeq DEF Clocks
<1>2. T \in [0 .. m -> Nat] /\ T[0] = 0 /\ \A i \in 1 .. m : T[i] = T[i - 1] + c.list[i].offset
  BY <1>1, TargetOf
<1>3. 1 \in 1 .. m /\ c.list[1] \in Links /\ T[1] = c.list[1].offset /\ T[1] \in Nat
  <2>1. 1 \in 1 .. m /\ 1 - 1 = 0
    BY <1>1
  <2>2. c.list[1] \in Links /\ c.list[1].offset \in Nat
    BY <1>1, <2>1 DEF Links
  <2>3. T[1] = T[1 - 1] + c.list[1].offset
    BY <1>2, <2>1
  <2>4. T[1 - 1] = 0
    BY <1>2, <2>1
  <2> HIDE DEF T
  <2> QED BY <2>1, <2>2, <2>3, <2>4
<1>4. /\ l \in Seq(Links) /\ Len(l) = m /\ l[1].offset = 0
      /\ \A i \in 1 .. m : l[i].timer = c.list[i].timer /\ (i # 1 => l[i] = c.list[i])
  <2>1. /\ [c.list[1] EXCEPT !.offset = 0] \in Links
        /\ [c.list[1] EXCEPT !.offset = 0].offset = 0
        /\ [c.list[1] EXCEPT !.offset = 0].timer = c.list[1].timer
    BY <1>3 DEF Links
  <2>2. l = [c.list EXCEPT ![1] = [c.list[1] EXCEPT !.offset = 0]]
    BY <1>1, <1>3
  <2> DEFINE x == [c.list[1] EXCEPT !.offset = 0]
  <2>3. /\ x \in Links /\ x.offset = 0 /\ x.timer = c.list[1].timer
        /\ l = [c.list EXCEPT ![1] = x]
    BY <2>1, <2>2
  <2> HIDE DEF x, l
  <2>4. /\ l \in Seq(Links) /\ Len(l) = m
        /\ \A i \in 1 .. m : l[i] = IF i = 1 THEN x ELSE c.list[i]
    BY <1>1, <1>3, <2>3, ExceptSeq
  <2> QED BY <1>3, <2>3, <2>4
<1>5. \A i \in 0 .. m : Target(l)[i] = g[i]
  <2>1. g[0] = 0
    BY <1>1
  <2>2. ASSUME NEW i \in 1 .. m PROVE g[i] = g[i - 1] + l[i].offset
    <3>1. /\ i \in 0 .. m /\ i - 1 \in 0 .. m /\ T[i] \in Nat /\ T[i - 1] \in Nat
          /\ c.list[i].offset \in Nat /\ T[i] = T[i - 1] + c.list[i].offset
      <4>1. i \in 0 .. m /\ i - 1 \in 0 .. m
        BY <1>1
      <4> QED BY <1>1, <1>2, <4>1 DEF Links
    <3>2. /\ g[i] = T[i] - T[1]
          /\ g[i - 1] = IF i - 1 = 0 THEN 0 ELSE T[i - 1] - T[1]
      BY <3>1
    <3>3. CASE i = 1
      <4>1. g[i] = T[1] - T[1] /\ g[i - 1] = 0 /\ l[i].offset = 0
        BY <1>4, <3>2, <3>3
      <4> HIDE DEF g, l, T
      <4> QED BY <1>3, <4>1
    <3>4. CASE i # 1
      <4>1. l[i] = c.list[i] /\ g[i - 1] = T[i - 1] - T[1]
        BY <1>4, <3>2, <3>4
      <4> HIDE DEF g, l, T
      <4> QED BY <1>3, <3>1, <3>2, <4>1
    <3> QED BY <3>3, <3>4
  <2> HIDE DEF g, l
  <2> QED BY <1>4, <2>1, <2>2, TargetIs
<1>6. a = [c EXCEPT !.base = (c.base + c.list[1].offset) % ClockWord, !.list = l]
  BY DEF AtTarget, Clocks
<1>7. (c.base + c.list[1].offset) % ClockWord \in Words
  <2>1. c.list[1].offset \in Nat
    BY <1>3
  <2>2. ClockWord \in Nat \ {0} /\ c.base \in Int
    BY TimerAssumption DEF TimerAssumption, Clocks, Words
  <2> QED BY <2>1, <2>2 DEF Words
<1>8. (\A i \in 1 .. m : g[i] = T[i] - T[1]) /\ g[0] = 0
  BY <1>1
<1>9. 0 \in 0 .. m /\ \A i \in 1 .. m : i \in 0 .. m
  BY <1>1
<1> HIDE DEF l, g, a
<1>10. /\ a \in Clocks /\ a.base = (c.base + c.list[1].offset) % ClockWord /\ a.list = l
       /\ a.last = c.last /\ a.checkpoint = c.checkpoint /\ a.blocked = c.blocked
       /\ a.lower = c.lower /\ a.alarm = c.alarm
  BY <1>4, <1>6, <1>7 DEF Clocks
<1>11. Target(a.list)[0] = 0 /\ \A i \in 1 .. m : Target(a.list)[i] = T[i] - T[1]
  BY <1>5, <1>8, <1>9, <1>10
<1>12. Len(a.list) = m /\ \A i \in 1 .. m : a.list[i].timer = c.list[i].timer
  BY <1>4, <1>10
<1> QED BY <1>3, <1>10, <1>11, <1>12 DEF a

-----------------------------------------------------------------------------
(* The invariant                                                            *)

(* What the list says of the timers: when each is due, in their order, none *)
(* twice; which one is the last; and whether the power mode is blocked.     *)
Exact(c, lf) ==
  /\ c \in Clocks
  /\ \A i \in 1 .. Len(c.list) :
       /\ Target(c.list)[i] <= MaxOffset
       /\ NonNegative(Target(c.list)[i] - Since(c)) = NonNegative(lf[c.list[i].timer])
  /\ \A i, j \in 1 .. Len(c.list) : i < j =>
       /\ c.list[i].timer # c.list[j].timer
       /\ lf[c.list[i].timer] <= lf[c.list[j].timer]
  /\ c.last = IF Len(c.list) = 0 THEN NoTimer ELSE c.list[Len(c.list)].timer
  /\ c.blocked = IF Len(c.list) = 0 THEN 0 ELSE 1

(* The alarm comes before the counter can go round since the last time it   *)
(* was read, and no later than the first timer; without checkpoints it comes *)
(* for the first timer only.                                                *)
Alarmed(c, lf) ==
  /\ c.alarm \in -Latency .. Off
  /\ Extended => c.alarm + AddModulo(counter, c.lower) <= MaxValue \div 2
  /\ \A i \in 1 .. Len(c.list) : c.alarm <= lf[c.list[i].timer]
  /\ Len(c.list) > 0 =>
       /\ c.alarm + Since(c) <= Target(c.list)[1]
       /\ ~Extended => NonNegative(c.alarm) = NonNegative(Target(c.list)[1] - Since(c))

Times == [Timers -> -Latency - 1 .. MaxOffset]
ClockInv == left \in Times /\ Timed(clk) /\ Exact(clk, left) /\ Alarmed(clk, left)

(* The time since the base is a number of ticks.                            *)
LEMMA SinceIs ==
  ASSUME NEW c \in Clocks, Timed(c)
  PROVE  /\ Since(c) \in Nat
         /\ Since(c) = IF time >= c.base THEN time - c.base ELSE time - c.base + ClockWord
<1>1. ClockWord \in Nat \ {0} /\ time \in 0 .. ClockWord - 1 /\ c.base \in 0 .. ClockWord - 1
  BY TimerAssumption DEF TimerAssumption, Timed, Clocks, Words
<1>2. time - c.base \in -ClockWord .. 2 * ClockWord - 1
  BY <1>1
<1>3. Since(c) = IF time - c.base < 0 THEN time - c.base + ClockWord
                 ELSE IF time - c.base < ClockWord THEN time - c.base
                 ELSE time - c.base - ClockWord
  BY <1>2, WordOf DEF Since
<1> QED BY <1>1, <1>3

(* Names for what Exact says of one timer, or of two.                       *)
LEMMA ExactHas ==
  ASSUME NEW lf \in Times, NEW c, Exact(c, lf)
  PROVE  /\ c \in Clocks /\ c.list \in Seq(Links) /\ Len(c.list) \in Nat
         /\ DOMAIN c.list = 1 .. Len(c.list)
         /\ Target(c.list) \in [0 .. Len(c.list) -> Nat] /\ Target(c.list)[0] = 0
         /\ \A i \in 1 .. Len(c.list) :
              c.list[i] \in Links /\ c.list[i].timer \in Timers /\ lf[c.list[i].timer] \in Int
         /\ \A i, j \in 1 .. Len(c.list) : c.list[i].timer = c.list[j].timer => i = j
<1>1. c \in Clocks /\ c.list \in Seq(Links)
  BY DEF Exact, Clocks
<1>2. /\ Len(c.list) \in Nat /\ DOMAIN c.list = 1 .. Len(c.list)
      /\ \A i \in 1 .. Len(c.list) : c.list[i] \in Links
  BY <1>1, LenProperties, ElementOfSeq
<1>3. \A i \in 1 .. Len(c.list) : c.list[i].timer \in Timers /\ lf[c.list[i].timer] \in Int
  <2>1. \A t \in Timers : lf[t] \in Int
    BY TimerAssumption DEF TimerAssumption, Times
  <2> QED BY <1>2, <2>1 DEF Links
<1>4. ASSUME NEW i \in 1 .. Len(c.list), NEW j \in 1 .. Len(c.list),
             c.list[i].timer = c.list[j].timer
      PROVE  i = j
  <2>1. ~(i < j) /\ ~(j < i)
    BY <1>4 DEF Exact
  <2> QED BY <1>2, <2>1
<1>5. Target(c.list) \in [0 .. Len(c.list) -> Nat] /\ Target(c.list)[0] = 0
  BY <1>1, TargetOf
<1> QED BY <1>1, <1>2, <1>3, <1>4, <1>5

(* A clock that is up to date: its base is now.                             *)
Fresh(c) == Timed(c) /\ c.base = time /\ (Extended => c.lower = counter)

(* No time has passed since its base.                                       *)
LEMMA FreshSince ==
  ASSUME NEW c \in Clocks, Fresh(c)
  PROVE  Since(c) = 0
<1>1. time \in Int /\ c.base = time
  BY TimerAssumption DEF TimerAssumption, Fresh, Timed, Words
<1> QED BY <1>1, SinceIs DEF Fresh

(* _ztimer_update_head_offset() brings the clock up to date, and the list   *)
(* says of every timer what it said.                                        *)
LEMMA UpdateHeadExact ==
  ASSUME NEW lf \in Times, NEW c, Exact(c, lf), Timed(c)
  PROVE  LET u == UpdateHead(c)
         IN /\ Exact(u, lf) /\ Fresh(u) /\ u.alarm = c.alarm /\ Len(u.list) = Len(c.list)
            /\ \A i \in 1 .. Len(c.list) : u.list[i].timer = c.list[i].timer
<1> DEFINE u == UpdateHead(c)
           m == Len(c.list)
<1>1. /\ u \in Clocks /\ Timed(u) /\ (Extended => u.lower = counter)
      /\ u.base = time /\ u.last = c.last /\ u.blocked = c.blocked /\ u.alarm = c.alarm
      /\ Len(u.list) = m
      /\ \A i \in 1 .. m : u.list[i].timer = c.list[i].timer
      /\ \A i \in 0 .. m : Target(u.list)[i] = NonNegative(Target(c.list)[i] - Since(c))
  BY ExactHas, UpdateHeadIs
<1> HIDE DEF u
<1>2. Fresh(u) /\ Since(u) = 0
  BY <1>1, FreshSince DEF Fresh
<1>3. ASSUME NEW i \in 1 .. m
      PROVE  /\ Target(u.list)[i] <= MaxOffset
             /\ NonNegative(Target(u.list)[i] - Since(u)) = NonNegative(lf[u.list[i].timer])
  <2>1. /\ i \in 0 .. m /\ Target(c.list)[i] \in Nat /\ Since(c) \in Nat /\ MaxOffset \in Nat
        /\ Target(c.list)[i] <= MaxOffset /\ lf[c.list[i].timer] \in Int
        /\ NonNegative(Target(c.list)[i] - Since(c)) = NonNegative(lf[c.list[i].timer])
    <3>1. i \in 0 .. m
      BY ExactHas
    <3>2. MaxOffset \in Nat /\ Since(c) \in Nat
      BY ExactHas, SinceIs, TimerAssumption DEF TimerAssumption
    <3> QED BY <3>1, <3>2, ExactHas DEF Exact
  <2>2. Target(u.list)[i] = NonNegative(Target(c.list)[i] - Since(c))
    BY <1>1, <2>1
  <2>3. /\ Target(u.list)[i] - 0 = Target(u.list)[i] /\ Target(u.list)[i] <= MaxOffset
        /\ Target(u.list)[i] \in Nat
    <3> DEFINE x == Target(c.list)[i]
               y == Target(u.list)[i]
    <3>1. x \in Nat /\ Since(c) \in Nat /\ MaxOffset \in Nat /\ x <= MaxOffset
      BY <2>1
    <3>2. y = NonNegative(x - Since(c))
      BY <2>2
    <3> HIDE DEF x, y
    <3>3. y - 0 = y /\ y <= MaxOffset /\ y \in Nat
      BY <3>1, <3>2 DEF NonNegative
    <3> QED BY <3>3 DEF y
  <2>4. NonNegative(Target(u.list)[i]) = Target(u.list)[i]
    BY <2>3 DEF NonNegative
  <2> QED BY <1>1, <1>2, <2>1, <2>2, <2>3, <2>4
<1>4. \A i, j \in 1 .. m : i < j =>
        /\ u.list[i].timer # u.list[j].timer
        /\ lf[u.list[i].timer] <= lf[u.list[j].timer]
  <2>1. \A i, j \in 1 .. m : i < j =>
          /\ c.list[i].timer # c.list[j].timer
          /\ lf[c.list[i].timer] <= lf[c.list[j].timer]
    BY DEF Exact
  <2> QED BY <1>1, <2>1
<1>5. /\ u.last = IF m = 0 THEN NoTimer ELSE u.list[m].timer
      /\ u.blocked = IF m = 0 THEN 0 ELSE 1
  <2>1. m # 0 => m \in 1 .. m
    BY ExactHas
  <2> QED BY <1>1, <2>1 DEF Exact
<1>6. Exact(u, lf)
  <2> HIDE DEF m
  <2> QED BY <1>1, <1>3, <1>4, <1>5 DEF Exact
<1> QED BY <1>1, <1>2, <1>6 DEF u

(* A list of n entries that keeps those of an exact one that k names, in     *)
(* their order, ...                                                         *)
Selects(d, c, lf, n, k) ==
  /\ d \in Clocks /\ Len(d.list) = n /\ k \in [1 .. n -> 1 .. Len(c.list)]
  /\ \A i, j \in 1 .. n : i < j => k[i] < k[j]
  /\ \A i \in 1 .. n :
       /\ d.list[i].timer = c.list[k[i]].timer /\ Target(d.list)[i] <= MaxOffset
       /\ NonNegative(Target(d.list)[i] - Since(d)) = NonNegative(lf[c.list[k[i]].timer])
  /\ d.last = IF n = 0 THEN NoTimer ELSE d.list[n].timer
  /\ d.blocked = IF n = 0 THEN 0 ELSE 1

(* ... is exact, too.                                                       *)
LEMMA Selected ==
  ASSUME NEW lf \in Times, NEW c, Exact(c, lf), NEW d, NEW n, NEW k, Selects(d, c, lf, n, k)
  PROVE  Exact(d, lf)
<1>1. ASSUME NEW i \in 1 .. n, NEW j \in 1 .. n, i < j
      PROVE  /\ d.list[i].timer # d.list[j].timer
             /\ lf[d.list[i].timer] <= lf[d.list[j].timer]
  <2>1. k[i] \in 1 .. Len(c.list) /\ k[j] \in 1 .. Len(c.list) /\ k[i] < k[j]
    BY <1>1 DEF Selects
  <2>2. /\ c.list[k[i]].timer # c.list[k[j]].timer
        /\ lf[c.list[k[i]].timer] <= lf[c.list[k[j]].timer]
    BY <2>1 DEF Exact
  <2> QED BY <2>2 DEF Selects
<1> QED BY <1>1 DEF Exact, Selects

(* Removing a timer changes nothing for the others.                         *)
LEMMA DelExact ==
  ASSUME NEW lf \in Times, NEW c, Exact(c, lf), NEW t \in Listed(c)
  PROVE  LET d == Del(c, t)
         IN /\ Exact(d, lf) /\ Listed(d) = Listed(c) \ {t} /\ Len(d.list) = Len(c.list) - 1
            /\ d.base = c.base /\ d.checkpoint = c.checkpoint /\ d.lower = c.lower
            /\ d.alarm = c.alarm
<1> DEFINE d == Del(c, t)
           m == Len(c.list)
<1>1. /\ c \in Clocks /\ m \in Nat /\ DOMAIN c.list = 1 .. m
      /\ \A i \in 1 .. m : c.list[i].timer \in Timers
      /\ \A i, j \in 1 .. m : c.list[i].timer = c.list[j].timer => i = j
  BY ExactHas
<1>2. PICK n \in 1 .. m : c.list[n].timer = t
  BY <1>1 DEF Listed
<1> DEFINE k == [i \in 1 .. m - 1 |-> IF i < n THEN i ELSE i + 1]
<1>3. t \in Timers /\ \A i \in 1 .. m : c.list[i].timer = t => i = n
  BY <1>1, <1>2
<1>4. /\ d \in Clocks /\ d.base = c.base /\ d.checkpoint = c.checkpoint
      /\ d.lower = c.lower /\ d.alarm = c.alarm /\ Len(d.list) = m - 1
      /\ d.last = IF n < m THEN c.last ELSE IF n = 1 THEN NoTimer ELSE c.list[n - 1].timer
      /\ d.blocked = IF m = 1 THEN c.blocked - 1 ELSE c.blocked
      /\ \A i \in 1 .. m - 1 :
           d.list[i].timer = IF i < n THEN c.list[i].timer ELSE c.list[i + 1].timer
      /\ \A i \in 0 .. m - 1 :
           Target(d.list)[i] = IF i < n THEN Target(c.list)[i] ELSE Target(c.list)[i + 1]
  <2>1. /\ c \in Clocks /\ t \in Timers /\ n \in 1 .. Len(c.list) /\ c.list[n].timer = t
        /\ \A i \in 1 .. Len(c.list) : c.list[i].timer = t => i = n
    BY <1>1, <1>2, <1>3
  <2> QED BY <2>1, DelIs
<1>5. n \in Nat /\ n >= 1 /\ n <= m
  BY <1>1
<1>6. /\ k \in [1 .. m - 1 -> 1 .. m] /\ \A i, j \in 1 .. m - 1 : i < j => k[i] < k[j]
      /\ \A i \in 1 .. m - 1 : k[i] = IF i < n THEN i ELSE i + 1
  BY <1>1, <1>5
<1> HIDE DEF d, k
<1>7. \A i \in 1 .. m - 1 :
        d.list[i].timer = c.list[k[i]].timer /\ Target(d.list)[i] = Target(c.list)[k[i]]
  <2>1. \A i \in 1 .. m - 1 : i \in 0 .. m - 1
    BY <1>1
  <2> QED BY <1>4, <1>6, <2>1
<1>8. Since(d) = Since(c)
  BY <1>4 DEF Since
<1>9. \A i \in 1 .. m - 1 :
        d.list[i].timer = c.list[k[i]].timer /\ Target(d.list)[i] <= MaxOffset
  <2>1. \A i \in 1 .. m - 1 : k[i] \in 1 .. m
    BY <1>6
  <2> QED BY <1>7, <2>1 DEF Exact
<1>10. \A i \in 1 .. m - 1 :
         NonNegative(Target(d.list)[i] - Since(d)) = NonNegative(lf[c.list[k[i]].timer])
  <2>1. \A i \in 1 .. m - 1 : k[i] \in 1 .. m
    BY <1>6
  <2> QED BY <1>7, <1>8, <2>1 DEF Exact
<1>11. /\ d.last = IF m - 1 = 0 THEN NoTimer ELSE d.list[m - 1].timer
       /\ d.blocked = IF m - 1 = 0 THEN 0 ELSE 1
  <2>1. /\ c.last = IF m = 0 THEN NoTimer ELSE c.list[m].timer
        /\ c.blocked = IF m = 0 THEN 0 ELSE 1
    BY DEF Exact
  <2>2. m # 0 /\ (m - 1 = 0 <=> m = 1) /\ (m - 1 = 0 => n = m /\ n = 1)
    BY <1>1, <1>5
  <2>3. d.blocked = IF m - 1 = 0 THEN 0 ELSE 1
    BY <1>4, <2>1, <2>2
  <2> HIDE DEF m
  <2>4. CASE m = 1
    <3>1. ~(n < m) /\ n = 1 /\ m - 1 = 0
      BY <1>5, <2>4
    <3>2. d.last = NoTimer
      BY <1>4, <3>1
    <3> QED BY <2>3, <3>1, <3>2
  <2>5. CASE m # 1
    <3>1. /\ m - 1 \in 1 .. m - 1 /\ (m - 1) + 1 = m
          /\ (n < m => ~(m - 1 < n)) /\ (~(n < m) => n = m /\ m - 1 < n /\ n # 1)
      BY <1>1, <1>5, <2>2, <2>5
    <3>2. d.list[m - 1].timer = IF m - 1 < n THEN c.list[m - 1].timer ELSE c.list[m].timer
      BY <1>4, <3>1
    <3> QED BY <1>4, <2>1, <2>2, <2>5, <3>1, <3>2
  <2> QED BY <2>3, <2>4, <2>5
<1>12. Exact(d, lf)
  <2>1. Selects(d, c, lf, m - 1, k)
    BY <1>4, <1>6, <1>9, <1>11, <1>10 DEF Selects
  <2> QED BY <2>1, Selected
<1>13. Listed(d) = Listed(c) \ {t}
  <2>1. DOMAIN d.list = 1 .. m - 1
    BY <1>4, <1>12, ExactHas
  <2>2. \A i \in 1 .. m - 1 : k[i] \in 1 .. m /\ k[i] # n
    BY <1>1, <1>5, <1>6
  <2>3. ASSUME NEW x \in Listed(d) PROVE x \in Listed(c) \ {t}
    <3>1. PICK i \in 1 .. m - 1 : x = d.list[i].timer
      BY <2>1 DEF Listed
    <3>2. x = c.list[k[i]].timer /\ k[i] \in 1 .. m /\ k[i] # n
      BY <1>7, <2>2, <3>1
    <3> QED BY <1>1, <1>3, <3>2 DEF Listed
  <2>4. ASSUME NEW x \in Listed(c) \ {t} PROVE x \in Listed(d)
    <3>1. PICK j \in 1 .. m : x = c.list[j].timer
      BY <1>1 DEF Listed
    <3>2. j # n
      BY <1>2, <2>4, <3>1
    <3> DEFINE i == IF j < n THEN j ELSE j - 1
    <3>3. i \in 1 .. m - 1 /\ (i < n => i = j) /\ (~(i < n) => i + 1 = j)
      BY <1>1, <1>5, <3>2
    <3> HIDE DEF i
    <3>4. k[i] = j
      BY <1>6, <3>3
    <3>5. d.list[i].timer = x
      BY <1>7, <3>1, <3>3, <3>4
    <3> QED BY <2>1, <3>3, <3>5 DEF Listed
  <2> QED BY <2>3, <2>4
<1> QED BY <1>4, <1>12, <1>13 DEF d

(* The timers that are called back are due; when the clock is up to date,   *)
(* those that stay in the list are not.                                     *)
LEMMA PoppedExact ==
  ASSUME NEW lf \in Times, NEW c, Exact(c, lf), Timed(c)
  PROVE  LET p == Popped(c, Expired(c))
         IN /\ Exact(p, lf) /\ p.base = c.base /\ p.checkpoint = c.checkpoint
            /\ p.lower = c.lower /\ p.alarm = c.alarm
            /\ Listed(p) \subseteq Listed(c) /\ \A x \in Listed(c) \ Listed(p) : lf[x] <= 0
            /\ Since(c) = 0 => \A x \in Listed(p) : lf[x] > 0
<1> DEFINE m == Len(c.list)
           n == Expired(c)
           T == Target(c.list)
           p == Popped(c, n)
           k == [i \in 1 .. m - n |-> n + i]
<1>1. /\ c \in Clocks /\ c.list \in Seq(Links) /\ m \in Nat /\ DOMAIN c.list = 1 .. m
      /\ T \in [0 .. m -> Nat]
      /\ \A i \in 1 .. m : c.list[i].timer \in Timers /\ lf[c.list[i].timer] \in Int
      /\ \A i, j \in 1 .. m : c.list[i].timer = c.list[j].timer => i = j
  BY ExactHas
<1>2. IsTurn(c.list, n, 0) /\ n \in 0 .. m /\ T[n] = 0
  BY <1>1, ExpiredIs
<1>3. /\ p \in Clocks /\ p.base = c.base /\ p.checkpoint = c.checkpoint
      /\ p.lower = c.lower /\ p.alarm = c.alarm /\ Len(p.list) = m - n
      /\ p.last = IF n > 0 /\ n = m THEN NoTimer ELSE c.last
      /\ p.blocked = IF n > 0 /\ n = m THEN c.blocked - 1 ELSE c.blocked
      /\ \A i \in 1 .. m - n : p.list[i].timer = c.list[n + i].timer
      /\ \A i \in 0 .. m - n : Target(p.list)[i] = T[n + i]
  BY <1>1, <1>2, PoppedIs
<1>4. (\A i \in 0 .. n : T[i] <= 0) /\ \A i \in n + 1 .. m : T[i] > 0
  BY <1>1, <1>2, TurnSplits
<1>5. Since(p) = Since(c) /\ Since(c) \in Nat
  BY <1>1, <1>3, SinceIs DEF Since
<1> HIDE DEF n, p, T
<1>6. /\ k \in [1 .. m - n -> 1 .. m] /\ \A i, j \in 1 .. m - n : i < j => k[i] < k[j]
      /\ \A i \in 1 .. m - n : k[i] = n + i
  BY <1>1, <1>2
<1> HIDE DEF k
<1>7. \A i \in 1 .. m - n :
        p.list[i].timer = c.list[k[i]].timer /\ Target(p.list)[i] = T[k[i]] /\ k[i] \in 1 .. m
  <2>1. \A i \in 1 .. m - n : i \in 0 .. m - n
    BY <1>1, <1>2
  <2> QED BY <1>3, <1>6, <2>1
<1>8. \A i \in 1 .. m : /\ T[i] <= MaxOffset
                        /\ NonNegative(T[i] - Since(c)) = NonNegative(lf[c.list[i].timer])
  BY DEF Exact, T
<1>9. /\ p.last = IF m - n = 0 THEN NoTimer ELSE p.list[m - n].timer
      /\ p.blocked = IF m - n = 0 THEN 0 ELSE 1
  <2>1. /\ c.last = IF m = 0 THEN NoTimer ELSE c.list[m].timer
        /\ c.blocked = IF m = 0 THEN 0 ELSE 1
    BY DEF Exact
  <2>2. m \in Nat /\ n \in Nat /\ n <= m
    BY <1>1, <1>2
  <2> HIDE DEF m
  <2>3. CASE n = m
    <3>1. m - n = 0 /\ (n > 0 <=> m # 0)
      BY <2>2, <2>3
    <3>2. p.last = NoTimer
      BY <1>3, <2>1, <2>3, <3>1
    <3>3. p.blocked = 0
      BY <1>3, <2>1, <2>3, <3>1
    <3> QED BY <3>1, <3>2, <3>3
  <2>4. CASE n # m
    <3>1. m - n # 0 /\ m # 0 /\ m - n \in 1 .. m - n /\ n + (m - n) = m
      BY <2>2, <2>4
    <3>2. p.last = c.last /\ p.blocked = c.blocked
      BY <1>3, <2>4
    <3>3. p.list[m - n].timer = c.list[m].timer
      BY <1>3, <3>1
    <3> QED BY <2>1, <3>1, <3>2, <3>3
  <2> QED BY <2>3, <2>4
<1>10. Exact(p, lf)
  <2>1. \A i \in 1 .. m - n :
          /\ p.list[i].timer = c.list[k[i]].timer /\ Target(p.list)[i] <= MaxOffset
          /\ NonNegative(Target(p.list)[i] - Since(p)) = NonNegative(lf[c.list[k[i]].timer])
    BY <1>5, <1>7, <1>8
  <2>2. Selects(p, c, lf, m - n, k)
    BY <1>3, <1>6, <1>9, <2>1 DEF Selects
  <2> QED BY <2>2, Selected
<1>11. DOMAIN p.list = 1 .. m - n
  BY <1>3, <1>10, ExactHas
<1>12. Listed(p) \subseteq Listed(c)
  BY <1>1, <1>7, <1>11 DEF Listed
<1>13. ASSUME NEW x \in Listed(c) \ Listed(p) PROVE lf[x] <= 0
  <2>1. PICK j \in 1 .. m : x = c.list[j].timer
    BY <1>1 DEF Listed
  <2>2. j <= n
    <3>1. SUFFICES ASSUME ~(j <= n) PROVE FALSE
      OBVIOUS
    <3>2. j - n \in 1 .. m - n /\ n + (j - n) = j
      BY <1>1, <1>2, <3>1
    <3>3. p.list[j - n].timer = x
      BY <1>3, <2>1, <3>2
    <3> QED BY <1>11, <1>13, <3>2, <3>3 DEF Listed
  <2>3. j \in 0 .. n /\ j \in 0 .. m
    BY <1>1, <1>2, <2>2
  <2>4. T[j] \in Nat /\ T[j] <= 0 /\ lf[x] \in Int
    BY <1>1, <1>4, <2>1, <2>3
  <2>5. NonNegative(T[j] - Since(c)) = NonNegative(lf[x])
    BY <1>8, <2>1
  <2> QED BY <1>5, <2>4, <2>5 DEF NonNegative
<1>14. ASSUME Since(c) = 0, NEW x \in Listed(p) PROVE lf[x] > 0
  <2>1. PICK i \in 1 .. m - n : x = p.list[i].timer
    BY <1>11 DEF Listed
  <2>2. n + i \in n + 1 .. m /\ n + i \in 1 .. m /\ n + i \in 0 .. m
    BY <1>1, <1>2
  <2>3. x = c.list[n + i].timer
    BY <1>3, <2>1
  <2>4. T[n + i] \in Nat /\ T[n + i] > 0 /\ lf[x] \in Int
    BY <1>1, <1>4, <2>2, <2>3
  <2>5. NonNegative(T[n + i] - Since(c)) = NonNegative(lf[x])
    BY <1>8, <2>2, <2>3
  <2> QED BY <1>14, <2>4, <2>5 DEF NonNegative
<1> QED BY <1>3, <1>10, <1>12, <1>13, <1>14 DEF p, n

(* When the first timer is due, moving the base to its turn says the same.  *)
LEMMA AtTargetExact ==
  ASSUME NEW lf \in Times, NEW c, Exact(c, lf), Timed(c), c.list # <<>>,
         Target(c.list)[1] <= Since(c)
  PROVE  LET a == AtTarget(c)
         IN /\ Exact(a, lf) /\ Listed(a) = Listed(c) /\ Timed(a)
            /\ a.checkpoint = c.checkpoint /\ a.lower = c.lower /\ a.alarm = c.alarm
<1> DEFINE m == Len(c.list)
           T == Target(c.list)
           a == AtTarget(c)
           k == [i \in 1 .. m |-> i]
<1>1. /\ c \in Clocks /\ c.list \in Seq(Links) /\ m \in Nat /\ DOMAIN c.list = 1 .. m
      /\ T \in [0 .. m -> Nat]
      /\ \A i \in 1 .. m : c.list[i].timer \in Timers /\ lf[c.list[i].timer] \in Int
  BY ExactHas
<1>2. /\ a \in Clocks /\ a.base = (c.base + T[1]) % ClockWord
      /\ a.last = c.last /\ a.checkpoint = c.checkpoint /\ a.blocked = c.blocked
      /\ a.lower = c.lower /\ a.alarm = c.alarm /\ Len(a.list) = m
      /\ \A i \in 1 .. m : a.list[i].timer = c.list[i].timer
      /\ \A i \in 1 .. m : Target(a.list)[i] = T[i] - T[1]
  BY <1>1, AtTargetIs
<1>3. 1 \in 1 .. m /\ 1 \in 0 .. m /\ \A i \in 1 .. m : i \in 0 .. m /\ 1 <= i
  <2>1. m # 0
    BY <1>1, EmptySeq
  <2> QED BY <1>1, <2>1
<1>4. T[1] \in Nat /\ T[1] <= Since(c) /\ \A i \in 1 .. m : T[i] \in Nat /\ T[1] <= T[i]
  <2>1. \A i \in 1 .. m : T[1] <= T[i]
    BY <1>1, <1>3, TargetGrows
  <2> HIDE DEF T
  <2>2. T[1] \in Nat /\ \A i \in 1 .. m : T[i] \in Nat
    BY <1>1, <1>3
  <2>3. T[1] <= Since(c)
    BY DEF T
  <2> QED BY <2>1, <2>2, <2>3
<1> HIDE DEF a, T
<1>5. Timed(a)
  BY <1>2 DEF Timed
<1>6. Since(c) \in Nat /\ Since(a) = Since(c) - T[1]
  <2> DEFINE x == T[1]
             S == Since(c)
             R == Since(a)
             b == c.base
             e == a.base
             n == b + x
             w == n % ClockWord
  <2>1. ClockWord \in Nat \ {0} /\ time \in 0 .. ClockWord - 1 /\ b \in 0 .. ClockWord - 1
    BY <1>1, TimerAssumption DEF TimerAssumption, Timed, Clocks, Words
  <2>2. S \in Nat /\ S = IF time >= b THEN time - b ELSE time - b + ClockWord
    BY <1>1, SinceIs
  <2>3. R = IF time >= e THEN time - e ELSE time - e + ClockWord
    BY <1>2, <1>5, SinceIs
  <2>4. x \in Nat /\ x <= S
    BY <1>4
  <2>5. e = w
    BY <1>2
  <2> HIDE DEF x, S, R, b, e
  <2>6. S < ClockWord /\ n = b + x
    BY <2>1, <2>2
  <2> HIDE DEF n
  <2>7. n \in -ClockWord .. 2 * ClockWord - 1 /\ ~(n < 0)
    BY <2>1, <2>2, <2>4, <2>6
  <2>8. w = IF n < 0 THEN n + ClockWord ELSE IF n < ClockWord THEN n ELSE n - ClockWord
    BY <2>7, WordOf
  <2> HIDE DEF w
  <2>9. e = IF n < ClockWord THEN n ELSE n - ClockWord
    BY <2>5, <2>7, <2>8
  <2>10. R = S - x
    BY <2>1, <2>2, <2>3, <2>4, <2>6, <2>9
  <2> QED BY <2>2, <2>10 DEF x, S, R
<1>7. /\ k \in [1 .. m -> 1 .. m] /\ \A i, j \in 1 .. m : i < j => k[i] < k[j]
      /\ \A i \in 1 .. m : k[i] = i
  OBVIOUS
<1> HIDE DEF k
<1>8. ASSUME NEW i \in 1 .. m
      PROVE  /\ Target(a.list)[i] <= MaxOffset
             /\ NonNegative(Target(a.list)[i] - Since(a)) = NonNegative(lf[c.list[i].timer])
  <2>1. /\ T[i] <= MaxOffset
        /\ NonNegative(T[i] - Since(c)) = NonNegative(lf[c.list[i].timer])
    BY DEF Exact, T
  <2>2. Target(a.list)[i] = T[i] - T[1] /\ T[i] \in Nat /\ MaxOffset \in Nat
    BY <1>2, <1>4, TimerAssumption DEF TimerAssumption
  <2>3. (T[i] - T[1]) - (Since(c) - T[1]) = T[i] - Since(c) /\ T[i] - T[1] <= MaxOffset
    BY <1>4, <1>6, <2>1, <2>2
  <2> QED BY <1>6, <2>1, <2>2, <2>3
<1>9. Exact(a, lf)
  <2>1. /\ a.last = IF m = 0 THEN NoTimer ELSE a.list[m].timer
        /\ a.blocked = IF m = 0 THEN 0 ELSE 1
    <3>1. m # 0 => m \in 1 .. m
      BY <1>1
    <3> QED BY <1>2, <3>1 DEF Exact
  <2>2. Selects(a, c, lf, m, k)
    BY <1>2, <1>7, <1>8, <2>1 DEF Selects
  <2> QED BY <2>2, Selected
<1>10. Listed(a) = Listed(c)
  <2>1. DOMAIN a.list = 1 .. m
    BY <1>2, <1>9, ExactHas
  <2> QED BY <1>1, <1>2, <2>1 DEF Listed
<1> QED BY <1>2, <1>5, <1>9, <1>10 DEF a

(* A timer that is put into a clock that is up to date is due at its time,  *)
(* and nothing changes for the others.                                      *)
LEMMA AddExact ==
  ASSUME NEW lf \in Times, NEW c, Exact(c, lf), Since(c) = 0,
         NEW t \in Timers \ Listed(c), NEW val \in 0 .. MaxOffset
  PROVE  LET a == Add(c, t, val)
             lg == [lf EXCEPT ![t] = val]
         IN /\ lg \in Times /\ Exact(a, lg) /\ Listed(a) = Listed(c) \cup {t}
            /\ a.base = c.base /\ a.checkpoint = c.checkpoint /\ a.lower = c.lower
            /\ a.alarm = c.alarm /\ Len(a.list) = Len(c.list) + 1
<1> DEFINE m == Len(c.list)
           T == Target(c.list)
           a == Add(c, t, val)
           lg == [lf EXCEPT ![t] = val]
<1>1. /\ c \in Clocks /\ c.list \in Seq(Links) /\ m \in Nat /\ DOMAIN c.list = 1 .. m
      /\ T \in [0 .. m -> Nat]
      /\ \A i \in 1 .. m : c.list[i].timer \in Timers /\ lf[c.list[i].timer] \in Int
  BY ExactHas
<1>2. val \in Nat /\ val <= MaxOffset /\ MaxOffset \in Nat /\ Latency \in Nat
  BY TimerAssumption DEF TimerAssumption
<1>3. /\ a \in Clocks /\ a.base = c.base /\ a.checkpoint = c.checkpoint
      /\ a.lower = c.lower /\ a.alarm = c.alarm /\ Len(a.list) = m + 1
      /\ a.blocked = IF m = 0 THEN c.blocked + 1 ELSE c.blocked
  BY <1>1, <1>2, AddIs
<1>4. PICK n : /\ IsTurn(c.list, n, val)
               /\ a.last = IF n = m THEN t ELSE c.last
               /\ \A i \in 1 .. m + 1 :
                    a.list[i].timer = IF i <= n THEN c.list[i].timer
                                      ELSE IF i = n + 1 THEN t ELSE c.list[i - 1].timer
               /\ \A i \in 0 .. m + 1 :
                    Target(a.list)[i] = IF i <= n THEN T[i]
                                        ELSE IF i = n + 1 THEN val ELSE T[i - 1]
  BY <1>1, <1>2, AddIs
<1>5. /\ n \in 0 .. m /\ n \in Nat
      /\ (\A i \in 0 .. n : T[i] <= val) /\ \A i \in n + 1 .. m : T[i] > val
  <2>1. n \in 0 .. m
    BY <1>4 DEF IsTurn
  <2> QED BY <1>1, <1>2, <1>4, <2>1, TurnSplits
<1> HIDE DEF a, T
<1>6. Since(a) = 0
  BY <1>3 DEF Since
<1>7. /\ lg \in Times /\ lg[t] = val
      /\ \A i \in 1 .. m : c.list[i].timer # t /\ lg[c.list[i].timer] = lf[c.list[i].timer]
  <2>1. lg \in Times /\ lg[t] = val /\ \A x \in Timers \ {t} : lg[x] = lf[x]
    BY <1>2 DEF Times
  <2>2. \A i \in 1 .. m : c.list[i].timer # t
    BY <1>1 DEF Listed
  <2> HIDE DEF lg
  <2> QED BY <1>1, <2>1, <2>2
<1> HIDE DEF lg
<1>8. ASSUME NEW i \in 1 .. m
      PROVE  T[i] \in Nat /\ T[i] <= MaxOffset /\ T[i] = NonNegative(lg[c.list[i].timer])
  <2>1. /\ T[i] <= MaxOffset
        /\ NonNegative(T[i] - Since(c)) = NonNegative(lf[c.list[i].timer])
    BY DEF Exact, T
  <2>2. T[i] \in Nat
    <3>1. i \in 0 .. m
      BY <1>1
    <3> QED BY <1>1, <3>1
  <2>3. NonNegative(T[i] - Since(c)) = T[i]
    BY <2>2 DEF NonNegative
  <2> QED BY <1>7, <2>1, <2>2, <2>3
(* The entry that the new list's i-th entry was, ...                        *)
<1> DEFINE k(i) == IF i <= n THEN i ELSE i - 1
<1>9. ASSUME NEW i \in 1 .. m + 1, i # n + 1
      PROVE  /\ k(i) \in 1 .. m /\ a.list[i].timer = c.list[k(i)].timer
             /\ Target(a.list)[i] = T[k(i)]
             /\ (i <= n <=> T[k(i)] <= val) /\ (i <= n <=> ~(i > n + 1))
  <2>1. i \in Nat /\ i \in 0 .. m + 1 /\ m \in Nat /\ n \in 0 .. m
    BY <1>1, <1>5
  <2>2. CASE i <= n
    <3>1. i \in 1 .. m /\ i \in 0 .. n /\ ~(i > n + 1) /\ k(i) = i
      BY <2>1, <2>2
    <3>2. T[i] <= val
      BY <1>5, <3>1
    <3> QED BY <1>4, <2>1, <2>2, <3>1, <3>2
  <2>3. CASE ~(i <= n)
    <3>1. i - 1 \in 1 .. m /\ i - 1 \in n + 1 .. m /\ i > n + 1 /\ k(i) = i - 1
      BY <1>9, <2>1, <2>3
    <3>2. T[i - 1] > val /\ T[i - 1] \in Nat
      BY <1>5, <1>8, <3>1
    <3>3. ~(T[i - 1] <= val)
      BY <1>2, <3>2
    <3>4. a.list[i].timer = c.list[i - 1].timer /\ Target(a.list)[i] = T[i - 1]
      BY <1>4, <1>9, <2>1, <2>3
    <3> QED BY <2>3, <3>1, <3>3, <3>4
  <2> QED BY <2>2, <2>3
<1>10. a.list[n + 1].timer = t /\ Target(a.list)[n + 1] = val /\ n + 1 \in 1 .. m + 1
  <2>1. n + 1 \in 1 .. m + 1 /\ n + 1 \in 0 .. m + 1 /\ ~(n + 1 <= n)
    BY <1>1, <1>5
  <2> QED BY <1>4, <2>1
<1>11. ASSUME NEW i \in 1 .. m + 1
       PROVE  /\ Target(a.list)[i] <= MaxOffset
              /\ NonNegative(Target(a.list)[i] - Since(a)) = NonNegative(lg[a.list[i].timer])
  <2>1. CASE i = n + 1
    <3>1. val - 0 = val
      BY <1>2
    <3> QED BY <1>2, <1>6, <1>7, <1>10, <2>1, <3>1
  <2>2. CASE i # n + 1
    <3>1. /\ k(i) \in 1 .. m /\ a.list[i].timer = c.list[k(i)].timer
          /\ Target(a.list)[i] = T[k(i)]
      BY <1>9, <2>2
    <3> HIDE DEF k
    <3>2. /\ T[k(i)] \in Nat /\ T[k(i)] <= MaxOffset
          /\ T[k(i)] = NonNegative(lg[c.list[k(i)].timer])
      BY <1>8, <3>1
    <3>3. NonNegative(T[k(i)] - 0) = T[k(i)]
      BY <3>2 DEF NonNegative
    <3> QED BY <1>6, <3>1, <3>2, <3>3
  <2> QED BY <2>1, <2>2
<1>12. ASSUME NEW i \in 1 .. m + 1, NEW j \in 1 .. m + 1, i < j
       PROVE  /\ a.list[i].timer # a.list[j].timer
              /\ lg[a.list[i].timer] <= lg[a.list[j].timer]
  <2>1. i \in Nat /\ j \in Nat /\ n \in Nat /\ m \in Nat
    BY <1>1, <1>5
  <2>2. CASE i # n + 1 /\ j # n + 1
    <3>1. k(i) \in 1 .. m /\ k(j) \in 1 .. m /\ k(i) < k(j)
      BY <1>9, <1>12, <2>1, <2>2
    <3>2. a.list[i].timer = c.list[k(i)].timer /\ a.list[j].timer = c.list[k(j)].timer
      BY <1>9, <2>2
    <3> HIDE DEF k
    <3>3. /\ c.list[k(i)].timer # c.list[k(j)].timer
          /\ lf[c.list[k(i)].timer] <= lf[c.list[k(j)].timer]
      BY <3>1 DEF Exact
    <3> QED BY <1>7, <3>1, <3>2, <3>3
  <2>3. CASE j = n + 1
    <3>1. i # n + 1 /\ i <= n
      BY <1>12, <2>1, <2>3
    <3>2. k(i) \in 1 .. m /\ a.list[i].timer = c.list[k(i)].timer /\ T[k(i)] <= val
      BY <1>9, <3>1
    <3> HIDE DEF k
    <3>3. /\ c.list[k(i)].timer # t /\ lg[c.list[k(i)].timer] \in Int
          /\ T[k(i)] \in Nat /\ T[k(i)] = NonNegative(lg[c.list[k(i)].timer])
      BY <1>1, <1>7, <1>8, <3>2
    <3>4. lg[c.list[k(i)].timer] <= val
      BY <1>2, <3>2, <3>3 DEF NonNegative
    <3> QED BY <1>7, <1>10, <2>3, <3>2, <3>3, <3>4
  <2>4. CASE i = n + 1
    <3>1. j # n + 1 /\ ~(j <= n)
      BY <1>12, <2>1, <2>4
    <3>2. k(j) \in 1 .. m /\ a.list[j].timer = c.list[k(j)].timer /\ ~(T[k(j)] <= val)
      BY <1>9, <3>1
    <3> HIDE DEF k
    <3>3. /\ c.list[k(j)].timer # t /\ lg[c.list[k(j)].timer] \in Int
          /\ T[k(j)] \in Nat /\ T[k(j)] = NonNegative(lg[c.list[k(j)].timer])
      BY <1>1, <1>7, <1>8, <3>2
    <3>4. val <= lg[c.list[k(j)].timer]
      BY <1>2, <3>2, <3>3 DEF NonNegative
    <3> QED BY <1>7, <1>10, <2>4, <3>2, <3>3, <3>4
  <2> QED BY <2>2, <2>3, <2>4
<1>13. a.last = IF m + 1 = 0 THEN NoTimer ELSE a.list[m + 1].timer
  <2>1. m + 1 # 0 /\ m + 1 \in 1 .. m + 1 /\ n <= m /\ (m + 1 = n + 1 <=> n = m)
    BY <1>1, <1>5
  <2>2. CASE n = m
    BY <1>4, <1>10, <2>1, <2>2
  <2>3. CASE n # m
    <3>1. m + 1 # n + 1 /\ m # 0 /\ k(m + 1) = m
      BY <1>1, <1>5, <2>3
    <3>2. a.list[m + 1].timer = c.list[k(m + 1)].timer
      BY <1>9, <2>1, <3>1
    <3>3. a.last = c.last /\ c.last = c.list[m].timer
      BY <1>4, <2>3, <3>1 DEF Exact
    <3> HIDE DEF k, m
    <3>4. a.list[m + 1].timer = c.list[m].timer
      BY <3>1, <3>2
    <3> QED BY <2>1, <3>3, <3>4
  <2> QED BY <2>2, <2>3
<1>14. a.blocked = IF m + 1 = 0 THEN 0 ELSE 1
  <2>1. m + 1 # 0
    BY <1>1
  <2>2. c.blocked = IF m = 0 THEN 0 ELSE 1
    BY DEF Exact
  <2> HIDE DEF m
  <2> QED BY <1>3, <2>1, <2>2
<1>15. Exact(a, lg)
  BY <1>3, <1>11, <1>12, <1>13, <1>14 DEF Exact
<1>16. Listed(a) = Listed(c) \cup {t}
  <2>1. DOMAIN a.list = 1 .. m + 1
    BY <1>3, <1>7, <1>15, ExactHas
  <2>2. ASSUME NEW x \in Listed(a) PROVE x \in Listed(c) \cup {t}
    <3>1. PICK i \in 1 .. m + 1 : x = a.list[i].timer
      BY <2>1 DEF Listed
    <3>2. CASE i = n + 1
      BY <1>10, <3>1, <3>2
    <3>3. CASE i # n + 1
      <4>1. k(i) \in 1 .. m /\ a.list[i].timer = c.list[k(i)].timer
        BY <1>9, <3>3
      <4> HIDE DEF k
      <4> QED BY <1>1, <3>1, <4>1 DEF Listed
    <3> QED BY <3>2, <3>3
  <2>3. t \in Listed(a)
    BY <1>10, <2>1 DEF Listed
  <2>4. ASSUME NEW x \in Listed(c) PROVE x \in Listed(a)
    <3>1. PICK j \in 1 .. m : x = c.list[j].timer
      BY <1>1 DEF Listed
    <3> DEFINE i == IF j <= n THEN j ELSE j + 1
    <3>2. i \in 1 .. m + 1 /\ i # n + 1 /\ k(i) = j
      BY <1>1, <1>5
    <3> HIDE DEF i
    <3>3. a.list[i].timer = c.list[k(i)].timer
      BY <1>9, <3>2
    <3> HIDE DEF k
    <3>4. a.list[i].timer = x
      BY <3>1, <3>2, <3>3
    <3> QED BY <2>1, <3>2, <3>4 DEF Listed
  <2> QED BY <2>2, <2>3, <2>4
<1> QED BY <1>3, <1>7, <1>15, <1>16 DEF a, lg

-----------------------------------------------------------------------------
(* The steps                                                                *)

(* What is assumed of the constants, as the steps need it.                  *)
LEMMA Sizes ==
  /\ NoTimer \notin Timers
  /\ ClockWord \in Nat \ {0} /\ MaxValue \in Nat /\ MaxOffset \in Nat /\ Latency \in Nat
  /\ 1 < MaxValue /\ MaxValue < ClockWord /\ Off = MaxOffset + MaxValue
  /\ MaxValue \div 2 \in Nat /\ 0 < MaxValue \div 2 /\ MaxValue \div 2 <= MaxValue
  /\ MaxValue \div 2 + Latency <= MaxValue
  /\ ClockWord \div 2 \in Nat /\ 2 * (ClockWord \div 2) = ClockWord
  /\ MaxOffset + Latency < ClockWord \div 2
<1>1. /\ NoTimer \notin Timers /\ ClockWord \in Nat /\ MaxValue \in Nat /\ MaxOffset \in Nat
      /\ Latency \in Nat /\ 1 < MaxValue /\ MaxValue < ClockWord
      /\ MaxValue \div 2 + Latency <= MaxValue
      /\ 2 * (MaxOffset + Latency) < ClockWord /\ ClockWord % 2 = 0
  BY TimerAssumption DEF TimerAssumption
<1> QED BY <1>1 DEF Off

(* _is_set() finds the timers that the list holds.                          *)
LEMMA IsSetMeans ==
  ASSUME NEW lf \in Times, NEW c, Exact(c, lf), NEW t \in Timers
  PROVE  IsSet(c, t) <=> t \in Listed(c)
<1> DEFINE m == Len(c.list)
<1>1. /\ m \in Nat /\ DOMAIN c.list = 1 .. m /\ c.list \in Seq(Links)
      /\ c.last = IF m = 0 THEN NoTimer ELSE c.list[m].timer
  BY ExactHas DEF Exact
<1>2. c.list = <<>> <=> m = 0
  BY <1>1, EmptySeq
<1>3. IsSet(c, t) <=> m # 0 /\ (c.last = t \/ \E i \in 1 .. m - 1 : c.list[i].timer = t)
  BY <1>2 DEF IsSet
<1>4. t \in Listed(c) <=> \E i \in 1 .. m : c.list[i].timer = t
  BY <1>1 DEF Listed
<1> HIDE DEF m
<1>5. CASE m = 0
  BY <1>3, <1>4, <1>5
<1>6. CASE m # 0
  <2>1. m \in 1 .. m /\ \A i \in 1 .. m : i \in 1 .. m - 1 \/ i = m
    BY <1>1, <1>6
  <2>2. \A i \in 1 .. m - 1 : i \in 1 .. m
    BY <1>1, <1>6
  <2> QED BY <1>1, <1>3, <1>4, <1>6, <2>1, <2>2
<1> QED BY <1>5, <1>6

(* Reading the time does not change the list.                               *)
LEMMA ReadExact ==
  ASSUME NEW lf \in Times, NEW c, Exact(c, lf), Timed(c)
  PROVE  LET r == NowRead(c)
         IN /\ Exact(r, lf) /\ Timed(r) /\ (Extended => r.lower = counter)
            /\ r.list = c.list /\ r.base = c.base /\ r.alarm = c.alarm
            /\ Since(r) = Since(c) /\ Now(c) = time
<1> DEFINE r == NowRead(c)
<1>1. /\ Now(c) = time /\ r \in Clocks /\ Timed(r) /\ (Extended => r.lower = counter)
      /\ r.list = c.list /\ r.base = c.base /\ r.last = c.last
      /\ r.blocked = c.blocked /\ r.alarm = c.alarm
  BY ExactHas, Reads
<1> HIDE DEF r
<1>2. Since(r) = Since(c)
  BY <1>1 DEF Since
<1>3. Exact(r, lf)
  BY <1>1, <1>2 DEF Exact
<1> QED BY <1>1, <1>2, <1>3 DEF r

(* The alarm that _ztimer_update() sets is for the first timer, or for the  *)
(* checkpoint before it.                                                    *)
LEMMA UpdateAlarms ==
  ASSUME NEW lf \in Times, NEW c, Exact(c, lf), Timed(c), Extended => c.lower = counter,
         c.list # <<>> => Since(c) = 0, c.alarm \in -Latency .. Off,
         \A x \in Listed(c) : lf[x] >= 0 \/ c.alarm <= lf[x]
  PROVE  LET u == Update(c)
         IN Exact(u, lf) /\ Timed(u) /\ Alarmed(u, lf) /\ Listed(u) = Listed(c)
<1> DEFINE m == Len(c.list)
           T == Target(c.list)
           u == Update(c)
           first == IF c.list = <<>> THEN Off ELSE c.list[1].offset
           A == Alarm(c)
<1>1. /\ c \in Clocks /\ c.list \in Seq(Links) /\ m \in Nat /\ DOMAIN c.list = 1 .. m
      /\ T \in [0 .. m -> Nat] /\ T[0] = 0
      /\ \A i \in 1 .. m : c.list[i].timer \in Timers /\ lf[c.list[i].timer] \in Int
      /\ \A i \in 1 .. m : c.list[i] \in Links
  BY ExactHas
<1>2. c.list = <<>> <=> m = 0
  BY <1>1, EmptySeq
<1>3. m # 0 => /\ 1 \in 1 .. m /\ 1 \in 0 .. m /\ T[1] = c.list[1].offset /\ T[1] \in Nat
               /\ T[1] <= MaxOffset
  <2>1. SUFFICES ASSUME m # 0
                 PROVE  /\ 1 \in 1 .. m /\ 1 \in 0 .. m /\ T[1] = c.list[1].offset
                        /\ T[1] \in Nat /\ T[1] <= MaxOffset
    OBVIOUS
  <2>2. 1 \in 1 .. m /\ 1 \in 0 .. m /\ 1 - 1 = 0
    BY <1>1, <2>1
  <2>3. c.list[1] \in Links /\ c.list[1].offset \in Nat
    BY <1>1, <2>2 DEF Links
  <2>4. T[1] = T[1 - 1] + c.list[1].offset
    BY <1>1, <2>2, TargetOf
  <2>5. T[1] <= MaxOffset
    BY <2>2 DEF Exact
  <2> HIDE DEF T
  <2> QED BY <1>1, <2>2, <2>3, <2>4, <2>5
<1>4. first \in Nat /\ first <= Off /\ (first = 0 => m # 0) /\ (m # 0 => first = T[1])
  <2> HIDE DEF T, m
  <2>1. CASE m = 0
    <3>1. first = Off
      BY <1>2, <2>1
    <3>2. Off \in Nat /\ Off # 0
      BY Sizes
    <3> HIDE DEF first
    <3> QED BY <2>1, <3>1, <3>2
  <2>2. CASE m # 0
    <3>1. first = T[1]
      BY <1>2, <1>3, <2>2
    <3> HIDE DEF first
    <3> QED BY <1>3, <2>2, <3>1, Sizes
  <2> QED BY <2>1, <2>2
<1>5. A = IF Extended THEN Smaller(first, MaxValue \div 2) ELSE first
  BY DEF Alarm
<1> HIDE DEF T, m, first, A
<1>6. /\ A \in Nat /\ A <= first /\ A <= Off /\ (Extended => A <= MaxValue \div 2)
      /\ (A = 0 => first = 0) /\ (~Extended => A = first)
  BY <1>4, <1>5, Sizes DEF Smaller
<1>7. u = [c EXCEPT !.alarm = IF A = 0 THEN Smaller(c.alarm, 0) ELSE A]
  BY <1>1 DEF Update, A, Clocks
<1> HIDE DEF u
<1>8. /\ u \in Clocks /\ u.list = c.list /\ u.base = c.base /\ u.last = c.last
      /\ u.blocked = c.blocked /\ u.checkpoint = c.checkpoint /\ u.lower = c.lower
      /\ u.alarm = IF A = 0 THEN Smaller(c.alarm, 0) ELSE A
  <2>1. (IF A = 0 THEN Smaller(c.alarm, 0) ELSE A) \in Int
    BY <1>6, Sizes DEF Smaller
  <2> QED BY <1>1, <1>7, <2>1 DEF Clocks
<1>9. Timed(u) /\ Since(u) = Since(c) /\ Listed(u) = Listed(c)
  BY <1>8 DEF Timed, Since, Listed
<1>10. Exact(u, lf)
  BY <1>8, <1>9 DEF Exact
<1>11. u.alarm \in -Latency .. Off /\ u.alarm <= A /\ (A > 0 => u.alarm = A)
       /\ (A = 0 => u.alarm <= 0 /\ u.alarm <= c.alarm)
       /\ NonNegative(u.alarm) = A
       /\ (A = 0 => u.alarm = 0 \/ u.alarm = c.alarm)
  BY <1>6, <1>8, Sizes DEF Smaller, NonNegative
<1>12. Extended => u.alarm + AddModulo(counter, u.lower) <= MaxValue \div 2
  <2>1. SUFFICES ASSUME Extended PROVE u.alarm + AddModulo(counter, u.lower) <= MaxValue \div 2
    OBVIOUS
  <2>2. AddModulo(counter, u.lower) = 0
    BY <1>8, <2>1, Sizes DEF AddModulo, Timed
  <2> QED BY <1>6, <1>11, <2>1, <2>2, Sizes
<1>13. ASSUME NEW i \in 1 .. m PROVE u.alarm <= lf[c.list[i].timer]
  <2>1. m # 0 /\ Since(c) = 0
    BY <1>1, <1>2
  <2>2. i \in 0 .. m /\ T[i] \in Nat /\ T[1] <= T[i] /\ lf[c.list[i].timer] \in Int
    <3>1. i \in 0 .. m /\ 1 <= i
      BY <1>1
    <3> QED BY <1>1, <1>3, <2>1, <3>1, TargetGrows DEF T, m
  <2>3. T[i] = NonNegative(lf[c.list[i].timer])
    <3>1. NonNegative(T[i] - 0) = NonNegative(lf[c.list[i].timer])
      BY <2>1 DEF Exact, T, m
    <3>2. NonNegative(T[i] - 0) = T[i]
      BY <2>2 DEF NonNegative
    <3> QED BY <3>1, <3>2
  <2>4. CASE A > 0
    <3>1. A <= T[i]
      BY <1>3, <1>4, <1>6, <2>1, <2>2
    <3> QED BY <1>6, <1>11, <2>2, <2>3, <2>4, <3>1 DEF NonNegative
  <2>5. CASE A = 0
    <3>1. c.list[i].timer \in Listed(c)
      BY <1>1 DEF Listed
    <3>2. lf[c.list[i].timer] >= 0 \/ c.alarm <= lf[c.list[i].timer]
      BY <3>1
    <3> QED BY <1>11, <2>2, <2>5, <3>2, Sizes
  <2> QED BY <1>6, <2>4, <2>5
<1>14. ASSUME m > 0
       PROVE  /\ u.alarm + Since(u) <= T[1]
              /\ ~Extended => NonNegative(u.alarm) = NonNegative(T[1] - Since(u))
  <2>1. m # 0 /\ Since(u) = 0
    BY <1>1, <1>2, <1>9, <1>14
  <2>2. T[1] \in Nat /\ first = T[1]
    BY <1>3, <1>4, <2>1
  <2>3. NonNegative(T[1] - 0) = T[1]
    BY <2>2 DEF NonNegative
  <2>4. u.alarm + 0 <= T[1]
    BY <1>6, <1>11, <2>2, Sizes
  <2> QED BY <1>6, <1>11, <2>1, <2>2, <2>3, <2>4
<1>15. Alarmed(u, lf)
  BY <1>8, <1>11, <1>12, <1>13, <1>14 DEF Alarmed, m, T
<1> QED BY <1>9, <1>10, <1>15 DEF u

(* The other variables stay as they are.                                    *)
LEMMA SameTime ==
  ASSUME UNCHANGED <<counter, time>>, NEW c, Timed(c), Exact(c, left'), Alarmed(c, left'),
         clk' = c, left' \in Times
  PROVE  ClockInv'
<1>1. counter' = counter /\ time' = time
  OBVIOUS
<1>2. Timed(clk)'
  BY <1>1 DEF Timed
<1>3. Since(clk)' = Since(c)
  BY <1>1 DEF Since
<1>4. Exact(clk, left)'
  BY <1>1, <1>3 DEF Exact
<1>5. Alarmed(clk, left)'
  BY <1>1, <1>3 DEF Alarmed
<1> QED BY <1>2, <1>4, <1>5 DEF ClockInv

(* ztimer_set() adds the timer, or sets it again.                           *)
LEMMA SetKeeps ==
  ASSUME ClockInv, NEW t \in Timers, NEW val \in 0 .. MaxOffset, ZtimerSet(t, val)
  PROVE  /\ ClockInv' /\ Listed(clk)' = Listed(clk) \cup {t}
         /\ left' = [left EXCEPT ![t] = val]
<1> DEFINE u == UpdateHead(clk)
           d == IF IsSet(u, t) THEN Del(u, t) ELSE u
           a == Add(d, t, val)
           lg == [left EXCEPT ![t] = val]
<1>1. left \in Times /\ Timed(clk) /\ Exact(clk, left) /\ Alarmed(clk, left)
  BY DEF ClockInv
<1>2. clk' = Update(a) /\ left' = lg /\ UNCHANGED <<counter, time>>
  BY DEF ZtimerSet
<1>3. /\ Exact(u, left) /\ Fresh(u) /\ u.alarm = clk.alarm /\ Listed(u) = Listed(clk)
  <2>1. /\ Exact(u, left) /\ Fresh(u) /\ u.alarm = clk.alarm /\ Len(u.list) = Len(clk.list)
        /\ \A i \in 1 .. Len(clk.list) : u.list[i].timer = clk.list[i].timer
    BY <1>1, UpdateHeadExact
  <2> HIDE DEF u
  <2>2. /\ DOMAIN u.list = 1 .. Len(clk.list) /\ DOMAIN clk.list = 1 .. Len(clk.list)
    BY <1>1, <2>1, ExactHas
  <2> QED BY <2>1, <2>2 DEF Listed
<1> HIDE DEF u
<1>4. /\ Exact(d, left) /\ Listed(d) = Listed(u) \ {t} /\ d.base = u.base
      /\ d.checkpoint = u.checkpoint /\ d.lower = u.lower /\ d.alarm = u.alarm
  <2>1. IsSet(u, t) <=> t \in Listed(u)
    BY <1>1, <1>3, IsSetMeans
  <2>2. CASE t \in Listed(u)
    <3>1. d = Del(u, t)
      BY <2>1, <2>2
    <3> HIDE DEF d
    <3> QED BY <1>1, <1>3, <2>2, <3>1, DelExact
  <2>3. CASE t \notin Listed(u)
    <3>1. d = u
      BY <2>1, <2>3
    <3> HIDE DEF d
    <3> QED BY <1>3, <2>3, <3>1
  <2> QED BY <2>2, <2>3
<1> HIDE DEF d
<1>5. Since(d) = 0 /\ Timed(d) /\ (Extended => d.lower = counter) /\ t \notin Listed(d)
  <2>1. Since(u) = 0
    BY <1>1, <1>3, ExactHas, FreshSince
  <2> QED BY <1>3, <1>4, <2>1 DEF Since, Fresh, Timed
<1>6. /\ lg \in Times /\ Exact(a, lg) /\ Listed(a) = Listed(d) \cup {t}
      /\ a.base = d.base /\ a.checkpoint = d.checkpoint /\ a.lower = d.lower
      /\ a.alarm = d.alarm
  BY <1>1, <1>4, <1>5, AddExact
<1> HIDE DEF a
<1>7. Since(a) = 0 /\ Timed(a) /\ (Extended => a.lower = counter)
  BY <1>5, <1>6 DEF Since, Timed
<1>8. a.alarm \in -Latency .. Off /\ \A x \in Listed(a) : lg[x] >= 0 \/ a.alarm <= lg[x]
  <2>1. a.alarm = clk.alarm /\ Listed(a) = Listed(clk) \cup {t}
    BY <1>3, <1>4, <1>6
  <2>2. clk.alarm \in -Latency .. Off
    BY <1>1 DEF Alarmed
  <2>3. lg[t] >= 0
    BY <1>1, Sizes DEF Times
  <2>4. ASSUME NEW x \in Listed(clk), x # t PROVE clk.alarm <= lg[x]
    <3>1. DOMAIN clk.list = 1 .. Len(clk.list)
      BY <1>1, ExactHas
    <3>2. PICK i \in 1 .. Len(clk.list) : x = clk.list[i].timer
      BY <3>1 DEF Listed
    <3>3. clk.alarm <= left[x]
      BY <1>1, <3>2 DEF Alarmed
    <3>4. lg[x] = left[x]
      BY <1>1, <2>4 DEF Times
    <3> QED BY <3>3, <3>4
  <2> HIDE DEF lg
  <2> QED BY <2>1, <2>2, <2>3, <2>4
<1> HIDE DEF lg
<1>9. LET v == Update(a)
      IN Exact(v, lg) /\ Timed(v) /\ Alarmed(v, lg) /\ Listed(v) = Listed(a)
  BY <1>6, <1>7, <1>8, UpdateAlarms
<1>10. ClockInv'
  BY <1>2, <1>6, <1>9, SameTime
<1>11. Listed(clk)' = Listed(clk) \cup {t}
  <2>1. Listed(clk)' = Listed(Update(a))
    BY <1>2 DEF Listed
  <2> QED BY <1>3, <1>4, <1>6, <1>9, <2>1
<1> QED BY <1>2, <1>10, <1>11 DEF lg

(* ztimer_remove() takes it out.                                            *)
LEMMA RemoveKeeps ==
  ASSUME ClockInv, NEW t \in Timers, ZtimerRemove(t)
  PROVE  /\ ClockInv' /\ t \in Listed(clk) /\ Listed(clk)' = Listed(clk) \ {t}
         /\ left' = left
<1> DEFINE u == UpdateHead(clk)
           d == Del(u, t)
<1>1. left \in Times /\ Timed(clk) /\ Exact(clk, left) /\ Alarmed(clk, left)
  BY DEF ClockInv
<1>2. clk' = Update(d) /\ left' = left /\ UNCHANGED <<counter, time>> /\ IsSet(clk, t)
  BY DEF ZtimerRemove
<1>3. /\ Exact(u, left) /\ Fresh(u) /\ u.alarm = clk.alarm /\ Listed(u) = Listed(clk)
  <2>1. /\ Exact(u, left) /\ Fresh(u) /\ u.alarm = clk.alarm /\ Len(u.list) = Len(clk.list)
        /\ \A i \in 1 .. Len(clk.list) : u.list[i].timer = clk.list[i].timer
    BY <1>1, UpdateHeadExact
  <2> HIDE DEF u
  <2>2. /\ DOMAIN u.list = 1 .. Len(clk.list) /\ DOMAIN clk.list = 1 .. Len(clk.list)
    BY <1>1, <2>1, ExactHas
  <2> QED BY <2>1, <2>2 DEF Listed
<1> HIDE DEF u
<1>4. t \in Listed(clk)
  BY <1>1, <1>2, IsSetMeans
<1>5. /\ Exact(d, left) /\ Listed(d) = Listed(u) \ {t} /\ d.base = u.base
      /\ d.checkpoint = u.checkpoint /\ d.lower = u.lower /\ d.alarm = u.alarm
  BY <1>1, <1>3, <1>4, DelExact
<1> HIDE DEF d
<1>6. Since(d) = 0 /\ Timed(d) /\ (Extended => d.lower = counter)
  <2>1. Since(u) = 0
    BY <1>1, <1>3, ExactHas, FreshSince
  <2> QED BY <1>3, <1>5, <2>1 DEF Since, Fresh, Timed
<1>7. d.alarm \in -Latency .. Off /\ \A x \in Listed(d) : left[x] >= 0 \/ d.alarm <= left[x]
  <2>1. d.alarm = clk.alarm /\ Listed(d) \subseteq Listed(clk)
    BY <1>3, <1>5
  <2>2. clk.alarm \in -Latency .. Off /\ \A x \in Listed(clk) : clk.alarm <= left[x]
    <3>1. DOMAIN clk.list = 1 .. Len(clk.list)
      BY <1>1, ExactHas
    <3> QED BY <1>1, <3>1 DEF Alarmed, Listed
  <2> QED BY <2>1, <2>2
<1>8. LET v == Update(d)
      IN Exact(v, left) /\ Timed(v) /\ Alarmed(v, left) /\ Listed(v) = Listed(d)
  BY <1>1, <1>5, <1>6, <1>7, UpdateAlarms
<1>9. ClockInv'
  BY <1>1, <1>2, <1>8, SameTime
<1>10. Listed(clk)' = Listed(clk) \ {t}
  <2>1. Listed(clk)' = Listed(Update(d))
    BY <1>2 DEF Listed
  <2> QED BY <1>3, <1>5, <1>8, <2>1
<1> QED BY <1>2, <1>4, <1>9, <1>10

(* The handler is postponed by the time to the first timer, if that is not  *)
(* due; without checkpoints the alarm never comes before it.                *)
LEMMA PostponedIs ==
  ASSUME left \in Times, NEW c, Exact(c, left), Timed(c), Alarmed(c, left),
         c.alarm <= 0, c.list # <<>>
  PROVE  /\ Target(c.list)[1] \in Nat
         /\ Postponed(c) = IF Target(c.list)[1] <= Since(c) THEN 0
                           ELSE Target(c.list)[1] - Since(c)
         /\ ~Extended => Target(c.list)[1] <= Since(c)
<1> DEFINE m == Len(c.list)
           T == Target(c.list)
           S == Since(c)
           n == c.base + c.list[1].offset - Now(c)
           diff == n % ClockWord
           half == ClockWord \div 2
<1>1. /\ c \in Clocks /\ c.list \in Seq(Links) /\ m \in Nat /\ DOMAIN c.list = 1 .. m
      /\ T \in [0 .. m -> Nat] /\ T[0] = 0
      /\ \A i \in 1 .. m : c.list[i] \in Links
  BY ExactHas
<1>2. m > 0 /\ 1 \in 1 .. m /\ 1 \in 0 .. m
  <2>1. m # 0
    BY <1>1, EmptySeq
  <2> QED BY <1>1, <2>1
<1>3. T[1] \in Nat /\ T[1] <= MaxOffset /\ c.list[1].offset = T[1]
  <2>1. c.list[1].offset \in Nat
    BY <1>1, <1>2 DEF Links
  <2>2. T[1] = T[1 - 1] + c.list[1].offset /\ 1 - 1 = 0
    BY <1>1, <1>2, TargetOf
  <2>3. T[1] <= MaxOffset
    BY <1>2 DEF Exact
  <2> HIDE DEF T
  <2> QED BY <1>1, <2>1, <2>2, <2>3
<1>4. /\ c.alarm \in -Latency .. 0 /\ c.alarm + S <= T[1]
      /\ ~Extended => NonNegative(c.alarm) = NonNegative(T[1] - S)
  BY <1>2, Sizes DEF Alarmed
<1>5. /\ S \in Nat /\ S = IF time >= c.base THEN time - c.base ELSE time - c.base + ClockWord
      /\ time \in 0 .. ClockWord - 1 /\ c.base \in 0 .. ClockWord - 1
  BY <1>1, SinceIs DEF Timed, Clocks, Words
<1>6. Now(c) = time
  BY <1>1, Reads
<1> DEFINE x == T[1]
           q == c.alarm
           b == c.base
           e == Extended
<1>7. /\ ClockWord \in Nat /\ Latency \in Nat /\ MaxOffset \in Nat /\ half \in Nat
       /\ 2 * half = ClockWord /\ MaxOffset + Latency < half
  BY Sizes
<1>8. /\ x \in Nat /\ x <= MaxOffset /\ q \in -Latency .. 0 /\ q + S <= x
  BY <1>3, <1>4
<1>9. ~e => NonNegative(q) = NonNegative(x - S)
  BY <1>4
<1>10. /\ S \in Nat /\ S = IF time >= b THEN time - b ELSE time - b + ClockWord
       /\ time \in 0 .. ClockWord - 1 /\ b \in 0 .. ClockWord - 1
  BY <1>5
<1>11. n = b + x - time
  BY <1>3, <1>6
<1>12. Postponed(c) = IF e /\ diff < half THEN diff ELSE 0
  BY DEF Postponed
<1> HIDE DEF T, S, m, half, x, q, b, e, n, diff
<1>13. S < ClockWord /\ S <= x + Latency
  <2>1. S < ClockWord
    BY <1>7, <1>10
  <2>2. S \in Nat
    BY <1>10
  <2>3. S <= x + Latency
    BY <1>7, <1>8, <2>2
  <2> QED BY <2>1, <2>3
<1>14. n = (IF time >= b THEN x - S ELSE x - S + ClockWord) /\ n \in Int
  BY <1>7, <1>8, <1>10, <1>11
<1>15. n \in -ClockWord .. 2 * ClockWord - 1
  BY <1>13, <1>14, <1>7, <1>8, <1>10
<1>16. diff = IF n < 0 THEN n + ClockWord ELSE IF n < ClockWord THEN n ELSE n - ClockWord
  BY <1>15, WordOf DEF diff
<1>17. diff = IF x - S < 0 THEN x - S + ClockWord ELSE x - S
  <2>1. CASE time >= b
    BY <1>13, <1>14, <1>16, <1>7, <1>8, <1>10, <2>1
  <2>2. CASE ~(time >= b)
    BY <1>13, <1>14, <1>16, <1>7, <1>8, <1>10, <2>2
  <2> QED BY <2>1, <2>2
<1>18. ~e => x <= S
  <2>1. NonNegative(q) = 0
    BY <1>7, <1>8 DEF NonNegative
  <2> QED BY <1>8, <1>10, <1>9, <2>1 DEF NonNegative
<1>19. CASE x <= S
  <2>1. diff = 0 \/ ~(diff < half)
    <3>1. S \in Nat
      BY <1>10
    <3> QED BY <1>13, <1>17, <1>19, <1>7, <1>8, <3>1
  <2>2. Postponed(c) = 0
    BY <1>12, <2>1
  <2> QED BY <1>18, <1>19, <1>8, <2>2 DEF T, S, x, e
<1>20. CASE ~(x <= S)
  <2>1. diff = x - S /\ diff < half
    <3>1. S \in Nat
      BY <1>10
    <3>2. ~(x - S < 0) /\ x - S <= MaxOffset
      BY <1>20, <1>7, <1>8, <3>1
    <3> QED BY <1>17, <1>7, <1>8, <3>1, <3>2
  <2>2. Postponed(c) = x - S
    BY <1>18, <1>20, <1>12, <2>1
  <2> QED BY <1>18, <1>20, <1>8, <2>2 DEF T, S, x, e
<1> QED BY <1>19, <1>20

(* When the first timer is not due the alarm is set again for it, or for the *)
(* next checkpoint.                                                         *)
LEMMA PostponedAlarms ==
  ASSUME left \in Times, NEW c, Exact(c, left), Timed(c), Extended, c.lower = counter,
         c.list # <<>>, Target(c.list)[1] > Since(c)
  PROVE  LET x == Target(c.list)[1] - Since(c)
             u == [c EXCEPT !.alarm = Smaller(x, MaxValue \div 2)]
         IN Exact(u, left) /\ Timed(u) /\ Alarmed(u, left) /\ Listed(u) = Listed(c)
<1> DEFINE m == Len(c.list)
           T == Target(c.list)
           S == Since(c)
           A == Smaller(T[1] - S, MaxValue \div 2)
           u == [c EXCEPT !.alarm = A]
<1>1. /\ c \in Clocks /\ c.list \in Seq(Links) /\ m \in Nat /\ DOMAIN c.list = 1 .. m
      /\ T \in [0 .. m -> Nat]
      /\ \A i \in 1 .. m : left[c.list[i].timer] \in Int
  BY ExactHas
<1>2. m > 0 /\ 1 \in 1 .. m /\ 1 \in 0 .. m
  <2>1. m # 0
    BY <1>1, EmptySeq
  <2> QED BY <1>1, <2>1
<1>3. T[1] \in Nat /\ S \in Nat /\ S < T[1]
  <2>1. S \in Nat /\ S < T[1]
    BY <1>1, SinceIs
  <2> HIDE DEF T
  <2> QED BY <1>1, <1>2, <2>1
<1> HIDE DEF T, S
<1>4. A \in Nat /\ A > 0 /\ A <= MaxValue \div 2 /\ A <= T[1] - S /\ A <= Off
  BY <1>3, Sizes DEF Smaller
<1> HIDE DEF A
<1>5. /\ u \in Clocks /\ u.list = c.list /\ u.base = c.base /\ u.last = c.last
      /\ u.blocked = c.blocked /\ u.checkpoint = c.checkpoint /\ u.lower = c.lower
      /\ u.alarm = A
  <2>1. A \in Int
    BY <1>4
  <2> QED BY <1>1, <2>1 DEF Clocks
<1> HIDE DEF u
<1>6. Timed(u) /\ Since(u) = S /\ Listed(u) = Listed(c)
  BY <1>5 DEF Timed, Since, Listed, S
<1>7. Exact(u, left)
  BY <1>5, <1>6 DEF Exact, S
<1>8. u.alarm + AddModulo(counter, u.lower) <= MaxValue \div 2
  <2>1. AddModulo(counter, u.lower) = 0
    BY <1>5, Sizes DEF AddModulo, Timed
  <2> QED BY <1>4, <1>5, <2>1, Sizes
<1>9. ASSUME NEW i \in 1 .. m PROVE u.alarm <= left[c.list[i].timer]
  <2>1. i \in 0 .. m /\ T[i] \in Nat /\ T[1] <= T[i] /\ left[c.list[i].timer] \in Int
    <3>1. i \in 0 .. m /\ 1 <= i
      BY <1>1
    <3> QED BY <1>1, <1>2, <3>1, TargetGrows DEF T
  <2>2. NonNegative(T[i] - S) = NonNegative(left[c.list[i].timer])
    BY DEF Exact, T, S
  <2> HIDE DEF m
  <2>3. T[i] - S >= A
    BY <1>3, <1>4, <2>1
  <2> QED BY <1>3, <1>4, <1>5, <2>1, <2>2, <2>3 DEF NonNegative
<1>10. Alarmed(u, left)
  <2>1. u.alarm \in -Latency .. Off
    BY <1>4, <1>5, Sizes
  <2>2. u.alarm + Since(u) <= T[1]
    BY <1>3, <1>4, <1>5, <1>6
  <2> QED BY <1>5, <1>8, <1>9, <2>1, <2>2 DEF Alarmed, T
<1> QED BY <1>6, <1>7, <1>10 DEF u, A, T, S

(* What the handler leaves in the list is not due, and it calls back nothing *)
(* that is not.                                                             *)
LEMMA CallbacksKeep ==
  ASSUME left \in Times, NEW c, Exact(c, left), Timed(c), Extended => c.lower = counter,
         c.alarm \in -Latency .. Off, c.list # <<>>, Target(c.list)[1] <= Since(c)
  PROVE  LET first == Popped(AtTarget(c), Expired(AtTarget(c)))
             rest  == UpdateHead(first)
             u     == Update(Popped(rest, Expired(rest)))
         IN /\ Exact(u, left) /\ Timed(u) /\ Alarmed(u, left)
            /\ Listed(u) = Listed(c) \ {x \in Listed(c) : left[x] <= 0}
            /\ \E x \in Listed(c) : left[x] <= 0
<1> DEFINE a     == AtTarget(c)
           first == Popped(a, Expired(a))
           rest  == UpdateHead(first)
           p     == Popped(rest, Expired(rest))
           u     == Update(p)
<1>1. /\ Exact(a, left) /\ Listed(a) = Listed(c) /\ Timed(a)
      /\ a.checkpoint = c.checkpoint /\ a.lower = c.lower /\ a.alarm = c.alarm
  BY AtTargetExact
<1> HIDE DEF a
<1>2. /\ Exact(first, left) /\ first.checkpoint = a.checkpoint /\ first.lower = a.lower
      /\ first.alarm = a.alarm /\ Listed(first) \subseteq Listed(a)
      /\ \A x \in Listed(a) \ Listed(first) : left[x] <= 0
  BY <1>1, PoppedExact
<1> HIDE DEF first
<1>3. Timed(first)
  BY <1>1, <1>2 DEF Timed
<1>4. /\ Exact(rest, left) /\ Fresh(rest) /\ rest.alarm = first.alarm
      /\ Listed(rest) = Listed(first)
  <2>1. /\ Exact(rest, left) /\ Fresh(rest) /\ rest.alarm = first.alarm
        /\ Len(rest.list) = Len(first.list)
        /\ \A i \in 1 .. Len(first.list) : rest.list[i].timer = first.list[i].timer
    BY <1>2, <1>3, UpdateHeadExact
  <2> HIDE DEF rest
  <2>2. DOMAIN rest.list = 1 .. Len(first.list) /\ DOMAIN first.list = 1 .. Len(first.list)
    BY <1>2, <2>1, ExactHas
  <2> QED BY <2>1, <2>2 DEF Listed
<1> HIDE DEF rest
<1>5. Since(rest) = 0 /\ Timed(rest)
  BY <1>4, ExactHas, FreshSince DEF Fresh
<1>6. /\ Exact(p, left) /\ p.base = rest.base /\ p.checkpoint = rest.checkpoint
      /\ p.lower = rest.lower /\ p.alarm = rest.alarm
      /\ Listed(p) \subseteq Listed(rest)
      /\ \A x \in Listed(rest) \ Listed(p) : left[x] <= 0
      /\ \A x \in Listed(p) : left[x] > 0
  BY <1>4, <1>5, PoppedExact
<1> HIDE DEF p
<1>7. Timed(p) /\ Since(p) = 0 /\ (Extended => p.lower = counter)
  BY <1>4, <1>5, <1>6 DEF Timed, Since, Fresh
<1>8. \A x \in Listed(p) : left[x] >= 0
  <2>1. DOMAIN p.list = 1 .. Len(p.list)
        /\ \A i \in 1 .. Len(p.list) : left[p.list[i].timer] \in Int
    BY <1>6, ExactHas
  <2>2. \A x \in Listed(p) : left[x] \in Int
    BY <2>1 DEF Listed
  <2> QED BY <1>6, <2>2
<1>9. p.alarm \in -Latency .. Off
  BY <1>1, <1>2, <1>4, <1>6
<1>10. Exact(u, left) /\ Timed(u) /\ Alarmed(u, left) /\ Listed(u) = Listed(p)
  BY <1>6, <1>7, <1>8, <1>9, UpdateAlarms
<1> HIDE DEF u
<1>11. \A x \in Listed(p) : ~(left[x] <= 0)
  <2>1. DOMAIN p.list = 1 .. Len(p.list)
        /\ \A i \in 1 .. Len(p.list) : left[p.list[i].timer] \in Int
    BY <1>6, ExactHas
  <2>2. \A x \in Listed(p) : left[x] \in Int
    BY <2>1 DEF Listed
  <2> QED BY <1>6, <2>2
<1>12. Listed(u) = Listed(c) \ {x \in Listed(c) : left[x] <= 0}
  BY <1>1, <1>2, <1>4, <1>6, <1>10, <1>11
<1>13. \E x \in Listed(c) : left[x] <= 0
  <2> DEFINE x == c.list[1].timer
  <2>1. 1 \in 1 .. Len(c.list) /\ 1 \in 0 .. Len(c.list) /\ 1 \in DOMAIN c.list
    <3>1. Len(c.list) \in Nat /\ c.list \in Seq(Links) /\ DOMAIN c.list = 1 .. Len(c.list)
      BY ExactHas
    <3>2. Len(c.list) # 0
      BY <3>1, EmptySeq
    <3> QED BY <3>1, <3>2
  <2>2. NonNegative(Target(c.list)[1] - Since(c)) = NonNegative(left[x])
    BY <2>1 DEF Exact
  <2>3. Target(c.list)[1] \in Nat /\ Since(c) \in Nat /\ left[x] \in Int
    BY <2>1, ExactHas, SinceIs
  <2>4. x \in Listed(c)
    BY <2>1 DEF Listed
  <2> HIDE DEF x
  <2>5. left[x] <= 0
    BY <2>2, <2>3 DEF NonNegative
  <2> QED BY <2>4, <2>5
<1> QED BY <1>10, <1>12, <1>13 DEF u, p, rest, first, a

(* ztimer_handler() calls back all timers that are due, or none when none   *)
(* is.                                                                      *)
LEMMA HandlerKeeps ==
  ASSUME ClockInv, ZtimerHandler
  PROVE  /\ ClockInv' /\ left' = left
         /\ \/ Listed(clk)' = Listed(clk)
            \/ /\ \E x \in Listed(clk) : left[x] <= 0
               /\ Listed(clk)' = Listed(clk) \ {x \in Listed(clk) : left[x] <= 0}
<1> DEFINE c == NowRead(clk)
           g == IF Extended THEN NowRead(clk) ELSE clk
<1>1. left \in Times /\ Timed(clk) /\ Exact(clk, left) /\ Alarmed(clk, left)
  BY DEF ClockInv
<1>2. left' = left /\ UNCHANGED <<counter, time>> /\ clk.alarm <= 0
  BY DEF ZtimerHandler
<1>3. g = c
  BY DEF NowRead
<1> HIDE DEF g
<1>4. \/ c.list = <<>> /\ clk' = Update(c)
      \/ /\ c.list # <<>> /\ Postponed(c) > 0
         /\ clk' = [c EXCEPT !.alarm = Smaller(Postponed(c), MaxValue \div 2)]
      \/ /\ c.list # <<>> /\ Postponed(c) = 0
         /\ LET first == Popped(AtTarget(c), Expired(AtTarget(c)))
                rest  == UpdateHead(first)
            IN clk' = Update(Popped(rest, Expired(rest)))
  <2>1. \/ g.list = <<>> /\ clk' = Update(g)
        \/ /\ g.list # <<>> /\ Postponed(g) > 0
           /\ clk' = [g EXCEPT !.alarm = Smaller(Postponed(g), MaxValue \div 2)]
        \/ /\ g.list # <<>> /\ Postponed(g) = 0
           /\ LET first == Popped(AtTarget(g), Expired(AtTarget(g)))
                  rest  == UpdateHead(first)
              IN clk' = Update(Popped(rest, Expired(rest)))
    BY DEF ZtimerHandler, g
  <2> HIDE DEF c
  <2> QED BY <1>3, <2>1
<1>5. /\ Exact(c, left) /\ Timed(c) /\ (Extended => c.lower = counter)
      /\ c.list = clk.list /\ c.base = clk.base /\ c.alarm = clk.alarm
      /\ Since(c) = Since(clk)
  BY <1>1, ReadExact
<1> HIDE DEF c
<1>6. Listed(c) = Listed(clk) /\ c.alarm <= 0 /\ c.alarm \in -Latency .. Off
  BY <1>1, <1>2, <1>5 DEF Listed, Alarmed
<1>7. CASE c.list = <<>> /\ clk' = Update(c)
  <2>1. Listed(c) = {}
    BY <1>7 DEF Listed
  <2>2. LET u == Update(c)
        IN Exact(u, left) /\ Timed(u) /\ Alarmed(u, left) /\ Listed(u) = Listed(c)
    BY <1>1, <1>5, <1>6, <1>7, <2>1, UpdateAlarms
  <2>3. ClockInv'
    BY <1>1, <1>2, <1>7, <2>2, SameTime
  <2>4. Listed(clk)' = Listed(clk)
    BY <1>6, <1>7, <2>2 DEF Listed
  <2> QED BY <1>2, <2>3, <2>4
<1>8. ASSUME c.list # <<>>
      PROVE  /\ Target(c.list)[1] \in Nat /\ Since(c) \in Nat
             /\ Postponed(c) = IF Target(c.list)[1] <= Since(c) THEN 0
                               ELSE Target(c.list)[1] - Since(c)
             /\ ~Extended => Target(c.list)[1] <= Since(c)
  <2>1. Alarmed(c, left)
    <3>1. /\ \A i \in 1 .. Len(c.list) : c.alarm <= left[c.list[i].timer]
          /\ Len(c.list) > 0 =>
               /\ c.alarm + Since(c) <= Target(c.list)[1]
               /\ ~Extended => NonNegative(c.alarm) = NonNegative(Target(c.list)[1] - Since(c))
      <4>1. /\ \A i \in 1 .. Len(clk.list) : clk.alarm <= left[clk.list[i].timer]
            /\ Len(clk.list) > 0 =>
                 /\ clk.alarm + Since(clk) <= Target(clk.list)[1]
                 /\ ~Extended =>
                      NonNegative(clk.alarm) = NonNegative(Target(clk.list)[1] - Since(clk))
        BY <1>1 DEF Alarmed
      <4> QED BY <1>5, <4>1
    <3>2. Extended => c.alarm + AddModulo(counter, c.lower) <= MaxValue \div 2
      <4>1. SUFFICES ASSUME Extended
                     PROVE  c.alarm + AddModulo(counter, c.lower) <= MaxValue \div 2
        OBVIOUS
      <4>2. AddModulo(counter, c.lower) = 0
        BY <1>5, <4>1, Sizes DEF AddModulo, Timed
      <4> DEFINE q == c.alarm
      <4>3. q \in -Latency .. Off /\ q <= 0 /\ q + 0 <= 0
        BY <1>6, Sizes
      <4> HIDE DEF q
      <4>4. q + 0 <= MaxValue \div 2
        BY <4>3, Sizes
      <4> QED BY <4>2, <4>4 DEF q
    <3> QED BY <1>6, <3>1, <3>2 DEF Alarmed
  <2>2. Since(c) \in Nat
    BY <1>1, <1>5, ExactHas, SinceIs
  <2>3. /\ left \in Times /\ Exact(c, left) /\ Timed(c) /\ Alarmed(c, left)
        /\ c.alarm <= 0 /\ c.list # <<>>
    BY <1>1, <1>5, <1>6, <1>8, <2>1
  <2>4. /\ Target(c.list)[1] \in Nat
        /\ Postponed(c) = IF Target(c.list)[1] <= Since(c) THEN 0
                          ELSE Target(c.list)[1] - Since(c)
        /\ ~Extended => Target(c.list)[1] <= Since(c)
    BY <2>3, PostponedIs
  <2> QED BY <2>2, <2>4
<1>9. CASE /\ c.list # <<>> /\ Postponed(c) > 0
           /\ clk' = [c EXCEPT !.alarm = Smaller(Postponed(c), MaxValue \div 2)]
  <2>1. /\ Extended /\ Target(c.list)[1] > Since(c)
        /\ Postponed(c) = Target(c.list)[1] - Since(c)
    BY <1>8, <1>9
  <2>2. LET x == Target(c.list)[1] - Since(c)
            u == [c EXCEPT !.alarm = Smaller(x, MaxValue \div 2)]
        IN Exact(u, left) /\ Timed(u) /\ Alarmed(u, left) /\ Listed(u) = Listed(c)
    BY <1>1, <1>5, <1>9, <2>1, PostponedAlarms
  <2> DEFINE u == [c EXCEPT !.alarm = Smaller(Postponed(c), MaxValue \div 2)]
  <2>3. /\ Exact(u, left) /\ Timed(u) /\ Alarmed(u, left) /\ Listed(u) = Listed(c)
        /\ clk' = u
    BY <1>9, <2>1, <2>2
  <2> HIDE DEF u
  <2>4. ClockInv'
    BY <1>1, <1>2, <2>3, SameTime
  <2>5. Listed(clk)' = Listed(clk)
    BY <1>6, <2>3 DEF Listed
  <2> QED BY <1>2, <2>4, <2>5
<1>10. CASE /\ c.list # <<>> /\ Postponed(c) = 0
            /\ LET first == Popped(AtTarget(c), Expired(AtTarget(c)))
                   rest  == UpdateHead(first)
               IN clk' = Update(Popped(rest, Expired(rest)))
  <2>1. Target(c.list)[1] <= Since(c)
    BY <1>8, <1>10
  <2> DEFINE first == Popped(AtTarget(c), Expired(AtTarget(c)))
             rest  == UpdateHead(first)
             u     == Update(Popped(rest, Expired(rest)))
  <2>2. /\ Exact(u, left) /\ Timed(u) /\ Alarmed(u, left)
        /\ Listed(u) = Listed(c) \ {x \in Listed(c) : left[x] <= 0}
        /\ \E x \in Listed(c) : left[x] <= 0
    BY <1>1, <1>5, <1>6, <1>10, <2>1, CallbacksKeep
  <2>3. clk' = u
    BY <1>10
  <2> HIDE DEF u
  <2>4. ClockInv'
    BY <1>1, <1>2, <2>2, <2>3, SameTime
  <2>5. Listed(clk)' = Listed(clk) \ {x \in Listed(clk) : left[x] <= 0}
    BY <1>6, <2>2, <2>3 DEF Listed
  <2> QED BY <1>2, <1>6, <2>2, <2>4, <2>5
<1> QED BY <1>4, <1>7, <1>9, <1>10

(* A tick of the counter is a tick of the time that is told.                *)
LEMMA TickTells ==
  ASSUME Timed(clk), clk \in Clocks, clk.alarm > -Latency, clk.alarm \in Int,
         Extended => clk.alarm + AddModulo(counter, clk.lower) <= MaxValue \div 2,
         counter' = (counter + 1) % (MaxValue + 1), time' = (time + 1) % ClockWord
  PROVE  /\ counter' \in 0 .. MaxValue /\ time' \in Words
         /\ (clk.checkpoint + AddModulo(counter', clk.lower)) % ClockWord = time'
         /\ ~Extended => counter' = time'
         /\ Extended => AddModulo(counter', clk.lower) = AddModulo(counter, clk.lower) + 1
<1> DEFINE cp == clk.checkpoint
           low == clk.lower
           A == AddModulo(counter, low)
           half == MaxValue \div 2
           q == clk.alarm
<1>1. /\ counter \in 0 .. MaxValue /\ time \in 0 .. ClockWord - 1 /\ cp \in 0 .. ClockWord - 1
      /\ low \in 0 .. MaxValue /\ (cp + A) % ClockWord = time /\ q \in Int /\ q > -Latency
  BY DEF Timed, Clocks, Words
<1>2. ~Extended => counter = time /\ cp = 0 /\ low = 0
  BY DEF Timed
<1>3. Extended => q + A <= half
  OBVIOUS
<1>4. /\ ClockWord \in Nat \ {0} /\ MaxValue \in Nat /\ Latency \in Nat /\ MaxValue < ClockWord
      /\ half \in Nat /\ half + Latency <= MaxValue
  BY Sizes
<1>5. counter' = IF counter = MaxValue THEN 0 ELSE counter + 1
  BY <1>1, CounterOf
<1> HIDE DEF cp, low, A, half, q
<1>6. time' = IF time + 1 < ClockWord THEN time + 1 ELSE 0
  <2> DEFINE n == time + 1
             w == n % ClockWord
  <2>1. n \in -ClockWord .. 2 * ClockWord - 1 /\ n \in 1 .. ClockWord /\ n \in Int
    BY <1>1, <1>4
  <2>2. time' = w
    OBVIOUS
  <2>3. n = time + 1
    OBVIOUS
  <2> HIDE DEF n
  <2>4. w = IF n < 0 THEN n + ClockWord ELSE IF n < ClockWord THEN n ELSE n - ClockWord
    BY <2>1, WordOf
  <2> HIDE DEF w
  <2>5. time' = IF n < ClockWord THEN n ELSE 0
    BY <1>4, <2>1, <2>2, <2>4
  <2> QED BY <1>1, <2>1, <2>3, <2>5
<1>7. counter' \in 0 .. MaxValue /\ time' \in 0 .. ClockWord - 1
  BY <1>1, <1>4, <1>5, <1>6
<1>8. A \in 0 .. MaxValue
      /\ A = IF counter < low THEN counter + MaxValue + 1 - low ELSE counter - low
  BY <1>1, <1>4 DEF AddModulo, A
<1>9. ASSUME Extended
      PROVE  AddModulo(counter', low) = A + 1 /\ A + 1 <= MaxValue
  <2>1. A < MaxValue
    BY <1>1, <1>3, <1>4, <1>8, <1>9
  <2> DEFINE B == AddModulo(counter', low)
  <2>2. B = IF counter' < low THEN counter' + MaxValue + 1 - low ELSE counter' - low
    BY DEF AddModulo
  <2> HIDE DEF B
  <2>3. CASE counter = MaxValue
    <3>1. counter' = 0
      BY <1>5, <2>3
    <3> QED BY <1>1, <1>4, <1>8, <2>1, <2>2, <2>3, <3>1 DEF B
  <2>4. CASE counter # MaxValue
    <3>1. counter' = counter + 1
      BY <1>5, <2>4
    <3> QED BY <1>1, <1>4, <1>8, <2>1, <2>2, <2>4, <3>1 DEF B
  <2> QED BY <2>3, <2>4
<1>10. ASSUME Extended PROVE (cp + AddModulo(counter', low)) % ClockWord = time'
  <2> DEFINE s == cp + A
             n == s + 1
             v == s % ClockWord
             w == n % ClockWord
  <2>1. /\ s \in Int /\ s \in 0 .. 2 * ClockWord - 2 /\ n = s + 1
        /\ s \in -ClockWord .. 2 * ClockWord - 1 /\ n \in -ClockWord .. 2 * ClockWord - 1
    BY <1>1, <1>4, <1>8, <1>9, <1>10
  <2>2. v = time
    BY <1>1
  <2>3. cp + AddModulo(counter', low) = n
    BY <1>1, <1>8, <1>9, <1>10
  <2> HIDE DEF s, n
  <2>4. v = IF s < 0 THEN s + ClockWord ELSE IF s < ClockWord THEN s ELSE s - ClockWord
    BY <2>1, WordOf
  <2>5. w = IF n < 0 THEN n + ClockWord ELSE IF n < ClockWord THEN n ELSE n - ClockWord
    BY <2>1, WordOf
  <2>6. (cp + AddModulo(counter', low)) % ClockWord = w
    BY <2>3
  <2> HIDE DEF v, w
  <2>7. w = time'
    BY <1>1, <1>4, <1>6, <2>1, <2>2, <2>4, <2>5
  <2> QED BY <2>6, <2>7
<1>11. ASSUME ~Extended
       PROVE  counter' = time' /\ (cp + AddModulo(counter', low)) % ClockWord = time'
  <2>1. MaxValue = ClockWord - 1
    BY <1>4, <1>11 DEF Extended
  <2>2. counter' = time' /\ time' \in Int /\ time' \in -ClockWord .. 2 * ClockWord - 1
    BY <1>1, <1>2, <1>4, <1>5, <1>6, <1>7, <1>11, <2>1
  <2>3. cp + AddModulo(counter', low) = time'
    BY <1>2, <1>7, <1>11, <2>2 DEF AddModulo
  <2> DEFINE w == time' % ClockWord
  <2>4. w = IF time' < 0 THEN time' + ClockWord
            ELSE IF time' < ClockWord THEN time' ELSE time' - ClockWord
    BY <2>2, WordOf
  <2>5. (cp + AddModulo(counter', low)) % ClockWord = w
    BY <2>3
  <2> HIDE DEF w
  <2> QED BY <1>4, <1>7, <2>2, <2>4, <2>5
<1> QED BY <1>7, <1>9, <1>10, <1>11 DEF cp, low, A, Words

(* A tick takes one from the time of every timer, and lets one more pass.   *)
LEMMA TickKeeps ==
  ASSUME ClockInv, Tick
  PROVE  /\ ClockInv' /\ Listed(clk)' = Listed(clk)
         /\ \A x \in Listed(clk) : left[x] > -Latency
         /\ left' = [t \in Timers |-> IF left[t] < -Latency THEN left[t] ELSE left[t] - 1]
<1> DEFINE m == Len(clk.list)
           T == Target(clk.list)
           S == Since(clk)
           q == clk.alarm
           r == clk'.alarm
           half == MaxValue \div 2
<1>1. left \in Times /\ Timed(clk) /\ Exact(clk, left) /\ Alarmed(clk, left)
  BY DEF ClockInv
<1>2. /\ q > -Latency /\ clk' = [clk EXCEPT !.alarm = IF q = Off THEN q ELSE q - 1]
      /\ counter' = (counter + 1) % (MaxValue + 1) /\ time' = (time + 1) % ClockWord
      /\ left' = [t \in Timers |-> IF left[t] < -Latency THEN left[t] ELSE left[t] - 1]
  BY <1>1, ExactHas DEF Tick, Clocks
<1>3. /\ clk \in Clocks /\ m \in Nat /\ DOMAIN clk.list = 1 .. m /\ T \in [0 .. m -> Nat]
      /\ \A i \in 1 .. m : clk.list[i].timer \in Timers /\ left[clk.list[i].timer] \in Int
  BY <1>1, ExactHas
<1>4. /\ q \in -Latency .. Off /\ q \in Int
      /\ Extended => q + AddModulo(counter, clk.lower) <= half
      /\ \A i \in 1 .. m : q <= left[clk.list[i].timer]
      /\ m > 0 => q + S <= T[1]
  BY <1>1, Sizes DEF Alarmed
<1>5. ~Extended /\ m > 0 => NonNegative(q) = NonNegative(T[1] - S)
  BY <1>1 DEF Alarmed
<1>6. S \in Nat /\ S = IF time >= clk.base THEN time - clk.base ELSE time - clk.base + ClockWord
  BY <1>1, <1>3, SinceIs
<1>7. /\ MaxOffset \in Nat /\ Latency \in Nat /\ MaxValue \in Nat /\ ClockWord \in Nat
      /\ half \in Nat /\ half <= MaxValue /\ Off = MaxOffset + MaxValue /\ half < Off
      /\ 2 * (MaxOffset + Latency) < ClockWord /\ 1 < MaxValue
  <2>1. half < MaxValue
    BY Sizes
  <2> HIDE DEF half
  <2> QED BY <2>1, Sizes DEF half
<1>8. /\ clk' \in Clocks /\ clk'.list = clk.list /\ clk'.base = clk.base
      /\ clk'.last = clk.last /\ clk'.blocked = clk.blocked
      /\ clk'.checkpoint = clk.checkpoint /\ clk'.lower = clk.lower
      /\ r = IF q = Off THEN q ELSE q - 1
  <2>1. (IF q = Off THEN q ELSE q - 1) \in Int
    BY <1>4
  <2> QED BY <1>2, <1>3, <2>1 DEF Clocks
<1>9. /\ counter' \in 0 .. MaxValue /\ time' \in Words
      /\ (clk.checkpoint + AddModulo(counter', clk.lower)) % ClockWord = time'
      /\ ~Extended => counter' = time'
      /\ Extended => AddModulo(counter', clk.lower) = AddModulo(counter, clk.lower) + 1
  BY <1>1, <1>2, <1>3, <1>4, TickTells
<1>10. Timed(clk)'
  <2>1. ~Extended => clk.checkpoint = 0 /\ clk.lower = 0
    BY <1>1 DEF Timed
  <2> QED BY <1>8, <1>9, <2>1 DEF Timed
<1> HIDE DEF m, T, S, q, r, half
(* A timer that is set has not waited for so long that it is not counted.   *)
<1>11. ASSUME NEW i \in 1 .. m
       PROVE  /\ left[clk.list[i].timer] > -Latency
              /\ left'[clk.list[i].timer] = left[clk.list[i].timer] - 1
  <2> DEFINE t == clk.list[i].timer
  <2>1. t \in Timers /\ left[t] \in Int /\ q <= left[t]
    BY <1>3, <1>4
  <2> HIDE DEF t
  <2>2. left[t] > -Latency /\ ~(left[t] < -Latency)
    BY <1>2, <1>4, <1>7, <2>1
  <2>3. left'[t] = left[t] - 1
    BY <1>2, <2>1, <2>2
  <2> QED BY <2>2, <2>3 DEF t
<1>12. left' \in Times
  <2>1. ASSUME NEW t \in Timers
        PROVE  (IF left[t] < -Latency THEN left[t] ELSE left[t] - 1) \in -Latency - 1 .. MaxOffset
    <3>1. left[t] \in -Latency - 1 .. MaxOffset
      BY <1>1 DEF Times
    <3> QED BY <1>7, <3>1
  <2> QED BY <1>2, <2>1 DEF Times
(* Nor has so much time passed since the base that it wraps.                *)
<1>13. ASSUME m > 0
       PROVE  /\ Since(clk)' = S + 1 /\ q # Off /\ r = q - 1
              /\ 1 \in 1 .. m /\ T[1] \in Nat /\ T[1] <= MaxOffset
  <2>1. 1 \in 1 .. m /\ 1 \in 0 .. m
    BY <1>3, <1>13
  <2>2. T[1] \in Nat /\ T[1] <= MaxOffset
    <3>1. T[1] <= MaxOffset
      BY <1>1, <2>1 DEF Exact, T, m
    <3> QED BY <1>3, <2>1, <3>1
  <2>3. q + S <= T[1] /\ q >= -Latency
    BY <1>4, <1>13
  <2>4. S <= MaxOffset + Latency /\ S < ClockWord - 1
    BY <1>2, <1>4, <1>6, <1>7, <2>2, <2>3
  <2>5. q # Off
    BY <1>4, <1>6, <1>7, <2>2, <2>3
  <2>6. Since(clk)' = S + 1
    <3> DEFINE b == clk.base
               n == time + 1
               w == n % ClockWord
    <3>1. Since(clk)' = (time' - b) % ClockWord
      BY <1>8 DEF Since
    <3>2. time \in 0 .. ClockWord - 1 /\ b \in 0 .. ClockWord - 1
      BY <1>1, <1>3 DEF Timed, Clocks, Words
    <3>3. n \in -ClockWord .. 2 * ClockWord - 1 /\ n = time + 1 /\ time' = w
      BY <1>2, <1>7, <3>2
    <3>4. S = IF time >= b THEN time - b ELSE time - b + ClockWord
      BY <1>6
    <3> HIDE DEF n, b
    <3>5. w = IF n < 0 THEN n + ClockWord ELSE IF n < ClockWord THEN n ELSE n - ClockWord
      BY <3>3, WordOf
    <3> HIDE DEF w
    <3> DEFINE k == time' - b
               v == k % ClockWord
    <3>6. k \in -ClockWord .. 2 * ClockWord - 1
          /\ k = (IF n < ClockWord THEN n ELSE n - ClockWord) - b
      BY <1>7, <3>2, <3>3, <3>5
    <3>7. Since(clk)' = v
      BY <3>1
    <3> HIDE DEF k
    <3>8. v = IF k < 0 THEN k + ClockWord ELSE IF k < ClockWord THEN k ELSE k - ClockWord
      BY <3>6, WordOf
    <3> HIDE DEF v
    <3>9. v = S + 1
      BY <1>6, <1>7, <2>4, <3>2, <3>3, <3>4, <3>6, <3>8
    <3> QED BY <3>7, <3>9
  <2> QED BY <1>8, <2>1, <2>2, <2>5, <2>6
<1>14. Exact(clk, left)'
  <2>1. ASSUME NEW i \in 1 .. m
        PROVE  /\ T[i] <= MaxOffset
               /\ NonNegative(T[i] - Since(clk)') = NonNegative(left'[clk.list[i].timer])
    <3> DEFINE x == left[clk.list[i].timer]
    <3>1. m > 0 /\ i \in 0 .. m
      BY <1>3
    <3>2. T[i] <= MaxOffset /\ NonNegative(T[i] - S) = NonNegative(x)
      BY <1>1 DEF Exact, T, S, m
    <3>3. T[i] \in Nat /\ x \in Int
      BY <1>3, <3>1
    <3>4. Since(clk)' = S + 1 /\ left'[clk.list[i].timer] = x - 1
      BY <1>11, <1>13, <3>1
    <3> HIDE DEF x
    <3>5. NonNegative(T[i] - (S + 1)) = NonNegative(x - 1)
      BY <1>6, <3>2, <3>3 DEF NonNegative
    <3> QED BY <3>2, <3>4, <3>5
  <2>2. ASSUME NEW i \in 1 .. m, NEW j \in 1 .. m, i < j
        PROVE  /\ clk.list[i].timer # clk.list[j].timer
               /\ left'[clk.list[i].timer] <= left'[clk.list[j].timer]
    <3>1. /\ clk.list[i].timer # clk.list[j].timer
          /\ left[clk.list[i].timer] <= left[clk.list[j].timer]
      BY <1>1, <2>2 DEF Exact, m
    <3>2. left[clk.list[i].timer] \in Int /\ left[clk.list[j].timer] \in Int
      BY <1>3
    <3>3. left[clk.list[i].timer] - 1 <= left[clk.list[j].timer] - 1
      BY <3>1, <3>2
    <3> QED BY <1>11, <3>1, <3>3
  <2>3. /\ clk.last = IF m = 0 THEN NoTimer ELSE clk.list[m].timer
        /\ clk.blocked = IF m = 0 THEN 0 ELSE 1
    BY <1>1 DEF Exact, m
  <2> QED BY <1>8, <2>1, <2>2, <2>3 DEF Exact, T, m
<1>15. r \in -Latency .. Off
  BY <1>2, <1>4, <1>7, <1>8
<1>16. ASSUME Extended PROVE r + AddModulo(counter', clk'.lower) <= half
  <2> DEFINE a == AddModulo(counter, clk.lower)
  <2>1. a \in Nat
    <3>1. counter \in 0 .. MaxValue /\ clk.lower \in 0 .. MaxValue
      BY <1>1, <1>3 DEF Timed, Clocks
    <3> QED BY <1>7, <3>1 DEF AddModulo
  <2>2. q + a <= half /\ AddModulo(counter', clk'.lower) = a + 1
    BY <1>4, <1>8, <1>9, <1>16
  <2> HIDE DEF a
  <2>3. q # Off
    BY <1>4, <1>7, <2>1, <2>2
  <2> QED BY <1>4, <1>7, <1>8, <2>1, <2>2, <2>3
<1>17. ASSUME NEW i \in 1 .. m PROVE r <= left'[clk.list[i].timer]
  <2>1. m > 0
    BY <1>3
  <2>2. r = q - 1 /\ left'[clk.list[i].timer] = left[clk.list[i].timer] - 1
    BY <1>11, <1>13, <2>1
  <2>3. q <= left[clk.list[i].timer] /\ left[clk.list[i].timer] \in Int
    BY <1>3, <1>4
  <2> QED BY <1>4, <2>2, <2>3
<1>18. ASSUME m > 0
       PROVE  /\ r + Since(clk)' <= T[1]
              /\ ~Extended => NonNegative(r) = NonNegative(T[1] - Since(clk)')
  <2>1. Since(clk)' = S + 1 /\ r = q - 1 /\ T[1] \in Nat
    BY <1>13, <1>18
  <2>2. q + S <= T[1]
    BY <1>4, <1>18
  <2>3. (q - 1) + (S + 1) <= T[1]
    BY <1>4, <1>6, <2>1, <2>2
  <2>4. ASSUME ~Extended PROVE NonNegative(q - 1) = NonNegative(T[1] - (S + 1))
    <3>1. NonNegative(q) = NonNegative(T[1] - S)
      BY <1>5, <1>18, <2>4
    <3> QED BY <1>4, <1>6, <2>1, <3>1 DEF NonNegative
  <2> QED BY <2>1, <2>3, <2>4
<1>19. Alarmed(clk, left)'
  BY <1>8, <1>15, <1>16, <1>17, <1>18 DEF Alarmed, m, T, r, half
<1>20. \A x \in Listed(clk) : left[x] > -Latency
  BY <1>3, <1>11 DEF Listed
<1>21. Listed(clk)' = Listed(clk)
  BY <1>8 DEF Listed
<1> QED BY <1>2, <1>10, <1>12, <1>14, <1>19, <1>20, <1>21 DEF ClockInv

-----------------------------------------------------------------------------
(* The theorems                                                             *)

(* A clock starts without timers and with its first checkpoint to come.     *)
LEMMA ClockStarts ==
  ASSUME ClockInit
  PROVE  ClockInv /\ Listed(clk) = {}
<1> DEFINE A == IF Extended THEN MaxValue \div 2 ELSE Off
<1>1. /\ clk = [list |-> <<>>, base |-> 0, last |-> NoTimer, checkpoint |-> 0, lower |-> 0,
                blocked |-> 0, alarm |-> A]
      /\ counter = 0 /\ time = 0 /\ left = [t \in Timers |-> 0]
  BY DEF ClockInit
<1>2. /\ A \in Int /\ A \in -Latency .. Off /\ (Extended => A + 0 <= MaxValue \div 2)
  <2> DEFINE half == MaxValue \div 2
  <2>1. half \in Nat /\ half <= Off /\ Off \in Nat /\ Latency \in Nat /\ half + 0 = half
    BY Sizes
  <2> HIDE DEF half
  <2> QED BY <2>1 DEF half
<1> HIDE DEF A
<1>3. /\ 0 \in Words /\ 0 \in 0 .. MaxValue /\ 0 \in -Latency - 1 .. MaxOffset /\ 0 \in Int
  BY Sizes DEF Words
<1>4. clk.list = <<>> /\ clk.list \in Seq(Links) /\ Len(clk.list) = 0
  BY <1>1, EmptySeq
<1>5. clk \in Clocks
  BY <1>1, <1>3, <1>2, <1>4 DEF Clocks
<1>6. left \in Times
  BY <1>1, <1>3 DEF Times
<1>7. AddModulo(counter, clk.lower) = 0
  BY <1>1 DEF AddModulo
<1>8. Timed(clk)
  <2>1. (0 + 0) % ClockWord = 0
    BY Sizes
  <2> QED BY <1>1, <1>3, <1>7, <2>1 DEF Timed
<1>9. \A i \in 1 .. Len(clk.list) : FALSE
  BY <1>4
<1>10. Exact(clk, left)
  BY <1>1, <1>4, <1>5, <1>9 DEF Exact
<1>11. Alarmed(clk, left)
  <2>1. ~(Len(clk.list) > 0)
    BY <1>4
  <2> QED BY <1>1, <1>2, <1>7, <1>9, <2>1 DEF Alarmed
<1>12. Listed(clk) = {}
  BY <1>4 DEF Listed
<1> QED BY <1>6, <1>8, <1>10, <1>11, <1>12 DEF ClockInv

(* A step of another part changes nothing.                                  *)
LEMMA ClockStutters ==
  ASSUME ClockInv, UNCHANGED clockVars
  PROVE  ClockInv' /\ Listed(clk)' = Listed(clk)
<1>1. clk' = clk /\ left' = left /\ UNCHANGED <<counter, time>>
  BY DEF clockVars
<1>2. ClockInv'
  BY <1>1, SameTime DEF ClockInv
<1>3. Listed(clk)' = Listed(clk)
  BY <1>1 DEF Listed
<1> QED BY <1>2, <1>3

(* Every step, or none, keeps the invariant.                                *)
LEMMA ClockStep ==
  ASSUME ClockInv, [ClockNext]_clockVars
  PROVE  ClockInv'
<1>1. CASE UNCHANGED clockVars
  BY <1>1, ClockStutters
<1>2. ASSUME NEW t \in Timers, ZtimerRemove(t) PROVE ClockInv'
  BY <1>2, RemoveKeeps
<1>3. ASSUME NEW t \in Timers, NEW val \in 0 .. MaxOffset, ZtimerSet(t, val) PROVE ClockInv'
  BY <1>3, SetKeeps
<1>4. CASE ZtimerHandler
  BY <1>4, HandlerKeeps
<1>5. CASE Tick
  BY <1>5, TickKeeps
<1> QED BY <1>1, <1>2, <1>3, <1>4, <1>5 DEF ClockNext

(* The list says of every timer when it is due, the clock tells the time,   *)
(* and the alarm comes before either could be lost: the inductive invariant. *)
THEOREM ClockInvariant == ClockSpec => []ClockInv
<1>1. ClockInit => ClockInv
  BY ClockStarts
<1>2. ClockInv /\ [ClockNext]_clockVars => ClockInv'
  BY ClockStep
<1> QED BY <1>1, <1>2, PTL DEF ClockSpec

(* The time that _ztimer_now() makes of a counter that wraps is the time:   *)
(* no sequence of calls, and no delay of the handler up to the latency, lets *)
(* the counter go round unseen.                                             *)
THEOREM TimeAlwaysExtended == ClockSpec => []TimeExtended
<1>1. ClockInv => TimeExtended
  BY DEF ClockInv, Timed, TimeExtended
<1> QED BY <1>1, ClockInvariant, PTL

(* The offsets of the list add up to the time that each timer has left, in  *)
(* the order of the list, whatever was inserted, removed and called back.   *)
THEOREM ChainAlwaysExact == ClockSpec => []ChainExact
<1>1. ASSUME ClockInv PROVE ChainExact
  <2> DEFINE m == Len(clk.list)
             T == Target(clk.list)
  <2>1. left \in Times /\ Timed(clk) /\ Exact(clk, left) /\ Alarmed(clk, left)
    BY <1>1 DEF ClockInv
  <2>2. /\ clk \in Clocks /\ clk.list \in Seq(Links) /\ m \in Nat
        /\ DOMAIN clk.list = 1 .. m /\ T \in [0 .. m -> Nat]
        /\ \A i \in 1 .. m : clk.list[i] \in Links
    BY <2>1, ExactHas
  <2>3. clk.list = <<>> <=> m = 0
    BY <2>2, EmptySeq
  <2>4. clk.list \in Seq(Entries)
    <3>1. ASSUME NEW i \in 1 .. m PROVE clk.list[i] \in Entries
      <4>1. i \in 0 .. m /\ i - 1 \in 0 .. m
        BY <2>2
      <4>2. T[i] = T[i - 1] + clk.list[i].offset /\ T[i] <= MaxOffset
        BY <2>1, <2>2, TargetOf DEF Exact
      <4>3. T[i] \in Nat /\ T[i - 1] \in Nat /\ clk.list[i].offset \in Nat
        BY <2>2, <4>1 DEF Links
      <4> HIDE DEF T
      <4>4. clk.list[i].offset \in 0 .. MaxOffset
        BY <4>2, <4>3, Sizes
      <4> QED BY <2>2, <4>4 DEF Links, Entries
    <3> DEFINE l == clk.list
    <3>2. l = [i \in 1 .. m |-> l[i]]
      BY <2>2
    <3> HIDE DEF l, m
    <3>3. l \in [1 .. m -> Entries]
      BY <3>1, <3>2 DEF l
    <3> QED BY <2>2, <3>3, IsList DEF l
  <2>5. ClockType
    <3>1. clk.blocked \in 0 .. 1 /\ clk.alarm \in -Latency .. Off
      BY <2>1 DEF Exact, Alarmed
    <3>2. clk \in [list : Seq(Entries), base : Words, last : Timers \cup {NoTimer},
                   checkpoint : Words, lower : 0 .. MaxValue, blocked : 0 .. 1,
                   alarm : -Latency .. Off]
      BY <2>2, <2>4, <3>1 DEF Clocks
    <3> QED BY <2>1, <3>2 DEF ClockType, Timed, Times
  <2> DEFINE elapsed == (time - clk.base) % ClockWord
  <2>6. \A i \in 1 .. m : NonNegative(T[i] - elapsed) = NonNegative(left[clk.list[i].timer])
    <3>1. Since(clk) = elapsed
      BY DEF Since
    <3> HIDE DEF elapsed
    <3> QED BY <2>1, <3>1 DEF Exact
  <2>7. \A i, j \in 1 .. m : i < j =>
          /\ clk.list[i].timer # clk.list[j].timer
          /\ left[clk.list[i].timer] <= left[clk.list[j].timer]
    BY <2>1 DEF Exact
  <2>8. /\ clk.last = IF clk.list = <<>> THEN NoTimer ELSE clk.list[Len(clk.list)].timer
        /\ clk.blocked = IF clk.list = <<>> THEN 0 ELSE 1
    BY <2>1, <2>3 DEF Exact
  <2>9. \A i \in DOMAIN clk.list :
          LET e == (time - clk.base) % ClockWord
          IN NonNegative(Target(clk.list)[i] - e) = NonNegative(left[clk.list[i].timer])
    BY <2>2, <2>6
  <2>10. \A i, j \in DOMAIN clk.list : i < j =>
           /\ clk.list[i].timer # clk.list[j].timer
           /\ left[clk.list[i].timer] <= left[clk.list[j].timer]
    BY <2>2, <2>7
  <2> QED BY <2>5, <2>8, <2>9, <2>10 DEF ChainExact
<1>2. ClockInv => ChainExact
  BY <1>1
<1> QED BY <1>2, ClockInvariant, PTL

(* The clock is an alarm clock: no callback comes before its time, none is  *)
(* forgotten and none comes later than the latency of the interrupt, through *)
(* checkpoints, alarms for timers that are gone and all rounds of the counter. *)
THEOREM ClockIsAlarmClock == ClockSpec => AlarmClockSpec
<1>1. ClockInit => Alarms!Init
  BY ClockStarts DEF ClockInit, Alarms!Init
<1>2. ASSUME ClockInv, [ClockNext]_clockVars PROVE [Alarms!Next]_(Alarms!vars)
  <2>1. CASE UNCHANGED clockVars
    BY <1>2, <2>1, ClockStutters DEF Alarms!vars, clockVars
  <2>2. ASSUME NEW t \in Timers, ZtimerRemove(t) PROVE [Alarms!Next]_(Alarms!vars)
    <3>1. Alarms!Remove(t)
      BY <1>2, <2>2, RemoveKeeps DEF Alarms!Remove
    <3> QED BY <3>1 DEF Alarms!Next
  <2>3. ASSUME NEW t \in Timers, NEW val \in 0 .. MaxOffset, ZtimerSet(t, val)
        PROVE  [Alarms!Next]_(Alarms!vars)
    <3>1. Alarms!Set(t, val)
      BY <1>2, <2>3, SetKeeps DEF Alarms!Set
    <3> QED BY <3>1 DEF Alarms!Next
  <2>4. CASE ZtimerHandler
    <3>1. /\ left' = left
          /\ \/ Listed(clk)' = Listed(clk)
             \/ /\ \E x \in Listed(clk) : left[x] <= 0
                /\ Listed(clk)' = Listed(clk) \ {x \in Listed(clk) : left[x] <= 0}
      BY <1>2, <2>4, HandlerKeeps
    <3>2. CASE Listed(clk)' = Listed(clk)
      BY <3>1, <3>2 DEF Alarms!vars
    <3>3. CASE /\ \E x \in Listed(clk) : left[x] <= 0
               /\ Listed(clk)' = Listed(clk) \ {x \in Listed(clk) : left[x] <= 0}
      <4>1. Alarms!Expire
        BY <3>1, <3>3 DEF Alarms!Expire, Alarms!Due
      <4> QED BY <4>1 DEF Alarms!Next
    <3> QED BY <3>1, <3>2, <3>3
  <2>5. CASE Tick
    <3>1. Alarms!Tick
      BY <1>2, <2>5, TickKeeps DEF Alarms!Tick
    <3> QED BY <3>1 DEF Alarms!Next
  <2> QED BY <1>2, <2>1, <2>2, <2>3, <2>4, <2>5 DEF ClockNext
<1>3. ClockInv /\ [ClockNext]_clockVars => [Alarms!Next]_(Alarms!vars)
  BY <1>2
<1> QED BY <1>1, <1>3, ClockInvariant, PTL DEF ClockSpec, AlarmClockSpec, Alarms!Spec

-----------------------------------------------------------------------------
(* The games                                                                *)

Quizzes == [game : {"quiz"}, used : SUBSET Questions, random : Questions \cup {NoQuestion},
            drew : BOOLEAN, counter : Nat, score : Nat, answers : Nat]

(* The variables r are those of the game g.                                 *)
Of(r, g) == r = [f \in DOMAIN r |-> r[f]] /\ "game" \in DOMAIN r /\ r.game = g

(* The games whose variables may be alive on a screen.                      *)
GamesOn(s) ==
  CASE s \in {"main", "settings", "start"} -> {"none"}
    [] s \in {"blackjack", "verdict"} -> {"blackjack"}
    [] s \in {"quiz", "quizend"} -> {"quiz"}
    [] s \in {"runner", "pause"} -> {"runner"}
    [] s \in {"box", "sort"} -> {s}
    [] s = "over" -> ScoredGames
Screens == {"main", "settings", "start", "blackjack", "verdict", "quiz", "quizend",
            "runner", "pause", "box", "sort", "over"}
LocalsOK == screen \in Screens /\ \E g \in GamesOn(screen) : Of(local, g)

(* What the counters of a quiz say of each other, with the entry a of the   *)
(* menu: between an answer and the next question no answer can be marked.   *)
Counted(q, a) ==
  /\ IsFiniteSet(q.used) /\ Cardinality(q.used) = q.counter
  /\ q.counter <= Rounds /\ q.score <= q.answers
  /\ q.answers = q.counter - (IF q.drew THEN 1 ELSE 0)
  /\ ~q.drew => a = 0 /\ q.counter < Rounds
QuizOK ==
  /\ screen \in {"quiz", "quizend"} => local \in Quizzes /\ Counted(local, action)
  /\ screen = "quizend" => local.drew /\ local.counter = Rounds

GamesInv == LocalsOK /\ QuizOK

-----------------------------------------------------------------------------
(* The functions' variables                                                 *)

(* A question is drawn: it was not used, and it is counted.                 *)
LEMMA AskedCounts ==
  ASSUME NEW q \in Quizzes, NEW a, Counted(q, a), q.counter # Rounds, NEW p \in Asked(q)
  PROVE  /\ p \in Quizzes /\ p.drew
         /\ \A b : Counted(p, b)
         /\ q.drew => p = q
<1>1. CASE q.drew
  BY <1>1 DEF Asked, Counted
<1>2. CASE ~q.drew
  <2>1. PICK x \in Unused(q) :
          p = [q EXCEPT !.used = q.used \cup {x}, !.random = x, !.drew = TRUE,
                        !.counter = q.counter + 1]
    BY <1>2 DEF Asked
  <2>2. x \in Questions /\ x \notin q.used
    BY <2>1 DEF Unused
  <2> DEFINE u == q.used \cup {x}
             n == q.counter + 1
  <2>3. u \in SUBSET Questions /\ n \in Nat
    BY <2>2 DEF Quizzes
  <2>4. IsFiniteSet(u) /\ Cardinality(u) = n
    BY <2>2, FS_AddElement DEF Counted
  <2>5. n <= Rounds /\ q.score <= n - 1 /\ q.answers = n - 1
    BY <1>2, GamesAssumption DEF Counted, Quizzes, GamesAssumption
  <2> HIDE DEF u, n
  <2>6. p = [q EXCEPT !.used = u, !.random = x, !.drew = TRUE, !.counter = n]
    BY <2>1 DEF u, n
  <2>7. p \in Quizzes
    BY <2>2, <2>3, <2>6 DEF Quizzes
  <2>8. /\ p.used = u /\ p.counter = n /\ p.drew
        /\ p.score = q.score /\ p.answers = q.answers
    BY <2>6 DEF Quizzes
  <2> QED BY <1>2, <2>4, <2>5, <2>7, <2>8 DEF Counted
<1> QED BY <1>1, <1>2

(* An answer: only one that was asked for is counted.                       *)
LEMMA AnsweredCounts ==
  ASSUME NEW q \in Quizzes, NEW a, NEW answer, Counted(q, a), q.drew, q.counter # Rounds
  PROVE  Answered(q, answer) \in Quizzes /\ Counted(Answered(q, answer), 0)
<1> DEFINE s == q.score + (IF Right(q, answer) THEN 1 ELSE 0)
           n == q.answers + 1
           p == Answered(q, answer)
<1>1. s \in Nat /\ n \in Nat
  BY DEF Quizzes
<1>2. s <= n /\ n = q.counter /\ q.counter < Rounds
  BY GamesAssumption DEF Counted, Quizzes, GamesAssumption
<1>3. p = [q EXCEPT !.score = s, !.answers = n, !.drew = FALSE]
  BY DEF Answered
<1> HIDE DEF s, n, p
<1>4. p \in Quizzes
  BY <1>1, <1>3 DEF Quizzes
<1>5. p.used = q.used /\ p.counter = q.counter /\ ~p.drew /\ p.score = s /\ p.answers = n
  BY <1>3 DEF Quizzes
<1>6. q.counter \in Nat
  BY DEF Quizzes
<1>7. Counted(p, 0)
  BY <1>1, <1>2, <1>5, <1>6 DEF Counted
<1> QED BY <1>4, <1>7 DEF p

(* A new quiz has asked nothing.                                            *)
LEMMA QuizStarts == Quiz \in Quizzes /\ Counted(Quiz, 0)
<1>1. IsFiniteSet({}) /\ Cardinality({}) = 0
  BY FS_EmptySet
<1>2. Rounds \in Nat /\ Rounds > 0
  BY GamesAssumption DEF GamesAssumption
<1> QED BY <1>1, <1>2 DEF Quiz, Quizzes, Counted

(* The variables of a quiz are the quiz's.                                  *)
LEMMA QuizzesAre == \A q \in Quizzes : Of(q, "quiz")
BY DEF Quizzes, Of

(* The hands stay hands.                                                    *)
LEMMA HandsStay ==
  ASSUME NEW b, Of(b, "blackjack")
  PROVE  /\ \A d \in AfterOpp(b) : Of(d, "blackjack")
         /\ \A d \in AfterPlayer(b) : Of(d, "blackjack")
         /\ \A x, y : Of([b EXCEPT !.draw = x, !.chose = y], "blackjack")
<1>1. ASSUME NEW d \in AfterOpp(b) PROVE Of(d, "blackjack")
  BY <1>1 DEF AfterOpp, Of
<1>2. ASSUME NEW d \in AfterPlayer(b) PROVE Of(d, "blackjack")
  BY <1>2 DEF AfterPlayer, Of
<1>3. ASSUME NEW x, NEW y PROVE Of([b EXCEPT !.draw = x, !.chose = y], "blackjack")
  BY DEF Of
<1> QED BY <1>1, <1>2, <1>3

(* The runner's variables stay the runner's.                                *)
LEMMA RunsStay ==
  ASSUME NEW r, Of(r, "runner")
  PROVE  /\ \A t : Of(After(r, t), "runner")
         /\ \A a \in Delayed(r) : Of(a, "runner")
         /\ Of(Spawned(r), "runner")
         /\ \A hit : Of(Moved(r, hit), "runner")
         /\ Of(Scored(r), "runner")
<1>1. ASSUME NEW t PROVE Of(After(r, t), "runner")
  BY DEF After, Of
<1>2. Of(Spawned(r), "runner")
  BY DEF Spawned, Of
<1>3. ASSUME NEW hit PROVE Of(Moved(r, hit), "runner")
  BY DEF Moved, Of
<1>4. Of(Scored(r), "runner")
  BY DEF Scored, Of
<1>5. ASSUME NEW a \in Delayed(r) PROVE Of(a, "runner")
  BY <1>1 DEF Delayed
<1> QED BY <1>1, <1>2, <1>3, <1>4, <1>5

-----------------------------------------------------------------------------
(* The steps                                                                *)

(* Away from the quiz only the owner of the variables matters.              *)
LEMMA Elsewhere ==
  ASSUME NEW s \in Screens \ {"quiz", "quizend"}, screen' = s,
         NEW g \in GamesOn(s), Of(local', g)
  PROVE  GamesInv'
BY DEF GamesInv, LocalsOK, QuizOK, Screens

(* On the screens of the quiz the variables are the quiz's and counted.     *)
LEMMA InQuiz ==
  ASSUME screen' \in {"quiz", "quizend"}, local' \in Quizzes, Counted(local', action'),
         screen' = "quizend" => local'.drew /\ local'.counter = Rounds
  PROVE  GamesInv'
<1>1. Of(local', "quiz")
  BY QuizzesAre
<1> QED BY <1>1 DEF GamesInv, LocalsOK, QuizOK, Screens, GamesOn

(* A game is left with no variables alive.                                  *)
LEMMA LeaveKeeps ==
  ASSUME NEW s \in {"main", "settings", "start"}, Leave(s)
  PROVE  GamesInv'
<1>1. Of(local', "none")
  BY DEF Leave, None, Of
<1>2. "none" \in GamesOn(s) /\ s \in Screens \ {"quiz", "quizend"} /\ screen' = s
  BY DEF Leave, GamesOn, Screens
<1> QED BY <1>1, <1>2, Elsewhere

(* Nothing but the marked entry changes, and no quiz is without a question. *)
LEMMA MarkKeeps ==
  ASSUME GamesInv, UNCHANGED <<screen, local>>, screen # "quiz"
  PROVE  GamesInv'
<1>1. LocalsOK'
  BY DEF GamesInv, LocalsOK
<1>2. screen = "quizend" => Counted(local, action')
  BY DEF GamesInv, QuizOK, Counted
<1>3. QuizOK'
  BY <1>2 DEF GamesInv, QuizOK
<1> QED BY <1>1, <1>3 DEF GamesInv

(* The owner of the variables on the screens of one game.                   *)
LEMMA Owners ==
  ASSUME GamesInv
  PROVE  /\ screen \in {"blackjack", "verdict"} => Of(local, "blackjack")
         /\ screen \in {"runner", "pause"} => Of(local, "runner")
         /\ screen \in {"box", "sort"} => Of(local, screen)
         /\ screen = "over" => local.game \in ScoredGames /\ Of(local, local.game)
BY DEF GamesInv, LocalsOK, GamesOn, Of

(* The menus and a reset.                                                   *)
LEMMA MenusKeep ==
  ASSUME GamesInv, MainMenu \/ PowerLoss \/ QuitUnsaved
  PROVE  GamesInv'
<1>1. CASE \E press \in BOOLEAN : Menu("main", 3, press) \/ Menu("settings", 4, press)
                                   \/ Menu("start", 7, press)
  BY <1>1, MarkKeeps DEF Menu
<1>2. CASE \E s \in {"main", "settings", "start"} : Leave(s)
  BY <1>2, LeaveKeeps
<1> QED BY <1>1, <1>2 DEF MainMenu, PowerLoss, QuitUnsaved

(* Blackjack and its end.                                                   *)
LEMMA BlackjackKeeps ==
  ASSUME GamesInv, NEW press, Blackjack(press)
  PROVE  GamesInv'
<1> DEFINE Hand == Of(local', "blackjack") /\ screen' \in {"blackjack", "verdict"}
<1>1. Of(local, "blackjack")
  BY Owners DEF Blackjack
<1>2. Hand => GamesInv'
  BY Elsewhere DEF GamesOn, Screens
<1>3. CASE screen' = "verdict" /\ local' = Deal
  BY <1>2, <1>3 DEF Deal, Of
<1>4. CASE /\ ~Settled(local)
           /\ \E b \in UNION {AfterPlayer(d) : d \in AfterOpp(local)} :
                \/ local' = b /\ UNCHANGED screen
                \/ /\ local' = [b EXCEPT !.draw = (action = 2), !.chose = TRUE]
                   /\ UNCHANGED screen
                \/ Leave("start")
  <2>1. PICK b \in UNION {AfterPlayer(d) : d \in AfterOpp(local)} :
                \/ local' = b /\ UNCHANGED screen
                \/ /\ local' = [b EXCEPT !.draw = (action = 2), !.chose = TRUE]
                   /\ UNCHANGED screen
                \/ Leave("start")
    BY <1>4
  <2>2. Of(b, "blackjack")
    BY <1>1, HandsStay
  <2>3. Of([b EXCEPT !.draw = (action = 2), !.chose = TRUE], "blackjack")
    BY <2>2, HandsStay
  <2> QED BY <1>2, <2>1, <2>2, <2>3, LeaveKeeps DEF Blackjack
<1> QED BY <1>3, <1>4 DEF Blackjack

(* The end of a game of blackjack keeps the hands or deals new ones.        *)
LEMMA VerdictKeeps ==
  ASSUME GamesInv, Verdict
  PROVE  GamesInv'
<1>1. CASE \E press \in BOOLEAN : Menu("verdict", 3, press)
  BY <1>1, MarkKeeps DEF Menu
<1>2. CASE screen = "verdict" /\ screen' = "blackjack" /\ local' = local
  BY <1>2, Owners, Elsewhere DEF GamesOn, Screens
<1> QED BY <1>1, <1>2, LeaveKeeps DEF Verdict

(* True/false: a question is asked, marked, answered or left.               *)
LEMMA TrueFalseKeeps ==
  ASSUME GamesInv, NEW press \in BOOLEAN, TrueFalse(press)
  PROVE  GamesInv'
<1>1. screen = "quiz" /\ local \in Quizzes /\ Counted(local, action)
  BY DEF TrueFalse, GamesInv, QuizOK
<1>2. CASE local.counter = Rounds /\ screen' = "quizend" /\ local' = local
  <2>1. local.drew
    BY <1>1, <1>2, GamesAssumption DEF Counted, GamesAssumption
  <2>2. Counted(local', action')
    BY <1>1, <1>2, <2>1 DEF Counted
  <2> QED BY <1>1, <1>2, <2>1, <2>2, InQuiz
<1>3. ASSUME local.counter # Rounds, NEW q \in Asked(local)
      PROVE  /\ local' = q /\ UNCHANGED screen => GamesInv'
             /\ Chosen(press) \cap {1, 2} # {} /\ local' = Answered(q, action)
                /\ action' = 0 /\ UNCHANGED screen => GamesInv'
  <2>1. q \in Quizzes /\ q.drew /\ \A b : Counted(q, b)
    BY <1>1, <1>3, AskedCounts
  <2>2. local' = q /\ UNCHANGED screen => GamesInv'
    BY <1>1, <2>1, InQuiz
  <2>3. ASSUME Chosen(press) \cap {1, 2} # {}
        PROVE  q = local /\ q.counter # Rounds
    <3>1. action # 0
      BY <2>3 DEF Chosen
    <3>2. local.drew
      BY <1>1, <3>1 DEF Counted
    <3> QED BY <1>1, <1>3, <3>2, AskedCounts
  <2>4. ASSUME Chosen(press) \cap {1, 2} # {}, local' = Answered(q, action),
               action' = 0, UNCHANGED screen
        PROVE  GamesInv'
    <3>1. local' \in Quizzes /\ Counted(local', action')
      BY <2>1, <2>3, <2>4, AnsweredCounts
    <3> QED BY <1>1, <2>4, <3>1, InQuiz
  <2> QED BY <2>2, <2>4
<1> QED BY <1>2, <1>3, LeaveKeeps DEF TrueFalse

(* After a quiz another one starts from nothing, or the menu comes.         *)
LEMMA QuizEndKeeps ==
  ASSUME GamesInv, QuizEnd
  PROVE  GamesInv'
<1>1. CASE \E press \in BOOLEAN : Menu("quizend", 3, press)
  BY <1>1, MarkKeeps DEF Menu
<1>2. CASE screen' = "quiz" /\ local' = Quiz /\ action' = 0
  BY <1>2, QuizStarts, InQuiz
<1> QED BY <1>1, <1>2, LeaveKeeps DEF QuizEnd

(* The runner, also where it cannot read the sensor.                        *)
LEMMA RunnerKeeps ==
  ASSUME GamesInv, SensorFails \/ \E press \in BOOLEAN : Runner(press)
  PROVE  GamesInv'
<1>1. Of(local, "runner")
  BY Owners DEF Runner, SensorFails
<1>2. CASE \E press \in BOOLEAN : Runner(press)
  <2>1. PICK a \in Delayed(local) : \E b \in Delayed(Spawned(a)) : \E hit \in BOOLEAN :
             \E c \in Delayed(Moved(b, hit)) : local' = Scored(c)
    BY <1>2 DEF Runner
  <2>0. PICK b \in Delayed(Spawned(a)), hit \in BOOLEAN :
             \E c \in Delayed(Moved(b, hit)) : local' = Scored(c)
    BY <2>1
  <2>9. PICK c \in Delayed(Moved(b, hit)) : local' = Scored(c)
    BY <2>0
  <2>2. Of(a, "runner")
    BY <1>1, RunsStay
  <2>3. Of(Spawned(a), "runner")
    BY <2>2, RunsStay
  <2>4. Of(b, "runner")
    BY <2>3, RunsStay
  <2>5. Of(Moved(b, hit), "runner")
    BY <2>4, RunsStay
  <2>6. Of(c, "runner")
    BY <2>5, RunsStay
  <2>7. Of(local', "runner")
    BY <2>6, <2>9, RunsStay
  <2>8. screen' \in {"runner", "pause"}
    BY <1>2 DEF Runner
  <2> QED BY <2>7, <2>8, Elsewhere DEF GamesOn, Screens
<1>3. CASE SensorFails
  <2>1. Of(local', "runner") /\ screen' = "runner"
    BY <1>1, <1>3, RunsStay DEF SensorFails
  <2> QED BY <2>1, Elsewhere DEF GamesOn, Screens
<1> QED BY <1>2, <1>3

(* A pause keeps the runner's variables, until the game is left.            *)
LEMMA PauseKeeps ==
  ASSUME GamesInv, Pause
  PROVE  GamesInv'
<1>1. CASE \E press \in BOOLEAN : Menu("pause", 3, press)
  BY <1>1, MarkKeeps DEF Menu
<1>2. CASE screen = "pause" /\ screen' = "runner" /\ \E t : local' = After(local, t)
  <2>1. Of(local', "runner")
    BY <1>2, Owners, RunsStay
  <2> QED BY <1>2, <2>1, Elsewhere DEF GamesOn, Screens
<1> QED BY <1>1, <1>2, LeaveKeeps DEF Pause

(* A game with high scores ends, and goes on in another round.              *)
LEMMA OverKeeps ==
  ASSUME GamesInv, RunnerOver \/ (\E g \in ScoredGames : Play(g)) \/ PlayAgain
  PROVE  GamesInv'
<1>1. CASE RunnerOver
  BY <1>1, Owners, Elsewhere DEF RunnerOver, GamesOn, Screens, ScoredGames
<1>2. CASE \E g \in ScoredGames : Play(g)
  BY <1>2, Owners, Elsewhere DEF Play, GamesOn, Screens, ScoredGames
<1>3. CASE PlayAgain
  <2>1. Of(local', screen') /\ screen' \in ScoredGames
    BY <1>3, Owners DEF PlayAgain, Run, Of
  <2> QED BY <2>1, Elsewhere DEF GamesOn, Screens, ScoredGames
<1> QED BY <1>1, <1>2, <1>3

(* A game starts with its own variables.                                    *)
LEMMA StartKeeps ==
  ASSUME GamesInv, StartGame
  PROVE  GamesInv'
<1>1. PICK g \in AllGames :
        /\ screen' = g /\ action' = 0
        /\ local' = CASE g = "blackjack" -> Deal [] g = "quiz" -> Quiz [] g = "runner" -> Run
                       [] OTHER -> [game |-> g]
  BY DEF StartGame, Entry, AllGames, ScoredGames
<1>2. CASE g = "quiz"
  BY <1>1, <1>2, QuizStarts, InQuiz
<1>3. CASE g # "quiz"
  <2>1. Of(local', g)
    BY <1>1, <1>3 DEF Of, Deal, Run
  <2>2. g \in Screens \ {"quiz", "quizend"} /\ g \in GamesOn(g)
    BY <1>3 DEF AllGames, ScoredGames, Screens, GamesOn
  <2> QED BY <1>1, <2>1, <2>2, Elsewhere
<1> QED BY <1>2, <1>3

-----------------------------------------------------------------------------
(* A power-on has no game's variables alive.                                *)
LEMMA InitOK == GamesInit => GamesInv
BY DEF GamesInit, GamesInv, LocalsOK, QuizOK, GamesOn, Screens, None, Of

(* Every step, or none, keeps the invariant.                                *)
LEMMA StepOK == GamesInv /\ [GamesNext]_gamesVars => GamesInv'
<1> SUFFICES ASSUME GamesInv, [GamesNext]_gamesVars PROVE GamesInv'
  OBVIOUS
<1>1. CASE MainMenu \/ PowerLoss \/ QuitUnsaved
  BY <1>1, MenusKeep
<1>2. CASE Iterate
  BY <1>2, BlackjackKeeps, TrueFalseKeeps DEF Iterate
<1>3. CASE Verdict \/ QuizEnd \/ Pause
  BY <1>3, VerdictKeeps, QuizEndKeeps, PauseKeeps
<1>4. CASE SensorFails \/ \E press \in BOOLEAN : Runner(press)
  BY <1>4, RunnerKeeps
<1>5. CASE RunnerOver \/ (\E g \in ScoredGames : Play(g)) \/ PlayAgain
  BY <1>5, OverKeeps
<1>6. CASE StartGame
  BY <1>6, StartKeeps
<1>7. CASE UNCHANGED gamesVars
  BY <1>7 DEF gamesVars, scoreVars, GamesInv, LocalsOK, QuizOK
<1> QED BY <1>1, <1>2, <1>3, <1>4, <1>5, <1>6, <1>7 DEF GamesNext

(* The variables are a quiz's only on the screens of the quiz.              *)
LEMMA OncePerQuiz == GamesInv => QuestionsOnce
<1> SUFFICES ASSUME GamesInv, local.game = "quiz" PROVE QuestionsOnce
  BY DEF QuestionsOnce
<1>1. screen \in {"quiz", "quizend"}
  BY DEF GamesInv, LocalsOK, GamesOn, Screens, ScoredGames, Of
<1>2. local \in Quizzes /\ Counted(local, action)
  BY <1>1 DEF GamesInv, QuizOK
<1>3. screen = "quizend" => local.drew /\ local.counter = Rounds
  BY DEF GamesInv, QuizOK
<1> QED BY <1>2, <1>3 DEF QuestionsOnce, Counted

(* A game of true/false asks no question twice and counts every answer, for *)
(* any questions and rounds: in trueFalse_game() the loop that draws and the *)
(* choice of an answer keep step over all iterations, menus and resets.     *)
THEOREM QuizCounts == GamesSpec => []QuestionsOnce
<1>1. GamesInit => GamesInv
  BY InitOK
<1>2. GamesInv /\ [GamesNext]_gamesVars => GamesInv'
  BY StepOK
<1>3. GamesInv => QuestionsOnce
  BY OncePerQuiz
<1> QED BY <1>1, <1>2, <1>3, PTL DEF GamesSpec

-----------------------------------------------------------------------------
(* The best of a sequence of scores                                         *)

Values(s) == {s[i] : i \in DOMAIN s}
Higher(s, v) == {i \in DOMAIN s : s[i] > v}
Reached(s, v) == {i \in DOMAIN s : s[i] >= v}
Above(s, v) == Cardinality(Higher(s, v))
AtLeast(s, v) == Cardinality(Reached(s, v))

(* v is the n-th best of the scores s, or 0 if there are not so many.       *)
Best(s, n, v) == IF Len(s) < n THEN v = 0
                 ELSE /\ v \in Values(s)
                      /\ Above(s, v) < n /\ AtLeast(s, v) >= n

(* The table t has the best of the scores s; its third may be too high.     *)
Top(t, s) ==
  /\ t \in Nat \X Nat \X Nat
  /\ Best(s, 1, t[1]) /\ Best(s, 2, t[2])
  /\ \E v \in Nat : Best(s, 3, v) /\ v <= t[3]

(* The counts are finite.                                                   *)
LEMMA CountTypes ==
  ASSUME NEW s \in Seq(Nat), NEW v
  PROVE  /\ IsFiniteSet(Higher(s, v)) /\ IsFiniteSet(Reached(s, v))
         /\ Above(s, v) \in Nat /\ AtLeast(s, v) \in Nat
         /\ AtLeast(s, v) <= Len(s)
<1>1. DOMAIN s = 1 .. Len(s) /\ Len(s) \in Nat
  OBVIOUS
<1>2. IsFiniteSet(DOMAIN s) /\ Cardinality(DOMAIN s) = Len(s)
  <2> DEFINE n == Len(s)
  <2>1. n \in Nat /\ DOMAIN s = 1 .. n
    BY <1>1
  <2> HIDE DEF n
  <2>2. IsFiniteSet(1 .. n) /\ Cardinality(1 .. n) = IF 1 > n THEN 0 ELSE n - 1 + 1
    BY <2>1, FS_Interval
  <2>3. Cardinality(1 .. n) = n
    BY <2>1, <2>2
  <2> QED BY <2>1, <2>2, <2>3 DEF n
<1>3. Higher(s, v) \subseteq DOMAIN s /\ Reached(s, v) \subseteq DOMAIN s
  BY DEF Higher, Reached
<1> QED BY <1>2, <1>3, FS_Subset, FS_CardinalityType DEF Above, AtLeast

(* The higher the value, the fewer scores are above it.                     *)
LEMMA CountOrder ==
  ASSUME NEW s \in Seq(Nat), NEW u \in Nat, NEW v \in Nat
  PROVE  /\ u <= v => Above(s, v) <= Above(s, u) /\ AtLeast(s, v) <= AtLeast(s, u)
         /\ u < v => AtLeast(s, v) <= Above(s, u)
         /\ Above(s, v) <= AtLeast(s, v)
<1>1. \A i \in DOMAIN s : s[i] \in Nat
  OBVIOUS
<1>2. /\ u <= v => Higher(s, v) \subseteq Higher(s, u) /\ Reached(s, v) \subseteq Reached(s, u)
      /\ u < v => Reached(s, v) \subseteq Higher(s, u)
      /\ Higher(s, v) \subseteq Reached(s, v)
  BY <1>1 DEF Higher, Reached
<1>3. /\ IsFiniteSet(Higher(s, u)) /\ IsFiniteSet(Reached(s, u))
      /\ IsFiniteSet(Reached(s, v))
  BY CountTypes
<1> QED BY <1>2, <1>3, FS_Subset DEF Above, AtLeast

(* A new score counts for the values it reaches.                            *)
LEMMA CountsGrow ==
  ASSUME NEW s \in Seq(Nat), NEW x \in Nat, NEW v \in Nat
  PROVE  /\ Above(Append(s, x), v) = IF x > v THEN Above(s, v) + 1 ELSE Above(s, v)
         /\ AtLeast(Append(s, x), v) = IF x >= v THEN AtLeast(s, v) + 1 ELSE AtLeast(s, v)
<1> DEFINE r == Append(s, x)
           n == Len(s) + 1
<1>1. DOMAIN s = 1 .. Len(s) /\ Len(s) \in Nat
  OBVIOUS
<1>2. DOMAIN r = DOMAIN s \cup {n} /\ n \notin DOMAIN s
      /\ r[n] = x /\ \A i \in DOMAIN s : r[i] = s[i]
  BY <1>1
<1> HIDE DEF r, n
<1>3. /\ Higher(r, v) = IF x > v THEN Higher(s, v) \cup {n} ELSE Higher(s, v)
      /\ Reached(r, v) = IF x >= v THEN Reached(s, v) \cup {n} ELSE Reached(s, v)
  BY <1>2 DEF Higher, Reached
<1>4. n \notin Higher(s, v) /\ n \notin Reached(s, v)
  BY <1>2 DEF Higher, Reached
<1>5. IsFiniteSet(Higher(s, v)) /\ IsFiniteSet(Reached(s, v))
  BY CountTypes
<1>6. /\ Cardinality(Higher(s, v) \cup {n}) = Cardinality(Higher(s, v)) + 1
      /\ Cardinality(Reached(s, v) \cup {n}) = Cardinality(Reached(s, v)) + 1
  BY <1>4, <1>5, FS_AddElement
<1>7. /\ Above(r, v) = IF x > v THEN Above(s, v) + 1 ELSE Above(s, v)
      /\ AtLeast(r, v) = IF x >= v THEN AtLeast(s, v) + 1 ELSE AtLeast(s, v)
  BY <1>3, <1>6 DEF Above, AtLeast
<1> QED BY <1>7 DEF r

(* The scores of a sequence with one more.                                  *)
LEMMA ScoresGrow ==
  ASSUME NEW s \in Seq(Nat), NEW x \in Nat
  PROVE  /\ Append(s, x) \in Seq(Nat) /\ Len(Append(s, x)) = Len(s) + 1
         /\ x \in Values(Append(s, x)) /\ Values(s) \subseteq Values(Append(s, x))
         /\ Values(s) \subseteq Nat /\ Len(s) \in Nat
<1>1. DOMAIN Append(s, x) = 1 .. Len(s) + 1 /\ DOMAIN s = 1 .. Len(s) /\ Len(s) \in Nat
  OBVIOUS
<1>2. Append(s, x)[Len(s) + 1] = x /\ \A i \in DOMAIN s : Append(s, x)[i] = s[i]
  BY <1>1
<1>3. x \in Values(Append(s, x))
  BY <1>1, <1>2 DEF Values
<1>4. ASSUME NEW v \in Values(s) PROVE v \in Values(Append(s, x)) /\ v \in Nat
  <2>1. PICK i \in DOMAIN s : v = s[i]
    BY DEF Values
  <2> QED BY <1>1, <1>2, <2>1 DEF Values
<1> QED BY <1>1, <1>3, <1>4

(* What a new score does to the best score.                                 *)
LEMMA FirstIs ==
  ASSUME NEW s \in Seq(Nat), NEW x \in Nat, NEW a \in Nat, Best(s, 1, a)
  PROVE  Best(Append(s, x), 1, IF x > a THEN x ELSE a)
<1> DEFINE r == Append(s, x)
<1>1. /\ Len(r) = Len(s) + 1 /\ Len(s) \in Nat
      /\ x \in Values(r) /\ Values(s) \subseteq Values(r)
  BY ScoresGrow
<1>2. /\ Above(r, x) = Above(s, x) /\ AtLeast(r, x) = AtLeast(s, x) + 1
      /\ ~(x > a) => Above(r, a) = Above(s, a)
      /\ AtLeast(r, a) = IF x >= a THEN AtLeast(s, a) + 1 ELSE AtLeast(s, a)
  BY CountsGrow
<1>3. /\ Above(s, x) \in Nat /\ AtLeast(s, x) \in Nat /\ AtLeast(s, x) <= Len(s)
      /\ Above(s, a) \in Nat /\ AtLeast(s, a) \in Nat /\ AtLeast(s, a) <= Len(s)
  BY CountTypes
<1>4. /\ a <= x => Above(s, x) <= Above(s, a)
      /\ a < x => AtLeast(s, x) <= Above(s, a)
  BY CountOrder
<1>5. CASE Len(s) = 0
  <2>1. a = 0
    BY <1>5 DEF Best
  <2>2. Above(s, x) = 0
    <3>1. Higher(s, x) = {}
      BY <1>5 DEF Higher
    <3> QED BY <3>1, FS_EmptySet DEF Above
  <2>3. (IF x > a THEN x ELSE a) = x
    BY <2>1
  <2> HIDE DEF r
  <2> QED BY <1>1, <1>2, <1>3, <1>5, <2>2, <2>3 DEF Best, r
<1>6. CASE Len(s) # 0
  <2>1. a \in Values(s) /\ Above(s, a) < 1 /\ AtLeast(s, a) >= 1
    BY <1>1, <1>6 DEF Best
  <2> HIDE DEF r
  <2>2. CASE x > a
    <3>1. Above(r, x) < 1 /\ AtLeast(r, x) >= 1
      BY <1>2, <1>3, <1>4, <2>1, <2>2
    <3> QED BY <1>1, <2>2, <3>1 DEF Best, r
  <2>3. CASE ~(x > a)
    <3>1. Above(r, a) < 1 /\ AtLeast(r, a) >= 1
      BY <1>2, <1>3, <2>1, <2>3
    <3> QED BY <1>1, <2>1, <2>3, <3>1 DEF Best, r
  <2> QED BY <2>2, <2>3
<1> QED BY <1>5, <1>6

(* Each further one is the one before it, the new one, or what it was.      *)
LEMMA NextIs ==
  ASSUME NEW s \in Seq(Nat), NEW x \in Nat, NEW n \in Nat \ {0},
         NEW a \in Nat, NEW b \in Nat, Best(s, n, a), Best(s, n + 1, b)
  PROVE  Best(Append(s, x), n + 1, IF x > a THEN a ELSE IF x > b THEN x ELSE b)
<1> DEFINE r == Append(s, x)
<1>0. n \in Nat
  OBVIOUS
<1>1. /\ Len(r) = Len(s) + 1 /\ Len(s) \in Nat
      /\ x \in Values(r) /\ Values(s) \subseteq Values(r)
  BY ScoresGrow
<1>2. /\ Above(r, x) = Above(s, x) /\ AtLeast(r, x) = AtLeast(s, x) + 1
      /\ Above(r, a) = IF x > a THEN Above(s, a) + 1 ELSE Above(s, a)
      /\ AtLeast(r, a) = IF x >= a THEN AtLeast(s, a) + 1 ELSE AtLeast(s, a)
      /\ Above(r, b) = IF x > b THEN Above(s, b) + 1 ELSE Above(s, b)
      /\ AtLeast(r, b) = IF x >= b THEN AtLeast(s, b) + 1 ELSE AtLeast(s, b)
  BY CountsGrow
<1>3. /\ Above(s, x) \in Nat /\ AtLeast(s, x) \in Nat /\ AtLeast(s, x) <= Len(s)
      /\ Above(s, a) \in Nat /\ AtLeast(s, a) \in Nat /\ AtLeast(s, a) <= Len(s)
      /\ Above(s, b) \in Nat /\ AtLeast(s, b) \in Nat /\ AtLeast(s, b) <= Len(s)
  BY CountTypes
<1>4. /\ x <= a => AtLeast(s, a) <= AtLeast(s, x)
      /\ b <= x => Above(s, x) <= Above(s, b)
      /\ x < a => AtLeast(s, a) <= Above(s, x)
  BY CountOrder
<1>5. Above(s, x) <= Len(s)
  BY <1>3, CountOrder
<1> HIDE DEF r
<1>6. CASE Len(s) < n
  <2>1. a = 0 /\ b = 0 /\ Len(r) < n + 1
    BY <1>1, <1>6 DEF Best
  <2> QED BY <1>1, <2>1 DEF Best, r
<1>7. CASE Len(s) >= n
  <2>1. a \in Values(r) /\ Above(s, a) < n /\ AtLeast(s, a) >= n
    BY <1>1, <1>7 DEF Best
  <2>2. ~(Len(r) < n + 1)
    BY <1>1, <1>7
  <2>3. CASE x > a
    <3>1. Above(r, a) = Above(s, a) + 1 /\ AtLeast(r, a) = AtLeast(s, a) + 1
      BY <1>2, <2>3
    <3>2. Above(r, a) < n + 1 /\ AtLeast(r, a) >= n + 1
      <4>1. Above(s, a) \in Nat /\ AtLeast(s, a) \in Nat
        BY <1>3
      <4>2. Above(s, a) < n /\ AtLeast(s, a) >= n
        BY <2>1
      <4> QED BY <1>0, <3>1, <4>1, <4>2
    <3>3. a \in Values(r)
      BY <1>1, <2>1
    <3> QED BY <2>2, <2>3, <3>2, <3>3 DEF Best, r
  <2>4. CASE ~(x > a) /\ (x > b \/ Len(s) = n)
    <3>1. Above(s, x) < n + 1
      <4>1. CASE Len(s) = n
        BY <1>3, <1>5, <4>1
      <4>2. CASE Len(s) # n
        <5>1. Above(s, b) < n + 1
          BY <1>1, <1>7, <4>2 DEF Best
        <5> QED BY <1>3, <1>4, <2>4, <4>2, <5>1
      <4> QED BY <4>1, <4>2
    <3>2. AtLeast(s, x) >= n
      BY <1>3, <1>4, <2>1, <2>4
    <3>3. Above(r, x) < n + 1 /\ AtLeast(r, x) >= n + 1
      BY <1>2, <1>3, <3>1, <3>2
    <3>4. (IF x > b THEN x ELSE b) = x
      <4>1. CASE x > b
        BY <4>1
      <4>2. CASE Len(s) = n
        BY <4>2 DEF Best
      <4> QED BY <2>4, <4>1, <4>2
    <3> QED BY <1>1, <2>2, <2>4, <3>3, <3>4 DEF Best, r
  <2>5. CASE ~(x > a) /\ ~(x > b) /\ Len(s) > n
    <3>1. b \in Values(r) /\ Above(s, b) < n + 1 /\ AtLeast(s, b) >= n + 1
      BY <1>1, <2>5 DEF Best
    <3>2. /\ Above(r, b) = Above(s, b)
          /\ AtLeast(r, b) = AtLeast(s, b) + 1 \/ AtLeast(r, b) = AtLeast(s, b)
      BY <1>2, <2>5
    <3>3. Above(r, b) < n + 1 /\ AtLeast(r, b) >= n + 1
      <4>1. Above(s, b) \in Nat /\ AtLeast(s, b) \in Nat
        BY <1>3
      <4> QED BY <1>0, <3>1, <3>2, <4>1
    <3> QED BY <2>2, <2>5, <3>1, <3>3 DEF Best, r
  <2> QED BY <1>1, <1>7, <2>3, <2>4, <2>5
<1> QED BY <1>1, <1>6, <1>7

(* There is one n-th best score, and Nth() is it.                           *)
LEMMA NthIsBest ==
  ASSUME NEW s \in Seq(Nat), NEW n \in Nat, NEW v \in Nat, Best(s, n, v)
  PROVE  Nth(s, n) = v
<1>1. CASE Len(s) < n
  BY <1>1 DEF Nth, Best
<1>2. CASE ~(Len(s) < n)
  <2> DEFINE P(w) == Above(s, w) < n /\ AtLeast(s, w) >= n
  <2>1. Nth(s, n) = CHOOSE w \in Values(s) : P(w)
    BY <1>2 DEF Nth, Values, Above, AtLeast, Higher, Reached
  <2>2. v \in Values(s) /\ P(v)
    BY <1>2 DEF Best
  <2>3. ASSUME NEW w \in Values(s), P(w) PROVE w = v
    <3>1. w \in Nat
      BY ScoresGrow
    <3>2. w < v => AtLeast(s, v) <= Above(s, w)
      BY <3>1, CountOrder
    <3>3. v < w => AtLeast(s, w) <= Above(s, v)
      BY <3>1, CountOrder
    <3>4. /\ Above(s, w) \in Nat /\ AtLeast(s, w) \in Nat
          /\ Above(s, v) \in Nat /\ AtLeast(s, v) \in Nat
      BY CountTypes
    <3> QED BY <2>2, <2>3, <3>1, <3>2, <3>3, <3>4
  <2> HIDE DEF P
  <2> QED BY <2>1, <2>2, <2>3
<1> QED BY <1>1, <1>2

(* The second best is no better than the best.                              *)
LEMMA BestSorted ==
  ASSUME NEW s \in Seq(Nat), NEW a \in Nat, NEW b \in Nat, Best(s, 1, a), Best(s, 2, b)
  PROVE  b <= a
<1>1. CASE Len(s) < 2
  BY <1>1 DEF Best
<1>2. CASE ~(Len(s) < 2)
  <2>1. Above(s, a) < 1 /\ AtLeast(s, b) >= 2
    BY <1>2, ScoresGrow DEF Best
  <2>2. a < b => AtLeast(s, b) <= Above(s, a)
    BY CountOrder
  <2>3. AtLeast(s, b) \in Nat /\ Above(s, a) \in Nat
    BY CountTypes
  <2> QED BY <2>1, <2>2, <2>3
<1> QED BY <1>1, <1>2

(* A score that is put into its place keeps the table of the best.          *)
LEMMA InsertedTop ==
  ASSUME NEW s \in Seq(Nat), NEW x \in Nat, NEW t, Top(t, s)
  PROVE  Top(Inserted(t, x), Append(s, x))
<1>1. t[1] \in Nat /\ t[2] \in Nat /\ t[3] \in Nat /\ Best(s, 1, t[1]) /\ Best(s, 2, t[2])
  BY DEF Top
<1>2. PICK v \in Nat : Best(s, 3, v) /\ v <= t[3]
  BY DEF Top
<1> DEFINE t1 == IF x > t[1] THEN x ELSE t[1]
           t2 == IF x > t[1] THEN t[1] ELSE IF x > t[2] THEN x ELSE t[2]
           t3 == IF x > t[2] THEN t[2] ELSE IF x > t[3] THEN x ELSE t[3]
           v3 == IF x > t[2] THEN t[2] ELSE IF x > v THEN x ELSE v
<1>3. Best(Append(s, x), 1, t1)
  BY <1>1, FirstIs
<1>4. Best(Append(s, x), 1 + 1, t2)
  <2>1. Best(s, 1 + 1, t[2])
    BY <1>1
  <2> QED BY <1>1, <2>1, NextIs, 1 \in Nat \ {0}
<1>5. Best(Append(s, x), 2 + 1, v3)
  <2>1. Best(s, 2 + 1, v)
    BY <1>2
  <2> QED BY <1>1, <2>1, NextIs, 2 \in Nat \ {0}
<1>6. t[2] <= t[1]
  BY <1>1, BestSorted
<1>7. t = <<t[1], t[2], t[3]>>
  BY DEF Top
<1>8. Inserted(t, x) = <<t1, t2, t3>>
  BY <1>1, <1>6, <1>7 DEF Inserted
<1>9. v3 \in Nat /\ v3 <= t3
  BY <1>1, <1>2
<1>10. t1 \in Nat /\ t2 \in Nat /\ t3 \in Nat
  BY <1>1
<1> HIDE DEF t1, t2, t3, v3
<1> QED BY <1>3, <1>4, <1>5, <1>8, <1>9, <1>10 DEF Top

(* The two best scores of the table t are not better than those of s.       *)
Below(t, s) ==
  /\ t \in Nat \X Nat \X Nat
  /\ \E a, b \in Nat : Best(s, 1, a) /\ Best(s, 2, b) /\ t[1] <= a /\ t[2] <= b

(* They stay so with a further score, in the table or not.                  *)
LEMMA BelowGrows ==
  ASSUME NEW s \in Seq(Nat), NEW x \in Nat, NEW t, Below(t, s)
  PROVE  Below(t, Append(s, x)) /\ Below(Inserted(t, x), Append(s, x))
<1>1. t[1] \in Nat /\ t[2] \in Nat /\ t[3] \in Nat /\ t = <<t[1], t[2], t[3]>>
  BY DEF Below
<1>2. PICK a \in Nat, b \in Nat : Best(s, 1, a) /\ Best(s, 2, b) /\ t[1] <= a /\ t[2] <= b
  BY DEF Below
<1>3. b <= a
  BY <1>2, BestSorted
<1> DEFINE a1 == IF x > a THEN x ELSE a
           b1 == IF x > a THEN a ELSE IF x > b THEN x ELSE b
           t1 == IF x > t[1] THEN x ELSE t[1]
           t2 == IF x > t[1] THEN t[1] ELSE IF x > t[2] THEN x ELSE t[2]
           t3 == IF x > t[1] THEN t[2] ELSE IF x > t[2] THEN t[2] ELSE IF x > t[3] THEN x ELSE t[3]
<1>4. Best(Append(s, x), 1, a1)
  BY <1>2, FirstIs
<1>5. Best(Append(s, x), 2, b1)
  <2>1. Best(s, 1 + 1, b)
    BY <1>2
  <2>2. Best(Append(s, x), 1 + 1, b1)
    BY <1>2, <2>1, NextIs, 1 \in Nat \ {0}
  <2> QED BY <2>2
<1>6. a1 \in Nat /\ b1 \in Nat /\ t[1] <= a1 /\ t[2] <= b1 /\ t1 <= a1 /\ t2 <= b1
  BY <1>1, <1>2, <1>3
<1>7. t1 \in Nat /\ t2 \in Nat /\ t3 \in Nat
  BY <1>1
<1>8. Inserted(t, x) = <<t1, t2, t3>>
  BY <1>1 DEF Inserted
<1> HIDE DEF a1, b1, t1, t2, t3
<1> QED BY <1>1, <1>4, <1>5, <1>6, <1>7, <1>8 DEF Below

(* What a table is to the scores s: never better, and all of them if whole. *)
Accounts(t, s, whole) == Below(t, s) /\ (whole => Top(t, s))

(* A table of the best is not better than them, and none is better than an  *)
(* empty one.                                                               *)
LEMMA TopIsBelow ==
  ASSUME NEW t, NEW s
  PROVE  /\ Top(t, s) => Below(t, s)
         /\ Below(t, s) => Below(NoScores, s)
<1>1. ASSUME Top(t, s) PROVE Below(t, s)
  <2>1. /\ t[1] \in Nat /\ t[2] \in Nat /\ t \in Nat \X Nat \X Nat
        /\ Best(s, 1, t[1]) /\ Best(s, 2, t[2])
    BY <1>1 DEF Top
  <2>2. t[1] <= t[1] /\ t[2] <= t[2]
    BY <2>1
  <2> QED BY <2>1, <2>2 DEF Below
<1>2. ASSUME Below(t, s) PROVE Below(NoScores, s)
  <2>1. PICK a \in Nat, b \in Nat : Best(s, 1, a) /\ Best(s, 2, b)
    BY <1>2 DEF Below
  <2>2. NoScores \in Nat \X Nat \X Nat /\ NoScores[1] <= a /\ NoScores[2] <= b
    BY DEF NoScores
  <2> QED BY <2>1, <2>2 DEF Below
<1> QED BY <1>1, <1>2

-----------------------------------------------------------------------------
(* The high scores                                                          *)

(* Files and variables account for all scores: the files always, the        *)
(* variables while a game that has scores is on, both wholly unless a failed *)
(* access has left them without some. A runner has a score.                 *)
ScoresOK ==
  /\ done \in [ScoredGames -> Seq(Nat)]
  /\ files \in [ScoredGames -> (Nat \X Nat \X Nat) \cup {<<>>}]
  /\ \A g \in ScoredGames : Accounts(Stored(g), done[g], g \notin lost)
  /\ local.game \in ScoredGames => Accounts(table, done[local.game], "table" \notin lost)
  /\ screen \in {"runner", "pause"} => "score" \in DOMAIN local /\ local.score \in Nat

(* Nothing was ever finished: the best are zero.                            *)
LEMMA NoScoresTop == Top(NoScores, <<>>)
<1>1. Len(<<>>) = 0
  OBVIOUS
<1>2. Best(<<>>, 1, 0) /\ Best(<<>>, 2, 0) /\ Best(<<>>, 3, 0)
  BY <1>1 DEF Best
<1> QED BY <1>2 DEF Top, NoScores

(* What a game reads is the file's table, its third score perhaps too high. *)
LEMMA LoadsAccount ==
  ASSUME NEW g \in ScoredGames, ScoresOK, NEW t \in Loads(g)
  PROVE  Accounts(t, done[g], g \notin lost)
<1>1. Accounts(Stored(g), done[g], g \notin lost)
  BY DEF ScoresOK
<1>2. CASE t = Stored(g)
  BY <1>1, <1>2
<1>3. CASE files[g] # <<>> /\ t = <<files[g][1], files[g][2], 10 * files[g][3] + 7>>
  <2>1. Stored(g) = files[g]
    BY <1>3 DEF Stored
  <2>2. files[g][1] \in Nat /\ files[g][2] \in Nat /\ files[g][3] \in Nat
    BY <1>1, <2>1 DEF Accounts, Below
  <2> DEFINE x == 10 * files[g][3] + 7
  <2>3. x \in Nat /\ \A v \in Nat : v <= files[g][3] => v <= x
    BY <2>2
  <2> HIDE DEF x
  <2>4. t = <<files[g][1], files[g][2], x>>
    BY <1>3 DEF x
  <2>5. Below(t, done[g])
    BY <1>1, <2>1, <2>2, <2>3, <2>4 DEF Accounts, Below
  <2>6. Top(files[g], done[g]) => Top(t, done[g])
    BY <2>2, <2>3, <2>4 DEF Top
  <2> QED BY <1>1, <2>1, <2>5, <2>6 DEF Accounts
<1> QED BY <1>2, <1>3 DEF Loads, Stored

(* The runner's score only counts up.                                       *)
LEMMA ScoreStays ==
  ASSUME NEW r, Of(r, "runner"), "score" \in DOMAIN r, r.score \in Nat
  PROVE  /\ \A t : "score" \in DOMAIN After(r, t) /\ After(r, t).score \in Nat
         /\ \A a \in Delayed(r) : "score" \in DOMAIN a /\ a.score \in Nat
         /\ "score" \in DOMAIN Spawned(r) /\ Spawned(r).score \in Nat
         /\ \A hit : "score" \in DOMAIN Moved(r, hit) /\ Moved(r, hit).score \in Nat
         /\ "score" \in DOMAIN Scored(r) /\ Scored(r).score \in Nat
<1>1. ASSUME NEW t PROVE "score" \in DOMAIN After(r, t) /\ After(r, t).score \in Nat
  BY DEF After, Of
<1>2. "score" \in DOMAIN Spawned(r) /\ Spawned(r).score \in Nat
  BY DEF Spawned, Of
<1>3. ASSUME NEW hit PROVE "score" \in DOMAIN Moved(r, hit) /\ Moved(r, hit).score \in Nat
  BY DEF Moved, Of
<1>4. "score" \in DOMAIN Scored(r) /\ Scored(r).score \in Nat
  BY DEF Scored, Of
<1>5. ASSUME NEW a \in Delayed(r) PROVE "score" \in DOMAIN a /\ a.score \in Nat
  BY <1>1 DEF Delayed
<1> QED BY <1>1, <1>2, <1>3, <1>4, <1>5

(* A step that ends no game keeps the scores, if no other game goes on.     *)
LEMMA ScoresRest ==
  ASSUME ScoresOK, UNCHANGED <<files, done, lost>>,
         local'.game \in ScoredGames => table' = table /\ local.game = local'.game,
         screen' \in {"runner", "pause"} => "score" \in DOMAIN local' /\ local'.score \in Nat
  PROVE  ScoresOK'
BY DEF ScoresOK, Stored

(* A game is left: there are no variables any more.                         *)
LEMMA LeaveScores ==
  ASSUME ScoresOK, UNCHANGED <<files, done, lost>>, NEW s \in {"main", "settings", "start"}, Leave(s)
  PROVE  ScoresOK'
<1>1. local'.game \notin ScoredGames /\ screen' \notin {"runner", "pause"}
  BY DEF Leave, None, ScoredGames
<1> QED BY <1>1, ScoresRest

(* In a menu only the marked entry changes.                                 *)
LEMMA MenuScores ==
  ASSUME ScoresOK, NEW s, NEW n, NEW press, Menu(s, n, press)
  PROVE  ScoresOK'
BY DEF Menu, scoreVars, ScoresOK, Stored

(* The games without scores leave them alone.                               *)
LEMMA OtherScores ==
  ASSUME GamesInv, GamesInv', ScoresOK, Iterate \/ Verdict \/ QuizEnd
  PROVE  ScoresOK'
<1>1. CASE \E s, n, press : Menu(s, n, press)
  BY <1>1, MenuScores
<1>2. UNCHANGED <<files, done, lost>>
  BY DEF Iterate, Blackjack, TrueFalse, Verdict, QuizEnd, Menu, scoreVars
<1>3. CASE screen' \in {"blackjack", "verdict", "quiz", "quizend"}
  <2>1. local'.game \in {"blackjack", "quiz"}
    BY <1>3 DEF GamesInv, LocalsOK, GamesOn, Of
  <2> QED BY <1>2, <1>3, <2>1, ScoresRest DEF ScoredGames
<1>4. CASE Leave("start")
  BY <1>2, <1>4, LeaveScores
<1> QED BY <1>1, <1>3, <1>4 DEF Iterate, Blackjack, TrueFalse, Verdict, QuizEnd

(* Menus, resets and games that are quit.                                   *)
LEMMA MenusScores ==
  ASSUME ScoresOK, MainMenu \/ PowerLoss \/ QuitUnsaved
  PROVE  ScoresOK'
<1>1. CASE \E s, n, press : Menu(s, n, press)
  BY <1>1, MenuScores
<1>2. CASE UNCHANGED <<files, done, lost>> /\ \E s \in {"main", "settings", "start"} : Leave(s)
  BY <1>2, LeaveScores
<1> QED BY <1>1, <1>2 DEF MainMenu, PowerLoss, QuitUnsaved, scoreVars

(* The runner goes on, pauses and resumes.                                  *)
LEMMA RunnerScores ==
  ASSUME GamesInv, GamesInv', ScoresOK,
         Pause \/ SensorFails \/ \E press \in BOOLEAN : Runner(press)
  PROVE  ScoresOK'
<1>1. CASE \E s, n, press : Menu(s, n, press)
  BY <1>1, MenuScores
<1>2. CASE Leave("start") /\ UNCHANGED <<files, done, lost>>
  BY <1>2, LeaveScores
<1>3. CASE screen \in {"runner", "pause"}
  <2>1. Of(local, "runner") /\ "score" \in DOMAIN local /\ local.score \in Nat
    BY <1>3, Owners DEF ScoresOK
  <2>2. ASSUME UNCHANGED scoreVars, screen' \in {"runner", "pause"},
               "score" \in DOMAIN local', local'.score \in Nat
        PROVE  ScoresOK'
    <3>1. local'.game = "runner"
      BY <2>2 DEF GamesInv, LocalsOK, GamesOn, Of
    <3>2. local.game = "runner"
      BY <2>1 DEF Of
    <3> QED BY <2>2, <3>1, <3>2, ScoresRest DEF scoreVars
  <2>3. ASSUME NEW press \in BOOLEAN, Runner(press) PROVE ScoresOK'
    <3>1. PICK a \in Delayed(local) : \E b \in Delayed(Spawned(a)) : \E hit \in BOOLEAN :
               \E c \in Delayed(Moved(b, hit)) : local' = Scored(c)
      BY <2>3 DEF Runner
    <3>0. PICK b \in Delayed(Spawned(a)), hit \in BOOLEAN :
               \E c \in Delayed(Moved(b, hit)) : local' = Scored(c)
      BY <3>1
    <3>9. PICK c \in Delayed(Moved(b, hit)) : local' = Scored(c)
      BY <3>0
    <3> DEFINE Counts(r) == Of(r, "runner") /\ "score" \in DOMAIN r /\ r.score \in Nat
    <3>2. Counts(a)
      BY <2>1, RunsStay, ScoreStays
    <3>3. Counts(Spawned(a))
      BY <3>2, RunsStay, ScoreStays
    <3>4. Counts(b)
      BY <3>3, RunsStay, ScoreStays
    <3>5. Counts(Moved(b, hit))
      BY <3>4, RunsStay, ScoreStays
    <3>6. Counts(c)
      BY <3>5, RunsStay, ScoreStays
    <3>7. "score" \in DOMAIN local' /\ local'.score \in Nat
      BY <3>6, <3>9, ScoreStays
    <3>8. UNCHANGED scoreVars /\ screen' \in {"runner", "pause"}
      BY <2>3 DEF Runner
    <3> QED BY <2>2, <3>7, <3>8
  <2>4. ASSUME UNCHANGED scoreVars, screen' = "runner", NEW t, local' = After(local, t)
        PROVE  ScoresOK'
    <3>1. "score" \in DOMAIN local' /\ local'.score \in Nat
      BY <2>1, <2>4, ScoreStays
    <3> QED BY <2>2, <2>4, <3>1
  <2>5. ASSUME SensorFails PROVE ScoresOK'
    BY <2>4, <2>5 DEF SensorFails, Delayed
  <2> QED BY <1>1, <1>2, <2>3, <2>4, <2>5 DEF Pause, scoreVars
<1> QED BY <1>3 DEF Pause, Runner, SensorFails, Menu

(* A game ends with a score: it is put into its place of the table, and the *)
(* file gets the table, or the write fails.                                 *)
LEMMA FinishScores ==
  ASSUME ScoresOK, NEW g \in ScoredGames, NEW s \in Nat, Finish(g, s),
         local.game = g, local' = local, screen' = "over"
  PROVE  ScoresOK'
<1> DEFINE r == Append(done[g], s)
           none == {<<>>}
<1>1. /\ done[g] \in Seq(Nat) /\ Accounts(table, done[g], "table" \notin lost)
      /\ Accounts(Stored(g), done[g], g \notin lost)
  BY DEF ScoresOK
<1>2. Accounts(table', r, "table" \notin lost)
  BY <1>1, InsertedTop, BelowGrows DEF Finish, Accounts
<1>3. table' \in Nat \X Nat \X Nat /\ table' # <<>>
  <2>1. table' \in Nat \X Nat \X Nat
    BY <1>2 DEF Accounts, Below
  <2> QED BY <2>1
<1>4. r \in Seq(Nat)
  BY <1>1
<1>5. Below(Stored(g), r) /\ Below(NoScores, r)
  <2>1. Below(Stored(g), r)
    BY <1>1, BelowGrows DEF Accounts
  <2> QED BY <2>1, TopIsBelow
<1>6. /\ done' \in [ScoredGames -> Seq(Nat)] /\ done'[g] = r
      /\ \A h \in ScoredGames \ {g} : done'[h] = done[h]
  BY <1>4 DEF Finish, ScoresOK
<1>7. g # "table" /\ "table" \notin ScoredGames
  BY DEF ScoredGames
<1>8. /\ files' \in [ScoredGames -> (Nat \X Nat \X Nat) \cup none]
      /\ \A h \in ScoredGames \ {g} : files'[h] = files[h]
      /\ \A h : h # g => (h \in lost' <=> h \in lost)
      /\ \/ files'[g] = table' /\ (g \in lost' <=> "table" \in lost)
         \/ (files'[g] = files[g] \/ files'[g] = <<>>) /\ g \in lost'
  <2>1. files \in [ScoredGames -> (Nat \X Nat \X Nat) \cup none] /\ Tee(g)
    BY DEF Finish, ScoresOK
  <2>2. CASE /\ files' = [files EXCEPT ![g] = table']
             /\ lost' = IF "table" \in lost THEN lost \cup {g} ELSE lost \ {g}
    BY <1>3, <1>7, <2>1, <2>2
  <2>3. CASE files' \in {files, [files EXCEPT ![g] = <<>>]} /\ lost' = lost \cup {g}
    BY <2>1, <2>3
  <2> QED BY <2>1, <2>2, <2>3 DEF Tee
<1>9. Accounts(Stored(g)', r, g \notin lost')
  <2>1. CASE files'[g] = table' /\ (g \in lost' <=> "table" \in lost)
    <3>1. Stored(g)' = table'
      BY <1>3, <2>1 DEF Stored
    <3> QED BY <1>2, <2>1, <3>1 DEF Accounts
  <2>2. CASE (files'[g] = files[g] \/ files'[g] = <<>>) /\ g \in lost'
    <3>1. Stored(g)' = Stored(g) \/ Stored(g)' = NoScores
      BY <2>2 DEF Stored
    <3> QED BY <1>5, <2>2, <3>1 DEF Accounts
  <2> QED BY <1>8, <2>1, <2>2
<1>10. ASSUME NEW h \in ScoredGames \ {g}
       PROVE  Accounts(Stored(h)', done'[h], h \notin lost')
  <2>1. Stored(h)' = Stored(h)
    BY <1>8 DEF Stored
  <2>2. Accounts(Stored(h), done[h], h \notin lost)
    BY DEF ScoresOK
  <2> QED BY <1>6, <1>8, <2>1, <2>2 DEF Accounts
<1>11. Accounts(table', done'[local'.game], "table" \notin lost')
  BY <1>2, <1>6, <1>7, <1>8 DEF Accounts
<1> HIDE DEF r
<1> QED BY <1>6, <1>8, <1>9, <1>10, <1>11 DEF ScoresOK

(* The ends of the games with scores, and another round.                    *)
LEMMA OverScores ==
  ASSUME GamesInv, ScoresOK, RunnerOver \/ (\E g \in ScoredGames : Play(g)) \/ PlayAgain
  PROVE  ScoresOK'
<1>1. CASE RunnerOver
  <2>1. local.score \in Nat /\ local.game = "runner" /\ "runner" \in ScoredGames
    BY <1>1, Owners DEF RunnerOver, ScoresOK, Of, ScoredGames
  <2> QED BY <1>1, <2>1, FinishScores DEF RunnerOver
<1>2. ASSUME NEW g \in ScoredGames, Play(g) PROVE ScoresOK'
  <2>1. PICK s \in Scores : Finish(g, s)
    BY <1>2 DEF Play
  <2>2. s \in Nat
    BY GamesAssumption DEF GamesAssumption
  <2>3. local.game = g
    BY <1>2, Owners DEF Play, Of
  <2> QED BY <1>2, <2>1, <2>2, <2>3, FinishScores DEF Play
<1>3. CASE PlayAgain
  <2>1. local'.game = local.game /\ UNCHANGED scoreVars
    BY <1>3 DEF PlayAgain, Run
  <2>2. local.game \in ScoredGames
    BY <1>3, Owners DEF PlayAgain
  <2>3. screen' \in {"runner", "pause"} => "score" \in DOMAIN local' /\ local'.score \in Nat
    BY <1>3, <2>2 DEF PlayAgain, Run, ScoredGames
  <2> QED BY <2>1, <2>3, ScoresRest DEF scoreVars
<1> QED BY <1>1, <1>2, <1>3

(* A game starts with what it reads of its file, or with nothing.           *)
LEMMA StartScores ==
  ASSUME ScoresOK, StartGame
  PROVE  ScoresOK'
<1>1. PICK g \in AllGames :
        /\ screen' = g /\ UNCHANGED <<files, done>>
        /\ local' = CASE g = "blackjack" -> Deal [] g = "quiz" -> Quiz [] g = "runner" -> Run
                       [] OTHER -> [game |-> g]
        /\ IF g \in ScoredGames THEN ReadFile(g) ELSE UNCHANGED <<table, lost>>
  BY DEF StartGame, Entry, AllGames, ScoredGames
<1>2. local'.game = g
  BY <1>1 DEF Deal, Quiz, Run
<1>3. screen' \in {"runner", "pause"} => "score" \in DOMAIN local' /\ local'.score \in Nat
  BY <1>1 DEF Run, AllGames, ScoredGames
<1>4. ASSUME g \in ScoredGames PROVE Accounts(table', done[g], "table" \notin lost')
  <2>1. CASE /\ table' \in Loads(g)
             /\ lost' = IF g \in lost THEN lost \cup {"table"} ELSE lost \ {"table"}
    <3>1. "table" \in lost' <=> g \in lost
      BY <2>1
    <3>2. Accounts(table', done[g], g \notin lost)
      BY <1>4, <2>1, LoadsAccount
    <3> QED BY <3>1, <3>2 DEF Accounts
  <2>2. CASE table' = NoScores /\ lost' = lost \cup {"table"}
    <3>1. Below(Stored(g), done[g])
      BY <1>4 DEF ScoresOK, Accounts
    <3>2. Below(NoScores, done[g])
      BY <3>1, TopIsBelow
    <3> QED BY <2>2, <3>2 DEF Accounts
  <2> QED BY <1>1, <1>4, <2>1, <2>2 DEF ReadFile
<1>5. ASSUME NEW h \in ScoredGames PROVE Accounts(Stored(h)', done'[h], h \notin lost')
  <2>1. Stored(h)' = Stored(h) /\ done'[h] = done[h]
    BY <1>1 DEF Stored
  <2>2. h \in lost' <=> h \in lost
    BY <1>1 DEF ReadFile, ScoredGames
  <2>3. Accounts(Stored(h), done[h], h \notin lost)
    BY DEF ScoresOK
  <2> QED BY <2>1, <2>2, <2>3 DEF Accounts
<1>6. local'.game \in ScoredGames => Accounts(table', done'[local'.game], "table" \notin lost')
  BY <1>1, <1>2, <1>4
<1>7. /\ done' \in [ScoredGames -> Seq(Nat)]
      /\ files' \in [ScoredGames -> (Nat \X Nat \X Nat) \cup {<<>>}]
  BY <1>1 DEF ScoresOK
<1> QED BY <1>3, <1>5, <1>6, <1>7 DEF ScoresOK

(* The first power-on finds empty files.                                    *)
LEMMA InitScores == GamesInit => ScoresOK
<1> SUFFICES ASSUME GamesInit PROVE ScoresOK
  OBVIOUS
<1>1. \A g \in ScoredGames : Stored(g) = NoScores /\ done[g] = <<>>
  BY DEF GamesInit, Stored
<1>2. <<>> \in Seq(Nat)
  OBVIOUS
<1>3. /\ done \in [ScoredGames -> Seq(Nat)]
      /\ files \in [ScoredGames -> (Nat \X Nat \X Nat) \cup {<<>>}]
  BY <1>2 DEF GamesInit
<1>4. local.game \notin ScoredGames /\ screen \notin {"runner", "pause"}
  BY DEF GamesInit, None, ScoredGames
<1>5. \A g \in ScoredGames : Accounts(Stored(g), done[g], g \notin lost)
  BY <1>1, NoScoresTop, TopIsBelow DEF Accounts
<1> QED BY <1>3, <1>4, <1>5 DEF ScoresOK

(* Every step, or none, keeps the scores.                                   *)
LEMMA StepScores == GamesInv /\ GamesInv' /\ ScoresOK /\ [GamesNext]_gamesVars => ScoresOK'
<1> SUFFICES ASSUME GamesInv, GamesInv', ScoresOK, [GamesNext]_gamesVars PROVE ScoresOK'
  OBVIOUS
<1>1. CASE MainMenu \/ PowerLoss \/ QuitUnsaved
  BY <1>1, MenusScores
<1>2. CASE Iterate \/ Verdict \/ QuizEnd
  BY <1>2, OtherScores
<1>3. CASE Pause \/ SensorFails \/ \E press \in BOOLEAN : Runner(press)
  BY <1>3, RunnerScores
<1>4. CASE RunnerOver \/ (\E g \in ScoredGames : Play(g)) \/ PlayAgain
  BY <1>4, OverScores
<1>5. CASE StartGame
  BY <1>5, StartScores
<1>6. CASE UNCHANGED gamesVars
  BY <1>6 DEF gamesVars, scoreVars, ScoresOK, Stored
<1> QED BY <1>1, <1>2, <1>3, <1>4, <1>5, <1>6 DEF GamesNext

(* The best as Nth() counts them.                                           *)
LEMMA TopIsNth ==
  ASSUME NEW s \in Seq(Nat), NEW t, Top(t, s)
  PROVE  t[1] = Nth(s, 1) /\ t[2] = Nth(s, 2) /\ t[3] >= Nth(s, 3)
<1>1. t[1] \in Nat /\ t[2] \in Nat /\ t[3] \in Nat /\ Best(s, 1, t[1]) /\ Best(s, 2, t[2])
  BY DEF Top
<1>2. PICK v \in Nat : Best(s, 3, v) /\ v <= t[3]
  BY DEF Top
<1>3. Nth(s, 1) = t[1] /\ Nth(s, 2) = t[2] /\ Nth(s, 3) = v
  BY <1>1, <1>2, NthIsBest
<1> QED BY <1>1, <1>2, <1>3

(* The two best as Nth() counts them are not worse than those of the table. *)
LEMMA BelowIsNth ==
  ASSUME NEW s \in Seq(Nat), NEW t, Below(t, s)
  PROVE  t[1] <= Nth(s, 1) /\ t[2] <= Nth(s, 2)
<1>1. PICK a \in Nat, b \in Nat : Best(s, 1, a) /\ Best(s, 2, b) /\ t[1] <= a /\ t[2] <= b
  BY DEF Below
<1>2. Nth(s, 1) = a /\ Nth(s, 2) = b
  BY <1>1, NthIsBest
<1> QED BY <1>1, <1>2

(* What is stored are the best scores of all finished games, for any number *)
(* of games and any scores, as long as open(), read() and _tee() do not     *)
(* fail: the table a game reads at its start, even with a third score that  *)
(* is too high, and what _tee() makes of it at its end hold the two best    *)
(* exactly and the third at least, through all menus, resets and games that *)
(* are quit. Where an access fails what is stored may lack scores, of the   *)
(* games this concerns only and until a whole table is written; it is never *)
(* better than what was played.                                             *)
THEOREM BestScoresKept == GamesSpec => []ScoresKept
<1>1. GamesInit => GamesInv /\ ScoresOK
  BY InitOK, InitScores
<1>2. GamesInv /\ ScoresOK /\ [GamesNext]_gamesVars => (GamesInv /\ ScoresOK)'
  BY StepOK, StepScores
<1>3. GamesInv /\ ScoresOK => ScoresKept
  <2> SUFFICES ASSUME ScoresOK, NEW g \in ScoredGames
               PROVE  /\ Stored(g)[1] <= Nth(done[g], 1) /\ Stored(g)[2] <= Nth(done[g], 2)
                      /\ g \notin lost => /\ Stored(g)[1] = Nth(done[g], 1)
                                         /\ Stored(g)[2] = Nth(done[g], 2)
                                         /\ Stored(g)[3] >= Nth(done[g], 3)
    BY DEF ScoresKept
  <2>1. done[g] \in Seq(Nat) /\ Accounts(Stored(g), done[g], g \notin lost)
    BY DEF ScoresOK
  <2>2. Stored(g)[1] <= Nth(done[g], 1) /\ Stored(g)[2] <= Nth(done[g], 2)
    BY <2>1, BelowIsNth DEF Accounts
  <2>3. g \notin lost => /\ Stored(g)[1] = Nth(done[g], 1) /\ Stored(g)[2] = Nth(done[g], 2)
                        /\ Stored(g)[3] >= Nth(done[g], 3)
    BY <2>1, TopIsNth DEF Accounts
  <2> QED BY <2>2, <2>3
<1> QED BY <1>1, <1>2, <1>3, PTL DEF GamesSpec

-----------------------------------------------------------------------------
(* The hands of blackjack                                                   *)

One(hand, i) == IF i \in hand THEN 1 ELSE 0

(* The number of cards up to a card.                                        *)
LEMMA CardsUpTo ==
  ASSUME NEW hand, NEW n \in Nat
  PROVE  /\ IsFiniteSet(hand \cap (1 .. n))
         /\ Cardinality(hand \cap (1 .. n + 1)) = Cardinality(hand \cap (1 .. n)) + One(hand, n + 1)
<1> DEFINE S == hand \cap (1 .. n)
<1>1. IsFiniteSet(S)
  <2>1. IsFiniteSet(1 .. n)
    BY FS_Interval
  <2>2. S \subseteq 1 .. n
    OBVIOUS
  <2> QED BY <2>1, <2>2, FS_Subset
<1>2. n + 1 \notin S /\ hand \cap (1 .. n + 1) = IF n + 1 \in hand THEN S \cup {n + 1} ELSE S
  OBVIOUS
<1>3. Cardinality(S) \in Nat
  BY <1>1, FS_CardinalityType
<1> HIDE DEF S
<1>4. Cardinality(S \cup {n + 1}) = Cardinality(S) + 1
  BY <1>1, <1>2, FS_AddElement
<1>5. Cardinality(hand \cap (1 .. n + 1)) = Cardinality(S) + One(hand, n + 1)
  BY <1>2, <1>3, <1>4 DEF One
<1> QED BY <1>1, <1>5 DEF S

(* The number of cards of a hand.                                           *)
LEMMA CountIs ==
  ASSUME NCards = 11, NEW hand \in SUBSET Cards
  PROVE  /\ IsFiniteSet(hand)
         /\ Cardinality(hand) =
              One(hand, 1) + One(hand, 2) + One(hand, 3) + One(hand, 4) + One(hand, 5)
              + One(hand, 6) + One(hand, 7) + One(hand, 8) + One(hand, 9) + One(hand, 10)
              + One(hand, 11)
<1> DEFINE C(n) == Cardinality(hand \cap (1 .. n))
<1>1. C(0) = 0
  <2>1. hand \cap (1 .. 0) = {}
    OBVIOUS
  <2> QED BY <2>1, FS_EmptySet
<1>2. hand \cap (1 .. 11) = hand
  BY DEF Cards
<1>3. \A n \in Nat : C(n + 1) = C(n) + One(hand, n + 1)
  BY CardsUpTo
<1>4. IsFiniteSet(hand)
  BY <1>2, CardsUpTo, 11 \in Nat
<1> HIDE DEF C
<1>10. C(1) = C(0) + One(hand, 1)
  BY <1>3, 0 \in Nat, 0 + 1 = 1
<1>11. C(2) = C(1) + One(hand, 2)
  BY <1>3, 1 \in Nat, 1 + 1 = 2
<1>12. C(3) = C(2) + One(hand, 3)
  BY <1>3, 2 \in Nat, 2 + 1 = 3
<1>13. C(4) = C(3) + One(hand, 4)
  BY <1>3, 3 \in Nat, 3 + 1 = 4
<1>14. C(5) = C(4) + One(hand, 5)
  BY <1>3, 4 \in Nat, 4 + 1 = 5
<1>15. C(6) = C(5) + One(hand, 6)
  BY <1>3, 5 \in Nat, 5 + 1 = 6
<1>16. C(7) = C(6) + One(hand, 7)
  BY <1>3, 6 \in Nat, 6 + 1 = 7
<1>17. C(8) = C(7) + One(hand, 8)
  BY <1>3, 7 \in Nat, 7 + 1 = 8
<1>18. C(9) = C(8) + One(hand, 9)
  BY <1>3, 8 \in Nat, 8 + 1 = 9
<1>19. C(10) = C(9) + One(hand, 10)
  BY <1>3, 9 \in Nat, 9 + 1 = 10
<1>20. C(11) = C(10) + One(hand, 11)
  BY <1>3, 10 \in Nat, 10 + 1 = 11
<1>21. C(11) = One(hand, 1) + One(hand, 2) + One(hand, 3) + One(hand, 4) + One(hand, 5)
              + One(hand, 6) + One(hand, 7) + One(hand, 8) + One(hand, 9) + One(hand, 10)
              + One(hand, 11)
  BY <1>1, <1>10, <1>11, <1>12, <1>13, <1>14, <1>15, <1>16, <1>17, <1>18, <1>19, <1>20 DEF One
<1>22. C(11) = Cardinality(hand)
  BY <1>2 DEF C
<1> QED BY <1>4, <1>21, <1>22

(* The value of a hand: the recursive function of Sum() written out.        *)
LEMMA SumIs ==
  ASSUME NCards = 11, NEW hand
  PROVE  Sum(hand) =
           One(hand, 1) + 2 * One(hand, 2) + 3 * One(hand, 3) + 4 * One(hand, 4)
           + 5 * One(hand, 5) + 6 * One(hand, 6) + 7 * One(hand, 7) + 8 * One(hand, 8)
           + 9 * One(hand, 9) + 10 * One(hand, 10) + 11 * One(hand, 11)
<1> DEFINE v(i) == IF i \in hand THEN i ELSE 0
           F(f) == f = [i \in 0 .. NCards |-> IF i = 0 THEN 0 ELSE f[i - 1] + v(i)]
           w1 == 0 + v(1)
           w2 == w1 + v(2)
           w3 == w2 + v(3)
           w4 == w3 + v(4)
           w5 == w4 + v(5)
           w6 == w5 + v(6)
           w7 == w6 + v(7)
           w8 == w7 + v(8)
           w9 == w8 + v(9)
           w10 == w9 + v(10)
           w11 == w10 + v(11)
           w(i) == CASE i = 0 -> 0 [] i = 1 -> w1 [] i = 2 -> w2 [] i = 3 -> w3 [] i = 4 -> w4
                     [] i = 5 -> w5 [] i = 6 -> w6 [] i = 7 -> w7 [] i = 8 -> w8 [] i = 9 -> w9
                     [] i = 10 -> w10 [] i = 11 -> w11
<1>1. Sum(hand) = (CHOOSE f : F(f))[NCards]
  BY DEF Sum
<1>2. F([i \in 0 .. NCards |-> w(i)])
  <2>1. ASSUME NEW i \in 0 .. NCards, i # 0
        PROVE  i - 1 \in 0 .. NCards /\ w(i) = w(i - 1) + v(i)
    <3>1. i - 1 \in 0 .. NCards
      BY <2>1
    <3> HIDE DEF v
    <3>2. i \in {1, 2, 3, 4, 5, 6, 7, 8, 9, 10, 11}
      BY <2>1
    <3>3. w(i) = w(i - 1) + v(i)
      BY <3>2
    <3> QED BY <3>1, <3>3
  <2>2. w(0) = 0
    OBVIOUS
  <2> HIDE DEF w, v
  <2> QED BY <2>1, <2>2
<1>3. PICK f : F(f) /\ Sum(hand) = f[NCards]
  BY <1>1, <1>2
<1>4. f[0] = 0
  BY <1>3
<1>5. ASSUME NEW i \in 1 .. 11 PROVE f[i] = f[i - 1] + i * One(hand, i)
  BY <1>3, <1>5 DEF One
<1> HIDE DEF F, v
<1>11. f[1] = f[0] + 1 * One(hand, 1)
  BY <1>5, 1 \in 1 .. 11, 1 - 1 = 0
<1>12. f[2] = f[1] + 2 * One(hand, 2)
  BY <1>5, 2 \in 1 .. 11, 2 - 1 = 1
<1>13. f[3] = f[2] + 3 * One(hand, 3)
  BY <1>5, 3 \in 1 .. 11, 3 - 1 = 2
<1>14. f[4] = f[3] + 4 * One(hand, 4)
  BY <1>5, 4 \in 1 .. 11, 4 - 1 = 3
<1>15. f[5] = f[4] + 5 * One(hand, 5)
  BY <1>5, 5 \in 1 .. 11, 5 - 1 = 4
<1>16. f[6] = f[5] + 6 * One(hand, 6)
  BY <1>5, 6 \in 1 .. 11, 6 - 1 = 5
<1>17. f[7] = f[6] + 7 * One(hand, 7)
  BY <1>5, 7 \in 1 .. 11, 7 - 1 = 6
<1>18. f[8] = f[7] + 8 * One(hand, 8)
  BY <1>5, 8 \in 1 .. 11, 8 - 1 = 7
<1>19. f[9] = f[8] + 9 * One(hand, 9)
  BY <1>5, 9 \in 1 .. 11, 9 - 1 = 8
<1>20. f[10] = f[9] + 10 * One(hand, 10)
  BY <1>5, 10 \in 1 .. 11, 10 - 1 = 9
<1>21. f[11] = f[10] + 11 * One(hand, 11)
  BY <1>5, 11 \in 1 .. 11, 11 - 1 = 10
<1> QED BY <1>3, <1>4, <1>11, <1>12, <1>13, <1>14, <1>15, <1>16, <1>17, <1>18, <1>19, <1>20, <1>21 DEF One

(* How many cards a value needs: six cards are worth 21 and seven 28.       *)
LEMMA SixLowest ==
  ASSUME
         NEW x1 \in 0 .. 1, NEW x2 \in 0 .. 1, NEW x3 \in 0 .. 1, NEW x4 \in 0 .. 1,
         NEW x5 \in 0 .. 1, NEW x6 \in 0 .. 1, NEW x7 \in 0 .. 1, NEW x8 \in 0 .. 1,
         NEW x9 \in 0 .. 1, NEW x10 \in 0 .. 1, NEW x11 \in 0 .. 1
  PROVE  LET n == x1 + x2 + x3 + x4 + x5 + x6 + x7 + x8 + x9 + x10 + x11
             s == x1 + 2 * x2 + 3 * x3 + 4 * x4 + 5 * x5 + 6 * x6 + 7 * x7
                  + 8 * x8 + 9 * x9 + 10 * x10 + 11 * x11
         IN /\ s \in Nat /\ n \in Nat /\ s >= 6 * n - 15 /\ s >= 7 * n - 21
            /\ x1 = 0 \/ x2 = 0 \/ x3 = 0 \/ x4 = 0 \/ x5 = 0 \/ x6 = 0 => s >= 7 * n - 20
OBVIOUS

(* What a hand of so many cards is worth at least.                          *)
LEMMA HandsAreWorth ==
  ASSUME NCards = 11, NEW hand \in SUBSET Cards
  PROVE  /\ IsFiniteSet(hand) /\ Cardinality(hand) \in Nat /\ Sum(hand) \in Nat
         /\ Sum(hand) >= 6 * Cardinality(hand) - 15
         /\ Sum(hand) >= 7 * Cardinality(hand) - 21
         /\ Sum(hand) < 7 * Cardinality(hand) - 20 => 1 .. 6 \subseteq hand
<1>1. \A i : One(hand, i) \in 0 .. 1
  BY DEF One
<1>2. /\ IsFiniteSet(hand)
      /\ Cardinality(hand) =
           One(hand, 1) + One(hand, 2) + One(hand, 3) + One(hand, 4) + One(hand, 5)
           + One(hand, 6) + One(hand, 7) + One(hand, 8) + One(hand, 9) + One(hand, 10)
           + One(hand, 11)
  BY CountIs
<1>3. Sum(hand) =
        One(hand, 1) + 2 * One(hand, 2) + 3 * One(hand, 3) + 4 * One(hand, 4)
        + 5 * One(hand, 5) + 6 * One(hand, 6) + 7 * One(hand, 7) + 8 * One(hand, 8)
        + 9 * One(hand, 9) + 10 * One(hand, 10) + 11 * One(hand, 11)
  BY SumIs
<1>4. ASSUME ~(1 .. 6 \subseteq hand)
      PROVE  Sum(hand) >= 7 * Cardinality(hand) - 20
  <2>1. \E i \in 1 .. 6 : One(hand, i) = 0
    BY <1>4 DEF One
  <2>2. \/ One(hand, 1) = 0 \/ One(hand, 2) = 0 \/ One(hand, 3) = 0
        \/ One(hand, 4) = 0 \/ One(hand, 5) = 0 \/ One(hand, 6) = 0
    BY <2>1
  <2> QED BY <1>1, <1>2, <1>3, <2>2, SixLowest
<1>5. Sum(hand) \in Nat /\ Cardinality(hand) \in Nat
  BY <1>1, <1>2, <1>3, SixLowest
<1>6. Sum(hand) >= 6 * Cardinality(hand) - 15
  BY <1>1, <1>2, <1>3, SixLowest
<1>7. Sum(hand) >= 7 * Cardinality(hand) - 21
  BY <1>1, <1>2, <1>3, SixLowest
<1> QED BY <1>2, <1>4, <1>5, <1>6, <1>7

(* Two hands that are worth 21 at most leave cards for both players.        *)
LEMMA CardsAreLeft ==
  ASSUME NCards = 11, NEW a \in SUBSET Cards, NEW b \in SUBSET Cards, a \cap b = {},
         Sum(a) <= 21, Sum(b) <= 21
  PROVE  Cardinality(Cards \ (a \cup b)) >= 2
<1> DEFINE c == Cards \ (a \cup b)
<1>1. c \in SUBSET Cards
  OBVIOUS
<1>2. ASSUME NEW i \in 1 .. 11
      PROVE  /\ One(a, i) \in 0 .. 1 /\ One(b, i) \in 0 .. 1 /\ One(c, i) \in 0 .. 1
             /\ One(a, i) + One(b, i) + One(c, i) = 1
  BY <1>2 DEF One, Cards
<1> HIDE DEF c
<1>3. Sum(a) =
        One(a, 1) + 2 * One(a, 2) + 3 * One(a, 3) + 4 * One(a, 4)
        + 5 * One(a, 5) + 6 * One(a, 6) + 7 * One(a, 7) + 8 * One(a, 8)
        + 9 * One(a, 9) + 10 * One(a, 10) + 11 * One(a, 11)
  BY SumIs
<1>4. Sum(b) =
        One(b, 1) + 2 * One(b, 2) + 3 * One(b, 3) + 4 * One(b, 4)
        + 5 * One(b, 5) + 6 * One(b, 6) + 7 * One(b, 7) + 8 * One(b, 8)
        + 9 * One(b, 9) + 10 * One(b, 10) + 11 * One(b, 11)
  BY SumIs
<1>5. Cardinality(c) =
        One(c, 1) + One(c, 2) + One(c, 3) + One(c, 4) + One(c, 5)
        + One(c, 6) + One(c, 7) + One(c, 8) + One(c, 9) + One(c, 10)
        + One(c, 11)
  BY <1>1, CountIs
<1>6. /\ 1 \in 1 .. 11 /\ 2 \in 1 .. 11 /\ 3 \in 1 .. 11 /\ 4 \in 1 .. 11 /\ 5 \in 1 .. 11
      /\ 6 \in 1 .. 11 /\ 7 \in 1 .. 11 /\ 8 \in 1 .. 11 /\ 9 \in 1 .. 11 /\ 10 \in 1 .. 11
      /\ 11 \in 1 .. 11
  OBVIOUS
<1>7. Cardinality(c) >= 2
  BY <1>2, <1>3, <1>4, <1>5, <1>6
<1> QED BY <1>7 DEF c

Hands == [game : {"blackjack"}, player : SUBSET Cards, opp : SUBSET Cards,
          draw : BOOLEAN, chose : BOOLEAN]

(* Two hands of one pack. The opponent stops below 17; a seventh card of    *)
(* the player has put him over 21.                                          *)
Fit(b) ==
  /\ b \in Hands /\ b.player \cap b.opp = {}
  /\ Cardinality(b.opp) <= 6 /\ Cardinality(b.player) <= 7
  /\ Cardinality(b.player) > 6 => 1 .. 6 \subseteq b.player /\ Sum(b.player) > 21
HandsOK == screen \in {"blackjack", "verdict"} => Fit(local)

(* A card more makes a hand one card larger and worth as much more.         *)
LEMMA OneMore ==
  ASSUME NCards = 11, NEW hand \in SUBSET Cards, NEW c \in Cards \ hand
  PROVE  /\ hand \cup {c} \in SUBSET Cards
         /\ Cardinality(hand \cup {c}) = Cardinality(hand) + 1
BY HandsAreWorth, FS_AddElement

(* The opponent draws below 17: he has five cards at most.                  *)
LEMMA OppFits ==
  ASSUME NCards = 11, NEW b, Fit(b), NEW d \in AfterOpp(b)
  PROVE  Fit(d) /\ d.player = b.player
<1>1. CASE ~OppDraws(b)
  BY <1>1 DEF AfterOpp
<1>2. CASE OppDraws(b)
  <2>1. PICK c \in Available(b) : d = [b EXCEPT !.opp = b.opp \cup {c}]
    BY <1>2 DEF AfterOpp
  <2>2. b.opp \in SUBSET Cards /\ b.player \in SUBSET Cards
        /\ c \in Cards \ b.opp /\ c \notin b.player
    BY <2>1 DEF Fit, Hands, Available
  <2>3. b.opp \cup {c} \in SUBSET Cards /\ Cardinality(b.opp \cup {c}) = Cardinality(b.opp) + 1
    BY <2>2, OneMore
  <2>4. Cardinality(b.opp) <= 5
    <3>1. Sum(b.opp) < 17
      BY <1>2 DEF OppDraws
    <3>2. /\ Sum(b.opp) \in Nat /\ Cardinality(b.opp) \in Nat
          /\ Sum(b.opp) >= 6 * Cardinality(b.opp) - 15
      BY <2>2, HandsAreWorth
    <3> QED BY <3>1, <3>2
  <2>5. Cardinality(b.opp) \in Nat
    BY <2>2, HandsAreWorth
  <2>6. Cardinality(b.opp \cup {c}) <= 6
    BY <2>3, <2>4, <2>5
  <2>7. d \in Hands /\ d.opp = b.opp \cup {c} /\ d.player = b.player
    BY <2>1, <2>3 DEF Fit, Hands
  <2> QED BY <2>2, <2>6, <2>7 DEF Fit
<1> QED BY <1>1, <1>2

(* The player draws while he has 21 at most: he has six cards at most, and  *)
(* with six they are the lowest and the seventh ends it.                    *)
LEMMA PlayerFits ==
  ASSUME NCards = 11, NEW b, Fit(b), Sum(b.player) <= 21, NEW d \in AfterPlayer(b)
  PROVE  Fit(d)
<1>1. CASE ~b.draw
  BY <1>1 DEF AfterPlayer
<1>2. CASE b.draw
  <2>1. PICK c \in Available(b) :
          d = [b EXCEPT !.player = b.player \cup {c}, !.draw = FALSE, !.chose = FALSE]
    BY <1>2 DEF AfterPlayer
  <2>2. b.opp \in SUBSET Cards /\ b.player \in SUBSET Cards
        /\ c \in Cards \ b.player /\ c \notin b.opp
    BY <2>1 DEF Fit, Hands, Available
  <2> DEFINE p == b.player \cup {c}
  <2>3. p \in SUBSET Cards /\ Cardinality(p) = Cardinality(b.player) + 1
    BY <2>2, OneMore
  <2>4. /\ Sum(b.player) \in Nat /\ Cardinality(b.player) \in Nat
        /\ Sum(b.player) >= 7 * Cardinality(b.player) - 21
        /\ Sum(b.player) < 7 * Cardinality(b.player) - 20 => 1 .. 6 \subseteq b.player
    BY <2>2, HandsAreWorth
  <2>5. Sum(p) \in Nat /\ Sum(p) >= 7 * Cardinality(p) - 21
    BY <2>3, HandsAreWorth
  <2>6. 1 .. 6 \subseteq b.player => 1 .. 6 \subseteq p
    OBVIOUS
  <2>7. d \in Hands /\ d.opp = b.opp /\ d.player = p
    BY <2>1, <2>3 DEF Fit, Hands
  <2>8. p \cap b.opp = {}
    BY <2>2 DEF Fit
  <2> HIDE DEF p
  <2>9. Cardinality(b.player) <= 6
    BY <2>4
  <2>10. Cardinality(p) <= 7
    BY <2>3, <2>4, <2>9
  <2>11. ASSUME Cardinality(p) > 6 PROVE 1 .. 6 \subseteq p /\ Sum(p) > 21
    <3>1. Cardinality(b.player) = 6 /\ Cardinality(p) = 7
      BY <2>3, <2>4, <2>9, <2>11
    <3>2. Sum(b.player) < 7 * Cardinality(b.player) - 20
      BY <2>4, <3>1
    <3>3. Sum(p) > 21
      BY <2>5, <3>1
    <3> QED BY <2>4, <2>6, <3>2, <3>3
  <2> QED BY <2>7, <2>8, <2>10, <2>11 DEF Fit
<1> QED BY <1>1, <1>2

(* The hands that are dealt are empty.                                      *)
LEMMA DealFits == Fit(Deal)
<1>1. Cardinality({}) = 0
  BY FS_EmptySet
<1> QED BY <1>1 DEF Fit, Deal, Hands

(* Every iteration of a game of blackjack keeps the hands in their arrays.  *)
LEMMA BlackjackFits ==
  ASSUME NCards = 11, HandsOK, NEW press \in BOOLEAN, Blackjack(press)
  PROVE  HandsOK'
<1>1. Fit(local)
  BY DEF HandsOK, Blackjack
<1>2. CASE local' = Deal
  BY <1>2, DealFits DEF HandsOK, Fit
<1>3. CASE Leave("start")
  BY <1>3 DEF HandsOK, Leave
<1>4. ASSUME ~Settled(local), NEW d \in AfterOpp(local), NEW b \in AfterPlayer(d)
      PROVE  local' = b \/ local' = [b EXCEPT !.draw = (action = 2), !.chose = TRUE] => HandsOK'
  <2>1. Sum(local.player) <= 21
    <3>1. local.player \in SUBSET Cards
      BY <1>1 DEF Fit, Hands
    <3>2. Sum(local.player) \in Nat
      BY <3>1, HandsAreWorth
    <3> QED BY <1>4, <3>2 DEF Settled
  <2>2. Fit(b)
    BY <1>1, <1>4, <2>1, OppFits, PlayerFits
  <2>3. Fit([b EXCEPT !.draw = (action = 2), !.chose = TRUE])
    BY <2>2 DEF Fit, Hands
  <2> QED BY <2>2, <2>3 DEF HandsOK, Fit
<1>5. CASE /\ ~Settled(local)
           /\ \E b \in UNION {AfterPlayer(d) : d \in AfterOpp(local)} :
                \/ local' = b
                \/ local' = [b EXCEPT !.draw = (action = 2), !.chose = TRUE]
                \/ Leave("start")
  BY <1>3, <1>4, <1>5
<1>6. \/ local' = Deal
      \/ /\ ~Settled(local)
         /\ \E b \in UNION {AfterPlayer(d) : d \in AfterOpp(local)} :
              \/ local' = b
              \/ local' = [b EXCEPT !.draw = (action = 2), !.chose = TRUE]
              \/ Leave("start")
  BY DEF Blackjack
<1> QED BY <1>2, <1>5, <1>6

(* The other steps keep the hands, deal new ones or have none.              *)
LEMMA StepHands ==
  ASSUME NCards = 11
  PROVE  GamesInv /\ HandsOK /\ [GamesNext]_gamesVars => HandsOK'
<1> SUFFICES ASSUME GamesInv, HandsOK, [GamesNext]_gamesVars PROVE HandsOK'
  OBVIOUS
<1>1. ASSUME screen' \notin {"blackjack", "verdict"} PROVE HandsOK'
  BY <1>1 DEF HandsOK
<1>2. ASSUME UNCHANGED <<screen, local>> PROVE HandsOK'
  BY <1>2 DEF HandsOK, Fit
<1>3. CASE MainMenu \/ PowerLoss \/ QuitUnsaved
  BY <1>1, <1>2, <1>3 DEF MainMenu, PowerLoss, QuitUnsaved, Menu, Leave
<1>4. CASE Iterate
  <2>1. ASSUME NEW press \in BOOLEAN, TrueFalse(press) PROVE HandsOK'
    BY <1>1, <2>1 DEF TrueFalse, Leave
  <2> QED BY <1>4, <2>1, BlackjackFits DEF Iterate
<1>5. CASE Verdict
  <2>1. CASE screen = "verdict" /\ screen' = "blackjack" /\ local' = local
    BY <2>1 DEF HandsOK, Fit
  <2> QED BY <1>1, <1>2, <1>5, <2>1 DEF Verdict, Menu, Leave
<1>6. CASE QuizEnd \/ Pause
  BY <1>1, <1>2, <1>6 DEF QuizEnd, Pause, Menu, Leave
<1>7. CASE SensorFails \/ \E press \in BOOLEAN : Runner(press)
  BY <1>1, <1>7 DEF Runner, SensorFails
<1>8. CASE RunnerOver \/ \E g \in ScoredGames : Play(g)
  BY <1>1, <1>8 DEF RunnerOver, Play
<1>9. CASE StartGame
  <2>1. CASE screen' = "blackjack"
    BY <1>9, <2>1, DealFits DEF StartGame, HandsOK, Fit
  <2> QED BY <1>1, <1>9, <2>1 DEF StartGame, Entry
<1>10. CASE UNCHANGED gamesVars
  BY <1>2, <1>10 DEF gamesVars
<1>11. CASE PlayAgain
  <2>1. screen' \in ScoredGames
    BY <1>11, Owners DEF PlayAgain
  <2> QED BY <1>1, <2>1 DEF ScoredGames
<1> QED BY <1>3, <1>4, <1>5, <1>6, <1>7, <1>8, <1>9, <1>10, <1>11 DEF GamesNext

(* With these hands the arrays do and the pack lasts.                       *)
LEMMA FitIsEnough ==
  ASSUME NCards = 11
  PROVE  HandsOK => HandsFit
<1> SUFFICES ASSUME screen = "blackjack", Fit(local) PROVE HandsFit
  BY DEF HandsOK, HandsFit
<1>1. local.opp \in SUBSET Cards /\ local.player \in SUBSET Cards
  BY DEF Fit, Hands
<1>2. Sum(local.opp) \in Nat /\ Sum(local.player) \in Nat
  BY <1>1, HandsAreWorth
<1>3. Cardinality(local.player) > 6 => 1 .. 6 \subseteq local.player /\ Settled(local)
  BY DEF Fit, Settled
<1>4. ASSUME ~Settled(local) PROVE Cardinality(Available(local)) >= 2
  <2>1. Sum(local.player) <= 21 /\ Sum(local.opp) <= 21
    BY <1>2, <1>4 DEF Settled
  <2> QED BY <1>1, <2>1, CardsAreLeft DEF Fit, Available
<1> QED BY <1>3, <1>4 DEF HandsFit, Fit

(* With the pack of the source, cards 1 to 11, the hands fit into their     *)
(* arrays but for the seventh card of a player who has the six lowest, and  *)
(* in every round that is not settled both players find a card to draw,     *)
(* whatever was drawn before and in which order.                            *)
THEOREM HandsAlwaysFit ==
  ASSUME NCards = 11
  PROVE  GamesSpec => []HandsFit
<1>1. GamesInit => GamesInv /\ HandsOK
  BY InitOK DEF GamesInit, HandsOK
<1>2. GamesInv /\ HandsOK /\ [GamesNext]_gamesVars => (GamesInv /\ HandsOK)'
  BY StepOK, StepHands
<1>3. HandsOK => HandsFit
  BY FitIsEnough
<1> QED BY <1>1, <1>2, <1>3, PTL DEF GamesSpec

-----------------------------------------------------------------------------
(* The obstacles of the runner                                              *)

(* Products grow with their factors, by one factor for each step.           *)
LEMMA Products ==
  ASSUME NEW a \in Int, NEW b \in Int, NEW c \in Nat
  PROVE  /\ a <= b => a * c <= b * c
         /\ (a + 1) * c = a * c + c /\ (a - 1) * c = a * c - c
         /\ a <= 0 => a * c <= 0
OBVIOUS

(* What fits into a number a times is at most the quotient.                 *)
LEMMA Quotients ==
  ASSUME NEW a \in Int, NEW b \in Nat, NEW c \in Nat \ {0}, a * c <= b
  PROVE  b \div c \in Nat /\ a <= b \div c
<1> DEFINE q == b \div c
<1>1. q \in Int /\ b < (q + 1) * c /\ q >= 0
  OBVIOUS
<1> HIDE DEF q
<1>2. SUFFICES ASSUME ~ (a <= q) PROVE FALSE
  BY <1>1 DEF q
<1>3. q + 1 <= a
  BY <1>1, <1>2
<1>4. (q + 1) * c <= a * c
  BY <1>1, <1>3, Products
<1> QED BY <1>1, <1>4

Runs == [game : {"runner"}, y : [1 .. Places -> Int], overrun : BOOLEAN, begin : BOOLEAN,
         dead : BOOLEAN, score : Nat, speed : Int, timer : Int, spawn : Nat, move : Nat,
         tally : Nat, late : Nat]

(* The values of spawn_timer.                                               *)
Intervals == {SpawnLast + n * SpawnStep : n \in 0 .. SpawnFirst}

(* The obstacles that have been moved fewer than k times, as far as can be  *)
(* told from where they are.                                                *)
Low(r, k) == {i \in Active(r) : r.y[i] < FirstSpeed * k}
LowSize(r, k) == Cardinality(Low(r, k))

(* The time since the last move that the obstacles after it cannot have     *)
(* taken: the last one is no older. A move that is late already takes no    *)
(* more than one in time, whenever the last obstacle appeared.              *)
Margin(r) == IF r.move > Pace THEN Pace ELSE r.move - AtMost(r.spawn, SpawnLast)

(* The time in which they appeared, but for the first and for p of them, is *)
(* not above the time of k moves.                                           *)
Apart(r, p) ==
  \A k \in Nat \ {0} : (LowSize(r, k) - 1 - p) * SpawnLast <= (k - 1) * Pace + Margin(r)

InTime(r) ==
  /\ r \in Runs /\ r.speed >= FirstSpeed /\ r.timer \in Intervals /\ r.move <= Pace + 1
  /\ \A i \in 1 .. Places : r.y[i] < Height
  /\ r.begin => Active(r) = {}
Enough(r, p) == r.overrun => Crossing \div SpawnLast + 1 + p > Places

(* A run in which p obstacles are not apart from others. Each late move lets *)
(* in two of them.                                                          *)
Held(r, p) == InTime(r) /\ Enough(r, p) /\ Apart(r, p)
RunsOK == screen \in {"runner", "pause"} \/ (screen = "over" /\ local.game = "runner")
          => Held(local, 2 * local.late)

(* What the proofs use of the constants.                                    *)
LEMMA RunNumbers ==
  /\ Places \in Nat \ {0} /\ Height \in Nat \ {0} /\ FirstSpeed \in Nat \ {0}
  /\ SpawnLast \in Nat \ {0} /\ SpawnFirst \in Nat \ {0} /\ SpawnStep \in Nat \ {0}
  /\ MoveTime \in Nat \ {0} /\ ScoreTime \in Nat \ {0} /\ PauseTime \in Nat \ {0}
  /\ Pace \in Nat \ {0} /\ MoveTime <= Pace /\ SpawnFirst \in Intervals
BY GamesAssumption DEF GamesAssumption, Pace, Intervals

(* The interval between obstacles falls to SpawnLast, and not below it.     *)
LEMMA IntervalsFall ==
  ASSUME NEW t \in Intervals
  PROVE  /\ t \in Int /\ t >= SpawnLast
         /\ t > SpawnLast => t - SpawnStep \in Intervals
<1>1. PICK n \in 0 .. SpawnFirst : t = SpawnLast + n * SpawnStep
  BY DEF Intervals
<1> DEFINE x == n * SpawnStep
<1>2. n \in Nat /\ x \in Nat /\ (n - 1) * SpawnStep = x - SpawnStep /\ (n = 0 => x = 0)
  BY RunNumbers, Products
<1>3. t = SpawnLast + x
  BY <1>1
<1>4. ASSUME t > SpawnLast PROVE t - SpawnStep \in Intervals
  <2>1. n # 0
    BY <1>2, <1>3, <1>4, RunNumbers
  <2>2. n - 1 \in 0 .. SpawnFirst
    BY <1>2, <2>1, RunNumbers
  <2>3. t - SpawnStep = SpawnLast + (n - 1) * SpawnStep
    <3> HIDE DEF x
    <3> QED BY <1>2, <1>3, RunNumbers
  <2> QED BY <2>2, <2>3 DEF Intervals
<1> HIDE DEF x
<1> QED BY <1>2, <1>3, <1>4, RunNumbers

(* There are numbers of obstacles.                                          *)
LEMMA LowIs ==
  ASSUME NEW r \in Runs, NEW k
  PROVE  /\ IsFiniteSet(Low(r, k)) /\ LowSize(r, k) \in Nat
         /\ Low(r, k) \subseteq 1 .. Places /\ LowSize(r, k) <= Places
<1>1. IsFiniteSet(1 .. Places) /\ Cardinality(1 .. Places) = Places
  BY RunNumbers, FS_Interval
<1>2. Low(r, k) \subseteq 1 .. Places
  BY DEF Low, Active
<1> QED BY <1>1, <1>2, FS_Subset, FS_CardinalityType DEF LowSize

(* The margin is a number, and no more than the time of a move.             *)
LEMMA MarginIs ==
  ASSUME NEW r, InTime(r)
  PROVE  Margin(r) \in Int /\ Margin(r) <= Pace /\ Margin(r) >= -SpawnLast
<1>1. r.spawn \in Nat /\ r.move \in Nat
  BY DEF InTime, Runs
<1>2. AtMost(r.spawn, SpawnLast) \in Nat /\ AtMost(r.spawn, SpawnLast) <= SpawnLast
  BY <1>1, RunNumbers DEF AtMost
<1> QED BY <1>1, <1>2, RunNumbers DEF Margin

(* The same obstacles with no less margin are still apart.                  *)
LEMMA ApartStays ==
  ASSUME NEW r, InTime(r), NEW u, InTime(u), NEW p \in Nat, Apart(r, p),
         u.y = r.y, Margin(r) <= Margin(u)
  PROVE  Apart(u, p)
<1>1. \A k : LowSize(u, k) = LowSize(r, k)
  BY DEF LowSize, Low, Active
<1>2. ASSUME NEW k \in Nat \ {0}
      PROVE  (LowSize(u, k) - 1 - p) * SpawnLast <= (k - 1) * Pace + Margin(u)
  <2> DEFINE a == (LowSize(u, k) - 1 - p) * SpawnLast
             b == (k - 1) * Pace
  <2>1. a <= b + Margin(r)
    BY <1>1 DEF Apart
  <2>2. a \in Int /\ b \in Int
    BY LowIs, RunNumbers DEF InTime
  <2> HIDE DEF a, b
  <2>3. a <= b + Margin(u)
    BY <2>1, <2>2, MarginIs
  <2> QED BY <2>3 DEF a, b
<1> QED BY <1>2 DEF Apart

(* What is so for p obstacles is so for one more.                           *)
LEMMA HeldMore ==
  ASSUME NEW r, NEW p \in Nat, Held(r, p)
  PROVE  Held(r, p + 1)
<1>1. r \in Runs /\ Margin(r) \in Int
  BY MarginIs DEF Held, InTime
<1>2. Apart(r, p + 1)
  <2> SUFFICES ASSUME NEW k \in Nat \ {0}
               PROVE  (LowSize(r, k) - 1 - (p + 1)) * SpawnLast <= (k - 1) * Pace + Margin(r)
    BY DEF Apart
  <2> DEFINE n == LowSize(r, k) - 1 - p
             a == n * SpawnLast
             b == (k - 1) * Pace
  <2>1. a <= b + Margin(r)
    BY DEF Held, Apart
  <2>2. n \in Int /\ LowSize(r, k) - 1 - (p + 1) = n - 1
    BY <1>1, LowIs
  <2> HIDE DEF n
  <2>3. a \in Int /\ b \in Int /\ (n - 1) * SpawnLast = a - SpawnLast
    BY <2>2, RunNumbers, Products
  <2> HIDE DEF a, b
  <2>4. a - SpawnLast <= b + Margin(r)
    BY <1>1, <2>1, <2>3, RunNumbers
  <2> QED BY <2>2, <2>3, <2>4 DEF b
<1>3. Enough(r, p + 1)
  <2> DEFINE q == Crossing \div SpawnLast
  <2>1. q \in Int
    <3>1. Crossing \in Int
      <4>1. (Height + FirstSpeed - 1) \div FirstSpeed \in Int
        BY RunNumbers
      <4> QED BY <4>1, RunNumbers DEF Crossing
    <3> QED BY <3>1, RunNumbers
  <2> HIDE DEF q
  <2>2. q + 1 + p > Places => q + 1 + (p + 1) > Places
    BY <2>1, RunNumbers
  <2> QED BY <2>2 DEF Held, Enough, q
<1> QED BY <1>2, <1>3 DEF Held

(* A stretch of time changes the clocks.                                    *)
LEMMA AfterIs ==
  ASSUME NEW r, InTime(r), NEW t \in Nat
  PROVE  LET u == After(r, t)
             s == AtMost(r.spawn + t, r.timer)
             m == AtMost(r.move + t, Pace + 1)
         IN /\ u.spawn = s /\ u.move = m /\ s \in Nat /\ m \in Nat
            /\ u.y = r.y /\ u.overrun = r.overrun /\ u.late = r.late
            /\ InTime(u)
<1> DEFINE u == After(r, t)
           s == AtMost(r.spawn + t, r.timer)
           m == AtMost(r.move + t, Pace + 1)
           c == AtMost(r.tally + t, ScoreTime)
<1>1. r \in Runs /\ r.timer \in Int /\ r.spawn \in Nat /\ r.move \in Nat /\ r.tally \in Nat
  BY DEF InTime, Runs
<1>2. s \in Nat /\ m \in Nat /\ m <= Pace + 1 /\ c \in Nat
  <2>1. r.timer >= SpawnLast
    BY IntervalsFall DEF InTime
  <2> QED BY <1>1, <2>1, RunNumbers DEF AtMost
<1>3. u = [r EXCEPT !.spawn = s, !.move = m, !.tally = c]
  BY <1>1 DEF After, Runs
<1> HIDE DEF s, m, c, u
<1>4. /\ u \in Runs /\ u.spawn = s /\ u.move = m
      /\ u.y = r.y /\ u.overrun = r.overrun /\ u.begin = r.begin
      /\ u.speed = r.speed /\ u.timer = r.timer /\ u.late = r.late
  BY <1>1, <1>2, <1>3 DEF Runs
<1>5. InTime(u)
  BY <1>2, <1>4 DEF InTime, Active
<1> QED BY <1>2, <1>4, <1>5 DEF s, m, u

(* In no stretch of time do the obstacles get closer: the time to their next *)
(* move passes as well, or it is late already.                              *)
LEMMA HeldLonger ==
  ASSUME NEW r, NEW p \in Nat, Held(r, p), NEW u \in Delayed(r)
  PROVE  Held(u, p) /\ u.late = r.late /\ u.move \in Nat /\ (r.move > Pace => u.move > Pace)
<1>1. PICK t \in Nat : u = After(r, t)
  BY RunNumbers DEF Delayed
<1>2. /\ InTime(r) /\ r.timer \in Int /\ r.spawn \in Nat /\ r.move \in Nat
      /\ r.timer >= SpawnLast /\ r.move <= Pace + 1
  BY IntervalsFall DEF Held, InTime, Runs
<1>3. /\ u.spawn = AtMost(r.spawn + t, r.timer) /\ u.move = AtMost(r.move + t, Pace + 1)
      /\ u.y = r.y /\ u.overrun = r.overrun /\ u.late = r.late /\ InTime(u)
  BY <1>1, <1>2, AfterIs
<1>4. Margin(r) <= Margin(u)
  BY <1>2, <1>3, RunNumbers DEF Margin, AtMost
<1>5. Apart(u, p)
  BY <1>2, <1>3, <1>4, ApartStays DEF Held
<1>6. u.move \in Nat /\ (r.move > Pace => u.move > Pace)
  BY <1>2, <1>3, RunNumbers DEF AtMost
<1> QED BY <1>3, <1>5, <1>6 DEF Held, Enough

(* There are moves enough that have taken every obstacle from the screen,   *)
(* and Crossing is their time.                                              *)
LEMMA MovesCross ==
  \E k \in Nat \ {0} : Height <= FirstSpeed * k /\ Crossing = k * Pace
<1> DEFINE h == Height + FirstSpeed - 1
           k == h \div FirstSpeed
<1>1. h \in Nat /\ 1 * FirstSpeed <= h
  BY RunNumbers
<1>2. k \in Int /\ h < (k + 1) * FirstSpeed
  <2> HIDE DEF h
  <2> QED BY <1>1, RunNumbers
<1>3. k \in Nat /\ 1 <= k
  <2> HIDE DEF h
  <2> QED BY <1>1, RunNumbers, Quotients
<1>4. Crossing = k * Pace
  BY DEF Crossing
<1>5. (k + 1) * FirstSpeed = k * FirstSpeed + FirstSpeed /\ k * FirstSpeed = FirstSpeed * k
  <2> HIDE DEF k
  <2> QED BY <1>3, RunNumbers, Products
<1>6. Height <= FirstSpeed * k
  <2> DEFINE x == FirstSpeed * k
  <2>1. x \in Int
    <3> HIDE DEF k
    <3> QED BY <1>3, RunNumbers
  <2>2. h < x + FirstSpeed
    BY <1>2, <1>5
  <2> HIDE DEF x, k
  <2> QED BY <2>1, <2>2, RunNumbers DEF x
<1> HIDE DEF k
<1> QED BY <1>3, <1>4, <1>6

(* The time of a crossing bounds the number of obstacles, the more when one *)
(* is due and no move is late.                                              *)
LEMMA ActiveFew ==
  ASSUME NEW r, InTime(r), NEW p \in Nat, Apart(r, p)
  PROVE  LET a == (Cardinality(Active(r)) - 1 - p) * SpawnLast
         IN /\ Crossing \in Nat /\ Cardinality(Active(r)) \in Nat
            /\ a <= Crossing
            /\ r.move <= Pace /\ r.spawn >= SpawnLast => a <= Crossing - SpawnLast
<1>1. PICK k \in Nat \ {0} : Height <= FirstSpeed * k /\ Crossing = k * Pace
  BY MovesCross
<1>2. /\ r \in Runs /\ r.spawn \in Nat /\ r.move \in Nat
      /\ r.y \in [1 .. Places -> Int] /\ \A i \in 1 .. Places : r.y[i] < Height
  BY DEF InTime, Runs
<1>3. Low(r, k) = Active(r)
  <2>1. \A i \in 1 .. Places : r.y[i] < FirstSpeed * k
    <3> DEFINE f == FirstSpeed * k
    <3>1. f \in Int /\ Height <= f
      BY <1>1, RunNumbers
    <3> HIDE DEF f
    <3>2. \A i \in 1 .. Places : r.y[i] < f
      BY <1>2, <3>1, RunNumbers
    <3> QED BY <3>2 DEF f
  <2> QED BY <2>1 DEF Low, Active
<1>4. LowSize(r, k) = Cardinality(Active(r)) /\ LowSize(r, k) \in Nat
  BY <1>2, <1>3, LowIs DEF LowSize
<1> DEFINE a == (Cardinality(Active(r)) - 1 - p) * SpawnLast
           x == k * Pace
<1>5. a <= (k - 1) * Pace + Margin(r)
  BY <1>4 DEF Apart
<1>6. a \in Int /\ x \in Nat /\ (k - 1) * Pace = x - Pace
  BY <1>4, RunNumbers, Products
<1>7. Crossing = x
  BY <1>1
<1> HIDE DEF a, x
<1>8. a <= Crossing
  BY <1>5, <1>6, <1>7, MarginIs, RunNumbers
<1>9. ASSUME r.move <= Pace, r.spawn >= SpawnLast PROVE a <= Crossing - SpawnLast
  <2>1. AtMost(r.spawn, SpawnLast) = SpawnLast
    BY <1>2, <1>9, RunNumbers DEF AtMost
  <2>2. Margin(r) = r.move - SpawnLast
    BY <1>2, <1>9, <2>1, RunNumbers DEF Margin
  <2> QED BY <1>2, <1>5, <1>6, <1>7, <1>9, <2>2, RunNumbers
<1> QED BY <1>4, <1>6, <1>7, <1>8, <1>9 DEF a

(* The place of a new obstacle is free, and behind the last one only if no  *)
(* place is.                                                                *)
FreePlace(r) == CHOOSE i \in 1 .. Places + 1 : i \notin Active(r) /\ 1 .. i - 1 \subseteq Active(r)
LEMMA FreePlaceIs ==
  ASSUME NEW r
  PROVE  /\ FreePlace(r) \in 1 .. Places + 1
         /\ FreePlace(r) > Places => Active(r) = 1 .. Places
<1> DEFINE S == {i \in 1 .. Places + 1 : i \notin Active(r)}
<1>1. Active(r) \subseteq 1 .. Places
  BY DEF Active
<1>2. S \in SUBSET Nat /\ Places + 1 \in S
  BY <1>1, RunNumbers
<1>3. PICK i \in S : \A n \in S : i <= n
  BY <1>2, LeastNumber
<1>4. 1 .. i - 1 \subseteq Active(r) /\ i \notin Active(r) /\ i \in 1 .. Places + 1
  <2>1. i \in 1 .. Places + 1 /\ i \notin Active(r)
    BY <1>3
  <2>2. ASSUME NEW n \in 1 .. i - 1, n \notin Active(r) PROVE FALSE
    <3>1. n \in S
      BY <2>1, <2>2, RunNumbers
    <3> QED BY <1>3, <2>1, <2>2, <3>1
  <2> QED BY <2>1, <2>2
<1>5. /\ FreePlace(r) \in 1 .. Places + 1 /\ 1 .. FreePlace(r) - 1 \subseteq Active(r)
  BY <1>4 DEF FreePlace
<1>6. ASSUME FreePlace(r) > Places PROVE Active(r) = 1 .. Places
  <2>1. FreePlace(r) - 1 = Places
    BY <1>5, <1>6, RunNumbers
  <2> QED BY <1>1, <1>5, <2>1
<1> QED BY <1>5, <1>6

(* What an obstacle that appears changes.                                   *)
LEMMA SpawnedIs ==
  ASSUME NEW r, InTime(r), r.begin \/ r.spawn >= r.timer
  PROVE  LET u == Spawned(r)
             y == [i \in 1 .. Places |-> IF i = FreePlace(r) THEN 0 ELSE r.y[i]]
         IN /\ InTime(u) /\ u.spawn = 0 /\ u.move = r.move /\ u.y = y
            /\ u.overrun = (r.overrun \/ FreePlace(r) > Places) /\ u.late = r.late
<1> DEFINE u == Spawned(r)
           place == FreePlace(r)
           y == [i \in 1 .. Places |-> IF i = place THEN 0 ELSE r.y[i]]
           o == r.overrun \/ place > Places
           tm == IF r.timer > SpawnLast THEN r.timer - SpawnStep ELSE r.timer
<1>1. /\ r \in Runs /\ r.timer \in Int /\ r.spawn \in Nat /\ DOMAIN r.y = 1 .. Places
      /\ r.timer \in Intervals /\ \A i \in 1 .. Places : r.y[i] < Height /\ r.y[i] \in Int
      /\ r.overrun \in BOOLEAN /\ r.move <= Pace + 1 /\ r.speed >= FirstSpeed
  BY DEF InTime, Runs
<1>2. ~ (~r.begin /\ r.spawn < r.timer)
  BY <1>1
<1>3. y \in [1 .. Places -> Int] /\ \A i \in 1 .. Places : y[i] < Height
  BY <1>1, RunNumbers
<1>4. tm \in Int /\ tm \in Intervals /\ o \in BOOLEAN
  BY <1>1, IntervalsFall, RunNumbers
<1>5. u = [r EXCEPT !.begin = FALSE, !.spawn = 0, !.timer = tm, !.y = y, !.overrun = o]
  BY <1>1, <1>2 DEF Spawned, FreePlace, Runs
<1> HIDE DEF tm, o, y, u
<1>6. /\ u \in Runs /\ u.spawn = 0 /\ u.move = r.move /\ u.y = y /\ u.overrun = o
      /\ u.timer = tm /\ u.speed = r.speed /\ ~u.begin /\ u.late = r.late
  BY <1>1, <1>3, <1>4, <1>5 DEF Runs
<1>7. InTime(u)
  BY <1>1, <1>3, <1>4, <1>6 DEF InTime
<1> QED BY <1>6, <1>7 DEF u, y, o

(* A new obstacle is one more, and the time for it has passed.              *)
LEMMA SpawnedApart ==
  ASSUME NEW r, InTime(r), NEW p \in Nat, Apart(r, p), r.begin \/ r.spawn >= r.timer
  PROVE  Apart(Spawned(r), IF r.move > Pace THEN p + 1 ELSE p)
<1> DEFINE u == Spawned(r)
           place == FreePlace(r)
           w == IF r.move > Pace THEN 1 ELSE 0
<1>1. /\ r \in Runs /\ r.timer \in Int /\ r.spawn \in Nat /\ r.move \in Nat
      /\ r.timer >= SpawnLast /\ Margin(r) \in Int
  BY IntervalsFall, MarginIs DEF InTime, Runs
<1>2. /\ u \in Runs /\ u.spawn = 0 /\ u.move = r.move
      /\ u.y = [i \in 1 .. Places |-> IF i = place THEN 0 ELSE r.y[i]]
  BY SpawnedIs DEF InTime
<1> HIDE DEF u, place
<1>3. /\ Margin(u) \in Nat /\ w \in {0, 1}
      /\ r.spawn >= r.timer => Margin(r) <= Margin(u) + w * SpawnLast - SpawnLast
  <2>1. AtMost(u.spawn, SpawnLast) = 0
    BY <1>2, RunNumbers DEF AtMost
  <2>2. r.spawn >= r.timer => AtMost(r.spawn, SpawnLast) = SpawnLast
    BY <1>1, RunNumbers DEF AtMost
  <2>3. CASE r.move > Pace
    <3>1. w = 1 /\ Margin(u) = Pace /\ Margin(r) = Pace
      BY <1>1, <1>2, <2>3 DEF Margin
    <3> HIDE DEF w
    <3> QED BY <3>1, RunNumbers
  <2>4. CASE ~(r.move > Pace)
    <3>1. /\ w = 0 /\ Margin(u) = r.move - 0
          /\ Margin(r) = r.move - AtMost(r.spawn, SpawnLast)
      BY <1>1, <1>2, <2>1, <2>4 DEF Margin
    <3> HIDE DEF w
    <3> QED BY <1>1, <2>2, <3>1, RunNumbers
  <2> QED BY <2>3, <2>4
<1> HIDE DEF w
<1>4. ASSUME NEW k \in Nat \ {0}
      PROVE  /\ LowSize(u, k) <= LowSize(r, k) + 1 /\ LowSize(r, k) \in Nat /\ LowSize(u, k) \in Nat
             /\ r.begin => LowSize(r, k) = 0
  <2>1. Low(u, k) \subseteq Low(r, k) \cup {place}
    BY <1>2 DEF Low, Active
  <2>2. IsFiniteSet(Low(r, k)) /\ LowSize(r, k) \in Nat /\ LowSize(u, k) \in Nat
    BY <1>1, <1>2, LowIs
  <2>3. /\ IsFiniteSet(Low(r, k) \cup {place})
        /\ Cardinality(Low(r, k) \cup {place}) <= LowSize(r, k) + 1
    <3> DEFINE l == Low(r, k)
    <3>1. IsFiniteSet(l) /\ Cardinality(l) = LowSize(r, k)
      BY <2>2 DEF LowSize
    <3> HIDE DEF l
    <3>2. /\ IsFiniteSet(l \cup {place})
          /\ \/ Cardinality(l \cup {place}) = Cardinality(l)
             \/ Cardinality(l \cup {place}) = Cardinality(l) + 1
      BY <3>1, FS_AddElement
    <3>3. Cardinality(l \cup {place}) <= LowSize(r, k) + 1
      BY <2>2, <3>1, <3>2
    <3> QED BY <3>2, <3>3 DEF l
  <2>4. LowSize(u, k) <= Cardinality(Low(r, k) \cup {place})
    BY <2>1, <2>3, FS_Subset DEF LowSize
  <2>5. LowSize(u, k) <= LowSize(r, k) + 1
    <3>1. Cardinality(Low(r, k) \cup {place}) \in Nat
      BY <2>3, FS_CardinalityType
    <3> QED BY <2>2, <2>3, <2>4, <3>1
  <2>6. ASSUME r.begin PROVE LowSize(r, k) = 0
    <3>1. Low(r, k) = {}
      BY <2>6 DEF InTime, Low
    <3> QED BY <3>1, FS_EmptySet DEF LowSize
  <2> QED BY <2>2, <2>5, <2>6
<1>5. ASSUME NEW k \in Nat \ {0}
      PROVE  (LowSize(u, k) - 1 - (p + w)) * SpawnLast <= (k - 1) * Pace + Margin(u)
  <2> DEFINE n == LowSize(r, k) - 1 - p
             m == LowSize(u, k) - 1 - (p + w)
             b == (k - 1) * Pace
  <2>1. n \in Int /\ m \in Int /\ m <= n + 1 - w /\ (r.begin => m <= 0)
    BY <1>3, <1>4
  <2>2. b \in Nat
    BY RunNumbers
  <2>3. n * SpawnLast <= b + Margin(r)
    BY DEF Apart
  <2> HIDE DEF n, m, b
  <2>4. CASE r.begin
    <3>1. m * SpawnLast <= 0 /\ m * SpawnLast \in Int
      BY <2>1, <2>4, RunNumbers, Products
    <3>2. m * SpawnLast <= b + Margin(u)
      BY <1>3, <2>2, <3>1
    <3> QED BY <3>2 DEF m, b
  <2>5. CASE r.spawn >= r.timer
    <3> DEFINE x == m * SpawnLast
               z == n * SpawnLast
               v == w * SpawnLast
    <3>1. x <= z + SpawnLast - v /\ x \in Int /\ z \in Int /\ v \in Int
      <4>1. CASE w = 0
        <5>1. m <= n + 1
          BY <2>1, <4>1
        <5>2. m * SpawnLast <= (n + 1) * SpawnLast
          BY <2>1, <5>1, RunNumbers, Products
        <5>3. (n + 1) * SpawnLast = n * SpawnLast + SpawnLast /\ w * SpawnLast = 0
          BY <2>1, <4>1, RunNumbers, Products
        <5>4. m * SpawnLast \in Int /\ n * SpawnLast \in Int
          BY <2>1, RunNumbers
        <5> QED BY <5>2, <5>3, <5>4, RunNumbers
      <4>2. CASE w = 1
        <5>1. m <= n
          BY <2>1, <4>2
        <5>2. m * SpawnLast <= n * SpawnLast
          BY <2>1, <5>1, RunNumbers, Products
        <5>3. w * SpawnLast = SpawnLast
          BY <4>2, RunNumbers
        <5>4. m * SpawnLast \in Int /\ n * SpawnLast \in Int
          BY <2>1, RunNumbers
        <5> QED BY <5>2, <5>3, <5>4, RunNumbers
      <4> QED BY <1>3, <4>1, <4>2
    <3>2. z <= b + Margin(r) /\ Margin(r) <= Margin(u) + v - SpawnLast
      BY <1>3, <2>3, <2>5
    <3> HIDE DEF x, z, v
    <3>3. x <= b + Margin(u)
      BY <1>1, <1>3, <2>2, <3>1, <3>2, RunNumbers
    <3> QED BY <3>3 DEF x, m, b
  <2> QED BY <2>4, <2>5
<1>6. Apart(u, p + w)
  BY <1>5 DEF Apart
<1> QED BY <1>6 DEF w, u

(* An obstacle is written behind the last place only after late moves.      *)
LEMMA SpawnedEnough ==
  ASSUME NEW r, NEW p \in Nat, Held(r, p), r.begin \/ r.spawn >= r.timer
  PROVE  Enough(Spawned(r), IF r.move > Pace THEN p + 1 ELSE p)
<1> DEFINE u == Spawned(r)
           q == Crossing \div SpawnLast
           w == IF r.move > Pace THEN p + 1 ELSE p
<1>1. u.overrun = (r.overrun \/ FreePlace(r) > Places)
  BY SpawnedIs DEF Held
<1>2. q \in Nat /\ w \in Nat /\ p <= w
  <2>1. Crossing \in Nat
    BY ActiveFew DEF Held
  <2>2. 0 * SpawnLast <= Crossing
    BY <2>1, RunNumbers
  <2> QED BY <2>1, <2>2, RunNumbers, Quotients
<1>3. ASSUME FreePlace(r) > Places PROVE q + 1 + w > Places
  <2>1. Active(r) = 1 .. Places /\ Cardinality(Active(r)) = Places
    BY <1>3, FreePlaceIs, RunNumbers, FS_Interval
  <2>2. /\ r \in Runs /\ r.timer \in Int /\ r.spawn \in Nat /\ r.timer >= SpawnLast
        /\ r.spawn >= r.timer /\ r.move \in Nat
    <3>1. 1 \in Active(r)
      BY <2>1, RunNumbers
    <3> QED BY <3>1, IntervalsFall DEF Held, InTime, Runs
  <2>3. r.spawn >= SpawnLast
    BY <2>2, RunNumbers
  <2>4. /\ Crossing \in Nat /\ (Places - 1 - p) * SpawnLast <= Crossing
        /\ r.move <= Pace => (Places - 1 - p) * SpawnLast <= Crossing - SpawnLast
    BY <2>1, <2>3, ActiveFew DEF Held
  <2>5. CASE r.move > Pace
    <3>1. Places - 1 - p <= q
      <4>1. Places - 1 - p \in Int
        BY RunNumbers
      <4> QED BY <2>4, <4>1, RunNumbers, Quotients
    <3>2. w = p + 1
      BY <2>5
    <3> HIDE DEF q, w
    <3> QED BY <1>2, <3>1, <3>2, RunNumbers
  <2>6. CASE r.move <= Pace
    <3>1. (Places - p) * SpawnLast <= Crossing
      <4> DEFINE n == Places - 1 - p
                 x == n * SpawnLast
      <4>1. n \in Int /\ Places - p = n + 1
        BY RunNumbers
      <4>2. x <= Crossing - SpawnLast
        BY <2>4, <2>6
      <4> HIDE DEF n
      <4>3. (n + 1) * SpawnLast = x + SpawnLast /\ x \in Int
        BY <4>1, RunNumbers, Products
      <4> HIDE DEF x
      <4>4. x + SpawnLast <= Crossing
        BY <2>4, <4>2, <4>3, RunNumbers
      <4> QED BY <4>1, <4>3, <4>4
    <3>2. Places - p <= q
      <4>1. Places - p \in Int
        BY RunNumbers
      <4> QED BY <2>4, <3>1, <4>1, RunNumbers, Quotients
    <3> HIDE DEF q, w
    <3> QED BY <1>2, <3>2, RunNumbers
  <2> QED BY <2>2, <2>5, <2>6, RunNumbers
<1>4. ASSUME r.overrun PROVE q + 1 + w > Places
  <2>1. q + 1 + p > Places
    BY <1>4 DEF Held, Enough
  <2> HIDE DEF q, w
  <2> QED BY <1>2, <2>1, RunNumbers
<1> QED BY <1>1, <1>3, <1>4 DEF Enough

(* An obstacle may appear, one too close to others only with a late move.   *)
LEMMA SpawnedHeld ==
  ASSUME NEW r, NEW p \in Nat, Held(r, p)
  PROVE  /\ Spawned(r).late = r.late /\ Spawned(r).move = r.move
         /\ Held(Spawned(r), p) \/ (r.move > Pace /\ Held(Spawned(r), p + 1))
<1>1. CASE r.begin \/ r.spawn >= r.timer
  <2>1. InTime(Spawned(r)) /\ Spawned(r).late = r.late /\ Spawned(r).move = r.move
    BY <1>1, SpawnedIs DEF Held
  <2>2. /\ Apart(Spawned(r), IF r.move > Pace THEN p + 1 ELSE p)
        /\ Enough(Spawned(r), IF r.move > Pace THEN p + 1 ELSE p)
    BY <1>1, SpawnedApart, SpawnedEnough DEF Held
  <2> QED BY <2>1, <2>2 DEF Held
<1>2. CASE ~ (r.begin \/ r.spawn >= r.timer)
  <2>1. r.spawn \in Nat /\ r.timer \in Int
    BY DEF Held, InTime, Runs
  <2>2. Spawned(r) = r
    BY <1>2, <2>1 DEF Spawned
  <2> QED BY <2>2
<1> QED BY <1>1, <1>2

(* What a move changes.                                                     *)
LEMMA MovedIs ==
  ASSUME NEW r, InTime(r), ~ (r.move < MoveTime), NEW hit \in BOOLEAN
  PROVE  LET u == Moved(r, hit)
             y == [i \in 1 .. Places |->
                     IF r.y[i] < 0 \/ r.y[i] + r.speed >= Height THEN -1 ELSE r.y[i] + r.speed]
         IN /\ InTime(u) /\ u.move = 0 /\ u.spawn = r.spawn /\ u.y = y
            /\ u.overrun = r.overrun
            /\ u.late = IF r.move > Pace THEN r.late + 1 ELSE r.late
<1> DEFINE u == Moved(r, hit)
           y == [i \in 1 .. Places |->
                   IF r.y[i] < 0 \/ r.y[i] + r.speed >= Height THEN -1 ELSE r.y[i] + r.speed]
           d == hit /\ Active(r) # {}
           l == IF r.move > Pace THEN r.late + 1 ELSE r.late
<1>1. /\ r \in Runs /\ r.speed \in Int /\ DOMAIN r.y = 1 .. Places
      /\ \A i \in 1 .. Places : r.y[i] \in Int
      /\ r.begin \in BOOLEAN /\ r.late \in Nat
  BY DEF InTime, Runs
<1>2. /\ y \in [1 .. Places -> Int]
      /\ \A i \in 1 .. Places : y[i] < Height /\ (y[i] >= 0 => r.y[i] >= 0)
  <2>1. ASSUME NEW i \in 1 .. Places
        PROVE  y[i] \in Int /\ y[i] < Height /\ (y[i] >= 0 => r.y[i] >= 0)
    <3> DEFINE a == r.y[i]
               b == r.speed
    <3>1. a \in Int /\ b \in Int
      BY <1>1
    <3>2. y[i] = IF a < 0 \/ a + b >= Height THEN -1 ELSE a + b
      OBVIOUS
    <3> HIDE DEF a, b, y
    <3>3. y[i] \in Int /\ y[i] < Height /\ (y[i] >= 0 => a >= 0)
      BY <3>1, <3>2, RunNumbers
    <3> QED BY <3>3 DEF a
  <2> QED BY <2>1
<1>3. \A i \in 1 .. Places : y[i] >= 0 => r.y[i] >= 0
  BY <1>2
<1>4. d \in BOOLEAN /\ l \in Nat
  BY <1>1
<1>5. u = [r EXCEPT !.move = 0, !.dead = d, !.late = l, !.y = y]
  BY <1>1 DEF Moved, Runs
<1> HIDE DEF y, d, l, u
<1>6. /\ u \in Runs /\ u.move = 0 /\ u.spawn = r.spawn /\ u.y = y /\ u.begin = r.begin
      /\ u.overrun = r.overrun /\ u.late = l /\ u.timer = r.timer /\ u.speed = r.speed
  BY <1>1, <1>2, <1>4, <1>5 DEF Runs
<1>7. u.begin => Active(u) = {}
  BY <1>3, <1>6 DEF InTime, Active
<1>8. InTime(u)
  BY <1>2, <1>6, <1>7, RunNumbers DEF InTime
<1> QED BY <1>6, <1>8 DEF u, y, l

(* Who has not been moved k times after a move had not been k - 1 times.    *)
LEMMA MovedApart ==
  ASSUME NEW r, InTime(r), NEW p \in Nat, Apart(r, p), ~ (r.move < MoveTime), NEW hit \in BOOLEAN
  PROVE  Apart(Moved(r, hit), IF r.move > Pace THEN p + 1 ELSE p)
<1> DEFINE u == Moved(r, hit)
           w == IF r.move > Pace THEN 1 ELSE 0
<1>1. /\ r \in Runs /\ r.speed \in Int /\ r.speed >= FirstSpeed /\ r.spawn \in Nat
      /\ r.move \in Nat /\ \A i \in 1 .. Places : r.y[i] \in Int
  BY RunNumbers DEF InTime, Runs
<1>2. /\ u \in Runs /\ u.move = 0 /\ u.spawn = r.spawn
      /\ u.y = [i \in 1 .. Places |->
                  IF r.y[i] < 0 \/ r.y[i] + r.speed >= Height THEN -1 ELSE r.y[i] + r.speed]
  BY MovedIs DEF InTime
<1> HIDE DEF u
<1> DEFINE c == AtMost(r.spawn, SpawnLast)
<1>3. c \in Nat /\ c <= SpawnLast /\ Margin(u) = 0 - c
  BY <1>1, <1>2, RunNumbers DEF AtMost, Margin
<1>4. /\ w \in {0, 1} /\ Margin(r) \in Int
      /\ Margin(r) <= Pace - c + w * SpawnLast
  <2>1. CASE r.move > Pace
    <3>1. w = 1 /\ Margin(r) = Pace
      BY <2>1 DEF Margin
    <3> HIDE DEF w, c
    <3> QED BY <1>3, <3>1, RunNumbers
  <2>2. CASE ~ (r.move > Pace)
    <3>1. w = 0 /\ Margin(r) = r.move - c
      BY <2>2 DEF Margin
    <3> HIDE DEF w, c
    <3> QED BY <1>1, <1>3, <2>2, <3>1, RunNumbers
  <2> QED BY <2>1, <2>2
<1> HIDE DEF c, w
<1>5. ASSUME NEW k \in Nat \ {0}, NEW i \in Low(u, k)
      PROVE  k > 1 /\ i \in Low(r, k - 1)
  <2> DEFINE f == FirstSpeed * k
  <2>1. f \in Int /\ FirstSpeed * (k - 1) = f - FirstSpeed /\ (k = 1 => f = FirstSpeed)
    BY RunNumbers
  <2>2. i \in 1 .. Places /\ u.y[i] >= 0 /\ u.y[i] < f
    BY <1>5 DEF Low, Active
  <2> HIDE DEF f
  <2>3. r.y[i] >= 0 /\ u.y[i] = r.y[i] + r.speed /\ r.y[i] \in Int
    BY <1>1, <1>2, <2>2
  <2>4. r.y[i] < f - FirstSpeed /\ k # 1
    BY <1>1, <2>1, <2>2, <2>3, RunNumbers
  <2> QED BY <2>1, <2>2, <2>3, <2>4 DEF Low, Active
<1>6. ASSUME NEW k \in Nat \ {0}
      PROVE  (LowSize(u, k) - 1 - (p + w)) * SpawnLast <= (k - 1) * Pace + Margin(u)
  <2>1. CASE k = 1
    <3>1. LowSize(u, k) = 0
      <4>1. Low(u, k) = {}
        BY <1>5, <2>1
      <4> QED BY <4>1, FS_EmptySet DEF LowSize
    <3> DEFINE m == 0 - 1 - (p + w)
               x == m * SpawnLast
    <3>2. m \in Int /\ m <= -1
      BY <1>4
    <3>3. (k - 1) * Pace = 0
      BY <2>1, RunNumbers
    <3>4. x <= -SpawnLast /\ x \in Int
      <4> HIDE DEF m
      <4>1. m * SpawnLast <= (-1) * SpawnLast
        BY <3>2, RunNumbers, Products
      <4>2. (-1) * SpawnLast = -SpawnLast /\ m * SpawnLast \in Int
        BY <3>2, RunNumbers
      <4> QED BY <4>1, <4>2
    <3> HIDE DEF x
    <3>5. x <= 0 + Margin(u)
      BY <1>3, <3>4, RunNumbers
    <3> QED BY <3>1, <3>3, <3>5 DEF x, m
  <2>2. CASE k > 1
    <3> DEFINE n == LowSize(r, k - 1) - 1 - p
               m == LowSize(u, k) - 1 - (p + w)
               b == (k - 1) * Pace
               x == m * SpawnLast
               z == n * SpawnLast
               v == w * SpawnLast
    <3>1. k - 1 \in Nat \ {0}
      BY <2>2
    <3>2. IsFiniteSet(Low(r, k - 1)) /\ LowSize(r, k - 1) \in Nat /\ LowSize(u, k) \in Nat
      BY <1>1, <1>2, LowIs
    <3>3. LowSize(u, k) <= LowSize(r, k - 1)
      <4>1. Low(u, k) \subseteq Low(r, k - 1)
        BY <1>5
      <4> QED BY <3>2, <4>1, FS_Subset DEF LowSize
    <3>4. m <= n - w /\ m \in Int /\ n \in Int
      BY <1>4, <3>2, <3>3
    <3>5. z <= ((k - 1) - 1) * Pace + Margin(r)
      BY <3>1 DEF Apart
    <3>6. ((k - 1) - 1) * Pace = b - Pace /\ b \in Int
      BY <3>1, RunNumbers, Products
    <3>7. x <= z - v /\ z \in Int /\ x \in Int /\ v \in Int
      <4> HIDE DEF m, n
      <4>1. m * SpawnLast <= (n - w) * SpawnLast
        BY <1>4, <3>4, RunNumbers, Products
      <4>2. (n - w) * SpawnLast = n * SpawnLast - w * SpawnLast
        BY <1>4, <3>4, RunNumbers, Products
      <4>3. m * SpawnLast \in Int /\ n * SpawnLast \in Int /\ w * SpawnLast \in Int
        BY <1>4, <3>4, RunNumbers
      <4> QED BY <4>1, <4>2, <4>3
    <3>8. z <= b - Pace + Margin(r) /\ Margin(r) <= Pace - c + v
      BY <1>4, <3>5, <3>6
    <3> HIDE DEF x, z, v, b
    <3>9. x <= b + Margin(u)
      BY <1>3, <1>4, <3>6, <3>7, <3>8, RunNumbers
    <3> QED BY <3>9 DEF x, m, b
  <2> QED BY <2>1, <2>2
<1>7. Apart(u, p + w)
  BY <1>6 DEF Apart
<1> QED BY <1>7 DEF u, w

(* A move leaves the obstacles apart, and lets in one more if it is late.   *)
LEMMA MovedHeld ==
  ASSUME NEW r, NEW p \in Nat, Held(r, p), NEW hit \in BOOLEAN
  PROVE  LET u == Moved(r, hit)
         IN IF r.move > Pace THEN Held(u, p + 1) /\ u.late = r.late + 1
                             ELSE Held(u, p) /\ u.late = r.late
<1>1. r.move \in Nat
  BY DEF Held, InTime, Runs
<1>2. CASE r.move < MoveTime
  <2>1. Moved(r, hit) = r /\ ~(r.move > Pace)
    BY <1>1, <1>2, RunNumbers DEF Moved
  <2> QED BY <2>1
<1>3. CASE ~(r.move < MoveTime)
  <2> DEFINE u == Moved(r, hit)
  <2>1. /\ InTime(u) /\ u.overrun = r.overrun
        /\ u.late = IF r.move > Pace THEN r.late + 1 ELSE r.late
    BY <1>3, MovedIs DEF Held
  <2>2. Apart(u, IF r.move > Pace THEN p + 1 ELSE p)
    BY <1>3, MovedApart DEF Held
  <2>3. Enough(r, p) /\ Enough(r, p + 1)
    BY HeldMore DEF Held
  <2> HIDE DEF u
  <2>4. Enough(u, p) /\ Enough(u, p + 1)
    BY <2>1, <2>3 DEF Enough
  <2>5. IF r.move > Pace THEN Held(u, p + 1) /\ u.late = r.late + 1
                         ELSE Held(u, p) /\ u.late = r.late
    BY <2>1, <2>2, <2>4 DEF Held
  <2> QED BY <2>5 DEF u
<1> QED BY <1>2, <1>3

(* A point more makes the obstacles no slower.                              *)
LEMMA ScoredHeld ==
  ASSUME NEW r, NEW p \in Nat, Held(r, p)
  PROVE  Held(Scored(r), p) /\ Scored(r).late = r.late
<1> DEFINE u == Scored(r)
           n == r.score + 1
           v == IF (r.score + 1) % SpeedUp = 0 THEN r.speed + 1 ELSE r.speed
<1>1. /\ r \in Runs /\ r.score \in Nat /\ r.speed \in Int /\ r.speed >= FirstSpeed
  BY DEF Held, InTime, Runs
<1>2. n \in Nat /\ v \in Int /\ v >= FirstSpeed
  BY <1>1, RunNumbers
<1>3. \/ u = r \/ u = [r EXCEPT !.tally = 0, !.score = n, !.speed = v]
      \/ u = [r EXCEPT !.tally = 0, !.dead = TRUE]
  BY <1>1 DEF Scored
<1> HIDE DEF n, v, u
<1>4. /\ u \in Runs /\ u.move = r.move /\ u.spawn = r.spawn /\ u.y = r.y /\ u.begin = r.begin
      /\ u.overrun = r.overrun /\ u.late = r.late /\ u.timer = r.timer
      /\ u.speed = r.speed \/ u.speed = v
  <2>1. CASE u = r
    BY <1>1, <2>1
  <2>2. CASE u = [r EXCEPT !.tally = 0, !.score = n, !.speed = v]
    BY <1>1, <1>2, <2>2 DEF Runs
  <2>3. CASE u = [r EXCEPT !.tally = 0, !.dead = TRUE]
    BY <1>1, <2>3 DEF Runs
  <2> QED BY <1>3, <2>1, <2>2, <2>3
<1>5. InTime(u)
  BY <1>1, <1>2, <1>4 DEF Held, InTime, Active
<1>6. Margin(u) = Margin(r)
  BY <1>4 DEF Margin
<1>7. Apart(u, p)
  <2>1. Margin(r) <= Margin(u)
    BY <1>6, MarginIs DEF Held
  <2> QED BY <1>4, <1>5, <2>1, ApartStays DEF Held
<1> QED BY <1>4, <1>5, <1>7 DEF Held, Enough, u

(* An iteration of the game.                                                *)
LEMMA IterationOK ==
  ASSUME NEW r, Held(r, 2 * r.late), NEW a \in Delayed(r), NEW b \in Delayed(Spawned(a)),
         NEW hit \in BOOLEAN, NEW c \in Delayed(Moved(b, hit))
  PROVE  LET u == Scored(c) IN Held(u, 2 * u.late)
<1> DEFINE p == 2 * r.late
           s == Spawned(a)
           m == Moved(b, hit)
           u == Scored(c)
<1>1. r.late \in Nat /\ p \in Nat
  BY DEF Held, InTime, Runs
<1>2. Held(a, p) /\ a.late = r.late /\ a.move \in Nat
  BY <1>1, HeldLonger
<1>3. /\ s.late = r.late /\ s.move = a.move
      /\ Held(s, p) \/ (a.move > Pace /\ Held(s, p + 1))
  BY <1>1, <1>2, SpawnedHeld
<1>4. b.late = r.late /\ (Held(b, p) \/ (b.move > Pace /\ Held(b, p + 1)))
  <2> HIDE DEF s, p
  <2>1. b \in Delayed(s)
    BY DEF s
  <2>2. CASE Held(s, p)
    BY <1>1, <1>3, <2>1, <2>2, HeldLonger
  <2>3. CASE a.move > Pace /\ Held(s, p + 1)
    <3>1. p + 1 \in Nat /\ s.move > Pace
      BY <1>1, <1>3, <2>3
    <3> QED BY <1>3, <2>1, <2>3, <3>1, HeldLonger
  <2> QED BY <1>3, <2>2, <2>3
<1>5. Held(m, 2 * m.late) /\ m.late \in Nat
  <2>1. CASE ~(b.move > Pace)
    <3>1. Held(m, p) /\ m.late = r.late
      BY <1>1, <1>4, <2>1, MovedHeld
    <3> HIDE DEF m
    <3> QED BY <1>1, <3>1
  <2>2. CASE b.move > Pace
    <3>1. Held(b, p + 1) /\ p + 1 \in Nat
      BY <1>1, <1>4, HeldMore
    <3>2. Held(m, (p + 1) + 1) /\ m.late = r.late + 1
      BY <1>4, <2>2, <3>1, MovedHeld
    <3> HIDE DEF m
    <3>3. (p + 1) + 1 = 2 * m.late
      BY <1>1, <3>2
    <3> QED BY <1>1, <3>2, <3>3
  <2> QED BY <2>1, <2>2
<1>6. Held(c, 2 * m.late) /\ c.late = m.late
  <2> HIDE DEF m
  <2>1. c \in Delayed(m) /\ 2 * m.late \in Nat
    BY <1>5 DEF m
  <2> QED BY <1>5, <2>1, HeldLonger
<1>7. Held(u, 2 * m.late) /\ u.late = c.late
  <2>1. 2 * m.late \in Nat
    BY <1>5
  <2> QED BY <1>6, <2>1, ScoredHeld
<1> QED BY <1>6, <1>7

(* A run begins with an empty screen.                                       *)
LEMMA RunStarts == Held(Run, 2 * Run.late)
<1> DEFINE y == [i \in 1 .. Places |-> -1]
<1>1. y \in [1 .. Places -> Int] /\ \A i \in 1 .. Places : y[i] = -1 /\ y[i] < Height
  BY RunNumbers
<1> HIDE DEF y
<1>2. Run = [game |-> "runner", y |-> y, overrun |-> FALSE, begin |-> TRUE, dead |-> FALSE,
             score |-> 0, speed |-> FirstSpeed, timer |-> SpawnFirst, spawn |-> 0,
             move |-> 0, tally |-> 0, late |-> 0]
  BY DEF Run, y
<1>3. /\ Run \in Runs /\ Run.y = y /\ Run.spawn = 0 /\ Run.move = 0 /\ Run.late = 0
      /\ Run.speed = FirstSpeed /\ Run.timer = SpawnFirst /\ ~Run.overrun
  BY <1>1, <1>2, RunNumbers DEF Runs
<1>4. Active(Run) = {}
  BY <1>1, <1>3 DEF Active
<1>5. InTime(Run)
  BY <1>1, <1>3, <1>4, RunNumbers DEF InTime
<1>6. Margin(Run) = 0
  <2>1. AtMost(0, SpawnLast) = 0
    BY RunNumbers DEF AtMost
  <2>2. Margin(Run) = 0 - AtMost(0, SpawnLast)
    <3>1. ~ (Run.move > Pace)
      BY <1>3, RunNumbers
    <3> QED BY <1>3, <3>1 DEF Margin
  <2> QED BY <2>1, <2>2
<1>7. ASSUME NEW k \in Nat \ {0}
      PROVE  (LowSize(Run, k) - 1 - 0) * SpawnLast <= (k - 1) * Pace + Margin(Run)
  <2>1. LowSize(Run, k) = 0
    <3>1. Low(Run, k) = {}
      BY <1>4 DEF Low
    <3> QED BY <3>1, FS_EmptySet DEF LowSize
  <2> DEFINE b == (k - 1) * Pace
             a == (0 - 1 - 0) * SpawnLast
  <2>2. b \in Nat /\ a \in Int /\ a <= 0
    BY RunNumbers
  <2> HIDE DEF a, b
  <2>3. a <= b + Margin(Run)
    BY <1>6, <2>2
  <2> QED BY <2>1, <2>3 DEF a, b
<1>8. Apart(Run, 0) /\ 2 * Run.late = 0
  BY <1>3, <1>7 DEF Apart
<1> QED BY <1>3, <1>5, <1>8 DEF Held, Enough

(* The steps of a run.                                                      *)
LEMMA RunnerRuns ==
  ASSUME RunsOK, SensorFails \/ \E press \in BOOLEAN : Runner(press)
  PROVE  RunsOK'
<1>1. screen = "runner" /\ Held(local, 2 * local.late)
  BY DEF Runner, SensorFails, RunsOK
<1>2. CASE \E press \in BOOLEAN : Runner(press)
  <2>1. PICK a \in Delayed(local) : \E b \in Delayed(Spawned(a)) : \E hit \in BOOLEAN :
             \E c \in Delayed(Moved(b, hit)) : local' = Scored(c)
    BY <1>2 DEF Runner
  <2>2. PICK b \in Delayed(Spawned(a)), hit \in BOOLEAN :
             \E c \in Delayed(Moved(b, hit)) : local' = Scored(c)
    BY <2>1
  <2>3. PICK c \in Delayed(Moved(b, hit)) : local' = Scored(c)
    BY <2>2
  <2>4. Held(Scored(c), 2 * Scored(c).late)
    BY <1>1, IterationOK
  <2>5. Held(local', 2 * local'.late)
    BY <2>3, <2>4
  <2> QED BY <2>5 DEF RunsOK, Held, InTime, Enough, Apart, Active, LowSize, Low, Margin
<1>3. CASE SensorFails
  <2>1. Held(local', 2 * local.late) /\ local'.late = local.late
    <3>1. local.late \in Nat /\ 2 * local.late \in Nat
      BY <1>1 DEF Held, InTime, Runs
    <3>2. local' \in Delayed(local)
      BY <1>3 DEF SensorFails
    <3> QED BY <1>1, <3>1, <3>2, HeldLonger
  <2>2. Held(local', 2 * local'.late)
    BY <2>1
  <2> QED BY <2>2 DEF RunsOK
<1> QED BY <1>2, <1>3

(* A pause ends.                                                            *)
LEMMA ResumeOK ==
  ASSUME NEW r, Held(r, 2 * r.late), NEW t \in PauseTime .. SpawnFirst
  PROVE  Held(After(r, t), 2 * After(r, t).late)
<1>1. r.late \in Nat /\ 2 * r.late \in Nat
  BY DEF Held, InTime, Runs
<1>2. After(r, t) \in Delayed(r)
  BY RunNumbers DEF Delayed
<1>3. Held(After(r, t), 2 * r.late) /\ After(r, t).late = r.late
  BY <1>1, <1>2, HeldLonger
<1> QED BY <1>3

(* Every step, or none, keeps the obstacles apart.                          *)
LEMMA StepRuns == GamesInv /\ RunsOK /\ [GamesNext]_gamesVars => RunsOK'
<1> SUFFICES ASSUME GamesInv, RunsOK, [GamesNext]_gamesVars PROVE RunsOK'
  OBVIOUS
<1>1. ASSUME screen' \notin {"runner", "pause", "over"} PROVE RunsOK'
  BY <1>1 DEF RunsOK
<1>2. ASSUME UNCHANGED <<screen, local>> PROVE RunsOK'
  BY <1>2 DEF RunsOK
<1>3. CASE MainMenu \/ PowerLoss \/ QuitUnsaved
  BY <1>1, <1>2, <1>3 DEF MainMenu, PowerLoss, QuitUnsaved, Menu, Leave
<1>4. CASE Iterate
  BY <1>1, <1>4 DEF Iterate, TrueFalse, Blackjack, Leave
<1>5. CASE Verdict \/ QuizEnd
  BY <1>1, <1>2, <1>5 DEF Verdict, QuizEnd, Menu, Leave
<1>6. CASE Pause
  <2>1. ASSUME screen = "pause", screen' = "runner",
               NEW t \in PauseTime .. SpawnFirst, local' = After(local, t)
        PROVE  RunsOK'
    <3>1. Held(local, 2 * local.late)
      BY <2>1 DEF RunsOK
    <3>2. Held(local', 2 * local'.late)
      BY <2>1, <3>1, ResumeOK
    <3> QED BY <3>2 DEF RunsOK
  <2> QED BY <1>1, <1>2, <1>6, <2>1 DEF Pause, Menu, Leave
<1>7. CASE SensorFails \/ \E press \in BOOLEAN : Runner(press)
  BY <1>7, RunnerRuns
<1>8. CASE RunnerOver
  <2>1. Held(local, 2 * local.late) /\ local' = local /\ screen' = "over"
    BY <1>8 DEF RunnerOver, RunsOK
  <2>2. Held(local', 2 * local'.late)
    BY <2>1
  <2> QED BY <2>2 DEF RunsOK
<1>9. CASE \E g \in ScoredGames : Play(g)
  <2>1. local.game # "runner" /\ local' = local /\ screen' = "over"
    BY <1>9, Owners DEF Play, Of
  <2> QED BY <2>1 DEF RunsOK
<1>10. CASE StartGame
  <2>1. CASE screen' = "runner"
    <3>1. local' = Run
      BY <1>10, <2>1 DEF StartGame
    <3> QED BY <2>1, <3>1, RunStarts DEF RunsOK
  <2> QED BY <1>1, <1>10, <2>1 DEF StartGame, Entry
<1>11. CASE PlayAgain
  <2>1. screen' = local.game /\ local.game \in ScoredGames
    BY <1>11, Owners DEF PlayAgain
  <2>2. CASE local.game = "runner"
    <3>1. local' = Run
      BY <1>11, <2>2 DEF PlayAgain
    <3> QED BY <2>1, <2>2, <3>1, RunStarts DEF RunsOK
  <2> QED BY <1>1, <2>1, <2>2 DEF ScoredGames
<1>12. CASE UNCHANGED gamesVars
  BY <1>2, <1>12 DEF gamesVars
<1> QED BY <1>3, <1>4, <1>5, <1>6, <1>7, <1>8, <1>9, <1>10, <1>11, <1>12 DEF GamesNext

(* Obstacles that are apart are few.                                        *)
LEMMA ApartIsEnough == GamesInv /\ RunsOK => PlacesSuffice
<1> SUFFICES ASSUME GamesInv, RunsOK, local.game = "runner" PROVE PlacesSuffice
  BY DEF PlacesSuffice
<1> DEFINE p == 2 * local.late
           n == Cardinality(Active(local)) - 1 - p
           q == Crossing \div SpawnLast
<1>1. Held(local, p)
  <2>1. screen \in {"runner", "pause", "over"}
    BY DEF GamesInv, LocalsOK, GamesOn, Screens, Of
  <2> QED BY <2>1 DEF RunsOK
<1>2. p \in Nat
  BY <1>1 DEF Held, InTime, Runs
<1>3. Crossing \in Nat /\ Cardinality(Active(local)) \in Nat /\ n * SpawnLast <= Crossing
  <2> HIDE DEF p
  <2> QED BY <1>1, <1>2, ActiveFew DEF Held
<1>4. n \in Int
  BY <1>2, <1>3
<1>5. q \in Nat /\ n <= q
  <2> HIDE DEF n
  <2> QED BY <1>3, <1>4, RunNumbers, Quotients
<1> HIDE DEF q, p
<1>6. Cardinality(Active(local)) <= q + 1 + p
  BY <1>2, <1>3, <1>5
<1> QED BY <1>1, <1>6 DEF PlacesSuffice, Held, Enough, q, p

(* The obstacles of the runner fit into their array as long as enough of    *)
(* their moves are in time: however long the iterations of runner() and its *)
(* pauses take, whatever reads of the sensor fail, and however its clocks,  *)
(* the speed and the presses fall together, each late move lets at most two *)
(* more of them onto the screen than cross it in time, and an obstacle is   *)
(* written behind the array only when these fill it.                        *)
THEOREM PlacesAlwaysSuffice == GamesSpec => []PlacesSuffice
<1>1. GamesInit => GamesInv /\ RunsOK
  <2>1. GamesInit => RunsOK
    BY DEF GamesInit, RunsOK
  <2> QED BY <2>1, InitOK
<1>2. GamesInv /\ RunsOK /\ [GamesNext]_gamesVars => (GamesInv /\ RunsOK)'
  BY StepOK, StepRuns
<1>3. GamesInv /\ RunsOK => PlacesSuffice
  BY ApartIsEnough
<1> QED BY <1>1, <1>2, <1>3, PTL DEF GamesSpec

-----------------------------------------------------------------------------
(* One image                                                                *)

(* Each part behaves in the image of the program as it does by itself, so   *)
(* that what is proved of the clock and of the games holds there.           *)
THEOREM PartsBehave == DeviceSpec => ClockSpec /\ GamesSpec
<1>1. DeviceInit => ClockInit /\ GamesInit
  BY DEF DeviceInit
<1>2. [DeviceNext]_deviceVars => [ClockNext]_clockVars
  <2>1. CASE UNCHANGED deviceVars
    BY <2>1 DEF deviceVars
  <2> QED BY <2>1 DEF DeviceNext, InClock, InGames
<1>3. [DeviceNext]_deviceVars => [GamesNext]_gamesVars
  <2>1. CASE UNCHANGED deviceVars
    BY <2>1 DEF deviceVars
  <2> QED BY <2>1 DEF DeviceNext, InClock, InGames
<1> QED BY <1>1, <1>2, <1>3, PTL DEF DeviceSpec, ClockSpec, GamesSpec
=============================================================================
