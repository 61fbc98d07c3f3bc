----------------------------- MODULE MboxProofs -----------------------------
(***************************************************************************)
(* Theorems of module Mbox, for every number of threads, mailboxes and      *)
(* priorities, every size of a mailbox and every width of a word: the lists *)
(* of readers and writers, the runqueues and the counters stay consistent,  *)
(* a writer is not left behind while there is space, and a mailbox is a     *)
(* FIFO channel.  First come the theorems of module Cib that they rest on:  *)
(* what the counters of core/lib/include/cib.h compute, for every width of a *)
(* word, when a buffer reports that it is full, and where its elements are. *)
(***************************************************************************)
EXTENDS Mbox, KernelProofs

-----------------------------------------------------------------------------
(* The counters                                                             *)

(* A buffer in use: the mask is the size less one, as cib_init() sets it,   *)
(* and there are never more elements than places.                           *)
InUse(c, size) == /\ c \in CibType
                  /\ c.mask = (size - 1) % Word
                  /\ CibAvail(c) <= size

(* A number is determined by its quotient and remainder.                    *)
LEMMA RemainderUnique ==
  ASSUME NEW s \in Nat \ {0}, NEW n \in Int, NEW z \in Int, NEW r \in 0 .. s - 1,
         n = s * z + r
  PROVE  n % s = r
<1> DEFINE y == n \div s
           q == n % s
<1>1. y \in Int /\ q \in 0 .. s - 1 /\ n = s * y + q
  OBVIOUS
<1> HIDE DEF y, q
<1>2. s * (y - z) = r - q
  BY <1>1
<1>3. CASE y - z >= 1
  <2>1. s * (y - z) >= s
    BY <1>1, <1>3
  <2> QED BY <1>1, <1>2, <2>1
<1>4. CASE y - z <= -1
  <2>1. s * (z - y) >= s
    BY <1>1, <1>4
  <2>2. s * (z - y) = q - r
    BY <1>1, <1>2
  <2> QED BY <1>1, <2>1, <2>2
<1>5. CASE y = z
  BY <1>1, <1>5 DEF q
<1> QED BY <1>1, <1>3, <1>4, <1>5

(* Counting on past the last word starts again at zero.                     *)
LEMMA WordSum ==
  ASSUME NEW n \in 0 .. 2 * Word - 1
  PROVE  n % Word = IF n < Word THEN n ELSE n - Word
<1>1. Word \in Nat \ {0}
  BY CibAssumption DEF Word
<1>2. CASE n < Word
  <2>1. n = Word * 0 + n /\ n \in 0 .. Word - 1
    BY <1>1, <1>2
  <2> QED BY <1>1, <1>2, <2>1, RemainderUnique
<1>3. CASE n >= Word
  <2>1. n = Word * 1 + (n - Word) /\ n - Word \in 0 .. Word - 1
    BY <1>1, <1>3
  <2> QED BY <1>1, <1>3, <2>1, RemainderUnique
<1> QED BY <1>1, <1>2, <1>3

(* The distance of two words, also when the first has wrapped.              *)
LEMMA WordDifference ==
  ASSUME NEW a \in 0 .. Word - 1, NEW b \in 0 .. Word - 1
  PROVE  (a - b) % Word = IF a >= b THEN a - b ELSE a - b + Word
<1>1. Word \in Nat \ {0}
  BY CibAssumption DEF Word
<1>2. CASE a >= b
  <2>1. a - b = Word * 0 + (a - b) /\ a - b \in 0 .. Word - 1
    BY <1>1, <1>2
  <2> QED BY <1>1, <1>2, <2>1, RemainderUnique
<1>3. CASE a < b
  <2>1. a - b = Word * (-1) + (a - b + Word) /\ a - b + Word \in 0 .. Word - 1
    BY <1>1, <1>3
  <2> QED BY <1>1, <1>3, <2>1, RemainderUnique
<1> QED BY <1>1, <1>2, <1>3

(* cib_avail() is a word.                                                   *)
LEMMA AvailType ==
  ASSUME NEW c \in CibType
  PROVE  CibAvail(c) \in 0 .. Word - 1
BY WordDifference, CibAssumption DEF CibAvail, CibType, Word

(* cib_init(): a new buffer has no element.                                 *)
LEMMA InitInUse ==
  ASSUME NEW size \in 0 .. Half
  PROVE  InUse(CibInit(size), size) /\ CibAvail(CibInit(size)) = 0
BY CibAssumption DEF InUse, CibInit, CibType, CibAvail, Word

(* cib_full() is exact for every size below half of a word, also for zero,  *)
(* where the mask is all ones, and wherever the counters have wrapped.      *)
THEOREM FullIsExact ==
  ASSUME NEW size \in 0 .. Half - 1, NEW c, InUse(c, size)
  PROVE  CibFull(c) <=> CibAvail(c) = size
<1>1. CibAvail(c) \in 0 .. size
  BY AvailType, CibAssumption DEF InUse, Word
<1>2. Signed(CibAvail(c)) = CibAvail(c)
  BY <1>1, CibAssumption DEF Signed
<1>3. Signed(c.mask) = size - 1
  <2>1. CASE size = 0
    <3>1. c.mask = Word - 1
      BY <2>1, CibAssumption DEF InUse, Word
    <3> QED BY <2>1, <3>1, CibAssumption DEF Signed, Word
  <2>2. CASE size > 0
    <3>1. c.mask = size - 1
      BY <2>2, CibAssumption DEF InUse, Word
    <3> QED BY <2>2, <3>1, CibAssumption DEF Signed
  <2> QED BY <2>1, <2>2
<1> QED BY <1>1, <1>2, <1>3 DEF CibFull

(* At half of a word, the limit that cib_init()'s documentation allows, the *)
(* count of a full buffer is the most negative int: it never reports full.  *)
THEOREM NeverFullAtTheLimit ==
  ASSUME NEW c, InUse(c, Half)
  PROVE  ~CibFull(c)
<1>1. CibAvail(c) \in 0 .. Half
  BY AvailType, CibAssumption DEF InUse, Word
<1>2. Signed(CibAvail(c)) <= Half - 1
  BY <1>1, CibAssumption DEF Signed, Word
<1>3. Signed(c.mask) = Half - 1
  <2>1. c.mask = Half - 1
    BY CibAssumption DEF InUse, Word
  <2> QED BY <2>1, CibAssumption DEF Signed
<1> QED BY <1>1, <1>2, <1>3, CibAssumption DEF CibFull, Signed, Word

(* cib_put() of a buffer that is not full, and cib_get() of one that is not *)
(* empty, keep it in use and count one element more and one less.           *)
THEOREM CountsKept ==
  ASSUME NEW size \in Nat, size <= Half, NEW c, InUse(c, size)
  PROVE  /\ CibAvail(c) < size =>
              InUse(CibPut(c), size) /\ CibAvail(CibPut(c)) = CibAvail(c) + 1
         /\ CibAvail(c) > 0 =>
              InUse(CibGet(c), size) /\ CibAvail(CibGet(c)) = CibAvail(c) - 1
<1>1. c \in CibType /\ CibAvail(c) \in 0 .. size
  BY AvailType, CibAssumption DEF InUse, Word
<1>2. CibPut(c) \in CibType /\ CibGet(c) \in CibType
  BY <1>1, CibAssumption DEF CibType, CibPut, CibGet, Word
<1>3. CibPut(c).mask = c.mask /\ CibGet(c).mask = c.mask
  BY <1>1 DEF CibType, CibPut, CibGet
<1>4. ASSUME CibAvail(c) < size PROVE CibAvail(CibPut(c)) = CibAvail(c) + 1
  <2>1. CibPut(c).read = c.read /\ CibPut(c).write = (c.write + 1) % Word
    BY <1>1 DEF CibType, CibPut
  <2>2. c.read \in 0 .. Word - 1 /\ c.write \in 0 .. Word - 1 /\ Word \in Nat
    BY <1>1, CibAssumption DEF CibType, Word
  <2>3. CibPut(c).write = IF c.write + 1 < Word THEN c.write + 1 ELSE 0
    BY <2>1, <2>2, WordSum
  <2>4. CibAvail(c) = IF c.write >= c.read THEN c.write - c.read
                                           ELSE c.write - c.read + Word
    BY <2>2, WordDifference DEF CibAvail
  <2>5. CibAvail(CibPut(c))
          = IF CibPut(c).write >= c.read THEN CibPut(c).write - c.read
                                         ELSE CibPut(c).write - c.read + Word
    <3>1. CibPut(c).write \in 0 .. Word - 1
      BY <2>2, <2>3
    <3>2. CibAvail(CibPut(c)) = (CibPut(c).write - c.read) % Word
      BY <2>1 DEF CibAvail
    <3> QED BY <2>2, <3>1, <3>2, WordDifference
  <2>6. CibAvail(c) < Word - 1
    BY <1>1, <1>4, <2>2, CibAssumption DEF Word
  <2> QED BY <2>2, <2>3, <2>4, <2>5, <2>6
<1>5. ASSUME CibAvail(c) > 0 PROVE CibAvail(CibGet(c)) = CibAvail(c) - 1
  <2>1. CibGet(c).write = c.write /\ CibGet(c).read = (c.read + 1) % Word
    BY <1>1 DEF CibType, CibGet
  <2>2. c.read \in 0 .. Word - 1 /\ c.write \in 0 .. Word - 1 /\ Word \in Nat
    BY <1>1, CibAssumption DEF CibType, Word
  <2>3. CibGet(c).read = IF c.read + 1 < Word THEN c.read + 1 ELSE 0
    BY <2>1, <2>2, WordSum
  <2>4. CibAvail(c) = IF c.write >= c.read THEN c.write - c.read
                                           ELSE c.write - c.read + Word
    BY <2>2, WordDifference DEF CibAvail
  <2>5. CibGet(c).read \in 0 .. Word - 1
    BY <2>2, <2>3
  <2>6. CibAvail(CibGet(c)) = (c.write - CibGet(c).read) % Word
    BY <2>1 DEF CibAvail
  <2>7. CibAvail(CibGet(c))
          = IF c.write >= CibGet(c).read THEN c.write - CibGet(c).read
                                         ELSE c.write - CibGet(c).read + Word
    BY <2>2, <2>5, <2>6, WordDifference
  <2> QED BY <1>5, <2>2, <2>3, <2>4, <2>7
<1> QED BY <1>1, <1>2, <1>3, <1>4, <1>5 DEF InUse

(* Numbers that differ by less than s have different remainders modulo s.   *)
LEMMA RemaindersDiffer ==
  ASSUME NEW s \in Nat \ {0}, NEW a \in Nat, NEW b \in Nat, a < b, b - a < s
  PROVE  a % s # b % s
<1> DEFINE x == a \div s
           y == b \div s
<1>1. x \in Nat /\ y \in Nat
  OBVIOUS
<1>2. a = s * x + (a % s) /\ b = s * y + (b % s)
  OBVIOUS
<1>3. ASSUME a % s = b % s PROVE FALSE
  <2>1. b - a = s * y - s * x
    BY <1>1, <1>2, <1>3
  <2>2. b - a = s * (y - x)
    BY <1>1, <2>1
  <2>3. y - x \in Int /\ y - x > 0
    BY <1>1, <2>2
  <2>4. s * (y - x) >= s
    BY <1>1, <2>3
  <2> QED BY <2>2, <2>4
<1> QED BY <1>3

(* The overflow of a counter does not disturb the places: a size divides the *)
(* number of words.                                                         *)
LEMMA OverflowKeepsPlace ==
  ASSUME NEW s \in 1 .. Half, Half % s = 0, NEW a \in 0 .. 2 * Word - 1
  PROVE  (a % Word) % s = a % s
<1> DEFINE q == Half \div s
           x == a \div s
           r == a % s
<1>1. s \in Nat \ {0} /\ q \in Nat /\ Half = s * q
  BY CibAssumption
<1>2. x \in Nat /\ r \in 0 .. s - 1 /\ a = s * x + r
  BY <1>1
<1>3. CASE a < Word
  BY <1>3, WordSum
<1>4. CASE a >= Word
  <2>1. a % Word = a - Word /\ a - Word \in Nat
    BY <1>4, WordSum, CibAssumption DEF Word
  <2> DEFINE n == a - Word
             z == x - 2 * q
  <2> HIDE DEF q, x, r
  <2>2. n \in Nat /\ z \in Int /\ n = s * z + r
    BY <1>1, <1>2, <2>1, CibAssumption DEF Word
  <2> HIDE DEF n, z
  <2>3. n % s = r
    BY <1>1, <1>2, <2>2, RemainderUnique
  <2> QED BY <2>1, <2>3 DEF r, n
<1> QED BY <1>3, <1>4, CibAssumption DEF Word

(* The elements of a buffer, and the place the next one is put to, are in   *)
(* places of their own: cib_put() never hands out a place that still holds  *)
(* an element, also after the counters have overflowed.                     *)
THEOREM PlacesDiffer ==
  ASSUME NEW size \in 1 .. Half, Half % size = 0, NEW c, InUse(c, size)
  PROVE  /\ \A i, j \in 0 .. size - 1 : i < j => PlaceAt(c, i) # PlaceAt(c, j)
         /\ PutPlace(c) = PlaceAt(c, CibAvail(c))
         /\ GetPlace(c) = PlaceAt(c, 0)
         /\ \A i \in 0 .. size - 1 : PlaceAt(c, i) \in 0 .. size - 1
<1>1. /\ size \in Nat \ {0} /\ c.mask + 1 = size
      /\ c.read \in 0 .. Word - 1 /\ c.write \in 0 .. Word - 1
      /\ Half \in Nat \ {0} /\ size <= Half
  BY CibAssumption DEF InUse, CibType, Word
<1>2. ASSUME NEW i \in 0 .. size PROVE PlaceAt(c, i) = (c.read + i) % size
  <2>1. c.read + i \in 0 .. 2 * Word - 1
    BY <1>1 DEF Word
  <2> QED BY <1>1, <2>1, OverflowKeepsPlace DEF PlaceAt, Masked
<1>3. ASSUME NEW i \in 0 .. size - 1, NEW j \in 0 .. size - 1, i < j
      PROVE  PlaceAt(c, i) # PlaceAt(c, j)
  <2> DEFINE a == c.read + i
             b == c.read + j
  <2>1. a \in Nat /\ b \in Nat /\ a < b /\ b - a < size
    BY <1>1, <1>3 DEF Word
  <2> HIDE DEF a, b
  <2>2. a % size # b % size
    BY <1>1, <2>1, RemaindersDiffer
  <2> QED BY <1>2, <2>2 DEF a, b
<1>4. PutPlace(c) = PlaceAt(c, CibAvail(c))
  <2>1. Word \in Nat
    BY <1>1 DEF Word
  <2>2. CibAvail(c) = IF c.write >= c.read THEN c.write - c.read
                                           ELSE c.write - c.read + Word
    BY <1>1, WordDifference DEF CibAvail
  <2>3. c.read + CibAvail(c) \in 0 .. 2 * Word - 1
    BY <1>1, <2>1, <2>2
  <2>4. c.write = (c.read + CibAvail(c)) % Word
    BY <1>1, <2>1, <2>2, <2>3, WordSum
  <2> QED BY <2>4 DEF PutPlace, PlaceAt
<1>5. GetPlace(c) = PlaceAt(c, 0)
  <2>1. Word \in Nat /\ c.read + 0 = c.read /\ c.read \in 0 .. 2 * Word - 1
    BY <1>1 DEF Word
  <2>2. c.read % Word = c.read
    BY <1>1, <2>1, WordSum
  <2> QED BY <2>1, <2>2 DEF GetPlace, PlaceAt
<1>6. ASSUME NEW i \in 0 .. size - 1 PROVE PlaceAt(c, i) \in 0 .. size - 1
  <2>1. c.read + i \in Nat
    BY <1>1 DEF Word
  <2> QED BY <1>1, <1>2, <2>1
<1> QED BY <1>3, <1>4, <1>5, <1>6

(* cib_put() moves no element, and cib_get() makes the second element the   *)
(* first, wherever the counters have wrapped.                               *)
LEMMA PlacesMove ==
  ASSUME NEW size \in 1 .. Half, NEW c, InUse(c, size), NEW i \in 0 .. size - 1
  PROVE  /\ PlaceAt(CibPut(c), i) = PlaceAt(c, i)
         /\ PlaceAt(CibGet(c), i) = PlaceAt(c, i + 1)
<1>1. /\ c \in CibType /\ c.read \in 0 .. Word - 1 /\ Word \in Nat \ {0}
      /\ i \in Nat
      /\ i < Half /\ Half \in Nat \ {0} /\ Word = 2 * Half
  BY CibAssumption DEF InUse, CibType, Word
<1>2. /\ CibPut(c).read = c.read /\ CibPut(c).mask = c.mask
      /\ CibGet(c).read = (c.read + 1) % Word /\ CibGet(c).mask = c.mask
  BY <1>1 DEF CibType, CibPut, CibGet
<1>3. CibGet(c).read = IF c.read + 1 < Word THEN c.read + 1 ELSE 0
  <2>1. c.read + 1 \in 0 .. 2 * Word - 1 /\ c.read + 1 <= Word
    BY <1>1
  <2> DEFINE n == c.read + 1
  <2>2. n \in 0 .. 2 * Word - 1
    BY <2>1
  <2> HIDE DEF n
  <2>3. n % Word = IF n < Word THEN n ELSE n - Word
    BY <2>2, WordSum
  <2> QED BY <1>1, <1>2, <2>1, <2>3 DEF n
<1>4. (CibGet(c).read + i) % Word = (c.read + (i + 1)) % Word
  <2>1. CASE c.read + 1 < Word
    <3>1. CibGet(c).read + i = c.read + (i + 1)
      BY <1>1, <1>3, <2>1
    <3> QED BY <3>1
  <2>2. CASE c.read + 1 >= Word
    <3>1. c.read = Word - 1 /\ CibGet(c).read = 0
      BY <1>1, <1>3, <2>2
    <3>2. CibGet(c).read + i = i /\ c.read + (i + 1) = Word + i
      BY <1>1, <3>1
    <3>3. i \in 0 .. 2 * Word - 1 /\ Word + i \in 0 .. 2 * Word - 1 /\ i < Word
      BY <1>1
    <3>4. i % Word = i
      BY <3>3, WordSum
    <3>5. (Word + i) % Word = i
      <4> DEFINE n == Word + i
      <4>1. n \in 0 .. 2 * Word - 1 /\ ~(n < Word) /\ n - Word = i
        BY <1>1, <3>3
      <4> HIDE DEF n
      <4>2. n % Word = n - Word
        BY <4>1, WordSum
      <4> QED BY <4>1, <4>2 DEF n
    <3> QED BY <3>2, <3>4, <3>5
  <2> QED BY <1>1, <2>1, <2>2
<1>5. /\ PlaceAt(CibPut(c), i) = Masked((CibPut(c).read + i) % Word, CibPut(c).mask)
      /\ PlaceAt(CibGet(c), i) = Masked((CibGet(c).read + i) % Word, CibGet(c).mask)
      /\ PlaceAt(c, i) = Masked((c.read + i) % Word, c.mask)
      /\ PlaceAt(c, i + 1) = Masked((c.read + (i + 1)) % Word, c.mask)
  BY DEF PlaceAt
<1> QED BY <1>2, <1>4, <1>5

-----------------------------------------------------------------------------
(* The mailboxes                                                            *)

(* The two lists of every mailbox, as one family.                           *)
Ends == {"readers", "writers"} \X Boxes
List(e) == IF e[1] = "readers" THEN readers[e[2]] ELSE writers[e[2]]

(* The inductive invariant: each blocked thread is in one list, once; the   *)
(* executing thread is ready unless it is about to yield; a writer in a list *)
(* is in the loop of _mbox_put(); threads wait only where they may; and the *)
(* counters are those of a buffer in use.                                   *)
Lists ==
  /\ \A e \in Ends : Once(List(e))
  /\ \A e, f \in Ends : e # f => Elems(List(e)) \cap Elems(List(f)) = {}
  /\ \A t \in Threads :
       k.status[t] = "MBOX_BLOCKED" <=> \E e \in Ends : t \in Elems(List(e))

AtWork ==
  \A t \in Threads : Executes(k, t) /\ pc[t].at # "yield" => IsActive(k, t)

PutsTo(t, b) == /\ pc[t].at \in {"yield", "retry"} /\ pc[t].box = b
                /\ pc[t].at = "yield" => pc[t].next = "retry"
WritersWait ==
  \A b \in Boxes, t \in Threads : t \in Elems(writers[b]) => PutsTo(t, b)

OneSided ==
  \A b \in Boxes : /\ readers[b] # <<>> => b \in Getters
                   /\ \A t \in Threads : PutsTo(t, b) => b \in Putters

Counts == \A b \in Boxes : InUse(cib[b], Size[b])

MboxInv == /\ TypeOK /\ KernelInv(k)
           /\ Lists /\ AtWork /\ WritersWait /\ OneSided /\ Counts
           /\ WritersNotStranded

-----------------------------------------------------------------------------
(* The counters and the messages                                            *)

(* The size of a mailbox is zero or divides the half of a word.             *)
LEMMA SizeType ==
  ASSUME NEW b \in Boxes
  PROVE  /\ Size[b] \in 0 .. Half - 1 /\ Size[b] \in Nat /\ Size[b] <= Half
         /\ Size[b] # 0 => Size[b] \in 1 .. Half /\ Half % Size[b] = 0
         /\ Half \in Nat \ {0} /\ Word \in Nat
<1>1. Half \in Nat \ {0} /\ Word \in Nat
  BY CibAssumption DEF Word
<1>2. Size[b] \in Sizes
  BY MboxAssumption
<1> QED BY <1>1, <1>2 DEF Sizes

(* _mbox_put() into the buffer: one message more, and only in this mailbox. *)
LEMMA StoreData ==
  ASSUME TypeOK, Counts, NEW b \in Boxes, Store(b)
  PROVE  /\ cib' \in [Boxes -> CibType] /\ Counts'
         /\ array' \in [Boxes -> [0 .. Word - 1 -> 0 .. N - 1]]
         /\ sent' \in [Boxes -> 0 .. N - 1] /\ got' \in [Boxes -> 0 .. N - 1]
         /\ CibAvail(cib[b]) \in Nat /\ CibAvail(cib[b]) < Size[b]
         /\ cib' = [cib EXCEPT ![b] = CibPut(cib[b])]
         /\ CibAvail(cib'[b]) = CibAvail(cib[b]) + 1
         /\ \A c \in Boxes \ {b} : cib'[c] = cib[c]
<1>1. /\ cib[b] \in CibType /\ InUse(cib[b], Size[b]) /\ ~CibFull(cib[b])
      /\ cib' = [cib EXCEPT ![b] = CibPut(cib[b])]
  BY DEF TypeOK, Counts, Store
<1>2. CibAvail(cib[b]) \in Nat /\ CibAvail(cib[b]) < Size[b]
  <2>1. CibAvail(cib[b]) # Size[b]
    BY <1>1, FullIsExact, SizeType
  <2>2. CibAvail(cib[b]) <= Size[b]
    BY <1>1 DEF InUse
  <2> QED BY <1>1, <2>1, <2>2, AvailType, SizeType
<1>3. InUse(CibPut(cib[b]), Size[b]) /\ CibAvail(CibPut(cib[b])) = CibAvail(cib[b]) + 1
  BY <1>1, <1>2, SizeType, CountsKept
<1>4. CibPut(cib[b]) \in CibType
  BY <1>3 DEF InUse
<1> DEFINE d == CibPut(cib[b])
<1> HIDE DEF d
<1>5. /\ cib' \in [Boxes -> CibType] /\ cib'[b] = d
      /\ \A c \in Boxes \ {b} : cib'[c] = cib[c]
  BY <1>1, <1>4 DEF TypeOK, d
<1>6. Counts'
  BY <1>3, <1>5 DEF Counts, d
<1>7. Fresh(b) \in 0 .. N - 1
  BY MboxAssumption DEF TypeOK, Fresh
<1>8. /\ array' \in [Boxes -> [0 .. Word - 1 -> 0 .. N - 1]]
      /\ sent' \in [Boxes -> 0 .. N - 1] /\ got' \in [Boxes -> 0 .. N - 1]
  <2> DEFINE x == Fresh(b)
             i == PutPlace(cib[b])
  <2>1. x \in 0 .. N - 1
    BY <1>7
  <2>2. /\ array' = [array EXCEPT ![b][i] = x] /\ sent' = [sent EXCEPT ![b] = x]
        /\ got' = got
    BY DEF Store, Sent
  <2> HIDE DEF x, i
  <2>3. array' \in [Boxes -> [0 .. Word - 1 -> 0 .. N - 1]]
    BY <2>1, <2>2 DEF TypeOK
  <2> QED BY <2>1, <2>2, <2>3 DEF TypeOK
<1> QED BY <1>1, <1>2, <1>3, <1>5, <1>6, <1>8 DEF d

(* _mbox_get() of a queued message: one message less.                       *)
LEMMA FetchData ==
  ASSUME TypeOK, Counts, NEW b \in Boxes, Fetch(b)
  PROVE  /\ cib' \in [Boxes -> CibType] /\ Counts'
         /\ got' \in [Boxes -> 0 .. N - 1]
         /\ CibAvail(cib[b]) \in Nat \ {0} /\ CibAvail(cib[b]) <= Size[b]
         /\ cib' = [cib EXCEPT ![b] = CibGet(cib[b])]
         /\ CibAvail(cib'[b]) = CibAvail(cib[b]) - 1
         /\ \A c \in Boxes \ {b} : cib'[c] = cib[c]
<1>1. /\ cib[b] \in CibType /\ InUse(cib[b], Size[b]) /\ CibAvail(cib[b]) # 0
      /\ cib' = [cib EXCEPT ![b] = CibGet(cib[b])]
  BY DEF TypeOK, Counts, Fetch
<1>2. CibAvail(cib[b]) \in Nat \ {0} /\ CibAvail(cib[b]) <= Size[b]
  BY <1>1, AvailType, SizeType DEF InUse
<1>3. InUse(CibGet(cib[b]), Size[b]) /\ CibAvail(CibGet(cib[b])) = CibAvail(cib[b]) - 1
  BY <1>1, <1>2, SizeType, CountsKept
<1>4. CibGet(cib[b]) \in CibType
  BY <1>3 DEF InUse
<1> DEFINE d == CibGet(cib[b])
<1> HIDE DEF d
<1>5. /\ cib' \in [Boxes -> CibType] /\ cib'[b] = d
      /\ \A c \in Boxes \ {b} : cib'[c] = cib[c]
  BY <1>1, <1>4 DEF TypeOK, d
<1>6. Counts'
  BY <1>3, <1>5 DEF Counts, d
<1>7. got' \in [Boxes -> 0 .. N - 1]
  <2> DEFINE x == array[b][GetPlace(cib[b])]
  <2>1. Size[b] # 0 /\ GetPlace(cib[b]) \in 0 .. Word - 1
    <3>1. Size[b] \in 1 .. Half /\ Half % Size[b] = 0
      BY <1>2, SizeType
    <3>2. GetPlace(cib[b]) = PlaceAt(cib[b], 0) /\ PlaceAt(cib[b], 0) \in 0 .. Size[b] - 1
      BY <1>1, <3>1, PlacesDiffer
    <3> QED BY <3>1, <3>2, SizeType DEF Word
  <2>2. x \in 0 .. N - 1
    BY <2>1 DEF TypeOK
  <2>3. got' = [got EXCEPT ![b] = x]
    BY DEF Fetch
  <2> HIDE DEF x
  <2> QED BY <2>2, <2>3 DEF TypeOK
<1> QED BY <1>1, <1>2, <1>3, <1>5, <1>6, <1>7 DEF d
-----------------------------------------------------------------------------
(* The lists and the scheduler                                              *)

(* The types of the kernel state that the steps below use.                  *)
LEMMA KernelTypes ==
  ASSUME KernelInv(k)
  PROVE  /\ k.status \in [Threads -> Status] /\ k.prio \in [Threads -> Prios]
         /\ k.active \in Threads \cup {NoThread}
         /\ "MBOX_BLOCKED" \in Status \ {"RUNNING"} /\ "PENDING" \in Status \ {"RUNNING"}
         /\ OnRunqueue = {"RUNNING", "PENDING"}
BY DEF KernelInv, KernelType, Status, Blocked, OnRunqueue

(* Every list has its type.                                                 *)
LEMMA ListType ==
  ASSUME TypeOK, NEW e \in Ends
  PROVE  List(e) \in Seq(Threads)
BY DEF TypeOK, Ends, List

(* A thread that is ready waits in no list.                                 *)
LEMMA ReadyWaitsNowhere ==
  ASSUME Lists, NEW t \in Threads, IsActive(k, t)
  PROVE  /\ \A e \in Ends : t \notin Elems(List(e))
         /\ \A b \in Boxes : t \notin Elems(readers[b]) /\ t \notin Elems(writers[b])
<1>1. k.status[t] # "MBOX_BLOCKED"
  BY DEF IsActive, OnRunqueue
<1>2. \A e \in Ends : t \notin Elems(List(e))
  BY <1>1 DEF Lists
<1>3. ASSUME NEW b \in Boxes
      PROVE  t \notin Elems(readers[b]) /\ t \notin Elems(writers[b])
  <2>1. <<"readers", b>> \in Ends /\ <<"writers", b>> \in Ends
    BY DEF Ends
  <2>2. List(<<"readers", b>>) = readers[b] /\ List(<<"writers", b>>) = writers[b]
    BY DEF List
  <2> QED BY <1>2, <2>1, <2>2
<1> QED BY <1>2, <1>3

(* The same threads are blocked on a mailbox before and after a step.       *)
SameBlocked ==
  \A t \in Threads : k'.status[t] = "MBOX_BLOCKED" <=> k.status[t] = "MBOX_BLOCKED"

(* The lists of waiting threads change only with their statuses.            *)
LEMMA RestLists ==
  ASSUME Lists, SameBlocked, UNCHANGED <<readers, writers>>
  PROVE  Lists'
<1>1. \A e \in Ends : List(e)' = List(e)
  BY DEF List
<1> QED BY <1>1 DEF Lists, SameBlocked

(* _wake_waiter(): the first thread of a list leaves it and is ready.       *)
LEMMA WakeLists ==
  ASSUME TypeOK, Lists, NEW e \in Ends, List(e) # <<>>, List(e)' = Tail(List(e)),
         \A f \in Ends \ {e} : List(f)' = List(f),
         \A t \in Threads :
           k'.status[t] = IF t = Head(List(e)) THEN "PENDING" ELSE k.status[t]
  PROVE  Lists' /\ Head(List(e)) \in Threads /\ Head(List(e)) \in Elems(List(e))
<1> DEFINE q == List(e)
           w == Head(q)
           r == Tail(q)
<1>1. q \in Seq(Threads) /\ Once(q) /\ q # <<>>
  BY ListType DEF Lists
<1>2. /\ w \in Threads /\ w \in Elems(q) /\ Once(r) /\ Elems(r) = Elems(q) \ {w}
  BY <1>1, ElemsTail
<1>3. \A f \in Ends : /\ Once(List(f)')
                      /\ Elems(List(f)') = Elems(List(f)) \ {w}
  <2> TAKE f \in Ends
  <2>1. CASE f = e
    BY <1>2, <2>1
  <2>2. CASE f # e
    <3>1. w \notin Elems(List(f))
      BY <1>2, <2>2 DEF Lists
    <3> HIDE DEF w
    <3> QED BY <2>2, <3>1 DEF Lists
  <2> QED BY <2>1, <2>2
<1>4. \A t \in Threads : k'.status[t] = IF t = w THEN "PENDING" ELSE k.status[t]
  OBVIOUS
<1> HIDE DEF q, w, r
<1>5. Lists'
  <2>1. \A f, g \in Ends : f # g => Elems(List(f)') \cap Elems(List(g)') = {}
    BY <1>3 DEF Lists
  <2>2. ASSUME NEW t \in Threads
        PROVE  k'.status[t] = "MBOX_BLOCKED" <=> \E f \in Ends : t \in Elems(List(f)')
    BY <1>3, <1>4 DEF Lists
  <2> QED BY <1>3, <2>1, <2>2 DEF Lists
<1> QED BY <1>2, <1>5 DEF q, w

(* _wait(): a ready thread joins one list and is blocked.                   *)
LEMMA WaitLists ==
  ASSUME TypeOK, Lists, NEW e \in Ends, NEW t \in Threads, IsActive(k, t), NEW s,
         List(e)' = AddToList(s, List(e), t),
         \A f \in Ends \ {e} : List(f)' = List(f),
         \A u \in Threads :
           k'.status[u] = IF u = t THEN "MBOX_BLOCKED" ELSE k.status[u]
  PROVE  /\ Lists' /\ List(e)' \in Seq(Threads)
         /\ Elems(List(e)') = Elems(List(e)) \cup {t}
<1> DEFINE q == List(e)
           r == AddToList(s, q, t)
<1>1. /\ q \in Seq(Threads) /\ Once(q) /\ t \notin Elems(q)
      /\ \A f \in Ends : t \notin Elems(List(f))
  BY ListType, ReadyWaitsNowhere DEF Lists
<1> HIDE DEF q
<1>2. r \in Seq(Threads)
  BY <1>1, ElemsAdd
<1>3. Elems(r) = Elems(q) \cup {t}
  BY <1>1, ElemsAdd
<1>4. Once(r)
  BY <1>1, ElemsAdd
<1>5. List(e)' = r
  BY DEF q
<1> HIDE DEF r
<1>6. \A f \in Ends : /\ Once(List(f)')
                      /\ Elems(List(f)') = IF f = e THEN Elems(List(f)) \cup {t}
                                                    ELSE Elems(List(f))
  BY <1>3, <1>4, <1>5 DEF Lists, q
<1>7. Lists'
  <2>1. \A f, g \in Ends : f # g => Elems(List(f)') \cap Elems(List(g)') = {}
    BY <1>1, <1>6 DEF Lists
  <2>2. ASSUME NEW u \in Threads
        PROVE  k'.status[u] = "MBOX_BLOCKED" <=> \E f \in Ends : u \in Elems(List(f)')
    BY <1>1, <1>6 DEF Lists
  <2> QED BY <1>6, <2>1, <2>2 DEF Lists
<1> QED BY <1>2, <1>3, <1>5, <1>7 DEF q

(* _wake_waiter() and the sched_switch() of a handler: only the status of   *)
(* the woken thread changes, and the active thread is the same.             *)
LEMMA WokenEffect ==
  ASSUME KernelInv(k), NEW w \in Threads,
         IsrWakes(w) \/ (\E t \in Threads : ThreadWakes(t, w))
  PROVE  /\ KernelInv(k')
         /\ \A t \in Threads : k'.status[t] = IF t = w THEN "PENDING" ELSE k.status[t]
         /\ \A t \in Threads : Executes(k', t) => Executes(k, t)
         /\ \A t \in Threads : IsActive(k, t) => IsActive(k', t)
<1> DEFINE n == Woken(w)
<1>1. /\ KernelInv(n) /\ n.status = [k.status EXCEPT ![w] = "PENDING"]
      /\ n.active = k.active /\ n.idle = k.idle /\ n.pendsv = k.pendsv
  BY SetStatusInv, SetStatusEffect, KernelTypes DEF Woken
<1> HIDE DEF n
<1>2. k' = n \/ \E test \in BOOLEAN : k' = IsrSwitch(n, test)
  BY DEF IsrWakes, ThreadWakes, SwitchTests, n
<1>3. /\ KernelInv(k') /\ k'.status = n.status /\ k'.active = n.active
      /\ k'.idle = n.idle
      /\ n.pendsv => k'.pendsv
  BY <1>1, <1>2, SwitchInv, SwitchEffect
<1>4. \A t \in Threads : k'.status[t] = IF t = w THEN "PENDING" ELSE k.status[t]
  BY <1>1, <1>3, KernelTypes
<1> QED BY <1>1, <1>3, <1>4 DEF Executes, IsActive, OnRunqueue

(* The critical section of _wait().                                         *)
LEMMA BlockingEffect ==
  ASSUME KernelInv(k), NEW t \in Threads, k' = Blocking(t)
  PROVE  /\ KernelInv(k')
         /\ \A u \in Threads :
              k'.status[u] = IF u = t THEN "MBOX_BLOCKED" ELSE k.status[u]
         /\ \A u \in Threads : Executes(k', u) <=> Executes(k, u)
         /\ \A u \in Threads \ {t} : IsActive(k, u) => IsActive(k', u)
<1>1. /\ KernelInv(k') /\ k'.status = [k.status EXCEPT ![t] = "MBOX_BLOCKED"]
      /\ k'.active = k.active /\ k'.idle = k.idle /\ k'.pendsv = k.pendsv
  BY SetStatusInv, SetStatusEffect, KernelTypes DEF Blocking
<1>2. \A u \in Threads : k'.status[u] = IF u = t THEN "MBOX_BLOCKED" ELSE k.status[u]
  BY <1>1, KernelTypes
<1> QED BY <1>1, <1>2 DEF Executes, IsActive

(* The writers that were woken and have not tried again are finitely many.  *)
LEMMA RetryingAre ==
  ASSUME NEW b \in Boxes
  PROVE  /\ Retrying(b) = {t \in Threads : PutsTo(t, b) /\ t \notin Elems(writers[b])}
         /\ IsFiniteSet(Retrying(b)) /\ Cardinality(Retrying(b)) \in Nat
<1>1. Retrying(b) = {t \in Threads : PutsTo(t, b) /\ t \notin Elems(writers[b])}
  BY DEF Retrying, PutsTo
<1>2. IsFiniteSet(Threads)
  BY MboxAssumption
<1>3. IsFiniteSet(Retrying(b))
  BY <1>1, <1>2, FS_Subset
<1> QED BY <1>1, <1>3, FS_CardinalityType

-----------------------------------------------------------------------------
(* The steps                                                                *)

(* The same calls of mbox_put() are in the loop before and after a step.    *)
SamePuts == \A t \in Threads, b \in Boxes : PutsTo(t, b)' <=> PutsTo(t, b)

(* A step of the scheduler alone.                                           *)
LEMMA FrameKeeps ==
  ASSUME MboxInv, KernelInv(k'), SameBlocked, SamePuts, AtWork',
         pc' \in [Threads -> Places],
         UNCHANGED <<cib, array, readers, writers, sent, got>>
  PROVE  MboxInv'
<1>1. TypeOK'
  BY DEF MboxInv, TypeOK, KernelInv
<1>2. Lists'
  BY RestLists DEF MboxInv
<1>3. WritersWait' /\ OneSided' /\ Counts'
  BY DEF MboxInv, WritersWait, OneSided, Counts, SamePuts
<1>4. WritersNotStranded'
  <2>1. \A b \in Boxes :
          Retrying(b)' = {t \in Threads : PutsTo(t, b)' /\ t \notin Elems(writers'[b])}
    BY DEF Retrying, PutsTo
  <2>2. \A b \in Boxes : Retrying(b)' = Retrying(b)
    BY <2>1, RetryingAre DEF SamePuts
  <2> QED BY <2>2 DEF MboxInv, WritersNotStranded
<1> QED BY <1>1, <1>2, <1>3, <1>4 DEF MboxInv

(* sched_run(), and the end of its idle loop.                               *)
LEMMA ProcessorKeeps ==
  ASSUME MboxInv, PendSV \/ EndIdle
  PROVE  MboxInv'
<1>1. KernelInv(k) /\ UNCHANGED <<cib, array, readers, writers, pc, sent, got>>
  BY DEF MboxInv, PendSV, EndIdle
<1>2. /\ KernelInv(k')
      /\ \A t \in Threads : k'.status[t] \in OnRunqueue <=> k.status[t] \in OnRunqueue
      /\ \A t \in Threads : k'.status[t] \notin OnRunqueue => k'.status[t] = k.status[t]
      /\ k'.idle \/ (k'.active \in Threads /\ k.status[k'.active] \in OnRunqueue)
  <2>1. CASE PendSV
    BY <1>1, <2>1, SchedRunInv, SchedRunEffect DEF PendSV
  <2>2. CASE EndIdle
    BY <1>1, <2>2, IdleReturnInv, DispatchEffect DEF EndIdle, IdleReturn
  <2> QED BY <2>1, <2>2
<1>3. SameBlocked
  BY <1>2 DEF SameBlocked, OnRunqueue
<1>4. AtWork'
  BY <1>2 DEF AtWork, Executes, IsActive
<1>5. SamePuts /\ pc' \in [Threads -> Places]
  BY <1>1 DEF SamePuts, PutsTo, MboxInv, TypeOK
<1> QED BY <1>1, <1>2, <1>3, <1>4, <1>5, FrameKeeps

(* A thread moves to another place of its calls, which is not in the loop   *)
(* of _mbox_put() unless the one it leaves is there for the same mailbox.   *)
LEMMA GoEffect ==
  ASSUME TypeOK, NEW t \in Threads, NEW p \in Places, Go(t, p)
  PROVE  /\ pc' \in [Threads -> Places] /\ pc'[t] = p
         /\ \A u \in Threads \ {t} : pc'[u] = pc[u]
         /\ \A u \in Threads \ {t}, b \in Boxes : PutsTo(u, b)' <=> PutsTo(u, b)
BY DEF TypeOK, Go, PutsTo

(* thread_yield() of _wait().                                               *)
LEMMA DoYieldKeeps ==
  ASSUME MboxInv, NEW t \in Threads, DoYield(t)
  PROVE  MboxInv'
<1> DEFINE p == IF pc[t].next = "run" THEN Run ELSE [at |-> "retry", box |-> pc[t].box]
<1>1. /\ KernelInv(k) /\ TypeOK /\ Executes(k, t) /\ pc[t].at = "yield"
      /\ k' = YieldHigher(YieldRotate(k)) /\ Go(t, p)
      /\ UNCHANGED <<cib, array, readers, writers, sent, got>>
  BY DEF MboxInv, DoYield, At
<1>2. pc[t] \in [at : {"yield"}, next : {"run", "retry"}, box : Boxes]
  BY <1>1 DEF TypeOK, Places, Run
<1>3. p \in Places /\ p.at # "yield" /\ \A b \in Boxes :
        p.at = "retry" /\ p.box = b <=> pc[t].next = "retry" /\ pc[t].box = b
  BY <1>2 DEF Places, Run
<1> HIDE DEF p
<1>4. pc' \in [Threads -> Places] /\ SamePuts
  <2>1. \A b \in Boxes : PutsTo(t, b)' <=> PutsTo(t, b)
    BY <1>1, <1>3, GoEffect DEF PutsTo
  <2> QED BY <1>1, <1>3, <2>1, GoEffect DEF SamePuts
<1>5. KernelInv(YieldRotate(k)) /\ KernelInv(k')
  BY <1>1, YieldRotateInv, YieldHigherInv DEF Executes
<1>6. k'.status = k.status /\ k'.pendsv
  BY <1>1, <1>5, YieldEffect
<1>7. SameBlocked /\ AtWork'
  BY <1>6 DEF SameBlocked, AtWork, Executes
<1> QED BY <1>1, <1>4, <1>5, <1>7, FrameKeeps

(* sched_switch() after the irq_restore() of _wake_waiter().                *)
LEMMA DoSwitchKeeps ==
  ASSUME MboxInv, NEW t \in Threads, DoSwitch(t)
  PROVE  MboxInv'
<1>1. /\ KernelInv(k) /\ TypeOK /\ AtWork /\ Executes(k, t) /\ pc[t].at = "switch"
      /\ Go(t, Run) /\ UNCHANGED <<cib, array, readers, writers, sent, got>>
  BY DEF MboxInv, DoSwitch, At
<1>2. Run \in Places /\ Run.at = "run"
  BY DEF Places, Run
<1>3. pc' \in [Threads -> Places] /\ SamePuts
  <2>1. \A b \in Boxes : PutsTo(t, b)' <=> PutsTo(t, b)
    BY <1>1, <1>2, GoEffect DEF PutsTo
  <2> QED BY <1>1, <1>2, <2>1, GoEffect DEF SamePuts
<1>4. \E test \in BOOLEAN : k' = ThreadSwitch(k, test)
  BY DEF DoSwitch, SwitchTests
<1>5. /\ KernelInv(k') /\ k'.status = k.status /\ k'.active = k.active
      /\ k'.idle = k.idle
      /\ k.pendsv => k'.pendsv
  BY <1>1, <1>4, SwitchInv, SwitchEffect
<1>6. SameBlocked
  BY <1>5 DEF SameBlocked
<1>7. AtWork'
  <2>1. \A u \in Threads : Executes(k', u) => Executes(k, u)
    BY <1>5 DEF Executes
  <2>2. \A u \in Threads : pc[u].at = "yield" => pc'[u].at = "yield"
    BY <1>1, <1>2, GoEffect
  <2> QED BY <1>1, <1>5, <2>1, <2>2 DEF AtWork, IsActive
<1> QED BY <1>1, <1>3, <1>5, <1>6, <1>7, FrameKeeps

(* thread_wakeup() of a thread that has not started.                        *)
LEMMA IsrStartKeeps ==
  ASSUME MboxInv, NEW t \in Threads, IsrStart(t)
  PROVE  MboxInv'
<1>1. /\ KernelInv(k) /\ TypeOK /\ AtWork /\ k.status[t] = "SLEEPING" /\ IsrWakes(t)
      /\ UNCHANGED <<cib, array, readers, writers, pc, sent, got>>
  BY DEF MboxInv, IsrStart, IsrWakes
<1>2. SameBlocked /\ KernelInv(k')
  BY <1>1, WokenEffect DEF SameBlocked
<1>3. AtWork'
  BY <1>1, WokenEffect DEF AtWork
<1>4. SamePuts /\ pc' \in [Threads -> Places]
  BY <1>1 DEF SamePuts, PutsTo, TypeOK
<1> QED BY <1>1, <1>2, <1>3, <1>4, FrameKeeps

(* One list of one mailbox changes.                                         *)
LEMMA OneList ==
  ASSUME TypeOK, NEW b \in Boxes, NEW r
  PROVE  /\ <<"readers", b>> \in Ends /\ <<"writers", b>> \in Ends
         /\ List(<<"readers", b>>) = readers[b] /\ List(<<"writers", b>>) = writers[b]
         /\ readers' = [readers EXCEPT ![b] = r] /\ writers' = writers =>
              /\ readers'[b] = r /\ List(<<"readers", b>>)' = r
              /\ \A f \in Ends \ {<<"readers", b>>} : List(f)' = List(f)
              /\ \A c \in Boxes \ {b} : readers'[c] = readers[c]
         /\ writers' = [writers EXCEPT ![b] = r] /\ readers' = readers =>
              /\ writers'[b] = r /\ List(<<"writers", b>>)' = r
              /\ \A f \in Ends \ {<<"writers", b>>} : List(f)' = List(f)
              /\ \A c \in Boxes \ {b} : writers'[c] = writers[c]
BY DEF TypeOK, Ends, List

(* The caller of _wake_waiter() was not waiting.                            *)
LEMMA WakerEffect ==
  ASSUME MboxInv, NEW w \in Threads,
         IsrWakes(w) \/ (\E t \in Threads : At(t, "run") /\ ThreadWakes(t, w))
  PROVE  /\ KernelInv(k')
         /\ \A t \in Threads : k'.status[t] = IF t = w THEN "PENDING" ELSE k.status[t]
         /\ pc' \in [Threads -> Places] /\ SamePuts /\ AtWork'
<1>1. KernelInv(k) /\ TypeOK /\ AtWork
  BY DEF MboxInv
<1>2. /\ KernelInv(k')
      /\ \A t \in Threads : k'.status[t] = IF t = w THEN "PENDING" ELSE k.status[t]
      /\ \A t \in Threads : Executes(k', t) => Executes(k, t)
      /\ \A t \in Threads : IsActive(k, t) => IsActive(k', t)
  BY <1>1, WokenEffect
<1>3. /\ pc' \in [Threads -> Places] /\ SamePuts
      /\ \A u \in Threads : pc[u].at = "yield" => pc'[u].at = "yield"
  <2>1. CASE IsrWakes(w)
    BY <1>1, <2>1 DEF IsrWakes, TypeOK, SamePuts, PutsTo
  <2>2. ASSUME NEW t \in Threads, At(t, "run"), ThreadWakes(t, w)
        PROVE  /\ pc' \in [Threads -> Places] /\ SamePuts
               /\ \A u \in Threads : pc[u].at = "yield" => pc'[u].at = "yield"
    <3> DEFINE p == [at |-> "switch", prio |-> k.prio[w]]
    <3>1. p \in Places /\ p.at = "switch"
      BY <1>1, KernelTypes DEF Places
    <3>2. pc[t].at = "run" /\ Go(t, p)
      BY <2>2 DEF At, ThreadWakes
    <3> HIDE DEF p
    <3>3. \A b \in Boxes : PutsTo(t, b)' <=> PutsTo(t, b)
      BY <1>1, <3>1, <3>2, GoEffect DEF PutsTo
    <3> QED BY <1>1, <3>1, <3>2, <3>3, GoEffect DEF SamePuts
  <2> QED BY <2>1, <2>2
<1>4. AtWork'
  BY <1>1, <1>2, <1>3 DEF AtWork
<1> QED BY <1>2, <1>3, <1>4

(* A message goes to the first reader, of a thread's or a handler's call.   *)
LEMMA PutDirectKeeps ==
  ASSUME MboxInv, NEW b \in Boxes, PutDirect(b),
         \/ IsrWakes(Head(readers[b]))
         \/ \E t \in Threads : At(t, "run") /\ ThreadWakes(t, Head(readers[b]))
  PROVE  MboxInv'
<1> DEFINE e == <<"readers", b>>
           w == Head(readers[b])
<1>1. /\ TypeOK /\ Lists /\ readers[b] # <<>> /\ readers[b] \in Seq(Threads)
      /\ readers' = [readers EXCEPT ![b] = Tail(readers[b])]
      /\ UNCHANGED <<cib, array, writers>>
  BY DEF MboxInv, PutDirect, TypeOK
<1>2. w \in Threads
  BY <1>1
<1>3. /\ e \in Ends /\ List(e) = readers[b] /\ List(e)' = Tail(readers[b])
      /\ \A f \in Ends \ {e} : List(f)' = List(f)
      /\ \A c \in Boxes \ {b} : readers'[c] = readers[c]
  BY <1>1, OneList
<1>4. /\ KernelInv(k')
      /\ \A t \in Threads : k'.status[t] = IF t = w THEN "PENDING" ELSE k.status[t]
      /\ pc' \in [Threads -> Places] /\ SamePuts /\ AtWork'
  BY <1>2, WakerEffect
<1> HIDE DEF e
<1>5. Lists'
  BY <1>1, <1>3, <1>4, WakeLists DEF w
<1>6. TypeOK'
  <2>1. Fresh(b) \in 0 .. N - 1
    BY <1>1, MboxAssumption DEF TypeOK, Fresh
  <2>2. Tail(readers[b]) \in Seq(Threads)
    BY <1>1
  <2> HIDE DEF w
  <2>3. readers' \in [Boxes -> Seq(Threads)]
    BY <1>1, <2>2 DEF TypeOK
  <2>4. sent' \in [Boxes -> 0 .. N - 1] /\ got' \in [Boxes -> 0 .. N - 1]
    BY <1>1, <2>1 DEF TypeOK, PutDirect, Sent
  <2> QED BY <1>1, <1>4, <2>3, <2>4 DEF TypeOK, KernelInv
<1>7. WritersWait' /\ OneSided' /\ Counts'
  <2>1. \A c \in Boxes : readers'[c] # <<>> => readers[c] # <<>>
    BY <1>1, <1>3
  <2> QED BY <1>1, <1>4, <2>1 DEF MboxInv, WritersWait, OneSided, Counts, SamePuts
<1>8. WritersNotStranded'
  <2>1. \A c \in Boxes :
          Retrying(c)' = {t \in Threads : PutsTo(t, c)' /\ t \notin Elems(writers'[c])}
    BY DEF Retrying, PutsTo
  <2>2. \A c \in Boxes : Retrying(c)' = Retrying(c)
    BY <1>1, <1>4, <2>1, RetryingAre DEF SamePuts
  <2> QED BY <1>1, <2>2 DEF MboxInv, WritersNotStranded
<1> QED BY <1>4, <1>5, <1>6, <1>7, <1>8 DEF MboxInv

(* A message goes into the buffer, at a first try or after _wait().         *)
LEMMA StoreKeeps ==
  ASSUME MboxInv, NEW b \in Boxes, Store(b), UNCHANGED k,
         \/ UNCHANGED pc
         \/ \E t \in Threads : At(t, "retry") /\ b = pc[t].box /\ Go(t, Run)
  PROVE  MboxInv'
<1>1. /\ TypeOK /\ KernelInv(k) /\ Lists /\ AtWork /\ Counts
      /\ UNCHANGED <<k, readers, writers>>
  BY DEF MboxInv, Store
<1>2. /\ cib' \in [Boxes -> CibType] /\ Counts'
      /\ array' \in [Boxes -> [0 .. Word - 1 -> 0 .. N - 1]]
      /\ sent' \in [Boxes -> 0 .. N - 1] /\ got' \in [Boxes -> 0 .. N - 1]
      /\ CibAvail(cib[b]) \in Nat /\ CibAvail(cib'[b]) = CibAvail(cib[b]) + 1
      /\ \A c \in Boxes \ {b} : cib'[c] = cib[c]
  BY <1>1, StoreData
<1>3. Run \in Places /\ Run.at = "run"
  BY DEF Run, Places
<1>4. /\ pc' \in [Threads -> Places]
      /\ \A t \in Threads, c \in Boxes : PutsTo(t, c)' => PutsTo(t, c)
      /\ \A t \in Threads : t \in Elems(writers[b]) => (PutsTo(t, b)' <=> PutsTo(t, b))
      /\ \A t \in Threads : pc[t].at = "yield" => pc'[t].at = "yield"
      /\ \A t \in Threads, c \in Boxes \ {b} : PutsTo(t, c)' <=> PutsTo(t, c)
      /\ \/ \A t \in Threads : PutsTo(t, b)' <=> PutsTo(t, b)
         \/ \E t \in Retrying(b) : \A u \in Threads :
              PutsTo(u, b)' <=> PutsTo(u, b) /\ u # t
  <2>1. CASE UNCHANGED pc
    BY <1>1, <2>1 DEF TypeOK, PutsTo
  <2>2. ASSUME NEW t \in Threads, At(t, "retry"), b = pc[t].box, Go(t, Run)
        PROVE  <1>4!:
    <3>1. /\ pc' \in [Threads -> Places] /\ pc'[t].at = "run"
          /\ \A u \in Threads \ {t} : pc'[u] = pc[u]
          /\ \A u \in Threads \ {t}, c \in Boxes : PutsTo(u, c)' <=> PutsTo(u, c)
      BY <1>1, <1>3, <2>2, GoEffect
    <3>2. IsActive(k, t) /\ pc[t].at = "retry"
      BY <1>1, <2>2 DEF At, AtWork
    <3>3. t \notin Elems(writers[b])
      BY <1>1, <3>2, ReadyWaitsNowhere
    <3>4. \A c \in Boxes : ~PutsTo(t, c)' /\ (PutsTo(t, c) <=> c = b)
      BY <2>2, <3>1, <3>2 DEF PutsTo
    <3>5. t \in Retrying(b)
      BY <3>3, <3>4, RetryingAre
    <3> QED BY <3>1, <3>2, <3>3, <3>4, <3>5
  <2> QED BY <2>1, <2>2
<1>5. TypeOK'
  BY <1>1, <1>2, <1>4 DEF TypeOK
<1>6. Lists' /\ AtWork'
  <2>1. SameBlocked
    BY <1>1 DEF SameBlocked
  <2>2. AtWork'
    BY <1>1, <1>4 DEF AtWork
  <2> QED BY <1>1, <2>1, <2>2, RestLists
<1>7. WritersWait' /\ OneSided'
  BY <1>1, <1>4 DEF MboxInv, WritersWait, OneSided
<1>8. WritersNotStranded'
  <2>1. \A c \in Boxes :
          Retrying(c)' = {t \in Threads : PutsTo(t, c)' /\ t \notin Elems(writers'[c])}
    BY DEF Retrying, PutsTo
  <2>2. \A c \in Boxes \ {b} : Retrying(c)' = Retrying(c)
    <3> TAKE c \in Boxes \ {b}
    <3>1. writers'[c] = writers[c] /\ \A t \in Threads : PutsTo(t, c)' <=> PutsTo(t, c)
      BY <1>1, <1>4
    <3>2. Retrying(c) = {t \in Threads : PutsTo(t, c) /\ t \notin Elems(writers[c])}
      BY RetryingAre
    <3> QED BY <2>1, <3>1, <3>2
  <2>3. IsFiniteSet(Retrying(b)) /\ Cardinality(Retrying(b)) \in Nat /\ Size[b] \in Nat
    BY RetryingAre, SizeType
  <2>4. /\ Cardinality(Retrying(b)') \in Nat
        /\ Cardinality(Retrying(b)') >= Cardinality(Retrying(b)) - 1
    <3> DEFINE R == Retrying(b)
    <3>1. /\ R = {u \in Threads : PutsTo(u, b) /\ u \notin Elems(writers[b])}
          /\ R' = {u \in Threads : PutsTo(u, b)' /\ u \notin Elems(writers[b])}
      BY <1>1, <2>1, RetryingAre
    <3>2. IsFiniteSet(R) /\ Cardinality(R) \in Nat
      BY <2>3
    <3>3. CASE \A t \in Threads : PutsTo(t, b)' <=> PutsTo(t, b)
      <4>1. R' = R
        BY <3>1, <3>3
      <4> QED BY <3>2, <4>1
    <3>4. ASSUME NEW t \in Retrying(b),
                 \A u \in Threads : PutsTo(u, b)' <=> PutsTo(u, b) /\ u # t
          PROVE  <2>4!:
      <4>1. R' = R \ {t}
        BY <3>1, <3>4
      <4>2. Cardinality(R \ {t}) = Cardinality(R) - 1 /\ IsFiniteSet(R \ {t})
        BY <3>2, <3>4, FS_RemoveElement
      <4>3. Cardinality(R \ {t}) \in Nat
        BY <4>2, FS_CardinalityType
      <4> HIDE DEF R
      <4>4. Cardinality(R') \in Nat /\ Cardinality(R') >= Cardinality(R) - 1
        BY <3>2, <4>1, <4>2, <4>3
      <4> QED BY <4>4 DEF R
    <3> QED BY <1>4, <3>3, <3>4
  <2>7. ASSUME NEW c \in Boxes, writers'[c] # <<>>
        PROVE  Size[c] - CibAvail(cib'[c]) <= Cardinality(Retrying(c)')
    <3>1. Size[c] - CibAvail(cib[c]) <= Cardinality(Retrying(c))
      BY <1>1, <2>7 DEF MboxInv, WritersNotStranded
    <3>2. CASE c = b
      BY <1>2, <2>3, <2>4, <3>1, <3>2
    <3>3. CASE c # b
      BY <1>2, <2>2, <3>1, <3>3
    <3> QED BY <3>2, <3>3
  <2> QED BY <2>7 DEF WritersNotStranded
<1> QED BY <1>1, <1>2, <1>5, <1>6, <1>7, <1>8 DEF MboxInv

(* A message is taken from the buffer, and nobody waits for its place.      *)
LEMMA FetchKeeps ==
  ASSUME MboxInv, NEW b \in Boxes, Fetch(b), writers[b] = <<>>, UNCHANGED <<k, pc>>
  PROVE  MboxInv'
<1>1. /\ TypeOK /\ Counts /\ Lists /\ AtWork
      /\ array' = array /\ readers' = readers /\ sent' = sent
  BY DEF MboxInv, Fetch
<1>2. writers' = writers
  BY <1>1 DEF Fetch, TypeOK
<1>3. /\ cib' \in [Boxes -> CibType] /\ Counts' /\ got' \in [Boxes -> 0 .. N - 1]
      /\ \A c \in Boxes \ {b} : cib'[c] = cib[c]
  BY <1>1, FetchData
<1>4. TypeOK'
  BY <1>1, <1>2, <1>3 DEF TypeOK
<1>5. Lists' /\ AtWork'
  <2>1. SameBlocked
    BY DEF SameBlocked
  <2>2. AtWork'
    BY <1>1 DEF AtWork
  <2> QED BY <1>1, <1>2, <2>1, <2>2, RestLists
<1>6. WritersWait' /\ OneSided'
  BY <1>1, <1>2 DEF MboxInv, WritersWait, OneSided, PutsTo
<1>7. WritersNotStranded'
  <2>1. \A c \in Boxes : Retrying(c)' = Retrying(c)
    BY <1>2 DEF Retrying
  <2>2. \A c \in Boxes : writers'[c] # <<>> => c # b /\ writers[c] # <<>>
    BY <1>2
  <2> QED BY <1>3, <2>1, <2>2 DEF MboxInv, WritersNotStranded
<1> QED BY <1>3, <1>4, <1>5, <1>6, <1>7 DEF MboxInv

(* A message is taken, and the first writer is woken up for its place.      *)
LEMMA FetchWakesKeeps ==
  ASSUME MboxInv, NEW b \in Boxes, Fetch(b), writers[b] # <<>>,
         \/ IsrWakes(Head(writers[b]))
         \/ \E t \in Threads : At(t, "run") /\ ThreadWakes(t, Head(writers[b]))
  PROVE  MboxInv'
<1> DEFINE e == <<"writers", b>>
           w == Head(writers[b])
           r == Tail(writers[b])
<1>1. /\ TypeOK /\ Counts /\ Lists /\ writers[b] # <<>> /\ writers[b] \in Seq(Threads)
      /\ writers' = [writers EXCEPT ![b] = r]
      /\ UNCHANGED <<array, readers, sent>>
  BY DEF MboxInv, Fetch, TypeOK
<1>2. w \in Threads /\ r \in Seq(Threads)
  BY <1>1
<1>3. /\ e \in Ends /\ List(e) = writers[b] /\ List(e)' = r
      /\ \A f \in Ends \ {e} : List(f)' = List(f)
      /\ writers'[b] = r /\ \A c \in Boxes \ {b} : writers'[c] = writers[c]
  BY <1>1, OneList
<1>4. /\ KernelInv(k')
      /\ \A t \in Threads : k'.status[t] = IF t = w THEN "PENDING" ELSE k.status[t]
      /\ pc' \in [Threads -> Places] /\ SamePuts /\ AtWork'
  BY <1>2, WakerEffect
<1>5. /\ cib' \in [Boxes -> CibType] /\ Counts' /\ got' \in [Boxes -> 0 .. N - 1]
      /\ CibAvail(cib[b]) \in Nat \ {0} /\ CibAvail(cib'[b]) = CibAvail(cib[b]) - 1
      /\ \A c \in Boxes \ {b} : cib'[c] = cib[c]
  BY <1>1, FetchData
<1>6. Elems(r) = Elems(writers[b]) \ {w} /\ w \in Elems(writers[b])
  <2>1. Once(writers[b])
    BY <1>1, <1>3 DEF Lists
  <2> QED BY <1>1, <2>1, ElemsTail
<1> HIDE DEF e
<1>7. Lists'
  BY <1>1, <1>3, <1>4, WakeLists DEF w, r
<1> HIDE DEF w, r
<1>8. TypeOK'
  <2>1. writers' \in [Boxes -> Seq(Threads)]
    BY <1>1, <1>2 DEF TypeOK
  <2> QED BY <1>1, <1>4, <1>5, <2>1 DEF TypeOK, KernelInv
<1>9. WritersWait' /\ OneSided'
  <2>1. \A c \in Boxes, t \in Threads : t \in Elems(writers'[c]) => t \in Elems(writers[c])
    BY <1>3, <1>6
  <2> QED BY <1>1, <1>4, <2>1 DEF MboxInv, WritersWait, OneSided, SamePuts
<1>10. WritersNotStranded'
  <2>1. \A c \in Boxes :
          Retrying(c)' = {t \in Threads : PutsTo(t, c)' /\ t \notin Elems(writers'[c])}
    BY DEF Retrying, PutsTo
  <2>2. \A c \in Boxes \ {b} : Retrying(c)' = Retrying(c)
    <3> TAKE c \in Boxes \ {b}
    <3>1. writers'[c] = writers[c] /\ \A t \in Threads : PutsTo(t, c)' <=> PutsTo(t, c)
      BY <1>3, <1>4 DEF SamePuts
    <3>2. Retrying(c) = {t \in Threads : PutsTo(t, c) /\ t \notin Elems(writers[c])}
      BY RetryingAre
    <3> QED BY <2>1, <3>1, <3>2
  <2>3. PutsTo(w, b)
    BY <1>2, <1>6 DEF MboxInv, WritersWait
  <2>4. Retrying(b)' = Retrying(b) \cup {w} /\ w \notin Retrying(b)
    BY <1>2, <1>3, <1>4, <1>6, <2>1, <2>3, RetryingAre DEF SamePuts
  <2>5. /\ Cardinality(Retrying(b)') = Cardinality(Retrying(b)) + 1
        /\ Cardinality(Retrying(b)) \in Nat /\ Size[b] \in Nat
    BY <2>4, RetryingAre, SizeType, FS_AddElement
  <2>6. Size[b] - CibAvail(cib[b]) <= Cardinality(Retrying(b))
    BY <1>1 DEF MboxInv, WritersNotStranded
  <2>7. ASSUME NEW c \in Boxes, writers'[c] # <<>>
        PROVE  Size[c] - CibAvail(cib'[c]) <= Cardinality(Retrying(c)')
    <3>1. CASE c = b
      BY <1>5, <2>5, <2>6, <3>1
    <3>2. CASE c # b
      BY <1>3, <1>5, <2>2, <2>7, <3>2 DEF MboxInv, WritersNotStranded
    <3> QED BY <3>1, <3>2
  <2> QED BY <2>7 DEF WritersNotStranded
<1> QED BY <1>4, <1>5, <1>7, <1>8, <1>9, <1>10 DEF MboxInv

(* The executing thread is not in a list when it begins to wait.            *)
LEMMA WaiterEffect ==
  ASSUME MboxInv, NEW t \in Threads, NEW b \in Boxes, NEW next \in {"run", "retry"},
         Executes(k, t), pc[t].at # "yield", Waits(t, next, b)
  PROVE  /\ KernelInv(k') /\ IsActive(k, t)
         /\ \A u \in Threads :
              k'.status[u] = IF u = t THEN "MBOX_BLOCKED" ELSE k.status[u]
         /\ pc' \in [Threads -> Places] /\ AtWork'
         /\ \A u \in Threads \ {t}, c \in Boxes : PutsTo(u, c)' <=> PutsTo(u, c)
         /\ \A c \in Boxes : PutsTo(t, c)' <=> next = "retry" /\ c = b
<1> DEFINE p == [at |-> "yield", next |-> next, box |-> b]
<1>1. /\ TypeOK /\ KernelInv(k) /\ AtWork /\ IsActive(k, t)
      /\ k' = Blocking(t) /\ Go(t, p)
  BY DEF MboxInv, AtWork, Waits
<1>2. /\ p \in Places /\ p.at = "yield"
      /\ \A c \in Boxes : p.next = "retry" /\ p.box = c <=> next = "retry" /\ c = b
  BY DEF Places
<1> HIDE DEF p
<1>3. /\ pc' \in [Threads -> Places] /\ pc'[t] = p
      /\ \A u \in Threads \ {t} : pc'[u] = pc[u]
      /\ \A u \in Threads \ {t}, c \in Boxes : PutsTo(u, c)' <=> PutsTo(u, c)
  BY <1>1, <1>2, GoEffect
<1>4. \A c \in Boxes : PutsTo(t, c)' <=> next = "retry" /\ c = b
  BY <1>2, <1>3 DEF PutsTo
<1>5. AtWork'
  BY <1>1, <1>2, <1>3, BlockingEffect DEF AtWork
<1> QED BY <1>1, <1>3, <1>4, <1>5, BlockingEffect

(* mbox_get() of an empty mailbox.                                          *)
LEMMA GetWaitsKeeps ==
  ASSUME MboxInv, NEW t \in Threads, NEW b \in Boxes, GetWaits(t, b)
  PROVE  MboxInv'
<1> DEFINE e == <<"readers", b>>
           r == AddToList(Blocking(t), readers[b], t)
<1>1. /\ TypeOK /\ Lists /\ Executes(k, t) /\ pc[t].at = "run" /\ b \in Getters
      /\ Waits(t, "run", b) /\ readers' = [readers EXCEPT ![b] = r]
      /\ UNCHANGED <<cib, array, writers, sent, got>>
  BY DEF MboxInv, GetWaits, At
<1>2. /\ KernelInv(k') /\ IsActive(k, t)
      /\ \A u \in Threads :
           k'.status[u] = IF u = t THEN "MBOX_BLOCKED" ELSE k.status[u]
      /\ pc' \in [Threads -> Places] /\ AtWork'
      /\ \A u \in Threads \ {t}, c \in Boxes : PutsTo(u, c)' <=> PutsTo(u, c)
      /\ \A c \in Boxes : ~PutsTo(t, c)'
  BY <1>1, WaiterEffect
<1>3. \A u \in Threads, c \in Boxes : PutsTo(u, c)' <=> PutsTo(u, c)
  BY <1>1, <1>2 DEF PutsTo
<1>4. /\ e \in Ends /\ List(e) = readers[b] /\ List(e)' = r /\ readers'[b] = r
      /\ \A f \in Ends \ {e} : List(f)' = List(f)
      /\ \A c \in Boxes \ {b} : readers'[c] = readers[c]
  BY <1>1, OneList
<1> HIDE DEF e
<1>5. Lists' /\ List(e)' \in Seq(Threads)
  BY <1>1, <1>2, <1>4, WaitLists DEF r
<1>6. TypeOK'
  <2>1. r \in Seq(Threads)
    BY <1>4, <1>5
  <2> HIDE DEF r
  <2>2. readers' \in [Boxes -> Seq(Threads)]
    BY <1>1, <2>1 DEF TypeOK
  <2> QED BY <1>1, <1>2, <2>2 DEF TypeOK, KernelInv
<1> HIDE DEF r
<1>7. WritersWait' /\ OneSided' /\ Counts'
  BY <1>1, <1>3, <1>4 DEF MboxInv, WritersWait, OneSided, Counts
<1>8. WritersNotStranded'
  <2>1. \A c \in Boxes :
          Retrying(c)' = {u \in Threads : PutsTo(u, c)' /\ u \notin Elems(writers'[c])}
    BY DEF Retrying, PutsTo
  <2>2. \A c \in Boxes : Retrying(c)' = Retrying(c)
    BY <1>1, <1>3, <2>1, RetryingAre
  <2> QED BY <1>1, <2>2 DEF MboxInv, WritersNotStranded
<1> QED BY <1>2, <1>5, <1>6, <1>7, <1>8 DEF MboxInv

(* mbox_put() to a full mailbox, at a first try or after _wait().           *)
LEMMA PutWaitsKeeps ==
  ASSUME MboxInv, NEW t \in Threads, NEW b \in Boxes, CibFull(cib[b]),
         Executes(k, t), Waits(t, "retry", b),
         writers' = [writers EXCEPT ![b] = AddToList(Blocking(t), writers[b], t)],
         UNCHANGED <<cib, array, readers, sent, got>>,
         \/ pc[t].at = "run" /\ b \in Putters
         \/ pc[t].at = "retry" /\ b = pc[t].box
  PROVE  MboxInv'
<1> DEFINE e == <<"writers", b>>
           r == AddToList(Blocking(t), writers[b], t)
<1>1. TypeOK /\ Lists /\ Counts /\ writers' = [writers EXCEPT ![b] = r]
  BY DEF MboxInv
<1>2. /\ KernelInv(k') /\ IsActive(k, t)
      /\ \A u \in Threads :
           k'.status[u] = IF u = t THEN "MBOX_BLOCKED" ELSE k.status[u]
      /\ pc' \in [Threads -> Places] /\ AtWork'
      /\ \A u \in Threads \ {t}, c \in Boxes : PutsTo(u, c)' <=> PutsTo(u, c)
      /\ \A c \in Boxes : PutsTo(t, c)' <=> c = b
  BY WaiterEffect
<1>3. b \in Putters /\ \A c \in Boxes \ {b} : ~PutsTo(t, c)
  BY DEF MboxInv, OneSided, PutsTo
<1>4. /\ e \in Ends /\ List(e) = writers[b] /\ List(e)' = r /\ writers'[b] = r
      /\ \A f \in Ends \ {e} : List(f)' = List(f)
      /\ \A c \in Boxes \ {b} : writers'[c] = writers[c]
  BY <1>1, OneList
<1> HIDE DEF e
<1>5. Lists' /\ List(e)' \in Seq(Threads) /\ Elems(List(e)') = Elems(List(e)) \cup {t}
  BY <1>1, <1>2, <1>4, WaitLists DEF r
<1> HIDE DEF r
<1>6. r \in Seq(Threads) /\ Elems(r) = Elems(writers[b]) \cup {t}
  BY <1>4, <1>5
<1>7. TypeOK'
  <2>1. writers' \in [Boxes -> Seq(Threads)]
    BY <1>1, <1>6 DEF TypeOK
  <2> QED BY <1>1, <1>2, <2>1 DEF TypeOK, KernelInv
<1>8. WritersWait' /\ OneSided' /\ Counts'
  <2>1. \A c \in Boxes, u \in Threads : u \in Elems(writers'[c]) =>
          u \in Elems(writers[c]) \/ (u = t /\ c = b)
    BY <1>4, <1>6
  <2>2. \A c \in Boxes : t \notin Elems(writers[c])
    BY <1>1, <1>2, ReadyWaitsNowhere
  <2>3. \A c \in Boxes, u \in Threads : PutsTo(u, c)' => PutsTo(u, c) \/ (u = t /\ c = b)
    BY <1>2
  <2>4. WritersWait'
    BY <1>2, <2>1, <2>2 DEF MboxInv, WritersWait
  <2>5. OneSided'
    BY <1>3, <2>3 DEF MboxInv, OneSided
  <2>6. Counts'
    BY DEF MboxInv, Counts
  <2> QED BY <2>4, <2>5, <2>6
<1>9. WritersNotStranded'
  <2>1. \A c \in Boxes :
          Retrying(c)' = {u \in Threads : PutsTo(u, c)' /\ u \notin Elems(writers'[c])}
    BY DEF Retrying, PutsTo
  <2>2. \A c \in Boxes \ {b} : Retrying(c)' = Retrying(c)
    <3>1. \A c \in Boxes \ {b}, u \in Threads : PutsTo(u, c)' <=> PutsTo(u, c)
      BY <1>2, <1>3
    <3> QED BY <1>4, <2>1, <3>1, RetryingAre
  <2>3. IsFiniteSet(Retrying(b)') /\ Cardinality(Retrying(b)') \in Nat
    <3>1. IsFiniteSet(Threads) /\ Retrying(b)' \subseteq Threads
      BY <2>1, MboxAssumption
    <3> QED BY <3>1, FS_Subset, FS_CardinalityType
  <2>4. Size[b] - CibAvail(cib[b]) = 0
    <3>1. InUse(cib[b], Size[b])
      BY <1>1 DEF Counts
    <3> QED BY <3>1, FullIsExact, SizeType
  <2>5. ASSUME NEW c \in Boxes, writers'[c] # <<>>
        PROVE  Size[c] - CibAvail(cib'[c]) <= Cardinality(Retrying(c)')
    <3>1. CASE c = b
      BY <2>3, <2>4, <3>1
    <3>2. CASE c # b
      BY <1>4, <2>2, <2>5, <3>2 DEF MboxInv, WritersNotStranded
    <3> QED BY <3>1, <3>2
  <2> QED BY <2>5 DEF WritersNotStranded
<1> QED BY <1>2, <1>5, <1>7, <1>8, <1>9 DEF MboxInv

-----------------------------------------------------------------------------
(* The initial state and the invariant                                      *)

(* Every mailbox is empty and nobody waits.                                 *)
LEMMA InitInv == Init => MboxInv
<1> SUFFICES ASSUME Init PROVE MboxInv
  OBVIOUS
<1>1. /\ KernelInv(k) /\ k.active = NoThread
      /\ \A t \in Threads : k.status[t] \in {"PENDING", "SLEEPING"}
  BY MboxAssumption, StartOK DEF Init
<1>2. /\ \A b \in Boxes : readers[b] = <<>> /\ writers[b] = <<>>
      /\ \A e \in Ends : List(e) = <<>>
      /\ Once(<<>>) /\ Elems(<<>>) = {} /\ <<>> \in Seq(Threads)
  BY DEF Init, List, Ends, Once, Elems
<1>3. Counts /\ cib \in [Boxes -> CibType]
  <2>1. \A b \in Boxes : InUse(CibInit(Size[b]), Size[b])
    BY SizeType, InitInUse
  <2> QED BY <2>1 DEF Counts, Init, InUse
<1>4. TypeOK
  <2>1. Run \in Places /\ 0 \in 0 .. N - 1
    BY MboxAssumption DEF Places
  <2> QED BY <1>1, <1>2, <1>3, <2>1 DEF Init, TypeOK, KernelInv
<1>5. Lists
  BY <1>1, <1>2 DEF Lists
<1>6. AtWork
  BY <1>1, KernelAssumption DEF AtWork, Executes
<1>7. WritersWait /\ OneSided /\ WritersNotStranded
  BY <1>2 DEF WritersWait, OneSided, WritersNotStranded, PutsTo, Init, Run
<1> QED BY <1>1, <1>3, <1>4, <1>5, <1>6, <1>7 DEF MboxInv

(* Every step, or none, keeps the invariant.                                *)
LEMMA StepInv == MboxInv /\ [Next]_vars => MboxInv'
<1> SUFFICES ASSUME MboxInv, [Next]_vars PROVE MboxInv'
  OBVIOUS
<1>1. CASE UNCHANGED vars
  <2>1. SameBlocked /\ SamePuts /\ KernelInv(k') /\ AtWork' /\ pc' \in [Threads -> Places]
    BY <1>1 DEF vars, SameBlocked, SamePuts, PutsTo, MboxInv, AtWork, TypeOK
  <2> QED BY <1>1, <2>1, FrameKeeps DEF vars
<1>2. ASSUME NEW t \in Threads, NEW b \in Boxes,
             PutToReader(t, b) \/ PutStores(t, b) \/ PutWaits(t, b)
      PROVE  MboxInv'
  <2>1. CASE PutToReader(t, b)
    BY <2>1, PutDirectKeeps DEF PutToReader
  <2>2. CASE PutStores(t, b)
    BY <2>2, StoreKeeps DEF PutStores
  <2>3. CASE PutWaits(t, b)
    BY <2>3, PutWaitsKeeps DEF PutWaits, At
  <2> QED BY <1>2, <2>1, <2>2, <2>3
<1>3. ASSUME NEW t \in Threads, NEW b \in Boxes, GetFetches(t, b) \/ GetWaits(t, b)
      PROVE  MboxInv'
  <2>1. CASE GetFetches(t, b)
    BY <2>1, FetchKeeps, FetchWakesKeeps DEF GetFetches
  <2>2. CASE GetWaits(t, b)
    BY <2>2, GetWaitsKeeps
  <2> QED BY <1>3, <2>1, <2>2
<1>4. ASSUME NEW t \in Threads, PutRetries(t)
      PROVE  MboxInv'
  <2> DEFINE b == pc[t].box
  <2>1. b \in Boxes
    <3>1. pc[t] \in Places /\ pc[t].at = "retry"
      BY <1>4 DEF PutRetries, At, MboxInv, TypeOK
    <3>2. pc[t] \in [at : {"retry"}, box : Boxes]
      BY <3>1 DEF Places, Run
    <3> QED BY <3>2
  <2>2. CASE Store(b) /\ Go(t, Run) /\ UNCHANGED k
    BY <1>4, <2>1, <2>2, StoreKeeps DEF PutRetries
  <2>3. CASE ~(Store(b) /\ Go(t, Run) /\ UNCHANGED k)
    BY <1>4, <2>1, <2>3, PutWaitsKeeps DEF PutRetries, At
  <2> QED BY <2>2, <2>3
<1>5. ASSUME NEW t \in Threads, DoYield(t) \/ DoSwitch(t) \/ IsrStart(t)
      PROVE  MboxInv'
  BY <1>5, DoYieldKeeps, DoSwitchKeeps, IsrStartKeeps
<1>6. ASSUME NEW b \in Boxes, IsrPut(b) \/ IsrGet(b)
      PROVE  MboxInv'
  <2>1. CASE IsrPut(b)
    BY <2>1, PutDirectKeeps, StoreKeeps DEF IsrPut
  <2>2. CASE IsrGet(b)
    BY <2>2, FetchKeeps, FetchWakesKeeps DEF IsrGet
  <2> QED BY <1>6, <2>1, <2>2
<1>7. CASE PendSV \/ EndIdle
  BY <1>7, ProcessorKeeps
<1> QED BY <1>1, <1>2, <1>3, <1>4, <1>5, <1>6, <1>7 DEF Next, Finish

(* The inductive invariant of mailboxes holds in every reachable state.     *)
THEOREM MboxInvariant == Spec => []MboxInv
BY InitInv, StepInv, PTL DEF Spec

-----------------------------------------------------------------------------
(* The safety properties                                                    *)

(* A thread that blocks in a mailbox is in exactly one of its lists, once,  *)
(* and on no runqueue; the free-running counters never disagree with the    *)
(* size, for every width of a word.                                         *)
THEOREM ListsAlwaysConsistent == Spec => []ListsConsistent
<1>1. MboxInv => ListsConsistent
  <2> SUFFICES ASSUME MboxInv PROVE ListsConsistent
    OBVIOUS
  <2>1. TypeOK /\ RunqueueOK(k) /\ OneRunning(k)
    BY DEF MboxInv, KernelInv
  <2>2. ASSUME NEW b \in Boxes
        PROVE  /\ <<"readers", b>> \in Ends /\ List(<<"readers", b>>) = readers[b]
               /\ <<"writers", b>> \in Ends /\ List(<<"writers", b>>) = writers[b]
    BY DEF Ends, List
  <2>3. ASSUME NEW t \in Threads
        PROVE  k.status[t] = "MBOX_BLOCKED" <=>
                 \E b \in Boxes : t \in Elems(readers[b]) \cup Elems(writers[b])
    <3>1. ASSUME NEW e \in Ends, t \in Elems(List(e))
          PROVE  \E b \in Boxes : t \in Elems(readers[b]) \cup Elems(writers[b])
      BY <3>1 DEF Ends, List
    <3> QED BY <2>2, <3>1 DEF MboxInv, Lists
  <2>4. ASSUME NEW b \in Boxes
        PROVE  /\ Cardinality(Elems(readers[b]) \cup Elems(writers[b]))
                    = Len(readers[b]) + Len(writers[b])
               /\ CibAvail(cib[b]) <= Size[b]
    <3> DEFINE r == readers[b]
               w == writers[b]
    <3>1. r \in Seq(Threads) /\ w \in Seq(Threads)
      BY <2>1 DEF TypeOK
    <3>2. Once(r) /\ Once(w) /\ Elems(r) \cap Elems(w) = {}
      <4> DEFINE e == <<"readers", b>>
                 f == <<"writers", b>>
      <4>1. e \in Ends /\ f \in Ends /\ e # f /\ List(e) = r /\ List(f) = w
        BY <2>2
      <4> HIDE DEF e, f, r, w
      <4>2. Once(List(e)) /\ Once(List(f)) /\ Elems(List(e)) \cap Elems(List(f)) = {}
        BY <4>1 DEF MboxInv, Lists
      <4> QED BY <4>1, <4>2
    <3> HIDE DEF r, w
    <3>3. /\ IsFiniteSet(Elems(r)) /\ Cardinality(Elems(r)) = Len(r)
          /\ IsFiniteSet(Elems(w)) /\ Cardinality(Elems(w)) = Len(w)
      BY <3>1, <3>2, CountOnce
    <3>4. Len(r) \in Nat /\ Len(w) \in Nat
      BY <3>1
    <3>5. Cardinality(Elems(r) \cup Elems(w)) = Len(r) + Len(w)
      <4> DEFINE S == Elems(r)
                 T == Elems(w)
      <4>1. /\ IsFiniteSet(S) /\ IsFiniteSet(T) /\ S \cap T = {}
            /\ Cardinality(S) = Len(r) /\ Cardinality(T) = Len(w)
        BY <3>2, <3>3
      <4> HIDE DEF S, T
      <4>2. Cardinality(S \cup T) = Cardinality(S) + Cardinality(T) - Cardinality(S \cap T)
        BY <4>1, FS_Union
      <4>3. Cardinality(S \cap T) = 0
        BY <4>1, FS_EmptySet
      <4>4. Cardinality(S \cup T) = Len(r) + Len(w)
        BY <3>4, <4>1, <4>2, <4>3
      <4> QED BY <4>4 DEF S, T
    <3> QED BY <3>5 DEF MboxInv, Counts, InUse, r, w
  <2> QED BY <2>1, <2>3, <2>4 DEF ListsConsistent
<1> QED BY <1>1, MboxInvariant, PTL

(* For each free place of a mailbox that has blocked writers one of them is *)
(* on its way to use it: no sequence of gets and puts strands a writer.     *)
THEOREM NoWriterStranded == Spec => []WritersNotStranded
<1>1. MboxInv => WritersNotStranded
  BY DEF MboxInv
<1> QED BY <1>1, MboxInvariant, PTL

(* "If the mailbox is empty, this function will block until a message       *)
(* becomes available": where the threads that put into a mailbox and those  *)
(* that get from it are separate, no reader is left blocked beside a message. *)
THEOREM ReadersAreServed ==
  ASSUME Putters \cap Getters = {}
  PROVE  Spec => []NoReaderBesideMessage
<1>1. Init => NoReaderBesideMessage
  BY DEF Init, NoReaderBesideMessage
<1>2. MboxInv /\ NoReaderBesideMessage /\ [Next]_vars => NoReaderBesideMessage'
  <2> SUFFICES ASSUME MboxInv, NoReaderBesideMessage, [Next]_vars,
                      NEW c \in Boxes, readers'[c] # <<>>
               PROVE  CibAvail(cib'[c]) = 0
    BY DEF NoReaderBesideMessage
  <2>1. /\ TypeOK /\ Counts /\ readers[c] \in Seq(Threads)
        /\ readers[c] # <<>> => CibAvail(cib[c]) = 0 /\ c \in Getters
        /\ \A t \in Threads : PutsTo(t, c) => c \in Putters
    BY DEF MboxInv, OneSided, NoReaderBesideMessage, TypeOK
  <2>2. CASE UNCHANGED <<cib, readers>>
    BY <2>1, <2>2
  <2>3. ASSUME NEW b \in Boxes, PutDirect(b)
        PROVE  CibAvail(cib'[c]) = 0
    <3>1. cib' = cib /\ readers' = [readers EXCEPT ![b] = Tail(readers[b])]
          /\ readers[b] # <<>>
      BY <2>3 DEF PutDirect
    <3>2. readers[c] # <<>>
      BY <2>1, <3>1
    <3> QED BY <2>1, <3>1, <3>2
  <2>4. ASSUME NEW b \in Boxes, Store(b),
               readers[b] = <<>> \/ (\E t \in Threads : pc[t].at = "retry" /\ pc[t].box = b)
        PROVE  CibAvail(cib'[c]) = 0
    <3>1. readers' = readers /\ cib' = [cib EXCEPT ![b] = CibPut(cib[b])]
      BY <2>4 DEF Store
    <3>2. c # b
      BY <2>1, <2>4, <3>1 DEF PutsTo
    <3>3. cib'[c] = cib[c]
      BY <2>1, <3>1, <3>2 DEF TypeOK
    <3> QED BY <2>1, <3>1, <3>3
  <2>5. ASSUME NEW b \in Boxes, Fetch(b)
        PROVE  CibAvail(cib'[c]) = 0
    <3>1. /\ readers' = readers /\ cib' = [cib EXCEPT ![b] = CibGet(cib[b])]
          /\ CibAvail(cib[b]) # 0
      BY <2>5 DEF Fetch
    <3>2. c # b /\ cib'[c] = cib[c]
      BY <2>1, <3>1 DEF TypeOK
    <3> QED BY <2>1, <3>1, <3>2
  <2>6. ASSUME NEW b \in Boxes, NEW t \in Threads, GetWaits(t, b)
        PROVE  CibAvail(cib'[c]) = 0
    <3>1. /\ cib' = cib /\ CibAvail(cib[b]) = 0
          /\ \A d \in Boxes \ {b} : readers'[d] = readers[d]
      BY <2>1, <2>6 DEF GetWaits, TypeOK
    <3> QED BY <2>1, <3>1
  <2>7. CASE UNCHANGED vars
    BY <2>2, <2>7 DEF vars
  <2>8. ASSUME NEW t \in Threads, NEW b \in Boxes,
               \/ PutToReader(t, b) \/ PutStores(t, b) \/ PutWaits(t, b)
               \/ GetFetches(t, b) \/ GetWaits(t, b)
        PROVE  CibAvail(cib'[c]) = 0
    BY <2>2, <2>3, <2>4, <2>5, <2>6, <2>8 DEF PutToReader, PutStores, PutWaits, GetFetches
  <2>9. ASSUME NEW t \in Threads, PutRetries(t)
        PROVE  CibAvail(cib'[c]) = 0
    <3> DEFINE b == pc[t].box
    <3>1. pc[t] \in Places /\ pc[t].at = "retry"
      BY <2>1, <2>9 DEF PutRetries, At, TypeOK
    <3>2. b \in Boxes
      <4>1. pc[t] \in [at : {"retry"}, box : Boxes]
        BY <3>1 DEF Places, Run
      <4> QED BY <4>1
    <3>3. Store(b) \/ UNCHANGED <<cib, readers>>
      BY <2>9 DEF PutRetries
    <3> QED BY <2>2, <2>4, <3>1, <3>2, <3>3
  <2>10. ASSUME NEW t \in Threads, DoYield(t) \/ DoSwitch(t) \/ IsrStart(t)
         PROVE  CibAvail(cib'[c]) = 0
    BY <2>2, <2>10 DEF DoYield, DoSwitch, IsrStart
  <2>11. ASSUME NEW b \in Boxes, IsrPut(b) \/ IsrGet(b)
         PROVE  CibAvail(cib'[c]) = 0
    BY <2>3, <2>4, <2>5, <2>11 DEF IsrPut, IsrGet
  <2>12. CASE PendSV \/ EndIdle
    BY <2>2, <2>12 DEF PendSV, EndIdle
  <2> QED BY <2>7, <2>8, <2>9, <2>10, <2>11, <2>12 DEF Next, Finish
<1> QED BY <1>1, <1>2, MboxInvariant, PTL DEF Spec

-----------------------------------------------------------------------------
(* A mailbox is a FIFO channel                                              *)

(* A function of the first numbers is a list.                               *)
LEMMA ListOf ==
  ASSUME NEW S, NEW n \in Nat, NEW q \in [1 .. n -> S]
  PROVE  q \in Seq(S) /\ Len(q) = n
OBVIOUS

(* Putting appends a message to those in the buffer.                        *)
LEMMA StoreAppends ==
  ASSUME TypeOK, Counts, NEW b \in Boxes, Store(b)
  PROVE  Content(b)' = Append(Content(b), Fresh(b))
<1> DEFINE c == cib[b]
           d == cib'[b]
           n == CibAvail(c)
           size == Size[b]
           x == Fresh(b)
           q == Content(b)
           r == Content(b)'
<1>1. /\ n \in Nat /\ n < size /\ CibAvail(d) = n + 1 /\ d = CibPut(c)
      /\ InUse(c, size) /\ size \in 1 .. Half /\ Half % size = 0
  <2>1. /\ n \in Nat /\ n < size /\ cib' = [cib EXCEPT ![b] = CibPut(c)]
        /\ CibAvail(d) = n + 1 /\ InUse(c, size)
    BY StoreData DEF Counts
  <2>2. d = CibPut(c)
    BY <2>1 DEF TypeOK
  <2> QED BY <2>1, <2>2, SizeType
<1>2. /\ q = [i \in 1 .. n |-> array[b][PlaceAt(c, i - 1)]]
      /\ r = [i \in 1 .. n + 1 |-> array'[b][PlaceAt(d, i - 1)]]
  BY <1>1 DEF Content
<1>3. \A i \in 1 .. n + 1 : i - 1 \in 0 .. size - 1 /\ PlaceAt(d, i - 1) = PlaceAt(c, i - 1)
  BY <1>1, PlacesMove
<1>4. /\ array'[b] = [array[b] EXCEPT ![PlaceAt(c, n)] = x]
      /\ PlaceAt(c, n) \in DOMAIN array[b]
      /\ \A i \in 1 .. n : PlaceAt(c, i - 1) # PlaceAt(c, n)
  <2>1. /\ \A i, j \in 0 .. size - 1 : i < j => PlaceAt(c, i) # PlaceAt(c, j)
        /\ PutPlace(c) = PlaceAt(c, n)
        /\ \A i \in 0 .. size - 1 : PlaceAt(c, i) \in 0 .. size - 1
    BY <1>1, PlacesDiffer
  <2>2. n \in 0 .. size - 1 /\ \A i \in 1 .. n : i - 1 \in 0 .. size - 1 /\ i - 1 < n
    BY <1>1
  <2>3. array' = [array EXCEPT ![b][PutPlace(c)] = x]
    BY DEF Store
  <2>4. PlaceAt(c, n) \in 0 .. Word - 1
    BY <1>1, <2>1, <2>2, CibAssumption DEF Word
  <2> HIDE DEF c, n, size, x
  <2>5. array'[b] = [array[b] EXCEPT ![PlaceAt(c, n)] = x]
    BY <2>1, <2>3 DEF TypeOK
  <2>6. DOMAIN array[b] = 0 .. Word - 1
    BY DEF TypeOK
  <2> QED BY <2>1, <2>2, <2>4, <2>5, <2>6
<1> HIDE DEF c, d, n, size, x, q, r
<1>5. /\ \A i \in 1 .. n : r[i] = q[i]
      /\ r[n + 1] = x
  BY <1>1, <1>2, <1>3, <1>4
<1>6. q \in Seq(0 .. N - 1) /\ Len(q) = n
  <2>1. \A i \in 1 .. n : array[b][PlaceAt(c, i - 1)] \in 0 .. N - 1
    <3>1. \A i \in 1 .. n : i - 1 \in 0 .. size - 1
      BY <1>1
    <3>2. \A i \in 0 .. size - 1 : PlaceAt(c, i) \in 0 .. size - 1
      BY <1>1, PlacesDiffer
    <3>3. 0 .. size - 1 \subseteq 0 .. Word - 1
      BY <1>1, CibAssumption DEF Word
    <3> QED BY <3>1, <3>2, <3>3 DEF TypeOK
  <2>2. n \in Nat /\ q \in [1 .. n -> 0 .. N - 1]
    BY <1>1, <1>2, <2>1
  <2> QED BY <2>2, ListOf
<1>7. x \in 0 .. N - 1
  BY MboxAssumption DEF TypeOK, Fresh, x
<1>8. r = Append(q, x)
  <2> DEFINE a == Append(q, x)
  <2>1. /\ a \in Seq(0 .. N - 1) /\ Len(a) = n + 1
        /\ \A i \in 1 .. n : a[i] = q[i]
        /\ a[n + 1] = x
    BY <1>6, <1>7, AppendProperties
  <2>2. DOMAIN r = 1 .. n + 1 /\ r = [i \in DOMAIN r |-> r[i]]
    BY <1>2
  <2> HIDE DEF a
  <2>3. \A i \in 1 .. n + 1 : r[i] = a[i]
    <3>1. \A i \in 1 .. n + 1 : i \in 1 .. n \/ i = n + 1
      BY <1>1
    <3> QED BY <1>5, <2>1, <3>1
  <2>4. \A i \in 1 .. n + 1 : a[i] \in 0 .. N - 1
    BY <1>1, <2>1, ElementOfSeq
  <2>5. n + 1 \in Nat
    BY <1>1
  <2>6. r \in Seq(0 .. N - 1) /\ Len(r) = n + 1
    <3> DEFINE m == n + 1
    <3>1. m \in Nat /\ r \in [1 .. m -> 0 .. N - 1]
      BY <2>2, <2>3, <2>4, <2>5
    <3> HIDE DEF m
    <3>2. r \in Seq(0 .. N - 1) /\ Len(r) = m
      BY <3>1, ListOf
    <3> QED BY <3>2 DEF m
  <2>7. r = a
    BY <2>1, <2>3, <2>6, SeqEqual
  <2> QED BY <2>7 DEF a
<1> QED BY <1>8 DEF q, r, x

(* Getting takes the first message, and the others move up.                 *)
LEMMA FetchTakesFirst ==
  ASSUME TypeOK, Counts, NEW b \in Boxes, Fetch(b)
  PROVE  /\ Content(b) # <<>> /\ Content(b)' = Tail(Content(b))
         /\ got' = [got EXCEPT ![b] = Head(Content(b))]
<1> DEFINE c == cib[b]
           d == cib'[b]
           n == CibAvail(c)
           size == Size[b]
           q == Content(b)
           r == Content(b)'
<1>1. /\ n \in Nat \ {0} /\ n <= size /\ CibAvail(d) = n - 1 /\ d = CibGet(c)
      /\ InUse(c, size) /\ size \in 1 .. Half /\ Half % size = 0
  <2>1. /\ n \in Nat \ {0} /\ n <= size /\ cib' = [cib EXCEPT ![b] = CibGet(c)]
        /\ CibAvail(d) = n - 1 /\ InUse(c, size)
    BY FetchData DEF Counts
  <2>2. d = CibGet(c)
    BY <2>1 DEF TypeOK
  <2> QED BY <2>1, <2>2, SizeType
<1>2. array' = array /\ got' = [got EXCEPT ![b] = array[b][GetPlace(c)]]
  BY DEF Fetch
<1>3. /\ q = [i \in 1 .. n |-> array[b][PlaceAt(c, i - 1)]]
      /\ r = [i \in 1 .. n - 1 |-> array[b][PlaceAt(d, i - 1)]]
  BY <1>1, <1>2 DEF Content
<1>4. GetPlace(c) = PlaceAt(c, 0) /\ \A i \in 0 .. size - 1 : PlaceAt(c, i) \in 0 .. size - 1
  BY <1>1, PlacesDiffer
<1>5. \A i \in 1 .. n - 1 : PlaceAt(d, i - 1) = PlaceAt(c, i)
  <2> TAKE i \in 1 .. n - 1
  <2>1. i - 1 \in 0 .. size - 1 /\ (i - 1) + 1 = i
    BY <1>1
  <2>2. PlaceAt(CibGet(c), i - 1) = PlaceAt(c, (i - 1) + 1)
    BY <1>1, <2>1, PlacesMove
  <2> QED BY <1>1, <2>1, <2>2
<1> HIDE DEF c, d, n, size, q, r
<1>6. q \in Seq(0 .. N - 1) /\ Len(q) = n
  <2>1. \A i \in 1 .. n : array[b][PlaceAt(c, i - 1)] \in 0 .. N - 1
    <3>1. \A i \in 1 .. n : i - 1 \in 0 .. size - 1
      BY <1>1
    <3>2. 0 .. size - 1 \subseteq 0 .. Word - 1
      BY <1>1, CibAssumption DEF Word
    <3> QED BY <1>4, <3>1, <3>2 DEF TypeOK
  <2> QED BY <1>1, <1>3, <2>1
<1>7. q # <<>> /\ Head(q) = q[1] /\ q[1] = array[b][PlaceAt(c, 0)]
  BY <1>1, <1>3, <1>6
<1>8. r = Tail(q)
  <2> DEFINE a == Tail(q)
  <2>1. /\ a \in Seq(0 .. N - 1) /\ Len(a) = n - 1
        /\ \A i \in 1 .. n - 1 : a[i] = q[i + 1]
    BY <1>6, <1>7, HeadTailProperties
  <2>2. DOMAIN r = 1 .. n - 1 /\ r = [i \in DOMAIN r |-> r[i]]
    BY <1>3
  <2> HIDE DEF a
  <2>3. \A i \in 1 .. n - 1 : r[i] = a[i]
    <3> TAKE i \in 1 .. n - 1
    <3>1. i + 1 \in 1 .. n /\ (i + 1) - 1 = i
      BY <1>1
    <3>2. q[i + 1] = array[b][PlaceAt(c, (i + 1) - 1)]
      BY <1>3, <3>1
    <3>3. r[i] = array[b][PlaceAt(d, i - 1)]
      BY <1>3
    <3> QED BY <1>5, <2>1, <3>1, <3>2, <3>3
  <2>4. \A i \in 1 .. n - 1 : a[i] \in 0 .. N - 1
    BY <1>1, <2>1, ElementOfSeq
  <2>5. n - 1 \in Nat
    BY <1>1
  <2>6. r \in Seq(0 .. N - 1) /\ Len(r) = n - 1
    <3> DEFINE m == n - 1
    <3>1. m \in Nat /\ r \in [1 .. m -> 0 .. N - 1]
      BY <2>2, <2>3, <2>4, <2>5
    <3> HIDE DEF m
    <3>2. r \in Seq(0 .. N - 1) /\ Len(r) = m
      BY <3>1, ListOf
    <3> QED BY <3>2 DEF m
  <2>7. r = a
    BY <2>1, <2>3, <2>6, SeqEqual
  <2> QED BY <2>7 DEF a
<1> QED BY <1>2, <1>4, <1>7, <1>8 DEF q, r

(* The channels of the abstract specification.                              *)
Channel == [b \in Boxes |-> Content(b)]

(* The channels change where the counters or the places of a mailbox do.    *)
LEMMA OtherChannels ==
  ASSUME NEW b \in Boxes, NEW q, Content(b)' = q,
         \A c \in Boxes \ {b} : cib'[c] = cib[c] /\ array'[c] = array[c]
  PROVE  Channel' = [Channel EXCEPT ![b] = q]
<1>1. \A c \in Boxes \ {b} : Content(c)' = Content(c)
  BY DEF Content
<1> QED BY <1>1 DEF Channel

(* _mbox_put() of a message into the buffer is its acceptance.              *)
LEMMA StoreAccepts ==
  ASSUME TypeOK, Counts, NEW b \in Boxes, Store(b)
  PROVE  Abstract!Accept(b)
<1>1. Content(b)' = Append(Content(b), Fresh(b))
  BY StoreAppends
<1>2. \A c \in Boxes \ {b} : cib'[c] = cib[c] /\ array'[c] = array[c]
  BY StoreData DEF Store, TypeOK
<1>3. Channel' = [Channel EXCEPT ![b] = Append(Content(b), Fresh(b))]
  BY <1>1, <1>2, OtherChannels
<1>4. sent' = [sent EXCEPT ![b] = Fresh(b)] /\ got' = got
  BY DEF Store, Sent
<1> QED BY <1>3, <1>4 DEF Abstract!Accept, Abstract!Following, Channel, Fresh

(* _mbox_get() of a queued message is its delivery.                         *)
LEMMA FetchDelivers ==
  ASSUME TypeOK, Counts, NEW b \in Boxes, Fetch(b)
  PROVE  Abstract!Deliver(b)
<1>1. /\ Content(b) # <<>> /\ Content(b)' = Tail(Content(b))
      /\ got' = [got EXCEPT ![b] = Head(Content(b))]
  BY FetchTakesFirst
<1>2. \A c \in Boxes \ {b} : cib'[c] = cib[c] /\ array'[c] = array[c]
  BY FetchData DEF Fetch
<1>3. Channel' = [Channel EXCEPT ![b] = Tail(Content(b))]
  BY <1>1, <1>2, OtherChannels
<1>4. sent' = sent
  BY DEF Fetch
<1> QED BY <1>1, <1>3, <1>4 DEF Abstract!Deliver, Channel

(* A message that goes to a waiting reader passes an empty mailbox.         *)
LEMMA PutDirectPasses ==
  ASSUME TypeOK, NoReaderBesideMessage, NEW b \in Boxes, PutDirect(b)
  PROVE  Abstract!Pass(b)
<1>1. CibAvail(cib[b]) = 0
  BY DEF NoReaderBesideMessage, PutDirect
<1>2. Content(b) = <<>>
  BY <1>1 DEF Content
<1>3. UNCHANGED <<cib, array>>
  BY DEF PutDirect
<1>4. Channel' = Channel
  BY <1>3 DEF Channel, Content
<1> QED BY <1>2, <1>4 DEF Abstract!Pass, Abstract!Following, Channel, PutDirect, Sent, Fresh

(* Where threads do not both put into and get from one mailbox, a mailbox   *)
(* is a FIFO channel: every message that was put arrives once, in order,    *)
(* whether through the buffer or from hand to hand.                         *)
THEOREM MailboxesAreChannels ==
  ASSUME Putters \cap Getters = {}
  PROVE  Spec => FifoSpec
<1>1. Init => Abstract!Init
  <2> SUFFICES ASSUME Init PROVE Abstract!Init
    OBVIOUS
  <2>1. \A b \in Boxes : CibAvail(cib[b]) = 0
    BY SizeType, InitInUse DEF Init
  <2>2. \A b \in Boxes : Content(b) = <<>>
    BY <2>1 DEF Content
  <2> QED BY <2>2 DEF Init, Abstract!Init
<1>2. MboxInv /\ NoReaderBesideMessage /\ [Next]_vars
        => [Abstract!Next]_<<Channel, sent, got>>
  <2> SUFFICES ASSUME MboxInv, NoReaderBesideMessage, [Next]_vars
               PROVE  [Abstract!Next]_<<Channel, sent, got>>
    OBVIOUS
  <2>1. TypeOK /\ Counts
    BY DEF MboxInv
  <2>2. CASE UNCHANGED <<cib, array, sent, got>>
    BY <2>2 DEF Channel, Content
  <2>3. ASSUME NEW b \in Boxes, PutDirect(b) \/ Store(b) \/ Fetch(b)
        PROVE  Abstract!Next
    BY <2>1, <2>3, StoreAccepts, FetchDelivers, PutDirectPasses DEF Abstract!Next
  <2>4. CASE UNCHANGED vars
    BY <2>2, <2>4 DEF vars
  <2>5. ASSUME NEW t \in Threads, NEW b \in Boxes,
               \/ PutToReader(t, b) \/ PutStores(t, b) \/ PutWaits(t, b)
               \/ GetFetches(t, b) \/ GetWaits(t, b)
        PROVE  [Abstract!Next]_<<Channel, sent, got>>
    BY <2>2, <2>3, <2>5 DEF PutToReader, PutStores, PutWaits, GetFetches, GetWaits
  <2>6. ASSUME NEW t \in Threads, PutRetries(t)
        PROVE  [Abstract!Next]_<<Channel, sent, got>>
    <3> DEFINE b == pc[t].box
    <3>1. pc[t] \in Places /\ pc[t].at = "retry"
      BY <2>1, <2>6 DEF PutRetries, At, TypeOK
    <3>2. b \in Boxes
      <4>1. pc[t] \in [at : {"retry"}, box : Boxes]
        BY <3>1 DEF Places, Run
      <4> QED BY <4>1
    <3>3. Store(b) \/ UNCHANGED <<cib, array, sent, got>>
      BY <2>6 DEF PutRetries
    <3> QED BY <2>2, <2>3, <3>2, <3>3
  <2>7. ASSUME NEW t \in Threads, DoYield(t) \/ DoSwitch(t) \/ IsrStart(t)
        PROVE  [Abstract!Next]_<<Channel, sent, got>>
    BY <2>2, <2>7 DEF DoYield, DoSwitch, IsrStart
  <2>8. ASSUME NEW b \in Boxes, IsrPut(b) \/ IsrGet(b)
        PROVE  [Abstract!Next]_<<Channel, sent, got>>
    BY <2>3, <2>8 DEF IsrPut, IsrGet
  <2>9. CASE PendSV \/ EndIdle
    BY <2>2, <2>9 DEF PendSV, EndIdle
  <2> QED BY <2>4, <2>5, <2>6, <2>7, <2>8, <2>9 DEF Next, Finish
<1>3. Spec => []NoReaderBesideMessage
  BY ReadersAreServed
<1> QED BY <1>1, <1>2, <1>3, MboxInvariant, PTL DEF Spec, FifoSpec, Abstract!Spec, Channel
=============================================================================
