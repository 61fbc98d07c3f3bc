---------------------------- MODULE KernelProofs ----------------------------
(***************************************************************************)
(* What the operators of module Kernel preserve: the type of the kernel     *)
(* state and the consistency of runqueues, statuses and bit cache. These    *)
(* are the lemmas for every module whose threads use the scheduler.         *)
(***************************************************************************)
EXTENDS Kernel, SequenceTheorems, FiniteSetTheorems, WellFoundedInduction, TLAPS

(* The invariant that all operators preserve.                               *)
KernelInv(k) == k \in KernelType /\ RunqueueOK(k) /\ OneRunning(k)

-----------------------------------------------------------------------------
(* Lists of threads                                                         *)

(* A list is empty when it has no elements.                                 *)
LEMMA ElemsEmpty ==
  ASSUME NEW S, NEW q \in Seq(S)
  PROVE  /\ Elems(q) \subseteq S
         /\ q = <<>> <=> Elems(q) = {}
BY DEF Elems

(* clist_rpush(): a thread that is not in the list is added to it once.     *)
LEMMA ElemsAppend ==
  ASSUME NEW S, NEW q \in Seq(S), NEW t \in S
  PROVE  /\ Append(q, t) \in Seq(S)
         /\ Elems(Append(q, t)) = Elems(q) \cup {t}
         /\ Once(q) /\ t \notin Elems(q) => Once(Append(q, t))
<1> DEFINE r == Append(q, t)
<1>1. /\ r \in Seq(S) /\ Len(r) = Len(q) + 1
      /\ DOMAIN r = 1 .. Len(q) + 1 /\ DOMAIN q = 1 .. Len(q) /\ Len(q) \in Nat
      /\ \A i \in 1 .. Len(q) : r[i] = q[i]
      /\ r[Len(q) + 1] = t
  BY AppendProperties, LenProperties
<1> HIDE DEF r
<1>2. Elems(r) = Elems(q) \cup {t}
  BY <1>1 DEF Elems
<1>3. ASSUME Once(q), t \notin Elems(q) PROVE Once(r)
  BY <1>1, <1>3 DEF Elems, Once
<1> QED BY <1>1, <1>2, <1>3 DEF r

(* list_remove() and clist_remove(): the thread leaves a list that held it  *)
(* once, and all others stay.                                               *)
LEMMA ElemsUnlink ==
  ASSUME NEW S, NEW q \in Seq(S), NEW t, Once(q)
  PROVE  /\ Unlink(q, t) \in Seq(S)
         /\ Elems(Unlink(q, t)) = Elems(q) \ {t}
         /\ Once(Unlink(q, t))
<1>1. CASE t \notin Elems(q)
  BY <1>1 DEF Unlink
<1>2. CASE t \in Elems(q)
  <2> DEFINE i == CHOOSE j \in DOMAIN q : q[j] = t
             r == Without(q, i)
  <2>1. i \in DOMAIN q /\ q[i] = t
    BY <1>2 DEF Elems
  <2>2. /\ DOMAIN q = 1 .. Len(q) /\ Len(q) \in Nat /\ i \in 1 .. Len(q)
        /\ \A j \in 1 .. Len(q) : q[j] \in S
    BY <2>1, LenProperties, ElementOfSeq
  <2> HIDE DEF i
  <2>3. r = [j \in 1 .. Len(q) - 1 |-> IF j < i THEN q[j] ELSE q[j + 1]]
    BY DEF r, Without
  <2>4. Len(q) - 1 \in Nat
    BY <2>2
  <2>5. r \in Seq(S)
    <3>1. \A j \in 1 .. Len(q) - 1 : (IF j < i THEN q[j] ELSE q[j + 1]) \in S
      BY <2>2
    <3> QED BY <2>3, <2>4, <3>1 
  <2>6. DOMAIN r = 1 .. Len(q) - 1
    BY <2>3
  <2> HIDE DEF r
  <2>7. Elems(r) = Elems(q) \ {t}
    <3>1. ASSUME NEW j \in 1 .. Len(q) - 1
          PROVE  r[j] \in Elems(q) /\ r[j] # t
      <4> DEFINE l == IF j < i THEN j ELSE j + 1
      <4>1. l \in 1 .. Len(q) /\ l # i /\ r[j] = q[l]
        BY <2>2, <2>3
      <4> HIDE DEF l
      <4> QED BY <2>1, <2>2, <4>1 DEF Elems, Once
    <3>2. ASSUME NEW j \in 1 .. Len(q), q[j] # t
          PROVE  q[j] \in Elems(r)
      <4>1. CASE j < i
        <5>1. j \in 1 .. Len(q) - 1 /\ r[j] = q[j]
          BY <4>1, <2>2, <2>3
        <5> QED BY <5>1, <2>6 DEF Elems
      <4>2. CASE j > i
        <5>1. j - 1 \in 1 .. Len(q) - 1 /\ r[j - 1] = q[j]
          BY <4>2, <2>2, <2>3
        <5> QED BY <5>1, <2>6 DEF Elems
      <4> QED BY <4>1, <4>2, <2>1, <2>2, <3>2
    <3> QED BY <3>1, <3>2, <2>2, <2>6 DEF Elems
  <2>8. Once(r)
    <3> SUFFICES ASSUME NEW a \in 1 .. Len(q) - 1, NEW b \in 1 .. Len(q) - 1, r[a] = r[b]
                 PROVE  a = b
      BY <2>6 DEF Once
    <3> DEFINE from(j) == IF j < i THEN j ELSE j + 1
    <3>1. /\ from(a) \in 1 .. Len(q) /\ r[a] = q[from(a)]
          /\ from(b) \in 1 .. Len(q) /\ r[b] = q[from(b)]
      BY <2>2, <2>3
    <3>2. from(a) = from(b)
      <4> HIDE DEF from
      <4> QED BY <2>2, <3>1 DEF Once
    <3> QED BY <2>2, <3>2
  <2>9. Unlink(q, t) = r
    BY <1>2 DEF Unlink, i, r
  <2> QED BY <2>5, <2>7, <2>8, <2>9
<1> QED BY <1>1, <1>2

(* clist_lpoprpush(): the list keeps its elements.                          *)
LEMMA ElemsRotate ==
  ASSUME NEW S, NEW q \in Seq(S), Once(q)
  PROVE  /\ Rotate(q) \in Seq(S)
         /\ Elems(Rotate(q)) = Elems(q)
         /\ Once(Rotate(q))
<1>1. CASE q = <<>>
  BY <1>1 DEF Rotate
<1>2. CASE q # <<>>
  <2>1. /\ Head(q) \in S /\ Tail(q) \in Seq(S) /\ Head(q) = q[1]
        /\ DOMAIN q = 1 .. Len(q) /\ Len(q) \in Nat \ {0}
        /\ DOMAIN Tail(q) = 1 .. Len(q) - 1
        /\ \A i \in 1 .. Len(q) - 1 : Tail(q)[i] = q[i + 1]
    BY <1>2, HeadTailProperties, LenProperties, EmptySeq
  <2>2. Once(Tail(q)) /\ Head(q) \notin Elems(Tail(q))
    <3> DEFINE n == Len(q)
               r == Tail(q)
    <3>1. /\ \A i, j \in 1 .. n : q[i] = q[j] => i = j
          /\ DOMAIN r = 1 .. n - 1 /\ n \in Nat \ {0} /\ Head(q) = q[1]
          /\ \A i \in 1 .. n - 1 : i + 1 \in 1 .. n /\ i + 1 # 1 /\ r[i] = q[i + 1]
      BY <2>1 DEF Once
    <3> HIDE DEF n, r
    <3>2. Once(r)
      <4> SUFFICES ASSUME NEW i \in 1 .. n - 1, NEW j \in 1 .. n - 1, r[i] = r[j]
                   PROVE  i = j
        BY <3>1 DEF Once
      <4>1. i + 1 = j + 1
        BY <3>1
      <4> QED BY <4>1, <3>1
    <3>3. 1 \in 1 .. n
      BY <3>1
    <3>4. Head(q) \notin Elems(r)
      BY <3>1, <3>3 DEF Elems
    <3> QED BY <3>2, <3>4 DEF r
  <2>3. Elems(Tail(q)) \cup {Head(q)} = Elems(q)
    <3>1. \A i \in 1 .. Len(q) : i = 1 \/ i - 1 \in 1 .. Len(q) - 1
      BY <2>1
    <3>2. \A i \in 1 .. Len(q) : q[i] \in Elems(Tail(q)) \cup {Head(q)}
      <4> TAKE i \in 1 .. Len(q)
      <4>1. CASE i = 1 BY <4>1, <2>1
      <4>2. CASE i - 1 \in 1 .. Len(q) - 1
        <5>1. Tail(q)[i - 1] = q[i] BY <4>2, <2>1
        <5> QED BY <5>1, <4>2, <2>1 DEF Elems
      <4> QED BY <3>1, <4>1, <4>2
    <3>3. \A i \in 1 .. Len(q) - 1 : Tail(q)[i] \in Elems(q)
      BY <2>1 DEF Elems
    <3> QED BY <2>1, <3>2, <3>3 DEF Elems
  <2>4. /\ Append(Tail(q), Head(q)) \in Seq(S)
        /\ Elems(Append(Tail(q), Head(q))) = Elems(Tail(q)) \cup {Head(q)}
        /\ Once(Append(Tail(q), Head(q)))
    <3> DEFINE h == Head(q)
               r == Tail(q)
    <3>1. h \in S /\ r \in Seq(S) /\ Once(r) /\ h \notin Elems(r)
      BY <2>1, <2>2
    <3> HIDE DEF h, r
    <3>2. /\ Append(r, h) \in Seq(S)
          /\ Elems(Append(r, h)) = Elems(r) \cup {h}
          /\ Once(Append(r, h))
      BY <3>1, ElemsAppend
    <3> QED BY <3>2 DEF h, r
  <2>5. Rotate(q) = Append(Tail(q), Head(q))
    BY <1>2 DEF Rotate
  <2> QED BY <2>3, <2>4, <2>5
<1> QED BY <1>1, <1>2

(* The numbers of the places of a list.                                     *)
LEMMA PlacesCount ==
  ASSUME NEW n \in Nat
  PROVE  IsFiniteSet(1 .. n) /\ Cardinality(1 .. n) = n
<1>1. 1 \in Int /\ n \in Int
  OBVIOUS
<1>2. /\ IsFiniteSet(1 .. n)
      /\ Cardinality(1 .. n) = IF 1 > n THEN 0 ELSE n - 1 + 1
  BY <1>1, FS_Interval
<1> QED BY <1>2

(* thread_add_to_list(): the thread is in the list, once.                   *)
LEMMA ElemsAdd ==
  ASSUME NEW s, NEW q \in Seq(Threads), NEW t \in Threads
  PROVE  /\ AddToList(s, q, t) \in Seq(Threads)
         /\ Elems(AddToList(s, q, t)) = Elems(q) \cup {t}
         /\ Once(q) /\ t \notin Elems(q) => Once(AddToList(s, q, t))
<1> DEFINE I == {i \in DOMAIN q : \A j \in 1 .. i : s.prio[q[j]] <= s.prio[t]}
           n == Cardinality(I)
           r == AddToList(s, q, t)
<1>1. Len(q) \in Nat /\ DOMAIN q = 1 .. Len(q) /\ I \in SUBSET (1 .. Len(q))
  BY LenProperties
<1>2. n \in 0 .. Len(q)
  <2>1. IsFiniteSet(1 .. Len(q)) /\ Cardinality(1 .. Len(q)) = Len(q)
    BY <1>1, PlacesCount
  <2>2. IsFiniteSet(I) /\ n <= Len(q)
    BY <1>1, <2>1, FS_Subset
  <2> QED BY <1>1, <2>2, FS_CardinalityType
<1>3. r = [j \in 1 .. Len(q) + 1 |-> IF j <= n THEN q[j] ELSE IF j = n + 1 THEN t ELSE q[j - 1]]
  BY DEF AddToList
<1> HIDE DEF I, n, r
<1>4. r \in Seq(Threads) /\ Len(r) = Len(q) + 1 /\ DOMAIN r = 1 .. Len(q) + 1
  <2>1. \A j \in 1 .. Len(q) + 1 : r[j] \in Threads
    BY <1>1, <1>2, <1>3
  <2>2. r = [j \in 1 .. Len(q) + 1 |-> r[j]]
    BY <1>3
  <2> QED BY <1>1, <2>1, <2>2, IsASeq
<1>5. /\ \A j \in 1 .. n : r[j] = q[j]
      /\ r[n + 1] = t
      /\ \A j \in n + 2 .. Len(q) + 1 : r[j] = q[j - 1]
  BY <1>1, <1>2, <1>3
<1>6. Elems(r) \subseteq Elems(q) \cup {t}
  <2>1. ASSUME NEW i \in DOMAIN r PROVE r[i] = t \/ \E j \in 1 .. Len(q) : r[i] = q[j]
    <3>1. i <= n => i \in 1 .. Len(q) /\ r[i] = q[i]
      BY <1>1, <1>2, <1>4, <1>5, <2>1
    <3>2. i > n + 1 => i - 1 \in 1 .. Len(q) /\ r[i] = q[i - 1]
      BY <1>1, <1>2, <1>4, <1>5, <2>1
    <3> QED BY <1>1, <1>2, <1>4, <1>5, <3>1, <3>2
  <2> QED BY <1>1, <2>1 DEF Elems
<1>7. ASSUME NEW x \in Elems(q) PROVE x \in Elems(r)
  <2>1. PICK i \in 1 .. Len(q) : q[i] = x
    BY <1>1 DEF Elems
  <2>2. r[i] = x \/ r[i + 1] = x
    BY <1>1, <1>2, <1>5, <2>1
  <2> QED BY <1>1, <1>4, <2>2 DEF Elems
<1>8. t \in Elems(r)
  <2>1. n + 1 \in DOMAIN r /\ r[n + 1] = t
    BY <1>1, <1>2, <1>4, <1>5
  <2> QED BY <2>1 DEF Elems
<1>9. ASSUME Once(q), t \notin Elems(q) PROVE Once(r)
  <2>1. \A i \in 1 .. Len(q) : q[i] # t
    BY <1>1, <1>9 DEF Elems
  <2>2. \A i, j \in 1 .. Len(q) : q[i] = q[j] => i = j
    BY <1>1, <1>9 DEF Once
  <2>3. ASSUME NEW i \in 1 .. Len(q) + 1, NEW j \in 1 .. Len(q) + 1, r[i] = r[j]
        PROVE  i = j
    <3> DEFINE old(x) == IF x <= n THEN x ELSE x - 1
    <3>1. \A x \in 1 .. Len(q) + 1 :
            x = n + 1 \/ (old(x) \in 1 .. Len(q) /\ r[x] = q[old(x)])
      BY <1>1, <1>2, <1>5
    <3>2. i = n + 1 <=> j = n + 1
      BY <1>5, <2>1, <2>3, <3>1
    <3>3. i # n + 1 /\ j # n + 1 => old(i) = old(j)
      <4> HIDE DEF old
      <4> QED BY <2>2, <2>3, <3>1
    <3> QED BY <1>1, <1>2, <3>2, <3>3
  <2> QED BY <1>4, <2>3 DEF Once
<1> QED BY <1>4, <1>6, <1>7, <1>8, <1>9, ElemsEmpty DEF r

(* list_remove_head(): the first waiter leaves.                             *)
LEMMA ElemsTail ==
  ASSUME NEW S, NEW q \in Seq(S), q # <<>>, Once(q)
  PROVE  /\ Tail(q) \in Seq(S) /\ Head(q) \in S /\ Once(Tail(q))
         /\ Head(q) \in Elems(q)
         /\ Elems(Tail(q)) = Elems(q) \ {Head(q)}
<1>1. /\ Len(q) \in Nat \ {0} /\ DOMAIN q = 1 .. Len(q) /\ Head(q) = q[1]
      /\ Tail(q) \in Seq(S) /\ Len(Tail(q)) = Len(q) - 1
      /\ DOMAIN Tail(q) = 1 .. Len(q) - 1
      /\ \A i \in 1 .. Len(q) - 1 : Tail(q)[i] = q[i + 1]
  BY HeadTailProperties, LenProperties, EmptySeq
<1>2. \A i, j \in 1 .. Len(q) : q[i] = q[j] => i = j
  BY <1>1 DEF Once
<1> DEFINE r == Tail(q)
           n == Len(q)
<1> HIDE DEF r, n
<1>3. Once(r)
  BY <1>1, <1>2 DEF Once, r, n
<1>4. Elems(r) \subseteq Elems(q) \ {Head(q)}
  BY <1>1, <1>2 DEF Elems, r, n
<1>5. ASSUME NEW x \in Elems(q) \ {Head(q)} PROVE x \in Elems(r)
  <2>1. PICK i \in 1 .. n : q[i] = x
    BY <1>1, <1>5 DEF Elems, n
  <2>2. i # 1 /\ n \in Nat
    BY <1>1, <1>5, <2>1 DEF n
  <2>3. i - 1 \in 1 .. n - 1 /\ (i - 1) + 1 = i
    BY <2>1, <2>2
  <2>4. r[i - 1] = x
    BY <1>1, <2>1, <2>3 DEF r, n
  <2> QED BY <1>1, <2>3, <2>4 DEF Elems, r, n
<1>6. Head(q) \in S /\ Head(q) \in Elems(q)
  BY <1>1 DEF Elems
<1> QED BY <1>1, <1>3, <1>4, <1>5, <1>6 DEF r

(* A list that holds each thread once has as many threads as entries.        *)
LEMMA CountOnce ==
  ASSUME NEW S, NEW q \in Seq(S), Once(q)
  PROVE  IsFiniteSet(Elems(q)) /\ Cardinality(Elems(q)) = Len(q)
<1> DEFINE n == Len(q)
<1>1. n \in Nat /\ DOMAIN q = 1 .. n /\ q \in [1 .. n -> Elems(q)]
  BY LenProperties DEF Elems
<1>2. IsFiniteSet(1 .. n) /\ Cardinality(1 .. n) = n
  BY <1>1, PlacesCount
<1>3. q \in Surjection(1 .. n, Elems(q))
  BY <1>1 DEF Elems, Surjection
<1>4. q \in Injection(1 .. n, Elems(q))
  BY <1>1 DEF Once, Injection, IsInjective
<1> HIDE DEF n
<1>5. IsFiniteSet(Elems(q)) /\ Cardinality(Elems(q)) = Cardinality(1 .. n)
  BY <1>2, <1>3, <1>4, FS_Surjection
<1> QED BY <1>2, <1>5 DEF n

-----------------------------------------------------------------------------
(* Runqueues                                                                *)

(* _runqueue_push() of a thread that is on no runqueue.                     *)
LEMMA PushType ==
  ASSUME NEW k \in KernelType, NEW t \in Threads, NEW p \in Prios
  PROVE  RunqueuePush(k, t, p) \in KernelType
<1>1. Append(k.runq[p], t) \in Seq(Threads)
  BY ElemsAppend DEF KernelType
<1> QED BY <1>1 DEF KernelType, RunqueuePush

(* _runqueue_pop() keeps every field in its type.                           *)
LEMMA PopType ==
  ASSUME NEW k \in KernelType, NEW t \in Threads, RunqueueOK(k)
  PROVE  RunqueuePop(k, t) \in KernelType
<1>1. Unlink(k.runq[k.prio[t]], t) \in Seq(Threads)
  BY ElemsUnlink DEF KernelType, RunqueueOK
<1> QED BY <1>1 DEF KernelType, RunqueuePop

(* sched_set_status() keeps runqueues, statuses and bit cache consistent.   *)
LEMMA SetStatusOK ==
  ASSUME NEW k \in KernelType, NEW t \in Threads, NEW s \in Status, RunqueueOK(k)
  PROVE  /\ SetStatus(k, t, s) \in KernelType
         /\ RunqueueOK(SetStatus(k, t, s))
         /\ SetStatus(k, t, s).status = [k.status EXCEPT ![t] = s]
         /\ SetStatus(k, t, s).prio = k.prio
         /\ SetStatus(k, t, s).active = k.active
         /\ SetStatus(k, t, s).idle = k.idle
<1> DEFINE p == k.prio[t]
           n == SetStatus(k, t, s)
<1>1. /\ p \in Prios /\ k.runq[p] \in Seq(Threads) /\ Once(k.runq[p])
      /\ Elems(k.runq[p]) = {u \in Threads : IsActive(k, u) /\ k.prio[u] = p}
      /\ k.prio[t] = p
  BY DEF KernelType, RunqueueOK
<1>2. CASE s \in OnRunqueue /\ ~IsActive(k, t)
  <2> DEFINE q == Append(k.runq[p], t)
  <2>1. n = [k EXCEPT !.runq[p] = q, !.bitcache = @ \cup {p}, !.status[t] = s]
    BY <1>2 DEF SetStatus, RunqueuePush, KernelType
  <2>2. /\ q \in Seq(Threads) /\ Elems(q) = Elems(k.runq[p]) \cup {t}
        /\ Once(q) /\ q # <<>>
    BY <1>1, <1>2, ElemsAppend, AppendProperties
  <2> HIDE DEF q, n, p
  <2>3. n \in KernelType
    BY <2>1, <2>2, <1>1 DEF KernelType
  <2>4. /\ n.status = [k.status EXCEPT ![t] = s]
        /\ n.runq = [k.runq EXCEPT ![p] = q] /\ n.bitcache = k.bitcache \cup {p}
        /\ n.prio = k.prio /\ n.active = k.active /\ n.idle = k.idle
    BY <2>1, <2>2, <1>1 DEF KernelType
  <2>5. RunqueueOK(n)
    <3>1. ASSUME NEW r \in Prios
          PROVE  /\ Elems(n.runq[r]) = {u \in Threads : IsActive(n, u) /\ n.prio[u] = r}
                 /\ Once(n.runq[r])
      BY <2>2, <2>4, <1>1, <1>2 DEF RunqueueOK, KernelType, IsActive
    <3>2. n.bitcache = {r \in Prios : n.runq[r] # <<>>}
      BY <2>2, <2>4, <1>1 DEF RunqueueOK, KernelType
    <3> QED BY <3>1, <3>2 DEF RunqueueOK
  <2> QED BY <2>3, <2>4, <2>5 DEF n
<1>3. CASE s \notin OnRunqueue /\ IsActive(k, t)
  <2> DEFINE q == Unlink(k.runq[p], t)
             b == IF q = <<>> THEN k.bitcache \ {p} ELSE k.bitcache
  <2>1. n = [k EXCEPT !.runq[p] = q, !.bitcache = b, !.status[t] = s]
    BY <1>3 DEF SetStatus, RunqueuePop, KernelType
  <2>2. q \in Seq(Threads) /\ Elems(q) = Elems(k.runq[p]) \ {t} /\ Once(q)
    BY <1>1, ElemsUnlink
  <2>3. b \in SUBSET Prios /\ b = IF q = <<>> THEN k.bitcache \ {p} ELSE k.bitcache
    BY DEF KernelType
  <2> HIDE DEF q, n, p, b
  <2>4. n \in KernelType
    BY <2>1, <2>2, <2>3, <1>1 DEF KernelType
  <2>5. /\ n.status = [k.status EXCEPT ![t] = s]
        /\ n.runq = [k.runq EXCEPT ![p] = q] /\ n.bitcache = b
        /\ n.prio = k.prio /\ n.active = k.active /\ n.idle = k.idle
    BY <2>1, <2>2, <2>3, <1>1 DEF KernelType
  <2>6. k.runq[p] # <<>>
    BY <1>1, <1>3, ElemsEmpty
  <2>7. RunqueueOK(n)
    <3>1. ASSUME NEW r \in Prios
          PROVE  /\ Elems(n.runq[r]) = {u \in Threads : IsActive(n, u) /\ n.prio[u] = r}
                 /\ Once(n.runq[r])
      BY <2>2, <2>5, <1>1, <1>3 DEF RunqueueOK, KernelType, IsActive
    <3>2. n.bitcache = {r \in Prios : n.runq[r] # <<>>}
      BY <2>2, <2>3, <2>5, <2>6, <1>1 DEF RunqueueOK, KernelType
    <3> QED BY <3>1, <3>2 DEF RunqueueOK
  <2> QED BY <2>4, <2>5, <2>7 DEF n
<1>4. CASE (s \in OnRunqueue) = IsActive(k, t)
  <2>1. n = [k EXCEPT !.status[t] = s]
    <3>1. ~(s \in OnRunqueue /\ ~IsActive(k, t)) /\ ~(s \notin OnRunqueue /\ IsActive(k, t))
      BY <1>4
    <3> QED BY <3>1 DEF SetStatus
  <2> HIDE DEF n, p
  <2>2. n \in KernelType /\ n.status = [k.status EXCEPT ![t] = s]
        /\ n.runq = k.runq /\ n.bitcache = k.bitcache
        /\ n.prio = k.prio /\ n.active = k.active /\ n.idle = k.idle
    BY <2>1 DEF KernelType
  <2>3. RunqueueOK(n)
    BY <2>2, <1>4 DEF RunqueueOK, KernelType, IsActive
  <2> QED BY <2>2, <2>3 DEF n
<1> QED BY <1>2, <1>3, <1>4 DEF IsActive

(* sched_set_status() to another status than STATUS_RUNNING.                *)
LEMMA SetStatusInv ==
  ASSUME NEW k, KernelInv(k), NEW t \in Threads, NEW s \in Status \ {"RUNNING"}
  PROVE  KernelInv(SetStatus(k, t, s))
<1> DEFINE n == SetStatus(k, t, s)
<1>1. /\ n \in KernelType /\ RunqueueOK(n) /\ n.status = [k.status EXCEPT ![t] = s]
      /\ n.active = k.active /\ n.idle = k.idle
  BY SetStatusOK DEF KernelInv
<1> HIDE DEF n
<1>2. OneRunning(n)
  BY <1>1 DEF KernelInv, KernelType, OneRunning
<1> QED BY <1>1, <1>2 DEF KernelInv, n

(* A change of the other fields: a pended PendSV, a requested switch.       *)
LEMMA FrameInv ==
  ASSUME NEW k, KernelInv(k), NEW n \in KernelType,
         n.status = k.status, n.prio = k.prio, n.runq = k.runq,
         n.bitcache = k.bitcache, n.active = k.active, n.idle = k.idle
  PROVE  KernelInv(n)
BY DEF KernelInv, RunqueueOK, OneRunning, IsActive

(* thread_yield_higher() pends PendSV and leaves the runqueues alone.       *)
LEMMA YieldHigherInv ==
  ASSUME NEW k, KernelInv(k)
  PROVE  KernelInv(YieldHigher(k))
<1>1. YieldHigher(k) \in KernelType
  BY DEF KernelInv, KernelType, YieldHigher
<1> QED BY <1>1, FrameInv DEF KernelInv, KernelType, YieldHigher

(* sched_switch() and cortexm_isr_end() request a switch and no more.       *)
LEMMA SwitchInv ==
  ASSUME NEW k, KernelInv(k), NEW test \in BOOLEAN
  PROVE  KernelInv(ThreadSwitch(k, test)) /\ KernelInv(IsrSwitch(k, test))
<1> DEFINE r == [k EXCEPT !.csr = TRUE]
<1>1. r \in KernelType
  BY DEF KernelInv, KernelType
<1>2. KernelInv(r)
  BY <1>1, FrameInv DEF KernelInv, KernelType
<1>3. KernelInv(YieldHigher(r)) /\ KernelInv(YieldHigher(k))
  BY <1>2, YieldHigherInv
<1> QED BY <1>2, <1>3 DEF ThreadSwitch, IsrSwitch, IsrEnd

(* sched_runq_advance() and thread_yield() keep every runqueue's threads.   *)
LEMMA AdvanceInv ==
  ASSUME NEW k, KernelInv(k), NEW p \in Prios
  PROVE  KernelInv(RunqAdvance(k, p))
<1> DEFINE q == Rotate(k.runq[p])
           n == RunqAdvance(k, p)
<1>1. /\ k \in KernelType /\ RunqueueOK(k) /\ OneRunning(k)
      /\ k.runq[p] \in Seq(Threads) /\ Once(k.runq[p])
  BY DEF KernelInv, KernelType, RunqueueOK
<1>2. q \in Seq(Threads) /\ Elems(q) = Elems(k.runq[p]) /\ Once(q)
  BY <1>1, ElemsRotate
<1>3. q = <<>> <=> k.runq[p] = <<>>
  BY <1>1, <1>2, ElemsEmpty
<1>4. n = [k EXCEPT !.runq[p] = q]
  BY DEF RunqAdvance
<1> HIDE DEF q, n
<1>5. n \in KernelType
  BY <1>1, <1>2, <1>4 DEF KernelType
<1>6. /\ n.runq = [k.runq EXCEPT ![p] = q] /\ n.status = k.status
      /\ n.prio = k.prio /\ n.bitcache = k.bitcache
      /\ n.active = k.active /\ n.idle = k.idle
  BY <1>1, <1>4 DEF KernelType
<1>7. RunqueueOK(n)
  BY <1>1, <1>2, <1>3, <1>6 DEF RunqueueOK, KernelType, IsActive
<1>8. OneRunning(n)
  BY <1>1, <1>6 DEF OneRunning
<1> QED BY <1>5, <1>7, <1>8 DEF KernelInv, n

(* thread_yield(): the active thread's runqueue is rotated at most.         *)
LEMMA YieldRotateInv ==
  ASSUME NEW k, KernelInv(k), k.active \in Threads
  PROVE  KernelInv(YieldRotate(k))
<1>1. k.prio[k.active] \in Prios
  BY DEF KernelInv, KernelType
<1> QED BY <1>1, AdvanceInv DEF YieldRotate

-----------------------------------------------------------------------------
(* sched_run()                                                              *)

(* runqueue_bitcache has a lowest bit whenever a bit of it is set.          *)
LEMMA SetMinimum ==
  ASSUME NEW S \in SUBSET Nat, S # {}
  PROVE  \E m \in S : \A n \in S : m <= n
<1>1. PICK m \in S : \A n \in S : <<n, m>> \notin OpToRel(<, Nat)
  BY WFMin, NatLessThanWellFounded, Zenon
<1>2. \A n \in S : ~ (n < m)
  BY <1>1, Zenon DEF OpToRel
<1> QED BY <1>2

(* thread_add_to_list(): the threads before the new one have its priority   *)
(* or a higher one, and the next one has a lower priority.                  *)
Sorted(s, q) == \A i, j \in DOMAIN q : i < j => s.prio[q[i]] <= s.prio[q[j]]

LEMMA AddPlace ==
  ASSUME NEW s, NEW q \in Seq(Threads), NEW t \in Threads
  PROVE  \E n \in 0 .. Len(q) :
           /\ AddToList(s, q, t) = [j \in 1 .. Len(q) + 1 |->
                IF j <= n THEN q[j] ELSE IF j = n + 1 THEN t ELSE q[j - 1]]
           /\ \A j \in 1 .. n : s.prio[q[j]] <= s.prio[t]
           /\ n < Len(q) => ~(s.prio[q[n + 1]] <= s.prio[t])
<1> DEFINE L == Len(q)
           Above(i) == s.prio[q[i]] <= s.prio[t]
           I == {i \in DOMAIN q : \A j \in 1 .. i : Above(j)}
           C == {i \in 1 .. L + 1 : i = L + 1 \/ ~Above(i)}
<1>1. L \in Nat /\ DOMAIN q = 1 .. L
  BY LenProperties
<1>2. C \in SUBSET Nat /\ L + 1 \in C
  BY <1>1
<1>3. PICK c \in C : \A i \in C : c <= i
  <2> HIDE DEF C
  <2> QED BY <1>2, SetMinimum
<1>4. c \in 1 .. L + 1 /\ (c = L + 1 \/ ~Above(c)) /\ \A i \in 1 .. c - 1 : Above(i)
  BY <1>1, <1>3
<1> DEFINE n == c - 1
<1>5. n \in 0 .. L /\ n + 1 = c
  BY <1>1, <1>4
<1> HIDE DEF Above, C
<1>6. I = 1 .. n
  <2>1. ASSUME NEW i \in 1 .. n
        PROVE  i \in I
    <3>1. i \in 1 .. L /\ \A j \in 1 .. i : j \in 1 .. n
      BY <1>1, <1>4
    <3> QED BY <1>1, <1>4, <3>1
  <2>2. ASSUME NEW i \in I
        PROVE  i \in 1 .. n
    <3>1. i \in 1 .. L /\ \A j \in 1 .. i : Above(j)
      BY <1>1
    <3>2. ~(c <= i)
      BY <1>1, <1>4, <3>1
    <3> QED BY <1>1, <1>4, <3>1, <3>2
  <2> QED BY <2>1, <2>2
<1>7. Cardinality(I) = n
  <2>1. n \in Nat
    BY <1>1, <1>5
  <2> HIDE DEF n, I
  <2>2. Cardinality(1 .. n) = n
    BY <2>1, PlacesCount
  <2> QED BY <1>6, <2>2
<1>8. AddToList(s, q, t) = [j \in 1 .. L + 1 |->
         IF j <= Cardinality(I) THEN q[j] ELSE IF j = Cardinality(I) + 1 THEN t ELSE q[j - 1]]
  BY DEF AddToList, Above
<1> HIDE DEF I
<1>9. AddToList(s, q, t) = [j \in 1 .. L + 1 |->
         IF j <= n THEN q[j] ELSE IF j = n + 1 THEN t ELSE q[j - 1]]
  BY <1>7, <1>8
<1>10. (\A j \in 1 .. n : Above(j)) /\ (n < L => ~Above(n + 1))
  BY <1>1, <1>4, <1>5
<1> QED BY <1>5, <1>9, <1>10 DEF Above

(* A list in the order of the priorities stays in it.                       *)
LEMMA AddSorted ==
  ASSUME NEW s, s.prio \in [Threads -> Prios], NEW q \in Seq(Threads), Sorted(s, q),
         NEW t \in Threads
  PROVE  Sorted(s, AddToList(s, q, t))
<1> DEFINE L == Len(q)
           p == s.prio
<1>1. L \in Nat /\ DOMAIN q = 1 .. L /\ \A i \in 1 .. L : q[i] \in Threads
  BY LenProperties
<1>2. p[t] \in Nat /\ \A i \in 1 .. L : p[q[i]] \in Nat
  BY <1>1, KernelAssumption DEF Prios
<1>3. \A i, j \in 1 .. L : i < j => p[q[i]] <= p[q[j]]
  BY <1>1 DEF Sorted
<1>4. PICK n \in 0 .. L :
        /\ AddToList(s, q, t) = [j \in 1 .. L + 1 |->
             IF j <= n THEN q[j] ELSE IF j = n + 1 THEN t ELSE q[j - 1]]
        /\ \A j \in 1 .. n : p[q[j]] <= p[t]
        /\ n < L => ~(p[q[n + 1]] <= p[t])
  BY AddPlace
<1> DEFINE r == AddToList(s, q, t)
<1>5. DOMAIN r = 1 .. L + 1 /\ \A j \in 1 .. L + 1 :
        r[j] = IF j <= n THEN q[j] ELSE IF j = n + 1 THEN t ELSE q[j - 1]
  BY <1>4
<1> HIDE DEF L, p, r
<1>6. \A j \in n + 1 .. L : p[t] <= p[q[j]]
  <2> TAKE j \in n + 1 .. L
  <2>1. n < L /\ n + 1 \in 1 .. L /\ j \in 1 .. L /\ (n + 1 < j \/ n + 1 = j)
    BY <1>1, <1>4
  <2>2. p[t] < p[q[n + 1]]
    BY <1>2, <1>4, <2>1
  <2>3. p[q[n + 1]] <= p[q[j]]
    BY <1>2, <1>3, <2>1
  <2> QED BY <1>2, <2>1, <2>2, <2>3
<1>7. ASSUME NEW i \in 1 .. L + 1, NEW j \in 1 .. L + 1, i < j
      PROVE  p[r[i]] <= p[r[j]]
  <2>1. CASE j <= n
    <3>1. r[i] = q[i] /\ r[j] = q[j] /\ i \in 1 .. L /\ j \in 1 .. L
      BY <1>1, <1>5, <1>7, <2>1
    <3> QED BY <1>3, <1>7, <3>1
  <2>2. CASE j = n + 1
    <3>1. r[i] = q[i] /\ r[j] = t /\ i \in 1 .. n
      BY <1>1, <1>5, <1>7, <2>2
    <3> QED BY <1>4, <3>1 DEF p
  <2>3. CASE j > n + 1
    <3>1. r[j] = q[j - 1] /\ j - 1 \in 1 .. L /\ j - 1 \in n + 1 .. L
      BY <1>1, <1>5, <1>7, <2>3
    <3>2. CASE i <= n
      <4>1. r[i] = q[i] /\ i \in 1 .. L /\ i < j - 1
        BY <1>1, <1>5, <1>7, <2>3, <3>2
      <4> QED BY <1>3, <3>1, <4>1
    <3>3. CASE i = n + 1
      <4>1. r[i] = t
        BY <1>1, <1>5, <3>3
      <4> QED BY <1>6, <3>1, <4>1
    <3>4. CASE i > n + 1
      <4>1. r[i] = q[i - 1] /\ i - 1 \in 1 .. L /\ i - 1 < j - 1
        BY <1>1, <1>5, <1>7, <3>4
      <4> QED BY <1>3, <3>1, <4>1
    <3> QED BY <1>1, <3>2, <3>3, <3>4
  <2> QED BY <1>1, <2>1, <2>2, <2>3
<1> QED BY <1>5, <1>7 DEF Sorted, r, p

(* The thread sched_run() chooses is ready and none of a higher priority is: *)
(* the lowest bit of the cache is that of the highest priority with a ready *)
(* thread, and the head of its runqueue is such a thread.                   *)
LEMMA NextThreadHighest ==
  ASSUME NEW k, KernelInv(k), k.bitcache # {}
  PROVE  /\ NextThread(k) \in Threads
         /\ IsActive(k, NextThread(k))
         /\ \A u \in Threads : IsActive(k, u) => k.prio[NextThread(k)] <= k.prio[u]
         /\ Head(k.runq[k.prio[NextThread(k)]]) = NextThread(k)
<1> DEFINE m == CHOOSE p \in k.bitcache : \A q \in k.bitcache : p <= q
           n == Head(k.runq[m])
<1>1. /\ k \in KernelType /\ RunqueueOK(k)
      /\ k.bitcache \in SUBSET Prios /\ Prios \in SUBSET Nat
  BY KernelAssumption DEF KernelInv, KernelType, Prios
<1>2. \E p \in k.bitcache : \A q \in k.bitcache : p <= q
  BY <1>1, SetMinimum
<1>3. m \in k.bitcache /\ \A q \in k.bitcache : m <= q
  BY <1>2
<1>4. NextThread(k) = n
  BY DEF NextThread
<1> HIDE DEF m
<1>5. m \in Prios /\ k.runq[m] \in Seq(Threads) /\ k.runq[m] # <<>>
  BY <1>1, <1>3 DEF KernelType, RunqueueOK
<1>6. n \in Elems(k.runq[m])
  <2>1. n = k.runq[m][1] /\ 1 \in DOMAIN k.runq[m]
    BY <1>5
  <2> QED BY <2>1 DEF Elems
<1>7. n \in Threads /\ IsActive(k, n) /\ k.prio[n] = m
  BY <1>1, <1>5, <1>6 DEF RunqueueOK
<1>8. ASSUME NEW u \in Threads, IsActive(k, u)
      PROVE  m <= k.prio[u]
  <2>1. k.prio[u] \in Prios /\ u \in Elems(k.runq[k.prio[u]])
    BY <1>1, <1>8 DEF KernelType, RunqueueOK
  <2>2. k.runq[k.prio[u]] # <<>>
    BY <2>1 DEF Elems
  <2> QED BY <1>1, <1>3, <2>1, <2>2 DEF RunqueueOK
<1> QED BY <1>4, <1>7, <1>8

(* sched_run() from its choice on: `out` is the one thread that may still   *)
(* have STATUS_RUNNING.                                                     *)
LEMMA DispatchInv ==
  ASSUME NEW k \in KernelType, RunqueueOK(k), k.bitcache # {},
         NEW out \in Threads \cup {NoThread},
         \A t \in Threads : k.status[t] = "RUNNING" => t = out,
         NextThread(k) \in Threads, IsActive(k, NextThread(k))
  PROVE  KernelInv(Dispatch(k, out))
<1> DEFINE next == NextThread(k)
           chosen == [k.status EXCEPT ![next] = "RUNNING"]
           s == IF out \in Threads \ {next} /\ chosen[out] = "RUNNING"
                THEN [chosen EXCEPT ![out] = "PENDING"] ELSE chosen
           n == Dispatch(k, out)
<1>1. /\ next \in Threads /\ k.status[next] \in OnRunqueue
      /\ k.status \in [Threads -> Status]
  BY DEF KernelType, IsActive
<1>2. NoThread \notin Threads
  BY KernelAssumption
<1>3. n = [k EXCEPT !.status = s, !.active = next, !.csr = FALSE, !.idle = FALSE]
  <2>1. CASE out \in {NoThread, next}
    BY <2>1, <1>2 DEF Dispatch, KernelType
  <2>2. CASE out \in Threads \ {next}
    BY <2>2, <1>2 DEF Dispatch, Unschedule, KernelType
  <2> QED BY <2>1, <2>2
<1>4. /\ s \in [Threads -> Status] /\ s[next] = "RUNNING"
      /\ \A t \in Threads : s[t] \in OnRunqueue <=> k.status[t] \in OnRunqueue
      /\ \A t \in Threads : s[t] = "RUNNING" => t = next
  BY <1>1 DEF Status, OnRunqueue
<1> HIDE DEF s, n, next
<1>5. n \in KernelType
  BY <1>1, <1>3, <1>4 DEF KernelType
<1>6. /\ n.status = s /\ n.prio = k.prio /\ n.runq = k.runq
      /\ n.bitcache = k.bitcache /\ n.active = next /\ n.idle = FALSE
  BY <1>3 DEF KernelType
<1>7. RunqueueOK(n)
  BY <1>4, <1>6 DEF RunqueueOK, IsActive
<1>8. OneRunning(n)
  BY <1>4, <1>6 DEF OneRunning
<1> QED BY <1>5, <1>7, <1>8 DEF KernelInv, n

(* sched_run(), whether it finds a ready thread or enters its idle loop.    *)
LEMMA SchedRunInv ==
  ASSUME NEW k, KernelInv(k)
  PROVE  KernelInv(SchedRun(k))
<1> DEFINE e == [k EXCEPT !.pendsv = FALSE]
<1>1. /\ e \in KernelType /\ e.status = k.status /\ e.prio = k.prio
      /\ e.runq = k.runq /\ e.bitcache = k.bitcache
      /\ e.active = k.active /\ e.idle = k.idle
  BY DEF KernelInv, KernelType
<1>2. KernelInv(e)
  BY <1>1, FrameInv
<1> HIDE DEF e
<1>3. CASE k.bitcache # {}
  <2>1. NextThread(e) \in Threads /\ IsActive(e, NextThread(e))
    BY <1>1, <1>2, <1>3, NextThreadHighest
  <2>2. /\ RunqueueOK(e) /\ e.active \in Threads \cup {NoThread}
        /\ \A t \in Threads : e.status[t] = "RUNNING" => t = e.active
    BY <1>1, <1>2 DEF KernelInv, OneRunning, KernelType
  <2>3. KernelInv(Dispatch(e, e.active))
    BY <1>1, <1>3, <2>1, <2>2, DispatchInv
  <2>4. SchedRun(k) = Dispatch(e, e.active)
    BY <1>1, <1>3 DEF SchedRun, e
  <2> QED BY <2>3, <2>4
<1>4. CASE k.bitcache = {}
  <2> DEFINE n == SchedRun(k)
  <2>1. \A t \in Threads : ~IsActive(e, t)
    <3> SUFFICES ASSUME NEW t \in Threads, IsActive(e, t) PROVE FALSE
      OBVIOUS
    <3>1. e.prio[t] \in Prios /\ t \in Elems(e.runq[e.prio[t]])
      BY <1>1, <1>2 DEF KernelInv, KernelType, RunqueueOK
    <3>2. e.runq[e.prio[t]] # <<>>
      BY <3>1 DEF Elems
    <3> QED BY <1>1, <1>2, <1>4, <3>1, <3>2 DEF KernelInv, RunqueueOK
  <2>2. \A t \in Threads : e.status[t] # "RUNNING"
    BY <2>1 DEF IsActive, OnRunqueue
  <2>3. n = [e EXCEPT !.idle = TRUE]
    <3>1. k.active # NoThread => Unschedule(e, k.active) = e
      BY <1>1, <2>2 DEF Unschedule, KernelType
    <3> QED BY <1>4, <3>1 DEF SchedRun, e
  <2> HIDE DEF n
  <2>4. n \in KernelType
    BY <1>1, <2>3 DEF KernelType
  <2>5. /\ n.status = e.status /\ n.prio = e.prio /\ n.runq = e.runq
        /\ n.bitcache = e.bitcache
    BY <1>1, <2>3 DEF KernelType
  <2>6. RunqueueOK(n)
    BY <1>2, <2>5 DEF KernelInv, RunqueueOK, IsActive
  <2>7. OneRunning(n)
    BY <2>2, <2>5 DEF OneRunning
  <2> QED BY <2>4, <2>6, <2>7 DEF KernelInv, n
<1> QED BY <1>3, <1>4

(* The end of the idle loop, when an interrupt has made a thread ready.     *)
LEMMA IdleReturnInv ==
  ASSUME NEW k, KernelInv(k), k.idle, k.bitcache # {}
  PROVE  KernelInv(IdleReturn(k))
<1>1. NextThread(k) \in Threads /\ IsActive(k, NextThread(k))
  BY NextThreadHighest
<1>2. \A t \in Threads : k.status[t] # "RUNNING"
  BY DEF KernelInv, OneRunning
<1> QED BY <1>1, <1>2, DispatchInv DEF KernelInv, IdleReturn

-----------------------------------------------------------------------------
(* sched_change_priority()                                                  *)

(* A thread that is on no runqueue may get another priority.                *)
LEMMA PrioInv ==
  ASSUME NEW k, KernelInv(k), NEW t \in Threads, NEW p \in Prios, ~IsActive(k, t)
  PROVE  KernelInv([k EXCEPT !.prio[t] = p])
<1> DEFINE n == [k EXCEPT !.prio[t] = p]
<1>1. /\ n \in KernelType /\ n.status = k.status /\ n.prio = [k.prio EXCEPT ![t] = p]
      /\ n.runq = k.runq /\ n.bitcache = k.bitcache
      /\ n.active = k.active /\ n.idle = k.idle
  BY DEF KernelInv, KernelType
<1> HIDE DEF n
<1>2. RunqueueOK(n)
  BY <1>1 DEF KernelInv, KernelType, RunqueueOK, IsActive
<1> QED BY <1>1, <1>2 DEF KernelInv, OneRunning, n

(* A ready thread moves from the runqueue of its old priority to the tail of *)
(* that of the new one, also when the two are the same.                     *)
LEMMA ReprioritizeInv ==
  ASSUME NEW k, KernelInv(k), NEW t \in Threads, NEW p \in Prios
  PROVE  KernelInv(Reprioritize(k, t, p))
<1>1. CASE ~IsActive(k, t)
  BY <1>1, PrioInv DEF Reprioritize
<1>2. CASE IsActive(k, t)
  <2> DEFINE o == k.prio[t]
             q == Unlink(k.runq[o], t)
             b == IF q = <<>> THEN k.bitcache \ {o} ELSE k.bitcache
             m == RunqueuePop(k, t)
             r == Append(m.runq[p], t)
             n == Reprioritize(k, t, p)
  <2>1. /\ k \in KernelType /\ RunqueueOK(k) /\ OneRunning(k)
        /\ o \in Prios /\ o = k.prio[t]
        /\ k.runq[o] \in Seq(Threads) /\ Once(k.runq[o])
        /\ Elems(k.runq[o]) = {u \in Threads : IsActive(k, u) /\ k.prio[u] = o}
    BY DEF KernelInv, KernelType, RunqueueOK
  <2>2. /\ q \in Seq(Threads) /\ Once(q) /\ Elems(q) = Elems(k.runq[o]) \ {t}
        /\ q = <<>> <=> Elems(q) = {}
        /\ b \in SUBSET Prios /\ b = IF q = <<>> THEN k.bitcache \ {o} ELSE k.bitcache
    BY <2>1, ElemsUnlink, ElemsEmpty DEF KernelType
  <2>3. m = [k EXCEPT !.runq[o] = q, !.bitcache = b]
    BY <2>1 DEF RunqueuePop, KernelType
  <2>4. n = [m EXCEPT !.runq[p] = r, !.bitcache = @ \cup {p}, !.prio[t] = p]
    BY <1>2 DEF Reprioritize, RunqueuePush
  <2> HIDE DEF o, q, b, m, n
  <2>5. m \in KernelType
    BY <2>1, <2>2, <2>3 DEF KernelType
  <2>6. /\ m.status = k.status /\ m.prio = k.prio /\ m.runq = [k.runq EXCEPT ![o] = q]
        /\ m.bitcache = b /\ m.active = k.active /\ m.idle = k.idle
    BY <2>1, <2>3 DEF KernelType
  <2>7. \A x \in Prios :
          /\ m.runq[x] \in Seq(Threads) /\ Once(m.runq[x])
          /\ Elems(m.runq[x]) = {u \in Threads \ {t} : IsActive(k, u) /\ k.prio[u] = x}
    BY <2>1, <2>2, <2>6 DEF RunqueueOK, KernelType
  <2>8. m.bitcache = {x \in Prios : m.runq[x] # <<>>}
    <3>1. k.runq[o] # <<>> /\ k.runq \in [Prios -> Seq(Threads)]
      BY <1>2, <2>1, ElemsEmpty DEF KernelType
    <3>2. k.bitcache = {x \in Prios : k.runq[x] # <<>>}
      BY <2>1 DEF RunqueueOK
    <3>3. \A x \in Prios : m.runq[x] = IF x = o THEN q ELSE k.runq[x]
      BY <2>6, <3>1
    <3> QED BY <2>1, <2>2, <2>6, <3>1, <3>2, <3>3
  <2>9. /\ r \in Seq(Threads) /\ Once(r) /\ r # <<>>
        /\ Elems(r) = Elems(m.runq[p]) \cup {t}
    BY <2>7, ElemsAppend, AppendProperties
  <2> HIDE DEF r
  <2>10. n \in KernelType
    BY <2>4, <2>5, <2>9 DEF KernelType
  <2>11. /\ n.status = k.status /\ n.prio = [k.prio EXCEPT ![t] = p]
         /\ n.runq = [m.runq EXCEPT ![p] = r] /\ n.bitcache = m.bitcache \cup {p}
         /\ n.active = k.active /\ n.idle = k.idle
    BY <2>4, <2>5, <2>6, <2>9 DEF KernelType
  <2>12. RunqueueOK(n)
    <3>1. ASSUME NEW x \in Prios
          PROVE  /\ Elems(n.runq[x]) = {u \in Threads : IsActive(n, u) /\ n.prio[u] = x}
                 /\ Once(n.runq[x])
      <4>1. n.runq[x] = IF x = p THEN r ELSE m.runq[x]
        BY <2>5, <2>11 DEF KernelType
      <4>2. \A u \in Threads : n.prio[u] = IF u = t THEN p ELSE k.prio[u]
        BY <2>1, <2>11 DEF KernelType
      <4> QED BY <1>2, <2>7, <2>9, <2>11, <4>1, <4>2 DEF IsActive
    <3>2. n.bitcache = {x \in Prios : n.runq[x] # <<>>}
      BY <2>5, <2>8, <2>9, <2>11 DEF KernelType
    <3> QED BY <3>1, <3>2 DEF RunqueueOK
  <2>13. OneRunning(n)
    BY <2>1, <2>11 DEF OneRunning
  <2> QED BY <2>10, <2>12, <2>13 DEF KernelInv, n
<1> QED BY <1>1, <1>2

(* sched_change_priority() called with interrupts disabled, as a whole.     *)
LEMMA ChangePriorityInv ==
  ASSUME NEW k, KernelInv(k), NEW t \in Threads, NEW p \in Prios
  PROVE  KernelInv(ChangePriority(k, t, p))
BY ReprioritizeInv, YieldHigherInv DEF ChangePriority

-----------------------------------------------------------------------------
(* What the operators do to the fields that say which thread executes.      *)

(* sched_set_status() touches neither sched_active_thread nor PendSV.       *)
LEMMA SetStatusEffect ==
  ASSUME NEW k, KernelInv(k), NEW t \in Threads, NEW s \in Status
  PROVE  /\ SetStatus(k, t, s).status = [k.status EXCEPT ![t] = s]
         /\ SetStatus(k, t, s).active = k.active
         /\ SetStatus(k, t, s).idle = k.idle
         /\ SetStatus(k, t, s).pendsv = k.pendsv
<1>1. SetStatus(k, t, s).pendsv = k.pendsv
  <2>1. CASE s \in OnRunqueue /\ ~IsActive(k, t)
    BY <2>1 DEF SetStatus, RunqueuePush, KernelInv, KernelType
  <2>2. CASE s \notin OnRunqueue /\ IsActive(k, t)
    BY <2>2 DEF SetStatus, RunqueuePop, KernelInv, KernelType
  <2>3. CASE (s \in OnRunqueue) = IsActive(k, t)
    <3>1. /\ ~(s \in OnRunqueue /\ ~IsActive(k, t))
          /\ ~(s \notin OnRunqueue /\ IsActive(k, t))
      BY <2>3
    <3> QED BY <3>1 DEF SetStatus, KernelInv, KernelType
  <2> QED BY <2>1, <2>2, <2>3 DEF IsActive
<1> QED BY <1>1, SetStatusOK DEF KernelInv

(* sched_change_priority() changes no status; it may pend PendSV.           *)
LEMMA ChangePriorityEffect ==
  ASSUME NEW k, KernelInv(k), NEW t \in Threads, NEW p \in Prios
  PROVE  /\ Reprioritize(k, t, p).status = k.status
         /\ Reprioritize(k, t, p).active = k.active
         /\ Reprioritize(k, t, p).idle = k.idle
         /\ Reprioritize(k, t, p).pendsv = k.pendsv
         /\ ChangePriority(k, t, p).status = k.status
         /\ ChangePriority(k, t, p).active = k.active
         /\ ChangePriority(k, t, p).idle = k.idle
         /\ k.pendsv => ChangePriority(k, t, p).pendsv
<1> DEFINE n == Reprioritize(k, t, p)
<1>1. n.status = k.status /\ n.active = k.active /\ n.idle = k.idle /\ n.pendsv = k.pendsv
  BY DEF Reprioritize, RunqueuePush, RunqueuePop, KernelInv, KernelType
<1>2. n \in KernelType
  BY ReprioritizeInv DEF KernelInv
<1> HIDE DEF n
<1>3. /\ YieldHigher(n).status = n.status /\ YieldHigher(n).active = n.active
      /\ YieldHigher(n).idle = n.idle /\ YieldHigher(n).pendsv
  BY <1>2 DEF YieldHigher, KernelType
<1>4. ChangePriority(k, t, p) \in {k, n, YieldHigher(n)}
  BY DEF ChangePriority, n
<1> QED BY <1>1, <1>3, <1>4 DEF n

(* thread_yield() changes no status; thread_yield_higher() pends PendSV.    *)
LEMMA YieldEffect ==
  ASSUME NEW k, KernelInv(k)
  PROVE  /\ YieldHigher(k).status = k.status
         /\ YieldHigher(k).active = k.active
         /\ YieldHigher(k).idle = k.idle
         /\ YieldHigher(k).pendsv
         /\ YieldRotate(k).status = k.status
         /\ YieldRotate(k).active = k.active
         /\ YieldRotate(k).idle = k.idle
         /\ YieldRotate(k).pendsv = k.pendsv
BY DEF YieldHigher, YieldRotate, RunqAdvance, KernelInv, KernelType

(* sched_switch() at most pends PendSV.                                     *)
LEMMA SwitchEffect ==
  ASSUME NEW k, KernelInv(k), NEW test \in BOOLEAN,
         NEW n \in {ThreadSwitch(k, test), IsrSwitch(k, test)}
  PROVE  /\ n.status = k.status
         /\ n.active = k.active
         /\ n.idle = k.idle
         /\ k.pendsv => n.pendsv
BY DEF ThreadSwitch, IsrSwitch, IsrEnd, YieldHigher, KernelInv, KernelType

(* After sched_run() the active thread is ready, unless it is in the idle   *)
(* loop; it readies and retires no thread.                                  *)
LEMMA DispatchEffect ==
  ASSUME NEW k, KernelInv(k), k.bitcache # {}, NEW out \in Threads \cup {NoThread}
  PROVE  /\ \A t \in Threads : Dispatch(k, out).status[t] \in OnRunqueue
                                 <=> k.status[t] \in OnRunqueue
         /\ \A t \in Threads : Dispatch(k, out).status[t] \notin OnRunqueue
                                 => Dispatch(k, out).status[t] = k.status[t]
         /\ Dispatch(k, out).active \in Threads
         /\ k.status[Dispatch(k, out).active] \in OnRunqueue
<1> DEFINE next == NextThread(k)
           c == [k EXCEPT !.status[next] = "RUNNING"]
           u == IF out \in {NoThread, next} THEN c ELSE Unschedule(c, out)
<1>1. next \in Threads /\ k.status[next] \in OnRunqueue /\ k.status \in [Threads -> Status]
  BY NextThreadHighest DEF IsActive, KernelInv, KernelType
<1>2. c.status = [k.status EXCEPT ![next] = "RUNNING"] /\ c \in KernelType
  BY <1>1 DEF KernelInv, KernelType, Status, OnRunqueue
<1> HIDE DEF next, c
<1>3. /\ u.status = c.status \/ /\ out \in Threads /\ c.status[out] = "RUNNING"
                                /\ u.status = [c.status EXCEPT ![out] = "PENDING"]
      /\ u \in KernelType
  <2>1. CASE out \in {NoThread, next} \/ c.status[out] # "RUNNING"
    BY <2>1, <1>2 DEF Unschedule
  <2>2. CASE out \in Threads /\ out # next /\ c.status[out] = "RUNNING"
    <3>1. u = [c EXCEPT !.status[out] = "PENDING"]
      BY <2>2, KernelAssumption DEF Unschedule
    <3>2. [c.status EXCEPT ![out] = "PENDING"] \in [Threads -> Status]
      BY <1>2, <2>2 DEF KernelType, Status, OnRunqueue
    <3> HIDE DEF u
    <3> QED BY <2>2, <3>1, <3>2, <1>2 DEF KernelType
  <2> QED BY <2>1, <2>2
<1>4. Dispatch(k, out) = [u EXCEPT !.active = next, !.csr = FALSE, !.idle = FALSE]
  BY DEF Dispatch, next, c
<1> HIDE DEF u
<1>5. /\ Dispatch(k, out).active = next
      /\ Dispatch(k, out).status = u.status
  BY <1>2, <1>3, <1>4 DEF KernelType
<1> QED BY <1>1, <1>2, <1>3, <1>5 DEF OnRunqueue

(* The same of sched_run(), which may enter the idle loop instead.          *)
LEMMA SchedRunEffect ==
  ASSUME NEW k, KernelInv(k)
  PROVE  /\ \A t \in Threads : SchedRun(k).status[t] \in OnRunqueue
                                 <=> k.status[t] \in OnRunqueue
         /\ \A t \in Threads : SchedRun(k).status[t] \notin OnRunqueue
                                 => SchedRun(k).status[t] = k.status[t]
         /\ SchedRun(k).idle \/ /\ SchedRun(k).active \in Threads
                                /\ k.status[SchedRun(k).active] \in OnRunqueue
<1> DEFINE e == [k EXCEPT !.pendsv = FALSE]
<1>1. /\ e \in KernelType /\ e.status = k.status /\ e.prio = k.prio
      /\ e.runq = k.runq /\ e.bitcache = k.bitcache
      /\ e.active = k.active /\ e.idle = k.idle
  BY DEF KernelInv, KernelType
<1>2. KernelInv(e)
  BY <1>1, FrameInv
<1> HIDE DEF e
<1>3. CASE k.bitcache # {}
  <2>1. SchedRun(k) = Dispatch(e, e.active)
    BY <1>1, <1>3 DEF SchedRun, e
  <2>2. e.active \in Threads \cup {NoThread}
    BY <1>1 DEF KernelType
  <2> QED BY <1>1, <1>2, <1>3, <2>1, <2>2, DispatchEffect
<1>4. CASE k.bitcache = {}
  <2> DEFINE u == IF k.active = NoThread THEN e ELSE Unschedule(e, k.active)
  <2>1. SchedRun(k) = [u EXCEPT !.idle = TRUE]
    BY <1>4 DEF SchedRun, e
  <2>2. \/ u = e
        \/ /\ k.active \in Threads /\ e.status[k.active] = "RUNNING"
           /\ u = [e EXCEPT !.status[k.active] = "PENDING"]
    BY <1>1 DEF Unschedule, KernelType, KernelInv
  <2> HIDE DEF u
  <2>3. /\ SchedRun(k).idle /\ SchedRun(k).status = u.status
    BY <1>1, <2>1, <2>2 DEF KernelType
  <2>4. \/ u.status = k.status
        \/ /\ k.active \in Threads /\ k.status[k.active] = "RUNNING"
           /\ u.status = [k.status EXCEPT ![k.active] = "PENDING"]
    <3>1. CASE u = e
      BY <1>1, <3>1
    <3>2. CASE /\ k.active \in Threads /\ e.status[k.active] = "RUNNING"
               /\ u = [e EXCEPT !.status[k.active] = "PENDING"]
      <4>1. u.status = [e.status EXCEPT ![k.active] = "PENDING"]
        BY <1>1, <3>2 DEF KernelType
      <4> QED BY <1>1, <3>2, <4>1
    <3> QED BY <2>2, <3>1, <3>2
  <2> QED BY <1>1, <2>3, <2>4 DEF KernelType, OnRunqueue
<1> QED BY <1>3, <1>4

-----------------------------------------------------------------------------
(* The start of the kernel                                                *)

(* An order of a finite set of threads is a list of them, each of them once. *)
LEMMA OrdersAre ==
  ASSUME IsFiniteSet(Threads), NEW S \in SUBSET Threads, NEW q \in Orders(S)
  PROVE  q \in Seq(Threads) /\ Elems(q) = S /\ Once(q)
<1> DEFINE n == Cardinality(S)
<1>1. IsFiniteSet(S) /\ n \in Nat
  BY FS_Subset, FS_CardinalityType
<1>2. q \in [1 .. n -> S] /\ Elems(q) = S
  BY DEF Orders
<1>3. q \in Seq(Threads)
  BY <1>1, <1>2, IsASeq
<1>4. q \in Surjection(1 .. n, S)
  BY <1>2 DEF Elems, Surjection
<1>5. IsFiniteSet(1 .. n) /\ Cardinality(1 .. n) = n
  BY <1>1, PlacesCount
<1>6. q \in Injection(1 .. n, S)
  BY <1>4, <1>5, FS_Surjection
<1>7. Once(q)
  BY <1>2, <1>6 DEF Once, Injection, IsInjective
<1> QED BY <1>2, <1>3, <1>7

(* kernel_init() leaves the scheduler's data consistent.                    *)
LEMMA StartOK ==
  ASSUME IsFiniteSet(Threads), NEW prio \in [Threads -> Prios],
         NEW ready \in SUBSET Threads, NEW s \in StartStates(prio, ready)
  PROVE  /\ KernelInv(s) /\ s.active = NoThread
         /\ \A t \in Threads : s.status[t] \in {"PENDING", "SLEEPING"}
<1> DEFINE Of(p) == {t \in ready : prio[t] = p}
           status == [t \in Threads |-> IF t \in ready THEN "PENDING" ELSE "SLEEPING"]
<1>1. PICK r \in [Prios -> UNION {Orders(Of(p)) : p \in Prios}] :
        /\ \A p \in Prios : r[p] \in Orders(Of(p))
        /\ s = [status |-> status, prio |-> prio, runq |-> r,
                bitcache |-> {p \in Prios : r[p] # <<>>}, active |-> NoThread,
                csr |-> FALSE, pendsv |-> TRUE, idle |-> FALSE]
  BY DEF StartStates
<1>2. \A p \in Prios : Of(p) \in SUBSET Threads
  OBVIOUS
<1> HIDE DEF Of
<1>3. \A p \in Prios : r[p] \in Seq(Threads) /\ Elems(r[p]) = Of(p) /\ Once(r[p])
  BY <1>1, <1>2, OrdersAre
<1>4. r \in [Prios -> Seq(Threads)]
  BY <1>1, <1>3
<1>5. status \in [Threads -> Status]
  BY DEF Status, OnRunqueue, Blocked
<1>7. \A t \in Threads : status[t] = IF t \in ready THEN "PENDING" ELSE "SLEEPING"
  OBVIOUS
<1> HIDE DEF status
<1>8. s \in KernelType
  BY <1>1, <1>4, <1>5 DEF KernelType
<1>9. RunqueueOK(s)
  <2>1. \A p \in Prios : Of(p) = {t \in Threads : IsActive(s, t) /\ s.prio[t] = p}
    BY <1>1, <1>7 DEF IsActive, OnRunqueue, Of
  <2> QED BY <1>1, <1>3, <2>1 DEF RunqueueOK
<1>10. OneRunning(s)
  BY <1>1, <1>7 DEF OneRunning
<1> QED BY <1>1, <1>7, <1>8, <1>9, <1>10 DEF KernelInv
=============================================================================
