----------------------------- MODULE MsgProofs -----------------------------
(***************************************************************************)
(* Theorems of module Msg, for every number of threads and priorities,      *)
(* every size of the message queues and every set of links: the lists of    *)
(* senders and the runqueues stay consistent, a blocked receiver has missed *)
(* nothing, a request is answered once and by its own reply, and the        *)
(* messages of two partners are a FIFO channel.                             *)
(***************************************************************************)
EXTENDS Msg, KernelProofs

(* The places of msg_receive() after it blocked, and of msg_send_receive()  *)
(* until it has its reply.                                                  *)
ReceivePlaces == {Simple("received"), [at |-> "yield", next |-> "received"]}
AskPlaces == {Simple("replied")} \cup [at : {"yield", "queued"}, next : {"replied"}]

Receives(t) == pc[t] \in ReceivePlaces
Asks(t) == pc[t] \in AskPlaces

(* The message m may be on its way to r.                                    *)
Carried(m, r) == m \in Message /\ <<m.from, r>> \in Pairs /\ m.kind # "reply"

(* The inductive invariant. The lists of senders: each blocked sender is in *)
(* one, once, and its message is its own.                                   *)
Lists ==
  /\ \A r \in Threads : Once(waiters[r])
  /\ \A r, u \in Threads, t \in Threads :
       t \in Elems(waiters[r]) /\ t \in Elems(waiters[u]) => r = u
  /\ \A r, t \in Threads : t \in Elems(waiters[r]) =>
       /\ k.status[t] \in {"SEND_BLOCKED", "REPLY_BLOCKED"}
       /\ Carried(buf[t], r) /\ buf[t].from = t
       /\ buf[t].kind = "request" <=> Asks(t)
       /\ ~Receives(t)
  /\ \A t \in Threads :
       k.status[t] = "SEND_BLOCKED" => \E r \in Threads : t \in Elems(waiters[r])

(* Senders wait only for a thread whose queue is full.                      *)
Queues ==
  \A r \in Threads : /\ Len(queue[r]) <= Capacity[r]
                     /\ waiters[r] # <<>> => Len(queue[r]) = Capacity[r]
                     /\ \A i \in DOMAIN queue[r] : Carried(queue[r][i], r)

(* A receiver is blocked until it is given a message, and then it is ready. *)
Receivers ==
  \A r \in Threads :
    /\ Receives(r) => \/ /\ k.status[r] = "RECEIVE_BLOCKED" /\ buf[r] = NoMsg
                         /\ queue[r] = <<>> /\ waiters[r] = <<>>
                      \/ IsActive(k, r) /\ Carried(buf[r], r)
    /\ k.status[r] = "RECEIVE_BLOCKED" => Receives(r)
    /\ pc[r].at = "queued" => pc[r].next # "received"

(* A thread that executes is in no list and is ready, unless it is about to *)
(* yield. After a request to a thread that does not exist its status stays  *)
(* STATUS_REPLY_BLOCKED.                                                    *)
AtWork ==
  \A t \in Threads :
    Executes(k, t) /\ pc[t].at # "yield" =>
      /\ \A r \in Threads : t \notin Elems(waiters[r])
      /\ \/ IsActive(k, t)
         \/ k.status[t] = "REPLY_BLOCKED" /\ pc[t].at \in {"run", "queued", "switch"}

(* The request m is pending at r: at a place of its queue, as the message   *)
(* it was given (0), with a sender in its list (-1), or received and not    *)
(* answered (-2).                                                           *)
Pending(x, m, r) ==
  /\ m.kind = "request"
  /\ \/ x \in DOMAIN queue[r] /\ m = queue[r][x]
     \/ x = 0 /\ Receives(r) /\ buf[r] # NoMsg /\ m = buf[r]
     \/ x = -1 /\ m.from \in Elems(waiters[r]) /\ m = buf[m.from]
     \/ x = -2 /\ m \in todo[r]

(* The sender of a pending request waits for the reply to it.               *)
AskedFor(m, r) ==
  /\ m.from \in Threads /\ <<m.from, r>> \in Pairs
  /\ Asks(m.from) /\ k.status[m.from] = "REPLY_BLOCKED"
  /\ sent[<<m.from, r>>] = m.n

Requests ==
  /\ \A r \in Threads, x \in Int, m \in Message : Pending(x, m, r) => AskedFor(m, r)
  /\ \A r \in Threads, m \in Message : m \in todo[r] => m.kind = "request"

(* A thread has one pending request at most, at one place.                  *)
OneRequest ==
  \A r, u \in Threads, x, y \in Int, m, n \in Message :
    Pending(x, m, r) /\ Pending(y, n, u) /\ m.from = n.from => r = u /\ x = y /\ m = n

(* A thread that asked and does not wait any more has its reply.            *)
HasReply(t) ==
  /\ buf[t] \in Message /\ buf[t].kind = "reply" /\ <<t, buf[t].from>> \in Pairs
  /\ sent[<<t, buf[t].from>>] = buf[t].n

Answered ==
  \A t \in Threads :
    Asks(t) => k.status[t] = "REPLY_BLOCKED" \/ (IsActive(k, t) /\ HasReply(t))

MsgInv == /\ TypeOK /\ KernelInv(k)
          /\ Lists /\ Queues /\ Receivers /\ AtWork
          /\ Requests /\ OneRequest /\ Answered

-----------------------------------------------------------------------------
(* Places and the scheduler                                                 *)

(* The places of a call that waits.                                         *)
LEMMA PlaceFacts ==
  /\ \A g \in Goals :
       /\ Simple(g) \in Places /\ Simple(g).at = g
       /\ Simple(g) \in ReceivePlaces <=> g = "received"
       /\ Simple(g) \in AskPlaces <=> g = "replied"
       /\ [at |-> "yield", next |-> g] \in Places
       /\ [at |-> "yield", next |-> g].at = "yield"
       /\ [at |-> "yield", next |-> g] \in ReceivePlaces <=> g = "received"
       /\ [at |-> "yield", next |-> g] \in AskPlaces <=> g = "replied"
       /\ [at |-> "queued", next |-> g] \in Places
       /\ [at |-> "queued", next |-> g].at = "queued"
       /\ [at |-> "queued", next |-> g] \notin ReceivePlaces
       /\ [at |-> "queued", next |-> g] \in AskPlaces <=> g = "replied"
  /\ \A p \in Prios :
       /\ [at |-> "switch", prio |-> p] \in Places
       /\ [at |-> "switch", prio |-> p].at = "switch"
       /\ [at |-> "switch", prio |-> p] \notin ReceivePlaces
       /\ [at |-> "switch", prio |-> p] \notin AskPlaces
<1>1. ASSUME NEW g \in Goals
      PROVE  /\ Simple(g) \in Places /\ Simple(g).at = g
             /\ Simple(g) \in ReceivePlaces <=> g = "received"
             /\ Simple(g) \in AskPlaces <=> g = "replied"
  BY DEF Places, Goals, ReceivePlaces, AskPlaces, Simple
<1>2. ASSUME NEW g \in Goals
      PROVE  /\ [at |-> "yield", next |-> g] \in Places
             /\ [at |-> "yield", next |-> g].at = "yield"
             /\ [at |-> "yield", next |-> g] \in ReceivePlaces <=> g = "received"
             /\ [at |-> "yield", next |-> g] \in AskPlaces <=> g = "replied"
  BY DEF Places, Goals, ReceivePlaces, AskPlaces, Simple
<1>3. ASSUME NEW g \in Goals
      PROVE  /\ [at |-> "queued", next |-> g] \in Places
             /\ [at |-> "queued", next |-> g].at = "queued"
             /\ [at |-> "queued", next |-> g] \notin ReceivePlaces
             /\ [at |-> "queued", next |-> g] \in AskPlaces <=> g = "replied"
  BY DEF Places, Goals, ReceivePlaces, AskPlaces, Simple
<1>4. ASSUME NEW p \in Prios
      PROVE  /\ [at |-> "switch", prio |-> p] \in Places
             /\ [at |-> "switch", prio |-> p].at = "switch"
             /\ [at |-> "switch", prio |-> p] \notin ReceivePlaces
             /\ [at |-> "switch", prio |-> p] \notin AskPlaces
  BY DEF Places, ReceivePlaces, AskPlaces, Simple
<1> QED BY <1>1, <1>2, <1>3, <1>4

(* Where a thread is tells whether it receives or asks.                     *)
LEMMA PlaceForms ==
  ASSUME NEW p \in Places
  PROVE  /\ p.at \in {"run", "switch"} => p \notin ReceivePlaces /\ p \notin AskPlaces
         /\ p.at = "received" => p = Simple("received")
         /\ p.at = "replied" => p = Simple("replied")
         /\ p.at \in {"yield", "queued"} =>
              p.next \in Goals /\ p = [at |-> p.at, next |-> p.next]
BY DEF Places, Goals, ReceivePlaces, AskPlaces, Simple

(* A thread moves to another place of its calls.                            *)
LEMMA GoEffect ==
  ASSUME TypeOK, NEW t \in Threads, NEW p \in Places, Go(t, p)
  PROVE  /\ pc' \in [Threads -> Places] /\ pc'[t] = p
         /\ Receives(t)' <=> p \in ReceivePlaces
         /\ Asks(t)' <=> p \in AskPlaces
         /\ \A u \in Threads : u # t => /\ pc'[u] = pc[u]
                                        /\ Receives(u)' <=> Receives(u)
                                        /\ Asks(u)' <=> Asks(u)
BY DEF TypeOK, Go, Receives, Asks

(* No thread moves.                                                         *)
LEMMA StayEffect ==
  ASSUME TypeOK, UNCHANGED pc
  PROVE  /\ pc' \in [Threads -> Places]
         /\ \A u \in Threads : /\ pc'[u] = pc[u]
                               /\ Receives(u)' <=> Receives(u)
                               /\ Asks(u)' <=> Asks(u)
BY DEF TypeOK, Receives, Asks

(* The types of the kernel state that the steps below use.                  *)
LEMMA KernelTypes ==
  ASSUME KernelInv(k)
  PROVE  /\ k.status \in [Threads -> Status] /\ k.prio \in [Threads -> Prios]
         /\ k.active \in Threads \cup {NoThread}
         /\ {"SEND_BLOCKED", "REPLY_BLOCKED", "RECEIVE_BLOCKED", "PENDING"}
              \subseteq Status \ {"RUNNING"}
         /\ OnRunqueue = {"RUNNING", "PENDING"}
BY DEF KernelInv, KernelType, Status, Blocked, OnRunqueue

(* The statuses that core/msg.c sets.                                       *)
SetHere == {"SEND_BLOCKED", "REPLY_BLOCKED", "RECEIVE_BLOCKED", "PENDING"}

(* A status is set in a thread: which threads execute does not change.      *)
LEMMA SetEffect ==
  ASSUME NEW s, KernelInv(s), NEW t \in Threads,
         NEW x \in SetHere
  PROVE  /\ KernelInv(SetStatus(s, t, x))
         /\ \A u \in Threads :
              SetStatus(s, t, x).status[u] = IF u = t THEN x ELSE s.status[u]
         /\ \A u \in Threads : Executes(SetStatus(s, t, x), u) <=> Executes(s, u)
<1> DEFINE n == SetStatus(s, t, x)
<1>1. x \in Status \ {"RUNNING"} /\ s.status \in [Threads -> Status]
  BY DEF SetHere, KernelInv, KernelType, Status, Blocked, OnRunqueue
<1>2. /\ KernelInv(n) /\ n.status = [s.status EXCEPT ![t] = x]
      /\ n.active = s.active /\ n.idle = s.idle /\ n.pendsv = s.pendsv
  BY <1>1, SetStatusInv, SetStatusEffect
<1> HIDE DEF n
<1>3. /\ \A u \in Threads : n.status[u] = IF u = t THEN x ELSE s.status[u]
      /\ \A u \in Threads : Executes(n, u) <=> Executes(s, u)
  BY <1>1, <1>2 DEF Executes
<1> QED BY <1>2, <1>3 DEF n

(* The sched_context_switch_request of a handler and its end.               *)
LEMMA RequestEffect ==
  ASSUME NEW s, KernelInv(s), NEW n, n = Request(s)
  PROVE  /\ KernelInv(n) /\ n.status = s.status
         /\ \A u \in Threads : Executes(n, u) => Executes(s, u)
<1>1. s = [s EXCEPT !.csr = s.csr] /\ n = IsrSwitch(s, TRUE)
  BY DEF Request, IsrSwitch, KernelInv, KernelType
<1>2. /\ KernelInv(n) /\ n.status = s.status /\ n.active = s.active
      /\ n.idle = s.idle
      /\ s.pendsv => n.pendsv
  BY <1>1, SwitchInv, SwitchEffect
<1> QED BY <1>2 DEF Executes

-----------------------------------------------------------------------------
(* Steps of the scheduler                                                   *)

(* Only threads that wait for no message change their status.               *)
SameWaits ==
  \A t \in Threads :
    /\ \A s \in {"SEND_BLOCKED", "REPLY_BLOCKED", "RECEIVE_BLOCKED"} :
         k'.status[t] = s <=> k.status[t] = s
    /\ IsActive(k, t) => IsActive(k', t)

SamePlaces ==
  \A t \in Threads : /\ Receives(t)' <=> Receives(t)
                     /\ Asks(t)' <=> Asks(t)
                     /\ pc'[t].at = "queued" => pc'[t] = pc[t]

(* A step of the scheduler alone.                                           *)
LEMMA FrameKeeps ==
  ASSUME MsgInv, KernelInv(k'), SameWaits, SamePlaces, AtWork',
         pc' \in [Threads -> Places], UNCHANGED data
  PROVE  MsgInv'
<1>1. UNCHANGED <<queue, waiters, buf, todo, sent, got>>
  BY DEF data
<1>2. TypeOK'
  BY <1>1 DEF MsgInv, TypeOK, KernelInv
<1>3. Lists'
  BY <1>1 DEF MsgInv, Lists, Carried, SameWaits, SamePlaces
<1>4. Queues'
  BY <1>1 DEF MsgInv, Queues, Carried
<1>5. Receivers'
  BY <1>1 DEF MsgInv, Receivers, Carried, SameWaits, SamePlaces
<1>6. \A r \in Threads, x \in Int, m \in Message :
        /\ Pending(x, m, r)' <=> Pending(x, m, r)
        /\ AskedFor(m, r)' <=> AskedFor(m, r)
  BY <1>1 DEF Pending, AskedFor, SameWaits, SamePlaces
<1>7. Requests' /\ OneRequest'
  BY <1>1, <1>6 DEF MsgInv, Requests, OneRequest
<1>8. Answered'
  BY <1>1 DEF MsgInv, Answered, HasReply, SameWaits, SamePlaces
<1> QED BY <1>2, <1>3, <1>4, <1>5, <1>7, <1>8 DEF MsgInv

(* The members of a list are threads.                                       *)
LEMMA ListMembers ==
  ASSUME TypeOK, NEW r \in Threads
  PROVE  /\ waiters[r] \in Seq(Threads) /\ Elems(waiters[r]) \subseteq Threads
         /\ waiters[r] = <<>> => Elems(waiters[r]) = {}
         /\ queue[r] \in Seq(Message) /\ DOMAIN queue[r] = 1 .. Len(queue[r])
         /\ Len(queue[r]) \in Nat
BY DEF TypeOK, Elems

(* A ready thread waits in no list, and neither does one with               *)
(* STATUS_RECEIVE_BLOCKED.                                                  *)
LEMMA ReadyWaitsNowhere ==
  ASSUME Lists, NEW t \in Threads,
         k.status[t] \notin {"SEND_BLOCKED", "REPLY_BLOCKED"}
  PROVE  \A r \in Threads : t \notin Elems(waiters[r])
BY DEF Lists

(* sched_run(), and the end of its idle loop.                               *)
LEMMA ProcessorKeeps ==
  ASSUME MsgInv, PendSV \/ EndIdle
  PROVE  MsgInv'
<1>1. KernelInv(k) /\ TypeOK /\ Lists /\ UNCHANGED data /\ UNCHANGED pc
  BY DEF MsgInv, PendSV, EndIdle
<1>2. /\ KernelInv(k')
      /\ \A t \in Threads : k'.status[t] \in OnRunqueue <=> k.status[t] \in OnRunqueue
      /\ \A t \in Threads : k'.status[t] \notin OnRunqueue => k'.status[t] = k.status[t]
      /\ k'.idle \/ (k'.active \in Threads /\ k.status[k'.active] \in OnRunqueue)
  <2>1. CASE PendSV
    BY <1>1, <2>1, SchedRunInv, SchedRunEffect DEF PendSV
  <2>2. CASE EndIdle
    BY <1>1, <2>2, IdleReturnInv, DispatchEffect DEF EndIdle, IdleReturn
  <2> QED BY <2>1, <2>2
<1>3. SameWaits
  BY <1>2 DEF SameWaits, IsActive, OnRunqueue
<1>4. pc' \in [Threads -> Places] /\ SamePlaces
  BY <1>1, StayEffect DEF SamePlaces
<1>5. AtWork'
  <2> SUFFICES ASSUME NEW t \in Threads, Executes(k', t)
               PROVE  /\ \A r \in Threads : t \notin Elems(waiters'[r])
                      /\ IsActive(k', t)
    BY DEF AtWork
  <2>1. k.status[t] \in OnRunqueue /\ k'.status[t] \in OnRunqueue
    BY <1>2 DEF Executes
  <2>2. \A r \in Threads : t \notin Elems(waiters[r])
    BY <1>1, <2>1, ReadyWaitsNowhere DEF OnRunqueue
  <2> QED BY <1>1, <2>1, <2>2 DEF IsActive, data
<1> QED BY <1>1, <1>2, <1>3, <1>4, <1>5, FrameKeeps

(* thread_yield_higher() after the critical section of a call.              *)
LEMMA DoYieldKeeps ==
  ASSUME MsgInv, NEW t \in Threads, DoYield(t)
  PROVE  MsgInv' /\ SamePlaces
<1> DEFINE g == pc[t].next
<1>1. /\ KernelInv(k) /\ TypeOK /\ pc[t].at = "yield" /\ pc[t] \in Places
      /\ k' = YieldHigher(k) /\ Go(t, Simple(g)) /\ UNCHANGED data
  BY DEF MsgInv, TypeOK, DoYield, At
<1>2. g \in Goals /\ pc[t] = [at |-> "yield", next |-> g]
  BY <1>1, PlaceForms
<1> HIDE DEF g
<1>3. pc' \in [Threads -> Places] /\ SamePlaces
  <2>1. Simple(g) \in Places /\ Simple(g).at # "queued"
    BY <1>2, PlaceFacts DEF Goals
  <2>2. /\ Simple(g) \in ReceivePlaces <=> Receives(t)
        /\ Simple(g) \in AskPlaces <=> Asks(t)
    <3> DEFINE y == [at |-> "yield", next |-> g]
    <3>1. /\ Simple(g) \in ReceivePlaces <=> y \in ReceivePlaces
          /\ Simple(g) \in AskPlaces <=> y \in AskPlaces
      BY <1>2, PlaceFacts
    <3>2. pc[t] = y
      BY <1>2
    <3> HIDE DEF y
    <3> QED BY <3>1, <3>2 DEF Receives, Asks
  <2> QED BY <1>1, <2>1, <2>2, GoEffect DEF SamePlaces
<1>4. KernelInv(k') /\ k'.status = k.status /\ k'.pendsv
  BY <1>1, YieldHigherInv, YieldEffect
<1>5. SameWaits /\ AtWork'
  BY <1>4 DEF SameWaits, AtWork, Executes, IsActive
<1> QED BY <1>1, <1>3, <1>4, <1>5, FrameKeeps

(* sched_switch() after msg_reply() or _msg_receive().                      *)
LEMMA DoSwitchKeeps ==
  ASSUME MsgInv, NEW t \in Threads, DoSwitch(t)
  PROVE  MsgInv' /\ SamePlaces
<1>1. /\ KernelInv(k) /\ TypeOK /\ AtWork /\ Executes(k, t) /\ pc[t].at = "switch"
      /\ pc[t] \in Places /\ Go(t, Simple("run")) /\ UNCHANGED data
  BY DEF MsgInv, TypeOK, DoSwitch, At
<1>2. "run" \in Goals
  BY DEF Goals
<1>3. pc' \in [Threads -> Places] /\ SamePlaces /\ pc'[t].at = "run"
  <2>1. Simple("run") \in Places /\ Simple("run").at = "run"
    BY <1>2, PlaceFacts
  <2>2. Simple("run") \notin ReceivePlaces /\ Simple("run") \notin AskPlaces
    BY <1>2, PlaceFacts
  <2>3. ~Receives(t) /\ ~Asks(t)
    BY <1>1, PlaceForms DEF Receives, Asks
  <2> QED BY <1>1, <2>1, <2>2, <2>3, GoEffect DEF SamePlaces
<1>4. \E test \in BOOLEAN : k' = ThreadSwitch(k, test)
  BY DEF DoSwitch, SwitchTests
<1>5. /\ KernelInv(k') /\ k'.status = k.status /\ k'.active = k.active
      /\ k'.idle = k.idle
      /\ k.pendsv => k'.pendsv
  BY <1>1, <1>4, SwitchInv, SwitchEffect
<1>6. SameWaits
  BY <1>5 DEF SameWaits, IsActive
<1>7. AtWork'
  <2>1. \A u \in Threads : Executes(k', u) => Executes(k, u)
    BY <1>5 DEF Executes
  <2>2. \A u \in Threads : Executes(k, u) => u = t
    BY <1>1 DEF Executes
  <2> QED BY <1>1, <1>3, <1>5, <2>1, <2>2 DEF AtWork, IsActive, data
<1> QED BY <1>1, <1>3, <1>5, <1>6, <1>7, FrameKeeps

(* The end of a send that was queued.                                       *)
LEMMA QueuedKeeps ==
  ASSUME MsgInv, NEW t \in Threads, Queued(t)
  PROVE  MsgInv' /\ SamePlaces
<1> DEFINE g == pc[t].next
           p == IF k.status[t] = "REPLY_BLOCKED" THEN [at |-> "yield", next |-> g]
                                                 ELSE Simple(g)
<1>1. /\ KernelInv(k) /\ TypeOK /\ AtWork /\ Executes(k, t) /\ pc[t].at = "queued"
      /\ pc[t] \in Places /\ k' = k /\ UNCHANGED data
      /\ Go(t, IF k.status[t] = "REPLY_BLOCKED" THEN [pc[t] EXCEPT !.at = "yield"]
                                                ELSE Simple(g))
  BY DEF MsgInv, TypeOK, Queued, At
<1>2. g \in Goals /\ pc[t] = [at |-> "queued", next |-> g]
  BY <1>1, PlaceForms
<1> HIDE DEF g
<1>3. [pc[t] EXCEPT !.at = "yield"] = [at |-> "yield", next |-> g]
  BY <1>2
<1>4. Go(t, p)
  BY <1>1, <1>3
<1>5. g # "received"
  BY <1>1, <1>2 DEF MsgInv, Receivers
<1>6. /\ p \in Places /\ p.at # "queued" /\ p \notin ReceivePlaces
      /\ p \in AskPlaces <=> g = "replied"
      /\ p.at # "yield" => k.status[t] # "REPLY_BLOCKED"
  BY <1>2, <1>5, PlaceFacts DEF Goals
<1>7. ~Receives(t) /\ (Asks(t) <=> g = "replied")
  <2> DEFINE y == [at |-> "queued", next |-> g]
  <2>1. y \notin ReceivePlaces /\ (y \in AskPlaces <=> g = "replied")
    BY <1>2, PlaceFacts
  <2>2. pc[t] = y
    BY <1>2
  <2> HIDE DEF y
  <2> QED BY <2>1, <2>2 DEF Receives, Asks
<1> HIDE DEF p
<1>8. pc' \in [Threads -> Places] /\ SamePlaces
  BY <1>1, <1>4, <1>6, <1>7, GoEffect DEF SamePlaces
<1>9. SameWaits
  BY <1>1 DEF SameWaits
<1>10. AtWork'
  <2>1. \A u \in Threads : Executes(k', u) => u = t
    BY <1>1 DEF Executes
  <2>2. pc'[t] = p
    BY <1>1, <1>4, <1>6, GoEffect
  <2>3. k.status[t] # "REPLY_BLOCKED" => IsActive(k, t)
    BY <1>1 DEF AtWork
  <2>4. \A r \in Threads : t \notin Elems(waiters[r])
    BY <1>1 DEF AtWork
  <2> QED BY <1>1, <1>6, <2>1, <2>2, <2>3, <2>4 DEF AtWork, data
<1> QED BY <1>1, <1>8, <1>9, <1>10, FrameKeeps

(* thread_wakeup() of a thread that has not started.                        *)
LEMMA IsrStartKeeps ==
  ASSUME MsgInv, NEW t \in Threads, IsrStart(t)
  PROVE  MsgInv'
<1> DEFINE n == SetStatus(k, t, "PENDING")
<1>1. /\ KernelInv(k) /\ TypeOK /\ AtWork /\ k.status[t] = "SLEEPING"
      /\ UNCHANGED data /\ UNCHANGED pc
  BY DEF MsgInv, IsrStart
<1>2. \E test \in BOOLEAN : k' = IsrSwitch(n, test)
  BY DEF IsrStart, SwitchTests
<1>3. /\ KernelInv(n)
      /\ \A u \in Threads : n.status[u] = IF u = t THEN "PENDING" ELSE k.status[u]
      /\ \A u \in Threads : Executes(n, u) <=> Executes(k, u)
  <2>1. KernelInv(k) /\ "PENDING" \in SetHere
    BY <1>1 DEF SetHere
  <2> QED BY <2>1, SetEffect
<1> HIDE DEF n
<1>4. /\ KernelInv(k') /\ k'.status = n.status /\ k'.active = n.active
      /\ k'.idle = n.idle
      /\ n.pendsv => k'.pendsv
  BY <1>2, <1>3, SwitchInv, SwitchEffect
<1>5. SameWaits
  BY <1>1, <1>3, <1>4 DEF SameWaits, IsActive, OnRunqueue
<1>6. pc' \in [Threads -> Places] /\ SamePlaces /\ \A u \in Threads : pc'[u] = pc[u]
  BY <1>1, StayEffect DEF SamePlaces
<1>7. AtWork'
  <2>1. \A u \in Threads : Executes(k', u) => Executes(k, u)
    BY <1>3, <1>4 DEF Executes
  <2> QED BY <1>1, <1>5, <1>6, <2>1 DEF AtWork, SameWaits, data
<1> QED BY <1>1, <1>4, <1>5, <1>6, <1>7, FrameKeeps

-----------------------------------------------------------------------------
(* Requests on their way                                                    *)

(* A step that moves the pending requests of a receiver, and ends some.     *)
LEMMA RequestsMove ==
  ASSUME Requests, OneRequest,
         \A r \in Threads, x \in Int, m \in Message :
           Pending(x, m, r)' => \E y \in Int : Pending(y, m, r),
         \A r \in Threads, x \in Int, m \in Message :
           Pending(x, m, r)' /\ AskedFor(m, r) => AskedFor(m, r)',
         \A r \in Threads, x, y \in Int, m \in Message :
           Pending(x, m, r)' /\ Pending(y, m, r)' => x = y,
         \A r \in Threads, m \in Message : m \in todo'[r] => m.kind = "request"
  PROVE  Requests' /\ OneRequest'
<1>1. Requests'
  BY DEF Requests
<1>2. OneRequest'
  BY DEF OneRequest
<1> QED BY <1>1, <1>2

(* A step that leaves the requests that are pending where they are.         *)
LEMMA RequestsKeep ==
  ASSUME Requests, OneRequest,
         \A r \in Threads, x \in Int, m \in Message :
           Pending(x, m, r)' => Pending(x, m, r),
         \A r \in Threads, x \in Int, m \in Message :
           Pending(x, m, r)' /\ AskedFor(m, r) => AskedFor(m, r)',
         \A r \in Threads : todo'[r] \subseteq todo[r]
  PROVE  Requests' /\ OneRequest'
<1>1. Requests'
  BY DEF Requests
<1>2. OneRequest'
  BY DEF OneRequest
<1> QED BY <1>1, <1>2

(* A step that adds the request of a thread that had none.                  *)
LEMMA RequestsJoin ==
  ASSUME Requests, OneRequest, NEW t \in Threads, NEW r \in Threads,
         NEW x \in Int, NEW m \in Message, m.from = t, AskedFor(m, r)',
         \A u \in Threads, y \in Int, n \in Message : Pending(y, n, u) => n.from # t,
         \A u \in Threads, y \in Int, n \in Message :
           Pending(y, n, u)' => Pending(y, n, u) \/ (u = r /\ y = x /\ n = m),
         \A u \in Threads, y \in Int, n \in Message :
           Pending(y, n, u) /\ AskedFor(n, u) => AskedFor(n, u)',
         UNCHANGED todo
  PROVE  Requests' /\ OneRequest'
<1>1. Requests'
  BY DEF Requests
<1>2. OneRequest'
  BY DEF OneRequest
<1> QED BY <1>1, <1>2

(* A thread with a place of a kind is at no place of another.               *)
LEMMA PlaceKinds ==
  ASSUME TypeOK, NEW t \in Threads
  PROVE  /\ pc[t].at \in {"run", "switch"} => ~Receives(t) /\ ~Asks(t)
         /\ pc[t].at = "received" => Receives(t) /\ ~Asks(t)
         /\ pc[t].at = "replied" => Asks(t) /\ ~Receives(t)
         /\ ~(Asks(t) /\ Receives(t))
<1>1. pc[t] \in Places
  BY DEF TypeOK
<1>2. {"received", "replied"} \subseteq Goals
  BY DEF Goals
<1>3. Simple("received") \notin AskPlaces /\ Simple("received") \in ReceivePlaces
  BY <1>2, PlaceFacts
<1>4. Simple("replied") \in AskPlaces /\ Simple("replied") \notin ReceivePlaces
  BY <1>2, PlaceFacts
<1>5. AskPlaces \cap ReceivePlaces = {}
  BY DEF AskPlaces, ReceivePlaces, Simple
<1> QED BY <1>1, <1>3, <1>4, <1>5, PlaceForms DEF Receives, Asks

(* A thread that runs its own code waits for nobody.                        *)
LEMMA RunFacts ==
  ASSUME MsgInv, NEW t \in Threads, At(t, "run")
  PROVE  /\ KernelInv(k) /\ TypeOK /\ Executes(k, t)
         /\ \A u \in Threads : Executes(k, u) => u = t
         /\ ~Receives(t) /\ ~Asks(t)
         /\ \A r \in Threads : t \notin Elems(waiters[r])
         /\ IsActive(k, t) \/ k.status[t] = "REPLY_BLOCKED"
         /\ \A r \in Threads, x \in Int, m \in Message : Pending(x, m, r) => m.from # t
<1>1. KernelInv(k) /\ TypeOK /\ Executes(k, t) /\ pc[t].at = "run"
  BY DEF MsgInv, At
<1>2. ~Receives(t) /\ ~Asks(t)
  BY <1>1, PlaceKinds
<1>3. /\ \A r \in Threads : t \notin Elems(waiters[r])
      /\ IsActive(k, t) \/ k.status[t] = "REPLY_BLOCKED"
  BY <1>1 DEF MsgInv, AtWork
<1>4. \A r \in Threads, x \in Int, m \in Message : Pending(x, m, r) => m.from # t
  BY <1>2 DEF MsgInv, Requests, AskedFor
<1>5. \A u \in Threads : Executes(k, u) => u = t
  BY <1>1 DEF Executes
<1> QED BY <1>1, <1>2, <1>3, <1>4, <1>5

-----------------------------------------------------------------------------
(* The receiver                                                             *)

(* msg_receive() with nothing at hand.                                      *)
LEMMA AtHandEmpty ==
  ASSUME TypeOK, NEW t \in Threads, AtHand(t) = <<>>
  PROVE  queue[t] = <<>> /\ waiters[t] = <<>>
BY DEF TypeOK, AtHand

(* msg_receive() blocks when nothing is at hand.                            *)
LEMMA ReceiveBlocksKeeps ==
  ASSUME MsgInv, NEW t \in Threads, ReceiveBlocks(t)
  PROVE  MsgInv'
<1> DEFINE p == [at |-> "yield", next |-> "received"]
<1>1. /\ At(t, "run") /\ AtHand(t) = <<>> /\ Go(t, p)
      /\ buf' = [buf EXCEPT ![t] = NoMsg] /\ k' = SetStatus(k, t, "RECEIVE_BLOCKED")
      /\ UNCHANGED <<queue, waiters, todo, sent, got>>
  BY DEF ReceiveBlocks
<1>2. /\ KernelInv(k) /\ TypeOK /\ Executes(k, t)
      /\ \A u \in Threads : Executes(k, u) => u = t
      /\ ~Receives(t) /\ ~Asks(t)
      /\ \A r \in Threads : t \notin Elems(waiters[r])
      /\ \A r \in Threads, x \in Int, m \in Message : Pending(x, m, r) => m.from # t
  BY <1>1, RunFacts
<1>3. queue[t] = <<>> /\ waiters[t] = <<>>
  BY <1>1, <1>2, AtHandEmpty
<1>4. p \in Places /\ p.at = "yield" /\ p \in ReceivePlaces /\ p \notin AskPlaces
  BY PlaceFacts DEF Goals
<1> HIDE DEF p
<1>5. /\ pc' \in [Threads -> Places] /\ pc'[t].at = "yield" /\ Receives(t)' /\ ~Asks(t)'
      /\ \A u \in Threads : u # t => /\ pc'[u] = pc[u]
                                     /\ Receives(u)' <=> Receives(u)
                                     /\ Asks(u)' <=> Asks(u)
  BY <1>1, <1>2, <1>4, GoEffect
<1>6. /\ KernelInv(k')
      /\ \A u \in Threads :
           k'.status[u] = IF u = t THEN "RECEIVE_BLOCKED" ELSE k.status[u]
      /\ \A u \in Threads : Executes(k', u) <=> Executes(k, u)
  <2> DEFINE n == SetStatus(k, t, "RECEIVE_BLOCKED")
  <2>1. KernelInv(k) /\ k' = n /\ "RECEIVE_BLOCKED" \in SetHere
    BY <1>1, <1>2 DEF SetHere
  <2>2. /\ KernelInv(n)
        /\ \A u \in Threads :
             n.status[u] = IF u = t THEN "RECEIVE_BLOCKED" ELSE k.status[u]
        /\ \A u \in Threads : Executes(n, u) <=> Executes(k, u)
    BY <2>1, SetEffect
  <2> HIDE DEF n
  <2> QED BY <2>1, <2>2
<1>7. /\ buf' \in [Threads -> Message \cup {NoMsg}]
      /\ \A u \in Threads : buf'[u] = IF u = t THEN NoMsg ELSE buf[u]
  BY <1>1, <1>2 DEF TypeOK
<1>8. TypeOK'
  BY <1>1, <1>2, <1>5, <1>6, <1>7 DEF TypeOK, KernelInv
<1>9. Lists'
  BY <1>1, <1>2, <1>5, <1>6, <1>7 DEF MsgInv, Lists, Carried
<1>10. Queues'
  BY <1>1 DEF MsgInv, Queues, Carried
<1>11. Receivers'
  BY <1>1, <1>2, <1>3, <1>5, <1>6, <1>7 DEF MsgInv, Receivers, Carried, IsActive
<1>12. AtWork'
  BY <1>2, <1>5, <1>6 DEF AtWork
<1>13. Requests' /\ OneRequest'
  <2>1. \A r \in Threads, x \in Int, m \in Message : Pending(x, m, r)' => Pending(x, m, r)
    BY <1>1, <1>2, <1>5, <1>7 DEF Pending
  <2>2. \A r \in Threads, x \in Int, m \in Message :
          Pending(x, m, r) /\ AskedFor(m, r) => AskedFor(m, r)'
    BY <1>1, <1>2, <1>5, <1>6 DEF AskedFor
  <2> QED BY <1>1, <2>1, <2>2, RequestsKeep DEF MsgInv
<1>14. Answered'
  BY <1>1, <1>5, <1>6, <1>7 DEF MsgInv, Answered, HasReply, IsActive
<1> QED BY <1>6, <1>8, <1>9, <1>10, <1>11, <1>12, <1>13, <1>14 DEF MsgInv

(* The return of msg_send_receive().                                        *)
LEMMA RepliedKeeps ==
  ASSUME MsgInv, NEW t \in Threads, Replied(t)
  PROVE  MsgInv'
<1>1. /\ Executes(k, t) /\ pc[t].at = "replied" /\ Go(t, Simple("run"))
      /\ buf' = [buf EXCEPT ![t] = NoMsg]
      /\ UNCHANGED <<k, queue, waiters, todo, sent, got>>
      /\ KernelInv(k) /\ TypeOK
  BY DEF MsgInv, Replied, At
<1>2. /\ IsActive(k, t) /\ \A r \in Threads : t \notin Elems(waiters[r])
      /\ \A u \in Threads : Executes(k, u) => u = t
  BY <1>1 DEF MsgInv, AtWork, Executes
<1>3. \A r \in Threads, x \in Int, m \in Message : Pending(x, m, r) => m.from # t
  BY <1>2 DEF MsgInv, Requests, AskedFor, IsActive, OnRunqueue
<1>4. /\ Simple("run") \in Places /\ Simple("run").at = "run"
      /\ Simple("run") \notin ReceivePlaces /\ Simple("run") \notin AskPlaces
  BY PlaceFacts DEF Goals
<1>5. /\ pc' \in [Threads -> Places] /\ pc'[t].at = "run" /\ ~Receives(t)' /\ ~Asks(t)'
      /\ \A u \in Threads : u # t => /\ pc'[u] = pc[u]
                                     /\ Receives(u)' <=> Receives(u)
                                     /\ Asks(u)' <=> Asks(u)
  BY <1>1, <1>4, GoEffect
<1>6. /\ buf' \in [Threads -> Message \cup {NoMsg}]
      /\ \A u \in Threads : buf'[u] = IF u = t THEN NoMsg ELSE buf[u]
  BY <1>1 DEF TypeOK
<1>7. TypeOK' /\ KernelInv(k')
  BY <1>1, <1>5, <1>6 DEF TypeOK
<1>8. Lists'
  BY <1>1, <1>2, <1>5, <1>6 DEF MsgInv, Lists, Carried
<1>9. Queues'
  BY <1>1 DEF MsgInv, Queues, Carried
<1>10. Receivers'
  BY <1>1, <1>2, <1>5, <1>6 DEF MsgInv, Receivers, Carried, IsActive, OnRunqueue
<1>11. AtWork'
  BY <1>1, <1>2, <1>5 DEF AtWork
<1>12. Requests' /\ OneRequest'
  <2>1. \A r \in Threads, x \in Int, m \in Message : Pending(x, m, r)' => Pending(x, m, r)
    BY <1>1, <1>2, <1>5, <1>6 DEF Pending
  <2>2. \A r \in Threads, x \in Int, m \in Message :
          Pending(x, m, r) /\ AskedFor(m, r) => AskedFor(m, r)'
    BY <1>1, <1>3, <1>5 DEF AskedFor
  <2> QED BY <1>1, <2>1, <2>2, RequestsKeep DEF MsgInv
<1>13. Answered'
  BY <1>1, <1>5, <1>6 DEF MsgInv, Answered, HasReply
<1> QED BY <1>7, <1>8, <1>9, <1>10, <1>11, <1>12, <1>13 DEF MsgInv

(* The message that arrived is taken, and a request has to be answered.     *)
LEMMA TakesEffect ==
  ASSUME TypeOK, NEW t \in Threads, NEW m, Carried(m, t), Takes(t, m),
         \A r \in Threads, n \in Message : n \in todo[r] => n.kind = "request"
  PROVE  /\ got' \in [Pairs -> 0 .. N - 1]
         /\ todo' \in [Threads -> SUBSET Message]
         /\ \A r \in Threads, n \in Message :
              n \in todo'[r] <=> \/ n \in todo[r]
                                 \/ r = t /\ n = m /\ m.kind = "request"
         /\ \A r \in Threads, n \in Message : n \in todo'[r] => n.kind = "request"
<1>1. m \in Message /\ <<m.from, t>> \in Pairs /\ m.n \in 0 .. N - 1
  BY DEF Carried, Message
<1>2. got' \in [Pairs -> 0 .. N - 1]
  BY <1>1 DEF TypeOK, Takes
<1>3. /\ todo' \in [Threads -> SUBSET Message]
      /\ \A r \in Threads, n \in Message :
           n \in todo'[r] <=> \/ n \in todo[r]
                              \/ r = t /\ n = m /\ m.kind = "request"
  <2>1. CASE m.kind = "request"
    <3>1. todo' = [todo EXCEPT ![t] = todo[t] \cup {m}] /\ todo \in [Threads -> SUBSET Message]
      BY <2>1 DEF TypeOK, Takes
    <3> QED BY <1>1, <2>1, <3>1
  <2>2. CASE m.kind # "request"
    BY <2>2 DEF TypeOK, Takes
  <2> QED BY <2>1, <2>2
<1> QED BY <1>2, <1>3

(* msg_receive() returns with the message that the receiver was given.      *)
LEMMA ReceivedKeeps ==
  ASSUME MsgInv, NEW t \in Threads, Received(t)
  PROVE  MsgInv'
<1> DEFINE m0 == buf[t]
<1>1. /\ Executes(k, t) /\ pc[t].at = "received" /\ Go(t, Simple("run"))
      /\ buf' = [buf EXCEPT ![t] = NoMsg] /\ Takes(t, m0)
      /\ UNCHANGED <<k, queue, waiters, sent>>
      /\ KernelInv(k) /\ TypeOK
  BY DEF MsgInv, Received, At
<1>2. /\ IsActive(k, t) /\ \A r \in Threads : t \notin Elems(waiters[r])
      /\ \A u \in Threads : Executes(k, u) => u = t
  BY <1>1 DEF MsgInv, AtWork, Executes
<1>3. Receives(t) /\ ~Asks(t)
  BY <1>1, PlaceKinds
<1>4. Carried(m0, t) /\ m0 \in Message /\ buf[t] # NoMsg
  BY <1>2, <1>3, NoMsgAssumption DEF MsgInv, Receivers, Carried, IsActive, OnRunqueue
<1>5. /\ Simple("run") \in Places /\ Simple("run").at = "run"
      /\ Simple("run") \notin ReceivePlaces /\ Simple("run") \notin AskPlaces
  BY PlaceFacts DEF Goals
<1>6. /\ pc' \in [Threads -> Places] /\ pc'[t].at = "run" /\ ~Receives(t)' /\ ~Asks(t)'
      /\ \A u \in Threads : u # t => /\ pc'[u] = pc[u]
                                     /\ Receives(u)' <=> Receives(u)
                                     /\ Asks(u)' <=> Asks(u)
  BY <1>1, <1>5, GoEffect
<1>7. /\ buf' \in [Threads -> Message \cup {NoMsg}]
      /\ \A u \in Threads : buf'[u] = IF u = t THEN NoMsg ELSE buf[u]
  BY <1>1 DEF TypeOK
<1>8. /\ got' \in [Pairs -> 0 .. N - 1] /\ todo' \in [Threads -> SUBSET Message]
      /\ \A r \in Threads, n \in Message :
           n \in todo'[r] <=> \/ n \in todo[r]
                              \/ r = t /\ n = m0 /\ m0.kind = "request"
      /\ \A r \in Threads, n \in Message : n \in todo'[r] => n.kind = "request"
  BY <1>1, <1>4, TakesEffect DEF MsgInv, Requests
<1> HIDE DEF m0
<1>9. TypeOK' /\ KernelInv(k')
  BY <1>1, <1>6, <1>7, <1>8 DEF TypeOK
<1>10. Lists'
  BY <1>1, <1>2, <1>6, <1>7 DEF MsgInv, Lists, Carried
<1>11. Queues'
  BY <1>1 DEF MsgInv, Queues, Carried
<1>12. Receivers'
  BY <1>1, <1>2, <1>6, <1>7 DEF MsgInv, Receivers, Carried, IsActive, OnRunqueue
<1>13. AtWork'
  BY <1>1, <1>2, <1>6 DEF AtWork
<1>14. Requests' /\ OneRequest'
  <2>1. ASSUME NEW r \in Threads, NEW x \in Int, NEW m \in Message, Pending(x, m, r)'
        PROVE  \/ Pending(x, m, r) /\ (r = t => x # 0)
               \/ x = -2 /\ Pending(0, m, r) /\ r = t
    <3>1. m.kind = "request" /\ queue' = queue /\ waiters' = waiters
      BY <1>1, <2>1 DEF Pending
    <3>2. CASE x \in DOMAIN queue[r] /\ m = queue[r][x]
      <4>1. x # 0
        BY <1>1, <3>2, ListMembers
      <4> QED BY <3>1, <3>2, <4>1 DEF Pending
    <3>3. CASE x = 0 /\ Receives(r)' /\ buf'[r] # NoMsg /\ m = buf'[r]
      BY <1>6, <1>7, <3>1, <3>3 DEF Pending
    <3>4. CASE x = -1 /\ m.from \in Elems(waiters[r]) /\ m = buf'[m.from]
      <4>1. m.from \in Threads /\ m.from # t
        BY <1>1, <1>2, <3>4, ListMembers
      <4> QED BY <1>7, <3>1, <3>4, <4>1 DEF Pending
    <3>5. CASE x = -2 /\ m \in todo'[r]
      <4>1. m \in todo[r] \/ (r = t /\ m = buf[t])
        BY <1>8, <3>5 DEF m0
      <4> QED BY <1>3, <1>4, <3>1, <3>5, <4>1 DEF Pending
    <3> QED BY <2>1, <3>1, <3>2, <3>3, <3>4, <3>5 DEF Pending
  <2>2. \A r \in Threads, x \in Int, m \in Message : Pending(x, m, r)' => \E y \in Int : Pending(y, m, r)
    BY <2>1
  <2>3. \A r \in Threads, x \in Int, m \in Message :
          Pending(x, m, r)' /\ AskedFor(m, r) => AskedFor(m, r)'
    BY <1>1, <1>3, <1>6 DEF AskedFor
  <2>4. \A r \in Threads, x, y \in Int, m \in Message :
          Pending(x, m, r)' /\ Pending(y, m, r)' => x = y
    BY <2>1 DEF MsgInv, OneRequest
  <2> QED BY <1>8, <2>2, <2>3, <2>4, RequestsMove DEF MsgInv
<1>15. Answered'
  BY <1>1, <1>6, <1>7 DEF MsgInv, Answered, HasReply
<1> QED BY <1>9, <1>10, <1>11, <1>12, <1>13, <1>14, <1>15 DEF MsgInv

(* The sender of a request that was received is in no list of senders and   *)
(* receives nothing.                                                        *)
LEMMA AskerRests ==
  ASSUME MsgInv, NEW t \in Threads, NEW m \in todo[t]
  PROVE  /\ m.from \in Threads /\ ~Receives(m.from)
         /\ \A r \in Threads : m.from \notin Elems(waiters[r])
<1> DEFINE u == m.from
<1>1. TypeOK /\ Requests /\ OneRequest /\ Lists
  BY DEF MsgInv
<1>2. m \in Message /\ m.kind = "request" /\ Pending(-2, m, t) /\ -2 \in Int
  BY <1>1 DEF TypeOK, Requests, Pending
<1>3. u \in Threads /\ Asks(u)
  BY <1>1, <1>2 DEF Requests, AskedFor
<1>4. ~Receives(u)
  BY <1>1, <1>3, PlaceKinds
<1> HIDE DEF u
<1>5. ASSUME NEW r \in Threads, u \in Elems(waiters[r]) PROVE FALSE
  <2>1. Carried(buf[u], r) /\ buf[u].from = u /\ buf[u].kind = "request"
    BY <1>1, <1>3, <1>5 DEF Lists
  <2>2. Pending(-1, buf[u], r) /\ buf[u] \in Message /\ -1 \in Int
    BY <1>5, <2>1 DEF Pending, Carried
  <2>3. m.from = buf[u].from
    BY <2>1 DEF u
  <2>4. -2 = -1
    BY <1>1, <1>2, <2>2, <2>3 DEF OneRequest
  <2> QED BY <2>4
<1> QED BY <1>3, <1>4, <1>5 DEF u

(* msg_reply() and msg_reply_int(): the sender of the request was in no     *)
(* list, had no other request, and has its reply.                           *)
LEMMA AnswersKeeps ==
  ASSUME MsgInv, NEW t \in Threads, NEW m, Answers(t, m), KernelInv(k'),
         \A u \in Threads :
           k'.status[u] = IF u = m.from THEN "PENDING" ELSE k.status[u],
         \A u \in Threads : Executes(k', u) => Executes(k, u),
         pc' \in [Threads -> Places],
         \A u \in Threads : /\ Receives(u)' <=> Receives(u)
                            /\ Asks(u)' <=> Asks(u)
                            /\ pc'[u] = pc[u] \/ (pc[u].at = "run" /\ pc'[u].at = "switch")
  PROVE  MsgInv'
<1> DEFINE u0 == m.from
           a == ReplyTo(t, m)
<1>1. /\ TypeOK /\ m \in todo[t] /\ k.status[u0] = "REPLY_BLOCKED"
      /\ buf' = [buf EXCEPT ![u0] = a] /\ todo' = [todo EXCEPT ![t] = todo[t] \ {m}]
      /\ UNCHANGED <<queue, waiters, sent, got>>
  BY DEF MsgInv, Answers
<1>2. m \in Message /\ m.kind = "request" /\ Pending(-2, m, t)
  BY <1>1 DEF MsgInv, TypeOK, Requests, Pending
<1>3. /\ u0 \in Threads /\ <<u0, t>> \in Pairs /\ Asks(u0) /\ sent[<<u0, t>>] = m.n
  BY <1>2 DEF MsgInv, Requests, AskedFor
<1>4. ~Receives(u0)
  BY <1>1, <1>3, PlaceKinds
<1> HIDE DEF u0
<1>5. \A r \in Threads : u0 \notin Elems(waiters[r])
  BY <1>1, AskerRests DEF u0
<1>6. a \in Message /\ a.kind = "reply" /\ a.from = t /\ a.n = m.n
  BY <1>2 DEF ReplyTo, Message, Kinds
<1> HIDE DEF a
<1>7. /\ buf' \in [Threads -> Message \cup {NoMsg}]
      /\ \A u \in Threads : buf'[u] = IF u = u0 THEN a ELSE buf[u]
  BY <1>1, <1>6 DEF TypeOK
<1>8. /\ todo' \in [Threads -> SUBSET Message]
      /\ \A r \in Threads, n \in Message :
           n \in todo'[r] <=> n \in todo[r] /\ ~(r = t /\ n = m)
      /\ \A r \in Threads : todo'[r] \subseteq todo[r]
  BY <1>1, <1>2 DEF TypeOK
<1>9. \A u \in Threads : k'.status[u] = IF u = u0 THEN "PENDING" ELSE k.status[u]
  BY DEF u0
<1>10. TypeOK'
  BY <1>1, <1>7, <1>8 DEF TypeOK, KernelInv
<1>11. Lists'
  BY <1>1, <1>3, <1>5, <1>7, <1>9 DEF MsgInv, Lists, Carried
<1>12. Queues'
  BY <1>1 DEF MsgInv, Queues, Carried
<1>13. Receivers'
  <2> SUFFICES ASSUME NEW r \in Threads
               PROVE  /\ Receives(r)' =>
                           \/ /\ k'.status[r] = "RECEIVE_BLOCKED" /\ buf'[r] = NoMsg
                              /\ queue'[r] = <<>> /\ waiters'[r] = <<>>
                           \/ IsActive(k', r) /\ Carried(buf'[r], r)
                      /\ k'.status[r] = "RECEIVE_BLOCKED" => Receives(r)'
                      /\ pc'[r].at = "queued" => pc'[r].next # "received"
    BY DEF Receivers, Carried
  <2>1. r = u0 => ~Receives(r)' /\ k'.status[r] # "RECEIVE_BLOCKED"
    BY <1>4, <1>9
  <2>2. r # u0 => k'.status[r] = k.status[r] /\ buf'[r] = buf[r]
    BY <1>7, <1>9
  <2>3. pc'[r].at = "queued" => pc'[r] = pc[r]
    OBVIOUS
  <2> QED BY <1>1, <2>1, <2>2, <2>3 DEF MsgInv, Receivers, IsActive
<1>14. AtWork'
  BY <1>1, <1>9 DEF MsgInv, AtWork, IsActive, OnRunqueue
<1>15. Requests' /\ OneRequest'
  <2>1. ASSUME NEW r \in Threads, NEW x \in Int, NEW n \in Message, Pending(x, n, r)'
        PROVE  Pending(x, n, r) /\ n.from # u0
    <3>1. Pending(x, n, r) /\ (x = -2 => ~(r = t /\ n = m))
      <4>1. m.from = u0 /\ n.kind = "request" /\ queue' = queue /\ waiters' = waiters
        BY <1>1, <2>1 DEF Pending, u0
      <4>2. CASE x \in DOMAIN queue[r] /\ n = queue[r][x]
        <5>1. x # -2
          BY <1>1, <4>2, ListMembers
        <5> QED BY <4>1, <4>2, <5>1 DEF Pending
      <4>3. CASE x = 0 /\ Receives(r)' /\ buf'[r] # NoMsg /\ n = buf'[r]
        BY <1>4, <1>7, <4>1, <4>3 DEF Pending
      <4>4. CASE x = -1 /\ n.from \in Elems(waiters[r]) /\ n = buf'[n.from]
        <5>1. n.from \in Threads /\ n.from # u0
          BY <1>1, <1>5, <4>4, ListMembers
        <5> QED BY <1>7, <4>1, <4>4, <5>1 DEF Pending
      <4>5. CASE x = -2 /\ n \in todo'[r]
        BY <1>8, <4>1, <4>5 DEF Pending
      <4> QED BY <2>1, <4>1, <4>2, <4>3, <4>4, <4>5 DEF Pending
    <3>2. m.from = u0
      BY DEF u0
    <3> QED BY <1>2, <3>1, <3>2 DEF MsgInv, OneRequest
  <2>2. \A r \in Threads, x \in Int, n \in Message :
          Pending(x, n, r)' /\ AskedFor(n, r) => AskedFor(n, r)'
    BY <1>1, <1>9, <2>1 DEF AskedFor
  <2> QED BY <1>8, <2>1, <2>2, RequestsKeep DEF MsgInv
<1>16. Answered'
  <2>1. HasReply(u0)'
    BY <1>1, <1>3, <1>6, <1>7 DEF HasReply
  <2>2. IsActive(k', u0)
    BY <1>3, <1>9 DEF IsActive, OnRunqueue
  <2>3. \A u \in Threads : u # u0 /\ HasReply(u) => HasReply(u)'
    BY <1>1, <1>7 DEF HasReply
  <2> QED BY <1>1, <1>9, <2>1, <2>2, <2>3 DEF MsgInv, Answered, IsActive
<1> QED BY <1>10, <1>11, <1>12, <1>13, <1>14, <1>15, <1>16 DEF MsgInv

(* msg_reply()                                                              *)
LEMMA ReplyKeeps ==
  ASSUME MsgInv, NEW t \in Threads, NEW m, Reply(t, m)
  PROVE  MsgInv'
<1> DEFINE p == [at |-> "switch", prio |-> k.prio[m.from]]
           n == SetStatus(k, m.from, "PENDING")
<1>1. /\ At(t, "run") /\ Answers(t, m) /\ k' = n /\ Go(t, p) /\ m \in todo[t]
  BY DEF Reply, Answers
<1>2. m.from \in Threads
  BY <1>1, AskerRests
<1>3. /\ KernelInv(k) /\ TypeOK /\ ~Receives(t) /\ ~Asks(t) /\ pc[t].at = "run"
  BY <1>1, RunFacts DEF At
<1>4. p \in Places /\ p.at = "switch" /\ p \notin ReceivePlaces /\ p \notin AskPlaces
  BY <1>2, <1>3, PlaceFacts, KernelTypes
<1> HIDE DEF p
<1>5. /\ pc' \in [Threads -> Places]
      /\ \A u \in Threads : /\ Receives(u)' <=> Receives(u)
                            /\ Asks(u)' <=> Asks(u)
                            /\ pc'[u] = pc[u] \/ (pc[u].at = "run" /\ pc'[u].at = "switch")
  BY <1>1, <1>3, <1>4, GoEffect
<1>6. /\ KernelInv(n)
      /\ \A u \in Threads : n.status[u] = IF u = m.from THEN "PENDING" ELSE k.status[u]
      /\ \A u \in Threads : Executes(n, u) <=> Executes(k, u)
  <2>1. KernelInv(k) /\ "PENDING" \in SetHere
    BY <1>3 DEF SetHere
  <2> QED BY <1>2, <2>1, SetEffect
<1> HIDE DEF n
<1>7. /\ KernelInv(k')
      /\ \A u \in Threads : k'.status[u] = IF u = m.from THEN "PENDING" ELSE k.status[u]
      /\ \A u \in Threads : Executes(k', u) => Executes(k, u)
  BY <1>1, <1>6
<1> QED BY <1>1, <1>5, <1>7, AnswersKeeps

(* msg_reply_int()                                                          *)
LEMMA IsrReplyKeeps ==
  ASSUME MsgInv, NEW t \in Threads, NEW m, IsrReply(t, m)
  PROVE  MsgInv'
<1> DEFINE n == SetStatus(k, m.from, "PENDING")
<1>1. Answers(t, m) /\ k' = Request(n) /\ UNCHANGED pc /\ m \in todo[t]
  BY DEF IsrReply, Answers
<1>2. m.from \in Threads
  BY <1>1, AskerRests
<1>3. KernelInv(k) /\ TypeOK
  BY DEF MsgInv
<1>4. /\ pc' \in [Threads -> Places]
      /\ \A u \in Threads : /\ Receives(u)' <=> Receives(u)
                            /\ Asks(u)' <=> Asks(u)
                            /\ pc'[u] = pc[u] \/ (pc[u].at = "run" /\ pc'[u].at = "switch")
  BY <1>1, <1>3, StayEffect
<1>5. /\ KernelInv(n)
      /\ \A u \in Threads : n.status[u] = IF u = m.from THEN "PENDING" ELSE k.status[u]
      /\ \A u \in Threads : Executes(n, u) <=> Executes(k, u)
  <2>1. KernelInv(k) /\ "PENDING" \in SetHere
    BY <1>3 DEF SetHere
  <2> QED BY <1>2, <2>1, SetEffect
<1> HIDE DEF n
<1>6. /\ KernelInv(k') /\ k'.status = n.status
      /\ \A u \in Threads : Executes(k', u) => Executes(n, u)
  BY <1>1, <1>5, RequestEffect
<1>7. /\ KernelInv(k')
      /\ \A u \in Threads : k'.status[u] = IF u = m.from THEN "PENDING" ELSE k.status[u]
      /\ \A u \in Threads : Executes(k', u) => Executes(k, u)
  BY <1>5, <1>6
<1> QED BY <1>1, <1>4, <1>7, AnswersKeeps

(* The messages at hand: those of the queue, then that of the first sender. *)
LEMMA AtHandIs ==
  ASSUME MsgInv, NEW t \in Threads, AtHand(t) # <<>>
  PROVE  /\ waiters[t] = <<>> => AtHand(t) = queue[t] /\ queue[t] # <<>>
         /\ waiters[t] # <<>> =>
              /\ Head(waiters[t]) \in Threads /\ buf[Head(waiters[t])] \in Message
              /\ AtHand(t) = Append(queue[t], buf[Head(waiters[t])])
<1>1. queue[t] \in Seq(Message) /\ waiters[t] \in Seq(Threads)
  BY ListMembers DEF MsgInv
<1>2. waiters[t] = <<>> => AtHand(t) = queue[t]
  BY <1>1 DEF AtHand
<1>3. ASSUME waiters[t] # <<>>
      PROVE  /\ Head(waiters[t]) \in Threads /\ buf[Head(waiters[t])] \in Message
             /\ AtHand(t) = Append(queue[t], buf[Head(waiters[t])])
  <2>1. Once(waiters[t]) /\ Lists
    BY DEF MsgInv, Lists
  <2>2. Head(waiters[t]) \in Threads /\ Head(waiters[t]) \in Elems(waiters[t])
    BY <1>1, <1>3, <2>1, ElemsTail
  <2>3. buf[Head(waiters[t])] \in Message
    BY <2>1, <2>2 DEF Lists, Carried
  <2> DEFINE b == buf[Head(waiters[t])]
  <2>4. AtHand(t) = queue[t] \o <<b>>
    BY <1>3 DEF AtHand
  <2> HIDE DEF b
  <2>5. b \in Message
    BY <2>3 DEF b
  <2>6. queue[t] \o <<b>> = Append(queue[t], b)
    BY <1>1, <2>5
  <2> QED BY <2>2, <2>3, <2>4, <2>6 DEF b
<1> QED BY <1>2, <1>3

(* _msg_receive() lets the first sender in: it leaves the list, and is ready *)
(* unless it waits for a reply.                                             *)
LEMMA LetInEffect ==
  ASSUME MsgInv, NEW t \in Threads, Receive(t), waiters[t] # <<>>,
         NEW w, w = Head(waiters[t])
  PROVE  /\ w \in Threads /\ w # t /\ w \in Elems(waiters[t])
         /\ buf[w].from = w /\ Carried(buf[w], t) /\ ~Receives(w)
         /\ KernelInv(k')
         /\ \A u \in Threads : u # w => k'.status[u] = k.status[u]
         /\ \/ k'.status[w] = "REPLY_BLOCKED" /\ k.status[w] = "REPLY_BLOCKED"
            \/ k'.status[w] = "PENDING" /\ k.status[w] = "SEND_BLOCKED" /\ ~Asks(w)
         /\ \A u \in Threads : Executes(k', u) <=> Executes(k, u)
         /\ buf' \in [Threads -> Message \cup {NoMsg}]
         /\ \A u \in Threads : u # w \/ Asks(w) => buf'[u] = buf[u]
         /\ pc' \in [Threads -> Places] /\ pc'[t].at \in {"run", "switch"}
         /\ \A u \in Threads : /\ u # t => pc'[u] = pc[u]
                               /\ Receives(u)' <=> Receives(u)
                               /\ Asks(u)' <=> Asks(u)
<1>1. /\ At(t, "run") /\ KernelInv(k) /\ TypeOK /\ Lists /\ Requests
      /\ k.status \in [Threads -> Status] /\ k.prio \in [Threads -> Prios]
  BY KernelTypes DEF MsgInv, Receive
<1>2. ~Receives(t) /\ ~Asks(t) /\ t \notin Elems(waiters[t]) /\ pc[t].at = "run"
  BY <1>1, RunFacts DEF At
<1>3. w \in Threads /\ w \in Elems(waiters[t]) /\ w # t
  <2>1. waiters[t] \in Seq(Threads) /\ Once(waiters[t])
    BY <1>1, ListMembers DEF Lists
  <2> QED BY <1>2, <2>1, ElemsTail
<1>4. /\ k.status[w] \in {"SEND_BLOCKED", "REPLY_BLOCKED"} /\ ~Receives(w)
      /\ Carried(buf[w], t) /\ buf[w].from = w
      /\ buf[w].kind = "request" <=> Asks(w)
  BY <1>1, <1>3 DEF Lists
<1>5. Asks(w) => k.status[w] = "REPLY_BLOCKED"
  <2> SUFFICES ASSUME Asks(w) PROVE k.status[w] = "REPLY_BLOCKED"
    OBVIOUS
  <2>1. Pending(-1, buf[w], t) /\ buf[w] \in Message /\ -1 \in Int
    BY <1>3, <1>4 DEF Pending, Carried
  <2>2. AskedFor(buf[w], t)
    BY <1>1, <2>1 DEF Requests
  <2> QED BY <1>4, <2>2 DEF AskedFor
<1>6. CASE k.status[w] = "REPLY_BLOCKED"
  <2>1. UNCHANGED <<k, pc, buf>>
    BY <1>6 DEF Receive
  <2>2. /\ buf' \in [Threads -> Message \cup {NoMsg}]
        /\ \A u \in Threads : k'.status[u] = k.status[u] /\ buf'[u] = buf[u]
        /\ KernelInv(k') /\ k' = k
    BY <1>1, <2>1 DEF TypeOK
  <2>3. /\ pc' \in [Threads -> Places] /\ pc'[t].at = "run"
        /\ \A u \in Threads : /\ pc'[u] = pc[u]
                              /\ Receives(u)' <=> Receives(u)
                              /\ Asks(u)' <=> Asks(u)
    BY <1>1, <1>2, <2>1, StayEffect
  <2> QED BY <1>3, <1>4, <1>6, <2>2, <2>3
<1>7. CASE k.status[w] # "REPLY_BLOCKED"
  <2> DEFINE n == SetStatus(k, w, "PENDING")
             p == IF k.prio[w] < PrioLevels - 1
                  THEN [at |-> "switch", prio |-> k.prio[w]] ELSE Simple("run")
  <2>1. k' = n /\ buf' = [buf EXCEPT ![w] = NoMsg] /\ Go(t, p)
    BY <1>7 DEF Receive
  <2>2. /\ p \in Places /\ p.at \in {"run", "switch"}
        /\ p \notin ReceivePlaces /\ p \notin AskPlaces
    <3>1. k.prio[w] \in Prios /\ "run" \in Goals
      BY <1>1, <1>3 DEF Goals
    <3> QED BY <3>1, PlaceFacts
  <2> HIDE DEF p
  <2>3. /\ pc' \in [Threads -> Places] /\ pc'[t].at \in {"run", "switch"}
        /\ \A u \in Threads : /\ u # t => pc'[u] = pc[u]
                              /\ Receives(u)' <=> Receives(u)
                              /\ Asks(u)' <=> Asks(u)
    BY <1>1, <1>2, <2>1, <2>2, GoEffect
  <2>4. /\ KernelInv(n)
        /\ \A u \in Threads : n.status[u] = IF u = w THEN "PENDING" ELSE k.status[u]
        /\ \A u \in Threads : Executes(n, u) <=> Executes(k, u)
    <3>1. KernelInv(k) /\ w \in Threads /\ "PENDING" \in SetHere
      BY <1>1, <1>3 DEF SetHere
    <3> QED BY <3>1, SetEffect
  <2> HIDE DEF n
  <2>5. /\ buf' \in [Threads -> Message \cup {NoMsg}]
        /\ \A u \in Threads : u # w => buf'[u] = buf[u]
    BY <1>1, <2>1 DEF TypeOK
  <2>6. k.status[w] = "SEND_BLOCKED" /\ ~Asks(w)
    BY <1>4, <1>5, <1>7
  <2>7. k'.status[w] = "PENDING" /\ \A u \in Threads : u # w => k'.status[u] = k.status[u]
    BY <1>3, <2>1, <2>4
  <2>8. KernelInv(k') /\ \A u \in Threads : Executes(k', u) <=> Executes(k, u)
    BY <2>1, <2>4
  <2> QED BY <1>3, <1>4, <2>3, <2>5, <2>6, <2>7, <2>8
<1> QED BY <1>6, <1>7

(* The queue after a receive: what was at hand without the first message.   *)
LEMMA ReceiveQueues ==
  ASSUME MsgInv, NEW t \in Threads, Receive(t)
  PROVE  /\ queue' \in [Threads -> Seq(Message)]
         /\ \A r \in Threads : r # t => queue'[r] = queue[r]
         /\ queue'[t] = Tail(AtHand(t)) /\ Head(AtHand(t)) \in Message
         /\ DOMAIN queue'[t] = 1 .. Len(queue'[t]) /\ Len(queue'[t]) \in Nat
         /\ waiters[t] = <<>> =>
              /\ Len(queue'[t]) = Len(queue[t]) - 1
              /\ Len(queue[t]) > 0 /\ Head(AtHand(t)) = queue[t][1]
              /\ \A i \in 1 .. Len(queue'[t]) :
                   i + 1 \in 1 .. Len(queue[t]) /\ queue'[t][i] = queue[t][i + 1]
         /\ waiters[t] # <<>> =>
              /\ Len(queue'[t]) = Len(queue[t])
              /\ Head(AtHand(t)) = IF queue[t] = <<>> THEN buf[Head(waiters[t])]
                                                      ELSE queue[t][1]
              /\ \A i \in 1 .. Len(queue'[t]) :
                   queue'[t][i] = IF i = Len(queue[t]) THEN buf[Head(waiters[t])]
                                                       ELSE queue[t][i + 1]
<1> DEFINE h == AtHand(t)
           q == queue[t]
           b == buf[Head(waiters[t])]
<1>1. /\ TypeOK /\ h # <<>> /\ queue' = [queue EXCEPT ![t] = Tail(h)]
  BY DEF MsgInv, Receive
<1>2. q \in Seq(Message) /\ Len(q) \in Nat /\ queue \in [Threads -> Seq(Message)]
  BY <1>1, ListMembers DEF TypeOK
<1>3. /\ waiters[t] = <<>> => h = q
      /\ waiters[t] # <<>> => b \in Message /\ h = Append(q, b)
  BY <1>1, AtHandIs
<1> HIDE DEF h, q, b
<1>4. h \in Seq(Message)
  <2>1. CASE waiters[t] = <<>>
    BY <1>2, <1>3, <2>1
  <2>2. CASE waiters[t] # <<>>
    <3>1. h = Append(q, b) /\ q \in Seq(Message) /\ b \in Message
      BY <1>2, <1>3, <2>2
    <3>2. Append(q, b) \in Seq(Message)
      BY <3>1, AppendProperties
    <3> QED BY <3>1, <3>2
  <2> QED BY <2>1, <2>2
<1> DEFINE r == Tail(h)
<1>5. /\ r \in Seq(Message) /\ Len(r) = Len(h) - 1 /\ Len(h) \in Nat \ {0}
      /\ Head(h) = h[1] /\ Head(h) \in Message
      /\ \A i \in 1 .. Len(r) : r[i] = h[i + 1]
  <2>1. h # <<>>
    BY <1>1
  <2>2. Len(h) \in Nat \ {0}
    BY <1>4, <2>1, LenProperties, EmptySeq
  <2>3. r \in Seq(Message) /\ Len(r) = Len(h) - 1
    BY <1>4, <2>1, HeadTailProperties
  <2>4. \A i \in 1 .. Len(r) : r[i] = h[i + 1]
    BY <1>4, <2>1, <2>3, HeadTailProperties
  <2>5. Head(h) = h[1] /\ Head(h) \in Message
    BY <1>4, <2>1, HeadTailProperties
  <2> QED BY <2>2, <2>3, <2>4, <2>5
<1> HIDE DEF r
<1>6. /\ queue' \in [Threads -> Seq(Message)] /\ queue'[t] = r
      /\ \A u \in Threads : u # t => queue'[u] = queue[u]
      /\ DOMAIN r = 1 .. Len(r) /\ Len(r) \in Nat
  BY <1>1, <1>2, <1>5 DEF r
<1>7. ASSUME waiters[t] = <<>>
      PROVE  /\ Len(r) = Len(q) - 1 /\ Len(q) > 0 /\ Head(h) = q[1]
             /\ \A i \in 1 .. Len(r) : i + 1 \in 1 .. Len(q) /\ r[i] = q[i + 1]
  BY <1>2, <1>3, <1>5, <1>7
<1>8. ASSUME waiters[t] # <<>>
      PROVE  /\ Len(r) = Len(q) /\ Head(h) = IF q = <<>> THEN b ELSE q[1]
             /\ \A i \in 1 .. Len(r) : r[i] = IF i = Len(q) THEN b ELSE q[i + 1]
  <2>1. /\ Len(h) = Len(q) + 1 /\ h[Len(q) + 1] = b
        /\ \A i \in 1 .. Len(q) : h[i] = q[i]
    BY <1>2, <1>3, <1>8, AppendProperties
  <2>2. q = <<>> => Len(q) = 0
    OBVIOUS
  <2>3. q # <<>> => Len(q) > 0
    BY <1>2, EmptySeq
  <2> QED BY <1>2, <1>5, <2>1, <2>2, <2>3
<1> QED BY <1>5, <1>6, <1>7, <1>8 DEF h, q, b, r

(* msg_receive() and msg_try_receive() with a message queued and no sender  *)
(* in the list.                                                             *)
LEMMA ReceiveOneKeeps ==
  ASSUME MsgInv, NEW t \in Threads, Receive(t), waiters[t] = <<>>
  PROVE  MsgInv'
<1> DEFINE m0 == Head(AtHand(t))
<1>1. /\ At(t, "run") /\ Takes(t, m0) /\ UNCHANGED <<k, waiters, pc, buf, sent>>
      /\ KernelInv(k) /\ TypeOK
  BY DEF MsgInv, Receive
<1>2. /\ queue' \in [Threads -> Seq(Message)]
      /\ \A r \in Threads : r # t => queue'[r] = queue[r]
      /\ DOMAIN queue'[t] = 1 .. Len(queue'[t]) /\ Len(queue'[t]) \in Nat
      /\ Len(queue'[t]) = Len(queue[t]) - 1 /\ Len(queue[t]) > 0 /\ m0 = queue[t][1]
      /\ \A i \in 1 .. Len(queue'[t]) :
           i + 1 \in 1 .. Len(queue[t]) /\ queue'[t][i] = queue[t][i + 1]
  BY ReceiveQueues
<1>3. DOMAIN queue[t] = 1 .. Len(queue[t]) /\ Len(queue[t]) \in Nat
  BY <1>1, ListMembers
<1>4. Carried(m0, t) /\ m0 \in Message
  <2>1. 1 \in DOMAIN queue[t]
    BY <1>2, <1>3
  <2>2. Queues
    BY DEF MsgInv
  <2>3. Carried(queue[t][1], t)
    BY <2>1, <2>2 DEF Queues
  <2> QED BY <1>2, <2>3 DEF Carried
<1>5. /\ got' \in [Pairs -> 0 .. N - 1] /\ todo' \in [Threads -> SUBSET Message]
      /\ \A r \in Threads, n \in Message :
           n \in todo'[r] <=> \/ n \in todo[r]
                              \/ r = t /\ n = m0 /\ m0.kind = "request"
      /\ \A r \in Threads, n \in Message : n \in todo'[r] => n.kind = "request"
  BY <1>1, <1>4, TakesEffect DEF MsgInv, Requests
<1> HIDE DEF m0
<1>6. ~Receives(t)
  BY <1>1, RunFacts
<1>7. \A u \in Threads : (Receives(u)' <=> Receives(u)) /\ (Asks(u)' <=> Asks(u))
  BY <1>1, StayEffect
<1>8. TypeOK' /\ KernelInv(k')
  BY <1>1, <1>2, <1>5 DEF TypeOK
<1>9. Lists'
  BY <1>1, <1>7 DEF MsgInv, Lists, Carried
<1>10. Queues'
  <2>1. Capacity[t] \in Nat
    BY MsgAssumption
  <2>2. Len(queue'[t]) <= Capacity[t]
    BY <1>2, <1>3, <2>1 DEF MsgInv, Queues
  <2>3. \A i \in DOMAIN queue'[t] : Carried(queue'[t][i], t)
    <3>1. \A i \in 1 .. Len(queue[t]) : Carried(queue[t][i], t)
      BY <1>3 DEF MsgInv, Queues
    <3> QED BY <1>2, <3>1
  <2>4. waiters'[t] = <<>> /\ \A r \in Threads : waiters'[r] = waiters[r]
    BY <1>1
  <2>5. Queues /\ waiters' = waiters
    BY <1>1 DEF MsgInv
  <2>6. \A r \in Threads : r # t => queue'[r] = queue[r]
    BY <1>2
  <2>7. \A m, r : Carried(m, r)' <=> Carried(m, r)
    BY DEF Carried
  <2> QED BY <2>2, <2>3, <2>4, <2>5, <2>6, <2>7 DEF Queues
<1>11. Receivers'
  BY <1>1, <1>2, <1>6, <1>7 DEF MsgInv, Receivers, Carried
<1>12. AtWork'
  BY <1>1 DEF MsgInv, AtWork
<1>13. Requests' /\ OneRequest'
  <2>1. ASSUME NEW r \in Threads, NEW x \in Int, NEW m \in Message, Pending(x, m, r)'
        PROVE  \/ r # t /\ Pending(x, m, r)
               \/ r = t /\ x > 0 /\ Pending(x + 1, m, r)
               \/ r = t /\ x <= 0 /\ Pending(x, m, r)
               \/ r = t /\ x = -2 /\ Pending(1, m, r)
    <3>1. m.kind = "request" /\ buf' = buf /\ waiters' = waiters
      BY <1>1, <2>1 DEF Pending
    <3>2. CASE x \in DOMAIN queue'[r] /\ m = queue'[r][x]
      <4>1. CASE r # t
        BY <1>2, <3>1, <3>2, <4>1 DEF Pending
      <4>2. CASE r = t
        <5>1. x > 0 /\ x + 1 \in DOMAIN queue[t] /\ m = queue[t][x + 1]
          BY <1>2, <1>3, <3>2, <4>2
        <5> QED BY <3>1, <4>2, <5>1 DEF Pending
      <4> QED BY <4>1, <4>2
    <3>3. CASE x = 0 /\ Receives(r)' /\ buf'[r] # NoMsg /\ m = buf'[r]
      BY <1>7, <3>1, <3>3 DEF Pending
    <3>4. CASE x = -1 /\ m.from \in Elems(waiters[r]) /\ m = buf[m.from]
      BY <3>1, <3>4 DEF Pending
    <3>5. CASE x = -2 /\ m \in todo'[r]
      <4>1. CASE m \in todo[r]
        BY <3>1, <3>5, <4>1 DEF Pending
      <4>2. CASE r = t /\ m = m0
        <5>1. 1 \in DOMAIN queue[t] /\ m = queue[t][1]
          BY <1>2, <1>3, <4>2
        <5> QED BY <3>1, <3>5, <4>2, <5>1 DEF Pending
      <4> QED BY <1>5, <3>5, <4>1, <4>2
    <3> QED BY <2>1, <3>1, <3>2, <3>3, <3>4, <3>5 DEF Pending
  <2>2. \A r \in Threads, x \in Int, m \in Message : Pending(x, m, r)' => \E y \in Int : Pending(y, m, r)
    BY <2>1
  <2>3. \A r \in Threads, x \in Int, m \in Message :
          Pending(x, m, r)' /\ AskedFor(m, r) => AskedFor(m, r)'
    BY <1>1, <1>7 DEF AskedFor
  <2>4. \A r \in Threads, x, y \in Int, m \in Message :
          Pending(x, m, r)' /\ Pending(y, m, r)' => x = y
    <3>1. \A r \in Threads, x, y \in Int, m \in Message :
            Pending(x, m, r) /\ Pending(y, m, r) => x = y
      BY DEF MsgInv, OneRequest
    <3>2. ASSUME NEW r \in Threads, NEW x \in Int, NEW y \in Int, NEW m \in Message,
                 Pending(x, m, r)', Pending(y, m, r)'
          PROVE  x = y
      <4>1. CASE r # t
        <5>1. Pending(x, m, r) /\ Pending(y, m, r)
          BY <2>1, <3>2, <4>1
        <5> QED BY <3>1, <5>1
      <4>2. CASE r = t
        <5>1. PICK p \in Int : /\ Pending(p, m, r)
                              /\ \/ x > 0 /\ p = x + 1
                                 \/ x <= 0 /\ p = x
                                 \/ x = -2 /\ p = 1
          <6>1. x + 1 \in Int /\ 1 \in Int
            OBVIOUS
          <6> QED BY <2>1, <3>2, <4>2, <6>1
        <5>2. PICK q \in Int : /\ Pending(q, m, r)
                              /\ \/ y > 0 /\ q = y + 1
                                 \/ y <= 0 /\ q = y
                                 \/ y = -2 /\ q = 1
          <6>1. y + 1 \in Int /\ 1 \in Int
            OBVIOUS
          <6> QED BY <2>1, <3>2, <4>2, <6>1
        <5>3. p = q
          BY <3>1, <5>1, <5>2
        <5> QED BY <5>1, <5>2, <5>3
      <4> QED BY <4>1, <4>2
    <3> QED BY <3>2
  <2> QED BY <1>5, <2>2, <2>3, <2>4, RequestsMove DEF MsgInv
<1>14. Answered'
  BY <1>1, <1>7 DEF MsgInv, Answered, HasReply
<1> QED BY <1>8, <1>9, <1>10, <1>11, <1>12, <1>13, <1>14 DEF MsgInv

(* The same with a sender in the list, which is let in.                     *)
LEMMA ReceiveLetsInKeeps ==
  ASSUME MsgInv, NEW t \in Threads, Receive(t), waiters[t] # <<>>
  PROVE  MsgInv'
<1> DEFINE m0 == Head(AtHand(t))
           w == Head(waiters[t])
<1>1. /\ At(t, "run") /\ Takes(t, m0) /\ UNCHANGED sent
      /\ waiters' = [waiters EXCEPT ![t] = Tail(waiters[t])]
      /\ KernelInv(k) /\ TypeOK /\ Lists
  BY DEF MsgInv, Receive
<1>2. /\ queue' \in [Threads -> Seq(Message)]
      /\ \A r \in Threads : r # t => queue'[r] = queue[r]
      /\ DOMAIN queue'[t] = 1 .. Len(queue'[t]) /\ Len(queue'[t]) \in Nat
      /\ m0 \in Message /\ m0 = IF queue[t] = <<>> THEN buf[w] ELSE queue[t][1]
      /\ Len(queue'[t]) = Len(queue[t])
      /\ \A i \in 1 .. Len(queue'[t]) :
           queue'[t][i] = IF i = Len(queue[t]) THEN buf[w] ELSE queue[t][i + 1]
  BY ReceiveQueues
<1>3. /\ w \in Threads /\ w # t /\ w \in Elems(waiters[t])
      /\ buf[w].from = w /\ Carried(buf[w], t) /\ ~Receives(w)
      /\ KernelInv(k')
      /\ \A u \in Threads : u # w => k'.status[u] = k.status[u]
      /\ \/ k'.status[w] = "REPLY_BLOCKED" /\ k.status[w] = "REPLY_BLOCKED"
         \/ k'.status[w] = "PENDING" /\ k.status[w] = "SEND_BLOCKED" /\ ~Asks(w)
      /\ \A u \in Threads : Executes(k', u) <=> Executes(k, u)
      /\ buf' \in [Threads -> Message \cup {NoMsg}]
      /\ \A u \in Threads : u # w \/ Asks(w) => buf'[u] = buf[u]
      /\ pc' \in [Threads -> Places] /\ pc'[t].at \in {"run", "switch"}
      /\ \A u \in Threads : /\ u # t => pc'[u] = pc[u]
                            /\ Receives(u)' <=> Receives(u)
                            /\ Asks(u)' <=> Asks(u)
  BY LetInEffect
<1>4. DOMAIN queue[t] = 1 .. Len(queue[t]) /\ Len(queue[t]) \in Nat /\ queue[t] \in Seq(Message)
  BY <1>1, ListMembers
<1>5. \A i \in 1 .. Len(queue[t]) : Carried(queue[t][i], t)
  BY <1>4 DEF MsgInv, Queues
<1>6. queue[t] # <<>> => 1 \in 1 .. Len(queue[t])
  BY <1>4, EmptySeq
<1>7. Carried(m0, t)
  BY <1>2, <1>3, <1>5, <1>6
<1>8. /\ got' \in [Pairs -> 0 .. N - 1] /\ todo' \in [Threads -> SUBSET Message]
      /\ \A r \in Threads, n \in Message :
           n \in todo'[r] <=> \/ n \in todo[r]
                              \/ r = t /\ n = m0 /\ m0.kind = "request"
      /\ \A r \in Threads, n \in Message : n \in todo'[r] => n.kind = "request"
  BY <1>1, <1>7, TakesEffect DEF MsgInv, Requests
<1>9. /\ waiters' \in [Threads -> Seq(Threads)] /\ Once(waiters'[t])
      /\ Elems(waiters'[t]) = Elems(waiters[t]) \ {w}
      /\ \A r \in Threads : r # t => waiters'[r] = waiters[r]
  <2>1. waiters[t] \in Seq(Threads) /\ Once(waiters[t])
    BY <1>1, ListMembers DEF Lists
  <2>2. /\ Tail(waiters[t]) \in Seq(Threads) /\ Once(Tail(waiters[t]))
        /\ Elems(Tail(waiters[t])) = Elems(waiters[t]) \ {w}
    BY <2>1, ElemsTail
  <2> QED BY <1>1, <2>2 DEF TypeOK
<1> HIDE DEF m0, w
<1>10. ~Receives(t) /\ \A u \in Threads : Executes(k, u) => u = t
  BY <1>1, RunFacts
<1>11. /\ \A r \in Threads : t \notin Elems(waiters[r])
       /\ IsActive(k, t) \/ k.status[t] = "REPLY_BLOCKED"
  BY <1>1, RunFacts
<1>12. \A r \in Threads : /\ Elems(waiters'[r]) \subseteq Elems(waiters[r]) \ {w}
                          /\ \A u \in Elems(waiters[r]) : u = w \/ u \in Elems(waiters'[r])
  BY <1>1, <1>3, <1>9 DEF Lists
<1>13. TypeOK'
  BY <1>1, <1>2, <1>3, <1>8, <1>9 DEF TypeOK, KernelInv
<1>14. Lists'
  <2>1. \A r \in Threads : Once(waiters'[r])
    BY <1>1, <1>9 DEF Lists
  <2>2. \A r, u \in Threads, v \in Threads :
          v \in Elems(waiters'[r]) /\ v \in Elems(waiters'[u]) => r = u
    BY <1>1, <1>12 DEF Lists
  <2>3. ASSUME NEW r \in Threads, NEW v \in Threads, v \in Elems(waiters'[r])
        PROVE  /\ k'.status[v] \in {"SEND_BLOCKED", "REPLY_BLOCKED"}
               /\ Carried(buf'[v], r) /\ buf'[v].from = v
               /\ buf'[v].kind = "request" <=> Asks(v)'
               /\ ~Receives(v)'
    <3>1. v \in Elems(waiters[r]) /\ v # w
      BY <1>12, <2>3
    <3>2. buf'[v] = buf[v] /\ k'.status[v] = k.status[v]
      BY <1>3, <3>1
    <3> QED BY <1>1, <1>3, <3>1, <3>2 DEF Lists
  <2>4. ASSUME NEW v \in Threads, k'.status[v] = "SEND_BLOCKED"
        PROVE  \E r \in Threads : v \in Elems(waiters'[r])
    <3>1. v # w /\ k.status[v] = "SEND_BLOCKED"
      BY <1>3, <2>4
    <3> QED BY <1>1, <1>12, <3>1 DEF Lists
  <2> QED BY <2>1, <2>2, <2>3, <2>4 DEF Lists, Carried
<1>15. Queues'
  <2>1. Queues
    BY DEF MsgInv
  <2>2. Len(queue[t]) = Capacity[t] /\ Len(queue'[t]) = Capacity[t] /\ Capacity[t] \in Nat
    BY <1>2, <2>1, MsgAssumption DEF Queues
  <2>3. \A i \in DOMAIN queue'[t] : Carried(queue'[t][i], t)
    BY <1>2, <1>3, <1>4, <1>5
  <2>4. \A m, r : Carried(m, r)' <=> Carried(m, r)
    BY DEF Carried
  <2> QED BY <1>2, <1>9, <2>1, <2>2, <2>3, <2>4 DEF Queues
<1>16. Receivers'
  <2> SUFFICES ASSUME NEW r \in Threads
               PROVE  /\ Receives(r)' =>
                           \/ /\ k'.status[r] = "RECEIVE_BLOCKED" /\ buf'[r] = NoMsg
                              /\ queue'[r] = <<>> /\ waiters'[r] = <<>>
                           \/ IsActive(k', r) /\ Carried(buf'[r], r)
                      /\ k'.status[r] = "RECEIVE_BLOCKED" => Receives(r)'
                      /\ pc'[r].at = "queued" => pc'[r].next # "received"
    BY DEF Receivers, Carried
  <2>1. CASE r = t
    BY <1>3, <1>10, <1>11, <2>1 DEF IsActive, OnRunqueue
  <2>2. CASE r = w
    BY <1>3, <2>2 DEF MsgInv, Receivers
  <2>3. CASE r # t /\ r # w
    <3>1. /\ k'.status[r] = k.status[r] /\ buf'[r] = buf[r] /\ queue'[r] = queue[r]
          /\ waiters'[r] = waiters[r] /\ pc'[r] = pc[r] /\ (Receives(r)' <=> Receives(r))
      BY <1>2, <1>3, <1>9, <2>3
    <3> QED BY <3>1 DEF MsgInv, Receivers, IsActive
  <2> QED BY <2>1, <2>2, <2>3
<1>17. AtWork'
  <2>1. \A u \in Threads : Executes(k', u) => u = t
    BY <1>3, <1>10
  <2>2. k'.status[t] = k.status[t] /\ \A r \in Threads : t \notin Elems(waiters'[r])
    BY <1>3, <1>11, <1>12
  <2> QED BY <1>3, <1>11, <2>1, <2>2 DEF AtWork, IsActive
<1>18. Answered'
  BY <1>1, <1>3 DEF MsgInv, Answered, HasReply, IsActive
<1>19. Requests' /\ OneRequest'
  <2>1. ASSUME NEW r \in Threads, NEW x \in Int, NEW m \in Message, Pending(x, m, r)'
        PROVE  \/ r # t /\ Pending(x, m, r)
               \/ r = t /\ x > 0 /\ x < Len(queue[t]) /\ Pending(x + 1, m, r)
               \/ r = t /\ x > 0 /\ x = Len(queue[t]) /\ Pending(-1, m, r) /\ m.from = w
               \/ r = t /\ x = 0 /\ Pending(0, m, r)
               \/ r = t /\ x = -1 /\ Pending(-1, m, r) /\ m.from # w
               \/ r = t /\ x = -2 /\ Pending(-2, m, r)
               \/ r = t /\ x = -2 /\ Len(queue[t]) > 0 /\ Pending(1, m, r)
               \/ r = t /\ x = -2 /\ Len(queue[t]) = 0 /\ Pending(-1, m, r) /\ m.from = w
    <3>1. m.kind = "request"
      BY <2>1 DEF Pending
    <3>2. CASE x \in DOMAIN queue'[r] /\ m = queue'[r][x]
      <4>1. CASE r # t
        BY <1>2, <3>1, <3>2, <4>1 DEF Pending
      <4>2. CASE r = t /\ x = Len(queue[t])
        <5>1. m = buf[w] /\ m.from = w /\ x > 0
          BY <1>2, <1>3, <1>4, <3>2, <4>2
        <5> QED BY <1>3, <3>1, <4>2, <5>1 DEF Pending
      <4>3. CASE r = t /\ x # Len(queue[t])
        <5>1. /\ x > 0 /\ x < Len(queue[t]) /\ x + 1 \in DOMAIN queue[t]
              /\ m = queue[t][x + 1]
          BY <1>2, <1>4, <3>2, <4>3
        <5> QED BY <3>1, <4>3, <5>1 DEF Pending
      <4> QED BY <4>1, <4>2, <4>3
    <3>3. CASE x = 0 /\ Receives(r)' /\ buf'[r] # NoMsg /\ m = buf'[r]
      <4>1. r # w /\ buf'[r] = buf[r] /\ Receives(r)
        BY <1>3, <3>3
      <4> QED BY <3>1, <3>3, <4>1 DEF Pending
    <3>4. CASE x = -1 /\ m.from \in Elems(waiters'[r]) /\ m = buf'[m.from]
      <4>1. m.from \in Elems(waiters[r]) /\ m.from # w /\ m.from \in Threads
        BY <1>1, <1>12, <3>4, ListMembers
      <4>2. m = buf[m.from]
        BY <1>3, <3>4, <4>1
      <4> QED BY <3>1, <3>4, <4>1, <4>2 DEF Pending
    <3>5. CASE x = -2 /\ m \in todo'[r]
      <4>1. CASE m \in todo[r]
        BY <3>1, <3>5, <4>1 DEF Pending
      <4>2. CASE r = t /\ m = m0 /\ queue[t] # <<>>
        <5>1. 1 \in DOMAIN queue[t] /\ m = queue[t][1] /\ Len(queue[t]) > 0
          BY <1>2, <1>4, <1>6, <4>2
        <5> QED BY <3>1, <3>5, <4>2, <5>1 DEF Pending
      <4>3. CASE r = t /\ m = m0 /\ queue[t] = <<>>
        <5>1. Len(queue[t]) = 0 /\ m = buf[w] /\ m.from = w
          BY <1>2, <1>3, <4>3
        <5> QED BY <1>3, <3>1, <3>5, <4>3, <5>1 DEF Pending
      <4> QED BY <1>8, <3>5, <4>1, <4>2, <4>3
    <3> QED BY <2>1, <3>2, <3>3, <3>4, <3>5 DEF Pending
  <2>2. \A r \in Threads, x \in Int, m \in Message : Pending(x, m, r)' => \E y \in Int : Pending(y, m, r)
    BY <2>1
  <2>3. \A r \in Threads, x \in Int, m \in Message :
          Pending(x, m, r)' /\ AskedFor(m, r) => AskedFor(m, r)'
    BY <1>1, <1>3 DEF AskedFor
  <2>4. \A r \in Threads, x, y \in Int, m \in Message :
          Pending(x, m, r)' /\ Pending(y, m, r)' => x = y
    <3>1. \A r \in Threads, x, y \in Int, m \in Message :
            Pending(x, m, r) /\ Pending(y, m, r) => x = y
      BY DEF MsgInv, OneRequest
    <3>2. ASSUME NEW r \in Threads, NEW x \in Int, NEW y \in Int, NEW m \in Message,
                 Pending(x, m, r)', Pending(y, m, r)'
          PROVE  x = y
      <4>1. CASE r # t
        BY <2>1, <3>1, <3>2, <4>1
      <4>2. CASE r = t
        <5> DEFINE old(z) == IF z > 0 THEN IF z < Len(queue[t]) THEN z + 1 ELSE -1
                             ELSE z
        <5>1. ASSUME NEW z \in Int, Pending(z, m, t)'
              PROVE  /\ z > 0 => z <= Len(queue[t])
                     /\ z # -2 => Pending(old(z), m, t)
                     /\ z = -2 => \/ Pending(-2, m, t)
                                  \/ Len(queue[t]) > 0 /\ Pending(1, m, t)
                                  \/ Len(queue[t]) = 0 /\ Pending(-1, m, t) /\ m.from = w
                     /\ z = -1 => m.from # w
                     /\ z = Len(queue[t]) /\ z > 0 => m.from = w
          BY <1>4, <2>1, <5>1
        <5>2. Len(queue[t]) \in Nat
          BY <1>4
        <5> QED BY <3>1, <3>2, <4>2, <5>1, <5>2
      <4> QED BY <4>1, <4>2
    <3> QED BY <3>2
  <2> QED BY <1>8, <2>2, <2>3, <2>4, RequestsMove DEF MsgInv
<1> QED BY <1>3, <1>13, <1>14, <1>15, <1>16, <1>17, <1>18, <1>19 DEF MsgInv

(* msg_receive() and msg_try_receive() with a message at hand.              *)
LEMMA ReceiveKeeps ==
  ASSUME MsgInv, NEW t \in Threads, Receive(t)
  PROVE  MsgInv'
BY ReceiveOneKeeps, ReceiveLetsInKeeps

-----------------------------------------------------------------------------
(* The senders                                                              *)

(* A message is accepted.                                                   *)
LEMMA AcceptedEffect ==
  ASSUME TypeOK, NEW m, m \in Message, NEW r, <<m.from, r>> \in Pairs, Accepted(m, r)
  PROVE  /\ sent' \in [Pairs -> 0 .. N - 1] /\ sent'[<<m.from, r>>] = m.n
         /\ \A p \in Pairs : p # <<m.from, r>> => sent'[p] = sent[p]
BY DEF TypeOK, Accepted, Message

(* The message that a sender makes.                                         *)
LEMMA NewMsgIs ==
  ASSUME TypeOK, NEW s \in Threads \cup {Isr}, NEW r, <<s, r>> \in Pairs,
         NEW kind \in Kinds
  PROVE  /\ NewMsg(s, r, kind) \in Message /\ NewMsg(s, r, kind).from = s
         /\ NewMsg(s, r, kind).kind = kind
<1>1. sent[<<s, r>>] \in 0 .. N - 1 /\ N \in Nat \ {0}
  BY MsgAssumption DEF TypeOK
<1>2. (sent[<<s, r>>] + 1) % N \in 0 .. N - 1
  BY <1>1
<1> QED BY <1>2 DEF NewMsg, Message

(* Who asked still waits when another sender's message is accepted.         *)
LEMMA OthersAsk ==
  ASSUME Requests, NEW t, NEW s,
         \A u \in Threads : u # t => Asks(u)' <=> Asks(u),
         t \in Threads => ~Asks(t),
         \A u \in Threads : k.status[u] = "REPLY_BLOCKED" /\ Asks(u) =>
                              k'.status[u] = "REPLY_BLOCKED",
         \A p \in Pairs : p[1] # t => sent'[p] = sent[p]
  PROVE  \A u \in Threads, y \in Int, n \in Message :
           Pending(y, n, u) /\ AskedFor(n, u) => AskedFor(n, u)'
BY DEF AskedFor

(* How _msg_send() is called by msg_send(), msg_try_send() and              *)
(* msg_send_receive().                                                      *)
Called(t, r, s, m, goal) ==
  /\ At(t, "run") /\ r # t /\ <<t, r>> \in Pairs
  /\ \/ /\ s = k /\ m = NewMsg(t, r, "data") /\ goal = "run"
     \/ /\ s = SetStatus(k, t, "REPLY_BLOCKED") /\ m = NewMsg(t, r, "request")
        /\ goal = "replied"
  /\ Accepted(m, r) /\ UNCHANGED <<todo, got>>

(* The state in which _msg_send() starts.                                   *)
LEMMA CallFacts ==
  ASSUME MsgInv, NEW t \in Threads, NEW r \in Threads, NEW s, NEW m, NEW goal,
         Called(t, r, s, m, goal)
  PROVE  /\ m \in Message /\ m.from = t /\ Carried(m, r) /\ <<t, r>> \in Pairs /\ r # t
         /\ goal \in Goals /\ goal # "received" /\ (m.kind = "request" <=> goal = "replied")
         /\ KernelInv(s) /\ \A u \in Threads : u # t => s.status[u] = k.status[u]
         /\ goal = "replied" => s.status[t] = "REPLY_BLOCKED"
         /\ goal # "replied" => s.status[t] = k.status[t]
         /\ s.status[t] = "REPLY_BLOCKED" \/ IsActive(s, t)
         /\ \A u \in Threads : Executes(s, u) <=> Executes(k, u)
         /\ sent' \in [Pairs -> 0 .. N - 1] /\ sent'[<<t, r>>] = m.n
         /\ \A p \in Pairs : p[1] # t => sent'[p] = sent[p]
         /\ UNCHANGED <<todo, got>>
<1>1. /\ At(t, "run") /\ r # t /\ <<t, r>> \in Pairs /\ KernelInv(k) /\ TypeOK
      /\ Accepted(m, r) /\ UNCHANGED <<todo, got>>
  BY DEF MsgInv, Called
<1>2. /\ m \in Message /\ m.from = t /\ (m.kind = "request" <=> goal = "replied")
      /\ m.kind # "reply" /\ goal \in Goals /\ goal # "received"
  <2>1. {"data", "request"} \subseteq Kinds /\ {"run", "replied"} \subseteq Goals
    BY DEF Kinds, Goals
  <2> QED BY <1>1, <2>1, NewMsgIs DEF Called
<1>3. /\ KernelInv(s) /\ \A u \in Threads : u # t => s.status[u] = k.status[u]
      /\ goal = "replied" => s.status[t] = "REPLY_BLOCKED"
      /\ goal # "replied" => s.status[t] = k.status[t]
      /\ \A u \in Threads : Executes(s, u) <=> Executes(k, u)
  <2>1. CASE s = k /\ goal = "run"
    BY <1>1, <2>1
  <2>2. CASE s = SetStatus(k, t, "REPLY_BLOCKED") /\ goal = "replied"
    <3> DEFINE n == SetStatus(k, t, "REPLY_BLOCKED")
    <3>1. "REPLY_BLOCKED" \in SetHere
      BY DEF SetHere
    <3>2. /\ KernelInv(n)
          /\ \A u \in Threads :
               n.status[u] = IF u = t THEN "REPLY_BLOCKED" ELSE k.status[u]
          /\ \A u \in Threads : Executes(n, u) <=> Executes(k, u)
      BY <1>1, <3>1, SetEffect
    <3> HIDE DEF n
    <3>3. s = n
      BY <2>2 DEF n
    <3> QED BY <2>2, <3>2, <3>3
  <2> QED BY <2>1, <2>2 DEF Called
<1>4. IsActive(k, t) \/ k.status[t] = "REPLY_BLOCKED"
  BY <1>1, RunFacts
<1>5. s.status[t] = "REPLY_BLOCKED" \/ IsActive(s, t)
  BY <1>3, <1>4 DEF IsActive
<1>6. /\ sent' \in [Pairs -> 0 .. N - 1] /\ sent'[<<t, r>>] = m.n
      /\ \A p \in Pairs : p # <<t, r>> => sent'[p] = sent[p]
  BY <1>1, <1>2, AcceptedEffect
<1>7. \A p \in Pairs : p[1] # t => sent'[p] = sent[p]
  BY <1>6
<1> QED BY <1>1, <1>2, <1>3, <1>5, <1>6, <1>7 DEF Carried

(* The lists of senders rest, and nothing changes for their members.        *)
LEMMA ListsRest ==
  ASSUME Lists, waiters' = waiters,
         \A r, t \in Threads : t \in Elems(waiters[r]) =>
           /\ k'.status[t] = k.status[t] /\ buf'[t] = buf[t]
           /\ Receives(t)' <=> Receives(t)
           /\ Asks(t)' <=> Asks(t),
         \A t \in Threads :
           k'.status[t] = "SEND_BLOCKED" => k.status[t] = "SEND_BLOCKED"
  PROVE  Lists'
<1>1. ASSUME NEW r \in Threads, NEW t \in Threads, t \in Elems(waiters'[r])
      PROVE  /\ k'.status[t] \in {"SEND_BLOCKED", "REPLY_BLOCKED"}
             /\ Carried(buf'[t], r) /\ buf'[t].from = t
             /\ buf'[t].kind = "request" <=> Asks(t)'
             /\ ~Receives(t)'
  <2>1. /\ k.status[t] \in {"SEND_BLOCKED", "REPLY_BLOCKED"}
        /\ Carried(buf[t], r) /\ buf[t].from = t
        /\ buf[t].kind = "request" <=> Asks(t)
        /\ ~Receives(t)
    BY <1>1 DEF Lists
  <2>2. /\ buf'[t] = buf[t] /\ k'.status[t] = k.status[t]
        /\ Receives(t)' <=> Receives(t)
        /\ Asks(t)' <=> Asks(t)
    BY <1>1
  <2> QED BY <2>1, <2>2
<1>2. \A t \in Threads :
        k'.status[t] = "SEND_BLOCKED" => \E r \in Threads : t \in Elems(waiters'[r])
  BY DEF Lists
<1>3. /\ \A r \in Threads : Once(waiters'[r])
      /\ \A r, u \in Threads, t \in Threads :
           t \in Elems(waiters'[r]) /\ t \in Elems(waiters'[u]) => r = u
  BY DEF Lists
<1> QED BY <1>1, <1>2, <1>3 DEF Lists, Carried

(* The place of a sender after the critical section of _msg_send().         *)
LEMMA SendPlace ==
  ASSUME TypeOK, NEW t \in Threads, NEW y \in {"yield", "queued"},
         NEW goal \in Goals, goal # "received", Go(t, [at |-> y, next |-> goal])
  PROVE  /\ pc' \in [Threads -> Places] /\ pc'[t].at = y /\ pc'[t].next = goal
         /\ ~Receives(t)' /\ (Asks(t)' <=> goal = "replied")
         /\ \A u \in Threads : u # t => /\ pc'[u] = pc[u]
                                        /\ Receives(u)' <=> Receives(u)
                                        /\ Asks(u)' <=> Asks(u)
<1> DEFINE p == [at |-> y, next |-> goal]
<1>1. /\ p \in Places /\ p.at = y /\ p.next = goal /\ p \notin ReceivePlaces
      /\ p \in AskPlaces <=> goal = "replied"
  <2>1. CASE y = "yield"
    BY <2>1, PlaceFacts
  <2>2. CASE y = "queued"
    BY <2>2, PlaceFacts
  <2> QED BY <2>1, <2>2
<1>2. Go(t, p)
  OBVIOUS
<1> HIDE DEF p
<1> QED BY <1>1, <1>2, GoEffect

(* A message that is given to a blocked receiver.                           *)
LEMMA SendDirectKeeps ==
  ASSUME MsgInv, NEW t \in Threads, NEW r \in Threads, NEW s, NEW m, NEW goal,
         Called(t, r, s, m, goal), SendDirect(t, r, s, m, goal)
  PROVE  MsgInv'
<1>1. /\ m \in Message /\ m.from = t /\ Carried(m, r) /\ <<t, r>> \in Pairs /\ r # t
      /\ goal \in Goals /\ goal # "received" /\ (m.kind = "request" <=> goal = "replied")
      /\ \A u \in Threads : u # t => s.status[u] = k.status[u]
      /\ goal = "replied" => s.status[t] = "REPLY_BLOCKED"
      /\ goal # "replied" => s.status[t] = k.status[t]
      /\ s.status[t] = "REPLY_BLOCKED" \/ IsActive(s, t)
      /\ \A u \in Threads : Executes(s, u) <=> Executes(k, u)
      /\ sent' \in [Pairs -> 0 .. N - 1] /\ sent'[<<t, r>>] = m.n
      /\ \A p \in Pairs : p[1] # t => sent'[p] = sent[p]
      /\ UNCHANGED <<todo, got>>
  BY CallFacts
<1>2. /\ s.status[r] = "RECEIVE_BLOCKED"
      /\ buf' = [buf EXCEPT ![t] = IF goal = "replied" THEN m ELSE @, ![r] = m]
      /\ Go(t, [at |-> "yield", next |-> goal])
      /\ UNCHANGED <<queue, waiters>>
  BY DEF SendDirect
<1>3. /\ TypeOK /\ Lists /\ Queues /\ Receivers /\ Answered
      /\ \A u \in Threads : Executes(k, u) => u = t
      /\ ~Receives(t) /\ ~Asks(t)
      /\ \A u \in Threads : t \notin Elems(waiters[u])
      /\ \A u \in Threads, x \in Int, n \in Message : Pending(x, n, u) => n.from # t
  BY RunFacts DEF MsgInv, Called
<1>4. /\ Receives(r) /\ queue[r] = <<>> /\ waiters[r] = <<>> /\ buf[r] = NoMsg /\ ~Asks(r)
      /\ \A u \in Threads : r \notin Elems(waiters[u])
      /\ k.status[r] = "RECEIVE_BLOCKED"
  <2>1. k.status[r] = "RECEIVE_BLOCKED"
    BY <1>1, <1>2
  <2>2. Receives(r) /\ queue[r] = <<>> /\ waiters[r] = <<>> /\ buf[r] = NoMsg
    BY <1>3, <2>1 DEF Receivers, IsActive, OnRunqueue
  <2>3. ~Asks(r)
    BY <1>3, <2>2, PlaceKinds
  <2>4. \A u \in Threads : r \notin Elems(waiters[u])
    BY <1>3, <2>1 DEF Lists
  <2> QED BY <2>1, <2>2, <2>3, <2>4
<1>5. /\ pc' \in [Threads -> Places] /\ pc'[t].at = "yield"
      /\ ~Receives(t)' /\ (Asks(t)' <=> goal = "replied")
      /\ \A u \in Threads : u # t => /\ pc'[u] = pc[u]
                                     /\ Receives(u)' <=> Receives(u)
                                     /\ Asks(u)' <=> Asks(u)
  BY <1>1, <1>2, <1>3, SendPlace
<1>6. /\ buf' \in [Threads -> Message \cup {NoMsg}] /\ buf'[r] = m
      /\ \A u \in Threads : u # r /\ u # t => buf'[u] = buf[u]
  BY <1>1, <1>2, <1>3 DEF TypeOK
<1>7. /\ KernelInv(k') /\ k'.status[r] = "PENDING" /\ k'.status[t] = s.status[t]
      /\ \A u \in Threads : u # r /\ u # t => k'.status[u] = k.status[u]
      /\ \A u \in Threads : Executes(k', u) <=> Executes(k, u)
  <2> DEFINE n == SetStatus(s, r, "PENDING")
  <2>1. k' = n /\ KernelInv(s) /\ "PENDING" \in SetHere
    BY CallFacts DEF SendDirect, SetHere
  <2>2. /\ KernelInv(n)
        /\ \A u \in Threads : n.status[u] = IF u = r THEN "PENDING" ELSE s.status[u]
        /\ \A u \in Threads : Executes(n, u) <=> Executes(s, u)
    BY <2>1, SetEffect
  <2> HIDE DEF n
  <2> QED BY <1>1, <2>1, <2>2
<1>8. TypeOK'
  BY <1>1, <1>2, <1>3, <1>5, <1>6, <1>7 DEF TypeOK, KernelInv
<1>9. Lists'
  <2>1. \A u, v \in Threads : v \in Elems(waiters[u]) =>
          v # t /\ v # r /\ k'.status[v] = k.status[v] /\ buf'[v] = buf[v]
    BY <1>3, <1>4, <1>6, <1>7
  <2>2. \A v \in Threads : k'.status[v] = "SEND_BLOCKED" => k.status[v] = "SEND_BLOCKED"
    BY <1>1, <1>7 DEF IsActive, OnRunqueue
  <2>3. ASSUME NEW u \in Threads, NEW v \in Threads, v \in Elems(waiters[u])
        PROVE  /\ k'.status[v] = k.status[v] /\ buf'[v] = buf[v]
               /\ Receives(v)' <=> Receives(v)
               /\ Asks(v)' <=> Asks(v)
    <3>1. v # t /\ k'.status[v] = k.status[v] /\ buf'[v] = buf[v]
      BY <2>1, <2>3
    <3> QED BY <1>5, <3>1
  <2> QED BY <1>2, <1>3, <2>2, <2>3, ListsRest
<1>10. Queues'
  BY <1>2, <1>3 DEF Queues, Carried
<1>11. Receivers'
  <2> SUFFICES ASSUME NEW u \in Threads
               PROVE  /\ Receives(u)' =>
                           \/ /\ k'.status[u] = "RECEIVE_BLOCKED" /\ buf'[u] = NoMsg
                              /\ queue'[u] = <<>> /\ waiters'[u] = <<>>
                           \/ IsActive(k', u) /\ Carried(buf'[u], u)
                      /\ k'.status[u] = "RECEIVE_BLOCKED" => Receives(u)'
                      /\ pc'[u].at = "queued" => pc'[u].next # "received"
    BY DEF Receivers, Carried
  <2>1. CASE u = t
    BY <1>1, <1>5, <1>7, <2>1 DEF IsActive, OnRunqueue
  <2>2. CASE u = r
    BY <1>1, <1>3, <1>4, <1>5, <1>6, <1>7, <2>2 DEF Receivers, IsActive, OnRunqueue
  <2>3. CASE u # t /\ u # r
    BY <1>2, <1>3, <1>5, <1>6, <1>7, <2>3 DEF Receivers, IsActive
  <2> QED BY <2>1, <2>2, <2>3
<1>12. AtWork'
  BY <1>3, <1>5, <1>7 DEF AtWork
<1>13. Answered'
  <2>1. \A u \in Threads : u # t /\ u # r /\ HasReply(u) => HasReply(u)'
    BY <1>1, <1>6 DEF HasReply
  <2> QED BY <1>1, <1>3, <1>4, <1>5, <1>7, <2>1 DEF Answered, IsActive
<1>14. Requests' /\ OneRequest'
  <2>1. ASSUME NEW u \in Threads, NEW x \in Int, NEW n \in Message, Pending(x, n, u)'
        PROVE  Pending(x, n, u) \/ (u = r /\ x = 0 /\ n = m)
    <3>1. n.kind = "request" /\ queue' = queue /\ waiters' = waiters /\ todo' = todo
      BY <1>1, <1>2, <2>1 DEF Pending
    <3>2. CASE x = 0 /\ Receives(u)' /\ buf'[u] # NoMsg /\ n = buf'[u]
      BY <1>5, <1>6, <3>1, <3>2 DEF Pending
    <3>3. CASE x = -1 /\ n.from \in Elems(waiters[u]) /\ n = buf'[n.from]
      <4>1. n.from \in Threads /\ n.from # t /\ n.from # r
        BY <1>3, <1>4, <3>3, ListMembers
      <4> QED BY <1>6, <3>1, <3>3, <4>1 DEF Pending
    <3>4. CASE (x \in DOMAIN queue[u] /\ n = queue[u][x]) \/ (x = -2 /\ n \in todo[u])
      BY <3>1, <3>4 DEF Pending
    <3> QED BY <2>1, <3>1, <3>2, <3>3, <3>4 DEF Pending
  <2>2. \A u \in Threads, y \in Int, n \in Message :
          Pending(y, n, u) /\ AskedFor(n, u) => AskedFor(n, u)'
    <3>1. \A u \in Threads : k.status[u] = "REPLY_BLOCKED" /\ Asks(u) =>
                               k'.status[u] = "REPLY_BLOCKED"
      BY <1>3, <1>4, <1>7
    <3> QED BY <1>1, <1>3, <1>5, <3>1, OthersAsk DEF MsgInv
  <2>3. CASE goal # "replied"
    <3>1. \A u \in Threads, x \in Int, n \in Message : Pending(x, n, u)' => Pending(x, n, u)
      BY <1>1, <2>1, <2>3 DEF Pending
    <3> QED BY <1>1, <2>2, <3>1, RequestsKeep DEF MsgInv
  <2>4. CASE goal = "replied"
    <3>1. AskedFor(m, r)' /\ 0 \in Int
      BY <1>1, <1>5, <1>7, <2>4 DEF AskedFor
    <3>2. /\ m \in Message /\ m.from = t /\ UNCHANGED todo /\ Requests /\ OneRequest
          /\ \A u \in Threads, x \in Int, n \in Message : Pending(x, n, u) => n.from # t
      BY <1>1, <1>3 DEF MsgInv
    <3>3. \A u \in Threads, y \in Int, n \in Message :
            Pending(y, n, u)' => Pending(y, n, u) \/ (u = r /\ y = 0 /\ n = m)
      BY <2>1
    <3> QED BY <2>2, <3>1, <3>2, <3>3, RequestsJoin
  <2> QED BY <2>3, <2>4
<1> QED BY <1>7, <1>8, <1>9, <1>10, <1>11, <1>12, <1>13, <1>14 DEF MsgInv

(* A message that goes to the queue.                                        *)
LEMMA AppendQueues ==
  ASSUME TypeOK, Queues, NEW r \in Threads, Room(r), NEW m, Carried(m, r),
         queue' = [queue EXCEPT ![r] = Append(@, m)], waiters' = waiters
  PROVE  /\ Queues' /\ queue' \in [Threads -> Seq(Message)]
         /\ \A u \in Threads : u # r => queue'[u] = queue[u]
         /\ DOMAIN queue'[r] = 1 .. Len(queue[r]) + 1 /\ DOMAIN queue[r] = 1 .. Len(queue[r])
         /\ Len(queue[r]) \in Nat
         /\ \A i \in 1 .. Len(queue[r]) : queue'[r][i] = queue[r][i]
         /\ queue'[r][Len(queue[r]) + 1] = m
<1> DEFINE q == queue[r]
           s == Append(q, m)
<1>1. /\ q \in Seq(Message) /\ m \in Message /\ Len(q) \in Nat /\ DOMAIN q = 1 .. Len(q)
      /\ queue \in [Threads -> Seq(Message)] /\ queue' = [queue EXCEPT ![r] = s]
  BY ListMembers DEF Carried, TypeOK
<1>2. /\ s \in Seq(Message) /\ Len(s) = Len(q) + 1 /\ DOMAIN s = 1 .. Len(q) + 1
      /\ \A i \in 1 .. Len(q) : s[i] = q[i]
      /\ s[Len(q) + 1] = m
  BY <1>1, AppendProperties, LenProperties
<1>3. Len(q) < Capacity[r] /\ Capacity[r] \in Nat
  BY MsgAssumption DEF Room
<1> HIDE DEF q, s
<1>4. /\ queue' \in [Threads -> Seq(Message)] /\ queue'[r] = s
      /\ \A u \in Threads : u # r => queue'[u] = queue[u]
  BY <1>1, <1>2
<1>5. Queues'
  <2> SUFFICES ASSUME NEW u \in Threads
               PROVE  /\ Len(queue'[u]) <= Capacity[u]
                      /\ waiters[u] # <<>> => Len(queue'[u]) = Capacity[u]
                      /\ \A i \in DOMAIN queue'[u] : Carried(queue'[u][i], u)
    BY DEF Queues, Carried
  <2>1. CASE u # r
    BY <1>4, <2>1 DEF Queues
  <2>2. CASE u = r
    <3>1. waiters[r] = <<>>
      BY <1>1, <1>3 DEF Queues, q
    <3>2. \A i \in 1 .. Len(q) : Carried(q[i], r)
      BY <1>1 DEF Queues, q
    <3>3. \A i \in 1 .. Len(q) + 1 : i \in 1 .. Len(q) \/ i = Len(q) + 1
      BY <1>1
    <3> QED BY <1>1, <1>2, <1>3, <1>4, <2>2, <3>1, <3>2, <3>3
  <2> QED BY <2>1, <2>2
<1> QED BY <1>1, <1>2, <1>4, <1>5 DEF q

(* A send or a request to a busy thread with room in its queue.             *)
LEMMA SendQueuedKeeps ==
  ASSUME MsgInv, NEW t \in Threads, NEW r \in Threads, NEW s, NEW m, NEW goal,
         Called(t, r, s, m, goal), SendQueued(t, r, s, m, goal)
  PROVE  MsgInv'
<1>1. /\ m \in Message /\ m.from = t /\ Carried(m, r) /\ <<t, r>> \in Pairs /\ r # t
      /\ goal \in Goals /\ goal # "received" /\ (m.kind = "request" <=> goal = "replied")
      /\ KernelInv(s) /\ \A u \in Threads : u # t => s.status[u] = k.status[u]
      /\ goal = "replied" => s.status[t] = "REPLY_BLOCKED"
      /\ goal # "replied" => s.status[t] = k.status[t]
      /\ s.status[t] = "REPLY_BLOCKED" \/ IsActive(s, t)
      /\ \A u \in Threads : Executes(s, u) <=> Executes(k, u)
      /\ sent' \in [Pairs -> 0 .. N - 1] /\ sent'[<<t, r>>] = m.n
      /\ \A p \in Pairs : p[1] # t => sent'[p] = sent[p]
      /\ UNCHANGED <<todo, got>>
  BY CallFacts
<1>2. /\ s.status[r] # "RECEIVE_BLOCKED" /\ Room(r) /\ k' = s
      /\ queue' = [queue EXCEPT ![r] = Append(@, m)]
      /\ buf' = [buf EXCEPT ![t] = IF goal = "replied" THEN m ELSE @]
      /\ Go(t, [at |-> "queued", next |-> goal])
      /\ UNCHANGED waiters
  BY DEF SendQueued
<1>3. /\ TypeOK /\ Lists /\ Queues /\ Receivers /\ Answered
      /\ \A u \in Threads : Executes(k, u) => u = t
      /\ ~Receives(t) /\ ~Asks(t)
      /\ \A u \in Threads : t \notin Elems(waiters[u])
      /\ \A u \in Threads, x \in Int, n \in Message : Pending(x, n, u) => n.from # t
  BY RunFacts DEF MsgInv, Called
<1>4. /\ Queues' /\ queue' \in [Threads -> Seq(Message)]
      /\ \A u \in Threads : u # r => queue'[u] = queue[u]
      /\ DOMAIN queue'[r] = 1 .. Len(queue[r]) + 1 /\ DOMAIN queue[r] = 1 .. Len(queue[r])
      /\ Len(queue[r]) \in Nat
      /\ \A i \in 1 .. Len(queue[r]) : queue'[r][i] = queue[r][i]
      /\ queue'[r][Len(queue[r]) + 1] = m
  BY <1>1, <1>2, <1>3, AppendQueues
<1>5. /\ pc' \in [Threads -> Places] /\ pc'[t].at = "queued" /\ pc'[t].next = goal
      /\ ~Receives(t)' /\ (Asks(t)' <=> goal = "replied")
      /\ \A u \in Threads : u # t => /\ pc'[u] = pc[u]
                                     /\ Receives(u)' <=> Receives(u)
                                     /\ Asks(u)' <=> Asks(u)
  BY <1>1, <1>2, <1>3, SendPlace
<1>6. /\ buf' \in [Threads -> Message \cup {NoMsg}]
      /\ \A u \in Threads : u # t => buf'[u] = buf[u]
  BY <1>1, <1>2, <1>3 DEF TypeOK
<1>7. TypeOK'
  BY <1>1, <1>2, <1>3, <1>4, <1>5, <1>6 DEF TypeOK, KernelInv
<1>8. Lists'
  <2>1. \A u, v \in Threads : v \in Elems(waiters[u]) =>
          /\ k'.status[v] = k.status[v] /\ buf'[v] = buf[v]
          /\ Receives(v)' <=> Receives(v)
          /\ Asks(v)' <=> Asks(v)
    BY <1>1, <1>2, <1>3, <1>5, <1>6
  <2>2. \A v \in Threads : k'.status[v] = "SEND_BLOCKED" => k.status[v] = "SEND_BLOCKED"
    BY <1>1, <1>2 DEF IsActive, OnRunqueue
  <2> QED BY <1>2, <1>3, <2>1, <2>2, ListsRest
<1>9. Receivers'
  <2> SUFFICES ASSUME NEW u \in Threads
               PROVE  /\ Receives(u)' =>
                           \/ /\ k'.status[u] = "RECEIVE_BLOCKED" /\ buf'[u] = NoMsg
                              /\ queue'[u] = <<>> /\ waiters'[u] = <<>>
                           \/ IsActive(k', u) /\ Carried(buf'[u], u)
                      /\ k'.status[u] = "RECEIVE_BLOCKED" => Receives(u)'
                      /\ pc'[u].at = "queued" => pc'[u].next # "received"
    BY DEF Receivers, Carried
  <2>1. CASE u = t
    BY <1>1, <1>2, <1>5, <2>1 DEF IsActive, OnRunqueue
  <2>2. CASE u = r
    <3>1. k'.status[u] = k.status[u] /\ k.status[u] # "RECEIVE_BLOCKED" /\ buf'[u] = buf[u]
      BY <1>1, <1>2, <1>6, <2>2
    <3> QED BY <1>1, <1>3, <1>5, <2>2, <3>1 DEF Receivers, IsActive
  <2>3. CASE u # t /\ u # r
    <3>1. /\ k'.status[u] = k.status[u] /\ buf'[u] = buf[u] /\ queue'[u] = queue[u]
          /\ waiters'[u] = waiters[u] /\ pc'[u] = pc[u] /\ (Receives(u)' <=> Receives(u))
      BY <1>1, <1>2, <1>4, <1>5, <1>6, <2>3
    <3> QED BY <1>3, <3>1 DEF Receivers, IsActive
  <2> QED BY <2>1, <2>2, <2>3
<1>10. AtWork'
  <2>1. \A u \in Threads : Executes(k', u) => u = t
    BY <1>1, <1>2, <1>3
  <2>2. \A u \in Threads : t \notin Elems(waiters'[u])
    BY <1>2, <1>3
  <2> QED BY <1>1, <1>2, <1>5, <2>1, <2>2 DEF AtWork
<1>11. Answered'
  <2>1. \A u \in Threads : u # t /\ HasReply(u) => HasReply(u)'
    BY <1>1, <1>6 DEF HasReply
  <2> QED BY <1>1, <1>2, <1>3, <1>5, <2>1 DEF Answered, IsActive
<1>12. Requests' /\ OneRequest'
  <2> DEFINE x0 == Len(queue[r]) + 1
  <2>1. ASSUME NEW u \in Threads, NEW x \in Int, NEW n \in Message, Pending(x, n, u)'
        PROVE  Pending(x, n, u) \/ (u = r /\ x = x0 /\ n = m)
    <3>1. n.kind = "request" /\ waiters' = waiters /\ todo' = todo
      BY <1>1, <1>2, <2>1 DEF Pending
    <3>2. CASE x \in DOMAIN queue'[u] /\ n = queue'[u][x]
      <4>1. CASE u # r
        BY <1>4, <3>1, <3>2, <4>1 DEF Pending
      <4>2. CASE u = r /\ x # x0
        <5>1. x \in DOMAIN queue[u] /\ n = queue[u][x]
          BY <1>4, <3>2, <4>2
        <5> QED BY <3>1, <5>1 DEF Pending
      <4>3. CASE u = r /\ x = x0
        BY <1>4, <3>2, <4>3
      <4> QED BY <4>1, <4>2, <4>3
    <3>3. CASE x = 0 /\ Receives(u)' /\ buf'[u] # NoMsg /\ n = buf'[u]
      BY <1>5, <1>6, <3>1, <3>3 DEF Pending
    <3>4. CASE x = -1 /\ n.from \in Elems(waiters[u]) /\ n = buf'[n.from]
      <4>1. n.from \in Threads /\ n.from # t
        BY <1>3, <3>4, ListMembers
      <4> QED BY <1>6, <3>1, <3>4, <4>1 DEF Pending
    <3>5. CASE x = -2 /\ n \in todo[u]
      BY <3>1, <3>5 DEF Pending
    <3> QED BY <2>1, <3>1, <3>2, <3>3, <3>4, <3>5 DEF Pending
  <2>2. \A u \in Threads, y \in Int, n \in Message :
          Pending(y, n, u) /\ AskedFor(n, u) => AskedFor(n, u)'
    <3>1. \A u \in Threads : k.status[u] = "REPLY_BLOCKED" /\ Asks(u) =>
                               k'.status[u] = "REPLY_BLOCKED"
      BY <1>1, <1>2, <1>3
    <3> QED BY <1>1, <1>3, <1>5, <3>1, OthersAsk DEF MsgInv
  <2>3. x0 \in Int
    BY <1>4
  <2> HIDE DEF x0
  <2>4. CASE goal # "replied"
    <3>1. \A u \in Threads, x \in Int, n \in Message : Pending(x, n, u)' => Pending(x, n, u)
      BY <1>1, <2>1, <2>4 DEF Pending
    <3> QED BY <1>1, <2>2, <3>1, RequestsKeep DEF MsgInv
  <2>5. CASE goal = "replied"
    <3>1. AskedFor(m, r)'
      BY <1>1, <1>2, <1>5, <2>5 DEF AskedFor
    <3>2. /\ m \in Message /\ m.from = t /\ UNCHANGED todo /\ Requests /\ OneRequest
          /\ \A u \in Threads, x \in Int, n \in Message : Pending(x, n, u) => n.from # t
      BY <1>1, <1>3 DEF MsgInv
    <3>3. \A u \in Threads, y \in Int, n \in Message :
            Pending(y, n, u)' => Pending(y, n, u) \/ (u = r /\ y = x0 /\ n = m)
      BY <2>1
    <3> QED BY <2>2, <2>3, <3>1, <3>2, <3>3, RequestsJoin
  <2> QED BY <2>4, <2>5
<1> QED BY <1>1, <1>2, <1>4, <1>7, <1>8, <1>9, <1>10, <1>11, <1>12 DEF MsgInv

(* A sender blocks: it joins the list of a thread whose queue is full.      *)
LEMMA SendBlocksKeeps ==
  ASSUME MsgInv, NEW t \in Threads, NEW r \in Threads, NEW s, NEW m, NEW goal,
         Called(t, r, s, m, goal), SendBlocks(t, r, s, m, goal)
  PROVE  MsgInv'
<1> DEFINE z == IF s.status[t] = "REPLY_BLOCKED" THEN "REPLY_BLOCKED" ELSE "SEND_BLOCKED"
<1>1. /\ m \in Message /\ m.from = t /\ Carried(m, r) /\ <<t, r>> \in Pairs /\ r # t
      /\ goal \in Goals /\ goal # "received" /\ (m.kind = "request" <=> goal = "replied")
      /\ KernelInv(s) /\ \A u \in Threads : u # t => s.status[u] = k.status[u]
      /\ goal = "replied" => s.status[t] = "REPLY_BLOCKED"
      /\ goal # "replied" => s.status[t] = k.status[t]
      /\ \A u \in Threads : Executes(s, u) <=> Executes(k, u)
      /\ sent' \in [Pairs -> 0 .. N - 1] /\ sent'[<<t, r>>] = m.n
      /\ \A p \in Pairs : p[1] # t => sent'[p] = sent[p]
      /\ UNCHANGED <<todo, got>>
  BY CallFacts
<1>2. /\ s.status[r] # "RECEIVE_BLOCKED" /\ ~Room(r) /\ k' = SetStatus(s, t, z)
      /\ waiters' = [waiters EXCEPT ![r] = AddToList(k', waiters[r], t)]
      /\ buf' = [buf EXCEPT ![t] = m]
      /\ Go(t, [at |-> "yield", next |-> goal])
      /\ UNCHANGED queue
  BY DEF SendBlocks
<1>3. /\ TypeOK /\ Lists /\ Queues /\ Receivers /\ Answered
      /\ \A u \in Threads : Executes(k, u) => u = t
      /\ ~Receives(t) /\ ~Asks(t)
      /\ \A u \in Threads : t \notin Elems(waiters[u])
      /\ \A u \in Threads, x \in Int, n \in Message : Pending(x, n, u) => n.from # t
  BY RunFacts DEF MsgInv, Called
<1>4. /\ KernelInv(k') /\ k'.status[t] = z
      /\ \A u \in Threads : u # t => k'.status[u] = k.status[u]
      /\ \A u \in Threads : Executes(k', u) <=> Executes(k, u)
  <2> DEFINE n == SetStatus(s, t, z)
  <2>1. KernelInv(s) /\ z \in SetHere
    BY <1>1 DEF SetHere
  <2> HIDE DEF z
  <2>2. /\ KernelInv(n)
        /\ \A u \in Threads : n.status[u] = IF u = t THEN z ELSE s.status[u]
        /\ \A u \in Threads : Executes(n, u) <=> Executes(s, u)
    BY <2>1, SetEffect
  <2>3. k' = n
    BY <1>2
  <2> HIDE DEF n
  <2> QED BY <1>1, <2>2, <2>3
<1>5. /\ z \in {"SEND_BLOCKED", "REPLY_BLOCKED"}
      /\ goal = "replied" => z = "REPLY_BLOCKED"
  BY <1>1
<1> HIDE DEF z
<1>6. /\ waiters' \in [Threads -> Seq(Threads)] /\ Once(waiters'[r])
      /\ Elems(waiters'[r]) = Elems(waiters[r]) \cup {t}
      /\ \A u \in Threads : u # r => waiters'[u] = waiters[u]
  <2> DEFINE l == AddToList(k', waiters[r], t)
  <2>1. waiters[r] \in Seq(Threads) /\ Once(waiters[r]) /\ t \notin Elems(waiters[r])
    BY <1>3, ListMembers DEF Lists
  <2>2. l \in Seq(Threads) /\ Elems(l) = Elems(waiters[r]) \cup {t} /\ Once(l)
    BY <2>1, ElemsAdd
  <2>3. waiters' = [waiters EXCEPT ![r] = l] /\ waiters \in [Threads -> Seq(Threads)]
    BY <1>2, <1>3 DEF TypeOK
  <2> HIDE DEF l
  <2> QED BY <2>2, <2>3
<1>7. /\ pc' \in [Threads -> Places] /\ pc'[t].at = "yield"
      /\ ~Receives(t)' /\ (Asks(t)' <=> goal = "replied")
      /\ \A u \in Threads : u # t => /\ pc'[u] = pc[u]
                                     /\ Receives(u)' <=> Receives(u)
                                     /\ Asks(u)' <=> Asks(u)
  BY <1>1, <1>2, <1>3, SendPlace
<1>8. /\ buf' \in [Threads -> Message \cup {NoMsg}] /\ buf'[t] = m
      /\ \A u \in Threads : u # t => buf'[u] = buf[u]
  BY <1>1, <1>2, <1>3 DEF TypeOK
<1>9. TypeOK'
  BY <1>1, <1>2, <1>3, <1>4, <1>6, <1>7, <1>8 DEF TypeOK, KernelInv
<1>10. \A u, v \in Threads : v \in Elems(waiters'[u]) <=>
         v \in Elems(waiters[u]) \/ (u = r /\ v = t)
  BY <1>6
<1>11. Lists'
  <2>1. ASSUME NEW u \in Threads, NEW v \in Threads, v \in Elems(waiters'[u])
        PROVE  /\ k'.status[v] \in {"SEND_BLOCKED", "REPLY_BLOCKED"}
               /\ Carried(buf'[v], u) /\ buf'[v].from = v
               /\ buf'[v].kind = "request" <=> Asks(v)'
               /\ ~Receives(v)'
    <3>1. CASE v = t
      <4>1. u = r
        BY <1>3, <1>10, <2>1, <3>1
      <4> QED BY <1>1, <1>4, <1>5, <1>7, <1>8, <3>1, <4>1
    <3>2. CASE v # t
      <4>1. /\ v \in Elems(waiters[u]) /\ k'.status[v] = k.status[v] /\ buf'[v] = buf[v]
            /\ Receives(v)' <=> Receives(v)
            /\ Asks(v)' <=> Asks(v)
        BY <1>4, <1>7, <1>8, <1>10, <2>1, <3>2
      <4> QED BY <1>3, <4>1 DEF Lists
    <3> QED BY <3>1, <3>2
  <2>2. \A u, v \in Threads, x \in Threads :
          x \in Elems(waiters'[u]) /\ x \in Elems(waiters'[v]) => u = v
    BY <1>3, <1>10 DEF Lists
  <2>3. ASSUME NEW v \in Threads, k'.status[v] = "SEND_BLOCKED"
        PROVE  \E u \in Threads : v \in Elems(waiters'[u])
    <3>1. CASE v = t
      BY <1>10, <3>1
    <3>2. CASE v # t
      <4>1. k.status[v] = "SEND_BLOCKED"
        BY <1>4, <2>3, <3>2
      <4> QED BY <1>3, <1>10, <4>1 DEF Lists
    <3> QED BY <3>1, <3>2
  <2>4. \A u \in Threads : Once(waiters'[u])
    BY <1>3, <1>6 DEF Lists
  <2> QED BY <2>1, <2>2, <2>3, <2>4 DEF Lists, Carried
<1>12. Queues'
  <2>1. Len(queue[r]) \in Nat /\ Capacity[r] \in Nat
    BY <1>3, ListMembers, MsgAssumption
  <2>2. Len(queue[r]) = Capacity[r]
    BY <1>2, <1>3, <2>1 DEF Queues, Room
  <2> QED BY <1>2, <1>3, <1>6, <2>2 DEF Queues, Carried
<1>13. Receivers'
  <2> SUFFICES ASSUME NEW u \in Threads
               PROVE  /\ Receives(u)' =>
                           \/ /\ k'.status[u] = "RECEIVE_BLOCKED" /\ buf'[u] = NoMsg
                              /\ queue'[u] = <<>> /\ waiters'[u] = <<>>
                           \/ IsActive(k', u) /\ Carried(buf'[u], u)
                      /\ k'.status[u] = "RECEIVE_BLOCKED" => Receives(u)'
                      /\ pc'[u].at = "queued" => pc'[u].next # "received"
    BY DEF Receivers, Carried
  <2>1. CASE u = t
    BY <1>4, <1>5, <1>7, <2>1
  <2>2. CASE u # t
    <3>1. /\ k'.status[u] = k.status[u] /\ buf'[u] = buf[u] /\ queue'[u] = queue[u]
          /\ pc'[u] = pc[u] /\ (Receives(u)' <=> Receives(u))
          /\ waiters'[u] = waiters[u] \/ k.status[u] # "RECEIVE_BLOCKED"
      BY <1>1, <1>2, <1>4, <1>6, <1>7, <1>8, <2>2
    <3> QED BY <1>3, <3>1 DEF Receivers, IsActive
  <2> QED BY <2>1, <2>2
<1>14. AtWork'
  BY <1>3, <1>4, <1>7 DEF AtWork
<1>15. Answered'
  <2>1. \A u \in Threads : u # t /\ HasReply(u) => HasReply(u)'
    BY <1>1, <1>8 DEF HasReply
  <2> QED BY <1>1, <1>3, <1>4, <1>5, <1>7, <2>1 DEF Answered, IsActive
<1>16. Requests' /\ OneRequest'
  <2>1. ASSUME NEW u \in Threads, NEW x \in Int, NEW n \in Message, Pending(x, n, u)'
        PROVE  Pending(x, n, u) \/ (u = r /\ x = -1 /\ n = m)
    <3>1. n.kind = "request" /\ queue' = queue /\ todo' = todo
      BY <1>1, <1>2, <2>1 DEF Pending
    <3>2. CASE x = 0 /\ Receives(u)' /\ buf'[u] # NoMsg /\ n = buf'[u]
      BY <1>7, <1>8, <3>1, <3>2 DEF Pending
    <3>3. CASE x = -1 /\ n.from \in Elems(waiters'[u]) /\ n = buf'[n.from]
      <4>1. n.from \in Threads
        <5>1. Elems(waiters[u]) \subseteq Threads
          BY <1>3, ListMembers
        <5>2. Elems(waiters'[u]) \subseteq Elems(waiters[u]) \cup {t}
          BY <1>6
        <5> QED BY <3>3, <5>1, <5>2
      <4>2. CASE n.from = t
        BY <1>3, <1>8, <1>10, <3>3, <4>2
      <4>3. CASE n.from # t
        <5>1. n.from \in Elems(waiters[u]) /\ n = buf[n.from]
          BY <1>8, <1>10, <3>3, <4>1, <4>3
        <5> QED BY <3>1, <3>3, <5>1 DEF Pending
      <4> QED BY <4>2, <4>3
    <3>4. CASE (x \in DOMAIN queue[u] /\ n = queue[u][x]) \/ (x = -2 /\ n \in todo[u])
      BY <3>1, <3>4 DEF Pending
    <3> QED BY <2>1, <3>1, <3>2, <3>3, <3>4 DEF Pending
  <2>2. \A u \in Threads, y \in Int, n \in Message :
          Pending(y, n, u) /\ AskedFor(n, u) => AskedFor(n, u)'
    <3>1. \A u \in Threads : k.status[u] = "REPLY_BLOCKED" /\ Asks(u) =>
                               k'.status[u] = "REPLY_BLOCKED"
      BY <1>3, <1>4
    <3> QED BY <1>1, <1>3, <1>7, <3>1, OthersAsk DEF MsgInv
  <2>3. CASE goal # "replied"
    <3>1. \A u \in Threads, x \in Int, n \in Message : Pending(x, n, u)' => Pending(x, n, u)
      BY <1>1, <2>1, <2>3 DEF Pending
    <3> QED BY <1>1, <2>2, <3>1, RequestsKeep DEF MsgInv
  <2>4. CASE goal = "replied"
    <3>1. AskedFor(m, r)' /\ -1 \in Int
      BY <1>1, <1>4, <1>5, <1>7, <2>4 DEF AskedFor
    <3>2. /\ m \in Message /\ m.from = t /\ UNCHANGED todo /\ Requests /\ OneRequest
          /\ \A u \in Threads, x \in Int, n \in Message : Pending(x, n, u) => n.from # t
      BY <1>1, <1>3 DEF MsgInv
    <3>3. \A u \in Threads, y \in Int, n \in Message :
            Pending(y, n, u)' => Pending(y, n, u) \/ (u = r /\ y = -1 /\ n = m)
      BY <2>1
    <3> QED BY <2>2, <3>1, <3>2, <3>3, RequestsJoin
  <2> QED BY <2>3, <2>4
<1> QED BY <1>4, <1>9, <1>11, <1>12, <1>13, <1>14, <1>15, <1>16 DEF MsgInv

(* msg_send_to_self(), and a handler's message that goes to the queue.      *)
LEMMA QueueOnlyKeeps ==
  ASSUME MsgInv, NEW r \in Threads, Room(r), k.status[r] # "RECEIVE_BLOCKED",
         NEW m, Carried(m, r), m.kind = "data", Accepted(m, r),
         m.from \in Threads => ~Asks(m.from),
         queue' = [queue EXCEPT ![r] = Append(@, m)],
         UNCHANGED <<k, waiters, buf, pc, todo, got>>
  PROVE  MsgInv'
<1>1. TypeOK /\ Lists /\ Queues /\ Receivers /\ Answered /\ KernelInv(k)
  BY DEF MsgInv
<1>2. /\ Queues' /\ queue' \in [Threads -> Seq(Message)]
      /\ \A u \in Threads : u # r => queue'[u] = queue[u]
      /\ DOMAIN queue'[r] = 1 .. Len(queue[r]) + 1 /\ DOMAIN queue[r] = 1 .. Len(queue[r])
      /\ Len(queue[r]) \in Nat
      /\ \A i \in 1 .. Len(queue[r]) : queue'[r][i] = queue[r][i]
      /\ queue'[r][Len(queue[r]) + 1] = m
  BY <1>1, AppendQueues
<1>3. m \in Message /\ <<m.from, r>> \in Pairs
  BY DEF Carried
<1>4. /\ sent' \in [Pairs -> 0 .. N - 1]
      /\ \A p \in Pairs : p # <<m.from, r>> => sent'[p] = sent[p]
  BY <1>1, <1>3, AcceptedEffect
<1>5. \A u \in Threads : (Receives(u)' <=> Receives(u)) /\ (Asks(u)' <=> Asks(u))
  BY <1>1, StayEffect
<1>6. TypeOK' /\ KernelInv(k')
  BY <1>1, <1>2, <1>4 DEF TypeOK
<1>7. Lists'
  BY <1>1, <1>5, ListsRest
<1>8. Receivers'
  BY <1>1, <1>2, <1>5 DEF Receivers, Carried
<1>9. AtWork'
  BY DEF MsgInv, AtWork
<1>10. \A p \in Pairs : p[1] # m.from => sent'[p] = sent[p]
  BY <1>4
<1>11. Answered'
  <2>1. \A u \in Threads : u # m.from /\ HasReply(u) => HasReply(u)'
    BY <1>10 DEF HasReply
  <2> QED BY <1>1, <1>5, <2>1 DEF Answered
<1>12. Requests' /\ OneRequest'
  <2>1. ASSUME NEW u \in Threads, NEW x \in Int, NEW n \in Message, Pending(x, n, u)'
        PROVE  Pending(x, n, u)
    <3>1. n.kind = "request" /\ waiters' = waiters /\ todo' = todo /\ buf' = buf
      BY <2>1 DEF Pending
    <3>2. CASE x \in DOMAIN queue'[u] /\ n = queue'[u][x]
      <4>1. CASE u # r
        BY <1>2, <3>1, <3>2, <4>1 DEF Pending
      <4>2. CASE u = r
        <5>1. x \in DOMAIN queue[u] /\ n = queue[u][x]
          BY <1>2, <3>1, <3>2, <4>2
        <5> QED BY <3>1, <5>1 DEF Pending
      <4> QED BY <4>1, <4>2
    <3>3. CASE x = 0 /\ Receives(u)' /\ buf'[u] # NoMsg /\ n = buf'[u]
      BY <1>5, <3>1, <3>3 DEF Pending
    <3>4. CASE \/ x = -1 /\ n.from \in Elems(waiters[u]) /\ n = buf[n.from]
               \/ x = -2 /\ n \in todo[u]
      BY <3>1, <3>4 DEF Pending
    <3> QED BY <2>1, <3>1, <3>2, <3>3, <3>4 DEF Pending
  <2>2. \A u \in Threads, y \in Int, n \in Message :
          Pending(y, n, u) /\ AskedFor(n, u) => AskedFor(n, u)'
    <3>1. \A u \in Threads : k.status[u] = "REPLY_BLOCKED" /\ Asks(u) =>
                               k'.status[u] = "REPLY_BLOCKED"
      OBVIOUS
    <3>2. \A u \in Threads : u # m.from => Asks(u)' <=> Asks(u)
      BY <1>5
    <3> QED BY <1>10, <3>1, <3>2, OthersAsk DEF MsgInv
  <2> QED BY <2>1, <2>2, RequestsKeep DEF MsgInv
<1> QED BY <1>2, <1>6, <1>7, <1>8, <1>9, <1>11, <1>12 DEF MsgInv

(* msg_send_to_self()                                                       *)
LEMMA SendToSelfKeeps ==
  ASSUME MsgInv, NEW t \in Threads, SendToSelf(t)
  PROVE  MsgInv'
<1> DEFINE m == NewMsg(t, t, "data")
<1>1. /\ At(t, "run") /\ <<t, t>> \in Pairs /\ Room(t) /\ TypeOK /\ Accepted(m, t)
      /\ queue' = [queue EXCEPT ![t] = Append(@, m)]
      /\ UNCHANGED <<k, waiters, buf, pc, todo, got>>
  BY DEF MsgInv, SendToSelf
<1>2. m \in Message /\ m.from = t /\ m.kind = "data"
  BY <1>1, NewMsgIs DEF Kinds
<1> HIDE DEF m
<1>3. ~Asks(t) /\ k.status[t] # "RECEIVE_BLOCKED"
  BY <1>1, RunFacts DEF IsActive, OnRunqueue
<1>4. Carried(m, t)
  BY <1>1, <1>2 DEF Carried
<1> QED BY <1>1, <1>2, <1>3, <1>4, QueueOnlyKeeps

(* msg_send_receive() to a thread that does not exist.                      *)
LEMMA SendReceiveGoneKeeps ==
  ASSUME MsgInv, NEW t \in Threads, NEW g, SendReceiveGone(t, g)
  PROVE  MsgInv'
<1> DEFINE n == SetStatus(k, t, "REPLY_BLOCKED")
<1>1. /\ At(t, "run") /\ k' = n /\ UNCHANGED pc
      /\ UNCHANGED <<queue, waiters, buf, todo, sent, got>>
  BY DEF SendReceiveGone, data
<1>2. /\ TypeOK /\ KernelInv(k) /\ Lists /\ Queues /\ Receivers /\ AtWork /\ Answered
      /\ Executes(k, t) /\ pc[t].at = "run" /\ ~Receives(t) /\ ~Asks(t)
      /\ \A u \in Threads : Executes(k, u) => u = t
      /\ \A u \in Threads : t \notin Elems(waiters[u])
  BY <1>1, RunFacts DEF MsgInv, At
<1>3. /\ KernelInv(k')
      /\ \A u \in Threads : k'.status[u] = IF u = t THEN "REPLY_BLOCKED" ELSE k.status[u]
      /\ \A u \in Threads : Executes(k', u) <=> Executes(k, u)
  <2>1. KernelInv(k) /\ "REPLY_BLOCKED" \in SetHere
    BY <1>2 DEF SetHere
  <2>2. /\ KernelInv(n)
        /\ \A u \in Threads : n.status[u] = IF u = t THEN "REPLY_BLOCKED" ELSE k.status[u]
        /\ \A u \in Threads : Executes(n, u) <=> Executes(k, u)
    BY <2>1, SetEffect
  <2> HIDE DEF n
  <2> QED BY <1>1, <2>2
<1> HIDE DEF n
<1>4. \A u \in Threads : (Receives(u)' <=> Receives(u)) /\ (Asks(u)' <=> Asks(u))
  BY <1>1, <1>2, StayEffect
<1>5. \A u \in Threads : u # t => k'.status[u] = k.status[u]
  BY <1>3
<1>6. k'.status[t] = "REPLY_BLOCKED"
  BY <1>3
<1>7. TypeOK'
  BY <1>1, <1>2, <1>3 DEF TypeOK, KernelInv
<1>8. Lists'
  <2>1. \A u \in Threads : k'.status[u] = "SEND_BLOCKED" => k.status[u] = "SEND_BLOCKED"
    BY <1>5, <1>6
  <2>2. \A u, v \in Threads : v \in Elems(waiters[u]) =>
          /\ k'.status[v] = k.status[v] /\ buf'[v] = buf[v]
          /\ Receives(v)' <=> Receives(v)
          /\ Asks(v)' <=> Asks(v)
    BY <1>1, <1>2, <1>4, <1>5
  <2> QED BY <1>1, <1>2, <2>1, <2>2, ListsRest
<1>9. Queues'
  BY <1>1, <1>2 DEF Queues, Carried
<1>10. Receivers'
  BY <1>1, <1>2, <1>4, <1>5, <1>6 DEF Receivers, Carried, IsActive
<1>11. AtWork'
  BY <1>1, <1>2, <1>3, <1>6 DEF AtWork
<1>12. Requests' /\ OneRequest'
  <2>1. \A u \in Threads, x \in Int, m \in Message : Pending(x, m, u)' => Pending(x, m, u)
    BY <1>1, <1>4 DEF Pending
  <2>2. \A u \in Threads, x \in Int, m \in Message :
          Pending(x, m, u)' /\ AskedFor(m, u) => AskedFor(m, u)'
    BY <1>1, <1>4, <1>5, <1>6 DEF AskedFor
  <2>3. \A u \in Threads : todo'[u] \subseteq todo[u]
    BY <1>1
  <2> QED BY <2>1, <2>2, <2>3, RequestsKeep DEF MsgInv
<1>13. Answered'
  BY <1>1, <1>2, <1>4, <1>5, <1>6 DEF Answered, HasReply, IsActive
<1> QED BY <1>1, <1>3, <1>7, <1>8, <1>9, <1>10, <1>11, <1>12, <1>13 DEF MsgInv

(* msg_send() and msg_try_send()                                            *)
LEMMA SendKeeps ==
  ASSUME MsgInv, NEW t \in Threads, NEW r \in Threads, Send(t, r)
  PROVE  MsgInv'
<1> DEFINE m == NewMsg(t, r, "data")
<1>1. Called(t, r, k, m, "run")
  BY DEF Send, Called
<1>2. SendDirect(t, r, k, m, "run") \/ SendQueued(t, r, k, m, "run")
        \/ SendBlocks(t, r, k, m, "run")
  BY DEF Send
<1> HIDE DEF m
<1> QED BY <1>1, <1>2, SendDirectKeeps, SendQueuedKeeps, SendBlocksKeeps

(* msg_send_receive()                                                       *)
LEMMA SendReceiveKeeps ==
  ASSUME MsgInv, NEW t \in Threads, NEW r \in Threads, SendReceive(t, r)
  PROVE  MsgInv'
<1> DEFINE m == NewMsg(t, r, "request")
           s == SetStatus(k, t, "REPLY_BLOCKED")
<1>1. Called(t, r, s, m, "replied")
  BY DEF SendReceive, Called
<1>2. SendDirect(t, r, s, m, "replied") \/ SendQueued(t, r, s, m, "replied")
        \/ SendBlocks(t, r, s, m, "replied")
  BY DEF SendReceive
<1> HIDE DEF m, s
<1> QED BY <1>1, <1>2, SendDirectKeeps, SendQueuedKeeps, SendBlocksKeeps

(* A handler gives its message to a blocked receiver.                       *)
LEMMA IsrDirectKeeps ==
  ASSUME MsgInv, NEW r \in Threads, NEW m, Carried(m, r), m.kind = "data",
         m.from = Isr, Accepted(m, r), k.status[r] = "RECEIVE_BLOCKED",
         buf' = [buf EXCEPT ![r] = m],
         k' = Request(SetStatus(k, r, "PENDING")),
         UNCHANGED <<queue, waiters, pc, todo, got>>
  PROVE  MsgInv'
<1> DEFINE woken == SetStatus(k, r, "PENDING")
<1>1. /\ TypeOK /\ KernelInv(k) /\ Lists /\ Queues /\ Receivers /\ AtWork /\ Answered
      /\ m \in Message /\ <<Isr, r>> \in Pairs /\ Isr \notin Threads
  BY MsgAssumption DEF MsgInv, Carried
<1>2. /\ Receives(r) /\ queue[r] = <<>> /\ waiters[r] = <<>> /\ buf[r] = NoMsg /\ ~Asks(r)
      /\ \A u \in Threads : r \notin Elems(waiters[u])
  <2>1. Receives(r) /\ queue[r] = <<>> /\ waiters[r] = <<>> /\ buf[r] = NoMsg
    BY <1>1 DEF Receivers, IsActive, OnRunqueue
  <2>2. ~Asks(r)
    BY <1>1, <2>1, PlaceKinds
  <2>3. \A u \in Threads : r \notin Elems(waiters[u])
    BY <1>1 DEF Lists
  <2> QED BY <2>1, <2>2, <2>3
<1>3. /\ KernelInv(k') /\ k'.status[r] = "PENDING"
      /\ \A u \in Threads : u # r => k'.status[u] = k.status[u]
      /\ \A u \in Threads : Executes(k', u) => Executes(k, u)
  <2>1. KernelInv(k) /\ "PENDING" \in SetHere
    BY <1>1 DEF SetHere
  <2>2. /\ KernelInv(woken)
        /\ \A u \in Threads : woken.status[u] = IF u = r THEN "PENDING" ELSE k.status[u]
        /\ \A u \in Threads : Executes(woken, u) <=> Executes(k, u)
    BY <2>1, SetEffect
  <2>3. k' = Request(woken)
    OBVIOUS
  <2> HIDE DEF woken
  <2>4. /\ KernelInv(k') /\ k'.status = woken.status
        /\ \A u \in Threads : Executes(k', u) => Executes(woken, u)
    BY <2>2, <2>3, RequestEffect
  <2> QED BY <2>2, <2>4
<1> HIDE DEF woken
<1>4. \A u \in Threads : (Receives(u)' <=> Receives(u)) /\ (Asks(u)' <=> Asks(u))
  BY <1>1, StayEffect
<1>5. /\ buf' \in [Threads -> Message \cup {NoMsg}] /\ buf'[r] = m
      /\ \A u \in Threads : u # r => buf'[u] = buf[u]
  BY <1>1 DEF TypeOK
<1>6. /\ sent' \in [Pairs -> 0 .. N - 1]
      /\ \A p \in Pairs : p[1] # Isr => sent'[p] = sent[p]
  <2>1. /\ sent' \in [Pairs -> 0 .. N - 1]
        /\ \A p \in Pairs : p # <<Isr, r>> => sent'[p] = sent[p]
    BY <1>1, AcceptedEffect
  <2> QED BY <2>1
<1>7. TypeOK'
  BY <1>1, <1>3, <1>5, <1>6 DEF TypeOK, KernelInv
<1>8. Lists'
  <2>1. \A u \in Threads : k'.status[u] = "SEND_BLOCKED" => k.status[u] = "SEND_BLOCKED"
    BY <1>3
  <2>2. ASSUME NEW u \in Threads, NEW v \in Threads, v \in Elems(waiters[u])
        PROVE  /\ k'.status[v] = k.status[v] /\ buf'[v] = buf[v]
               /\ Receives(v)' <=> Receives(v)
               /\ Asks(v)' <=> Asks(v)
    <3>1. v # r
      BY <1>2, <2>2
    <3> QED BY <1>3, <1>4, <1>5, <3>1
  <2> QED BY <1>1, <2>1, <2>2, ListsRest
<1>9. Queues'
  BY <1>1 DEF Queues, Carried
<1>10. Receivers'
  <2> SUFFICES ASSUME NEW u \in Threads
               PROVE  /\ Receives(u)' =>
                           \/ /\ k'.status[u] = "RECEIVE_BLOCKED" /\ buf'[u] = NoMsg
                              /\ queue'[u] = <<>> /\ waiters'[u] = <<>>
                           \/ IsActive(k', u) /\ Carried(buf'[u], u)
                      /\ k'.status[u] = "RECEIVE_BLOCKED" => Receives(u)'
                      /\ pc'[u].at = "queued" => pc'[u].next # "received"
    BY DEF Receivers, Carried
  <2>1. CASE u = r
    BY <1>1, <1>3, <1>5, <2>1 DEF Receivers, IsActive, OnRunqueue
  <2>2. CASE u # r
    <3>1. /\ k'.status[u] = k.status[u] /\ buf'[u] = buf[u]
          /\ Receives(u)' <=> Receives(u)
      BY <1>3, <1>4, <1>5, <2>2
    <3> QED BY <1>1, <3>1 DEF Receivers, IsActive
  <2> QED BY <2>1, <2>2
<1>11. AtWork'
  <2>1. \A u \in Threads : k'.status[u] = k.status[u] \/ IsActive(k', u)
    BY <1>3 DEF IsActive, OnRunqueue
  <2> QED BY <1>1, <1>3, <2>1 DEF AtWork, IsActive
<1>12. Answered'
  <2>1. \A u \in Threads : u # r /\ HasReply(u) => HasReply(u)'
    BY <1>1, <1>5, <1>6 DEF HasReply
  <2> QED BY <1>1, <1>2, <1>3, <1>4, <2>1 DEF Answered, IsActive
<1>13. Requests' /\ OneRequest'
  <2>1. ASSUME NEW u \in Threads, NEW x \in Int, NEW n \in Message, Pending(x, n, u)'
        PROVE  Pending(x, n, u)
    <3>1. n.kind = "request" /\ queue' = queue /\ waiters' = waiters /\ todo' = todo
      BY <2>1 DEF Pending
    <3>2. CASE x = 0 /\ Receives(u)' /\ buf'[u] # NoMsg /\ n = buf'[u]
      <4>1. u # r
        BY <1>5, <3>1, <3>2
      <4> QED BY <1>4, <1>5, <3>1, <3>2, <4>1 DEF Pending
    <3>3. CASE x = -1 /\ n.from \in Elems(waiters[u]) /\ n = buf'[n.from]
      <4>1. n.from \in Threads /\ n.from # r
        BY <1>1, <1>2, <3>3, ListMembers
      <4> QED BY <1>5, <3>1, <3>3, <4>1 DEF Pending
    <3>4. CASE (x \in DOMAIN queue[u] /\ n = queue[u][x]) \/ (x = -2 /\ n \in todo[u])
      BY <3>1, <3>4 DEF Pending
    <3> QED BY <2>1, <3>1, <3>2, <3>3, <3>4 DEF Pending
  <2>2. \A u \in Threads, y \in Int, n \in Message :
          Pending(y, n, u) /\ AskedFor(n, u) => AskedFor(n, u)'
    <3>1. \A u \in Threads : k.status[u] = "REPLY_BLOCKED" /\ Asks(u) =>
                               k'.status[u] = "REPLY_BLOCKED"
      BY <1>2, <1>3
    <3> QED BY <1>1, <1>4, <1>6, <3>1, OthersAsk DEF MsgInv
  <2> QED BY <2>1, <2>2, RequestsKeep DEF MsgInv
<1> QED BY <1>3, <1>7, <1>8, <1>9, <1>10, <1>11, <1>12, <1>13 DEF MsgInv

(* msg_send_int()                                                           *)
LEMMA IsrSendKeeps ==
  ASSUME MsgInv, NEW r \in Threads, IsrSend(r)
  PROVE  MsgInv'
<1> DEFINE m == NewMsg(Isr, r, "data")
<1>1. /\ <<Isr, r>> \in Pairs /\ Accepted(m, r) /\ UNCHANGED <<waiters, pc, todo, got>>
      /\ \/ /\ k.status[r] = "RECEIVE_BLOCKED"
            /\ buf' = [buf EXCEPT ![r] = m]
            /\ k' = Request(SetStatus(k, r, "PENDING"))
            /\ UNCHANGED queue
         \/ /\ k.status[r] # "RECEIVE_BLOCKED" /\ Room(r)
            /\ queue' = [queue EXCEPT ![r] = Append(@, m)]
            /\ UNCHANGED <<k, buf>>
  BY DEF IsrSend, Pairs
<1>2. m \in Message /\ m.from = Isr /\ m.kind = "data"
  BY <1>1, NewMsgIs DEF MsgInv, Kinds
<1> HIDE DEF m
<1>3. Carried(m, r) /\ m.from \notin Threads
  BY <1>1, <1>2, MsgAssumption DEF Carried
<1>4. CASE k.status[r] = "RECEIVE_BLOCKED"
  BY <1>1, <1>2, <1>3, <1>4, IsrDirectKeeps
<1>5. CASE k.status[r] # "RECEIVE_BLOCKED"
  BY <1>1, <1>2, <1>3, <1>5, QueueOnlyKeeps
<1> QED BY <1>4, <1>5

-----------------------------------------------------------------------------
(* The initial state and the invariant                                      *)

(* No message is on its way and nobody waits.                               *)
LEMMA InitInv == Init => MsgInv
<1> SUFFICES ASSUME Init PROVE MsgInv
  OBVIOUS
<1>1. /\ KernelInv(k) /\ k.active = NoThread
      /\ \A t \in Threads : k.status[t] \in {"PENDING", "SLEEPING"}
  BY MsgAssumption, StartOK DEF Init
<1>2. /\ \A t \in Threads : /\ queue[t] = <<>> /\ waiters[t] = <<>> /\ buf[t] = NoMsg
                            /\ pc[t] = Simple("run") /\ todo[t] = {}
      /\ Once(<<>>) /\ Elems(<<>>) = {}
      /\ <<>> \in Seq(Threads) /\ <<>> \in Seq(Message)
      /\ DOMAIN <<>> = {} /\ Len(<<>>) = 0
  BY DEF Init, Once, Elems
<1>3. Simple("run") \in Places /\ Simple("run").at = "run"
  BY PlaceFacts DEF Goals
<1>4. TypeOK
  <2>1. 0 \in 0 .. N - 1
    BY MsgAssumption
  <2> QED BY <1>1, <1>2, <1>3, <2>1 DEF Init, TypeOK, KernelInv
<1>5. \A t \in Threads : ~Receives(t) /\ ~Asks(t)
  BY <1>2, <1>3, <1>4, PlaceKinds
<1>6. Lists
  BY <1>1, <1>2 DEF Lists
<1>7. Queues
  BY <1>2, MsgAssumption DEF Queues
<1>8. Receivers
  BY <1>1, <1>2, <1>3, <1>5 DEF Receivers
<1>9. AtWork
  BY <1>1, KernelAssumption DEF AtWork, Executes
<1>10. \A r \in Threads, x \in Int, m \in Message : ~Pending(x, m, r)
  BY <1>2, <1>5 DEF Pending
<1>11. Requests /\ OneRequest /\ Answered
  BY <1>2, <1>5, <1>10 DEF Requests, OneRequest, Answered
<1> QED BY <1>1, <1>4, <1>6, <1>7, <1>8, <1>9, <1>11 DEF MsgInv

(* Every step, or none, keeps the invariant.                                *)
LEMMA StepInv == MsgInv /\ [Next]_vars => MsgInv'
<1> SUFFICES ASSUME MsgInv, [Next]_vars PROVE MsgInv'
  OBVIOUS
<1>1. CASE UNCHANGED vars
  <2>1. SameWaits /\ SamePlaces /\ KernelInv(k') /\ AtWork' /\ pc' \in [Threads -> Places]
    BY <1>1 DEF vars, SameWaits, SamePlaces, MsgInv, AtWork, TypeOK, Receives, Asks
  <2> QED BY <1>1, <2>1, FrameKeeps DEF vars, data
<1>2. ASSUME NEW t \in Threads, NEW r \in Threads, Send(t, r) \/ SendReceive(t, r)
      PROVE  MsgInv'
  BY <1>2, SendKeeps, SendReceiveKeeps
<1>3. ASSUME NEW t \in Threads, NEW g \in Gone, SendReceiveGone(t, g)
      PROVE  MsgInv'
  BY <1>3, SendReceiveGoneKeeps
<1>4. ASSUME NEW t \in Threads, SendToSelf(t) \/ Receive(t) \/ ReceiveBlocks(t)
      PROVE  MsgInv'
  BY <1>4, SendToSelfKeeps, ReceiveKeeps, ReceiveBlocksKeeps
<1>5. ASSUME NEW t \in Threads, NEW m \in todo[t], Reply(t, m) \/ IsrReply(t, m)
      PROVE  MsgInv'
  BY <1>5, ReplyKeeps, IsrReplyKeeps
<1>6. ASSUME NEW t \in Threads, Finish(t)
      PROVE  MsgInv'
  BY <1>6, QueuedKeeps, ReceivedKeeps, RepliedKeeps, DoYieldKeeps, DoSwitchKeeps
     DEF Finish
<1>7. ASSUME NEW t \in Threads, IsrSend(t) \/ IsrStart(t)
      PROVE  MsgInv'
  BY <1>7, IsrSendKeeps, IsrStartKeeps
<1>8. CASE PendSV \/ EndIdle
  BY <1>8, ProcessorKeeps
<1> QED BY <1>1, <1>2, <1>3, <1>4, <1>5, <1>6, <1>7, <1>8 DEF Next, Answer

(* The inductive invariant of messages holds in every reachable state.      *)
THEOREM MsgInvariant == Spec => []MsgInv
BY InitInv, StepInv, PTL DEF Spec

-----------------------------------------------------------------------------
(* The safety properties                                                    *)

(* A thread that blocks in msg_send() or msg_send_receive() is in one list  *)
(* of senders at most, once, and in no runqueue; a thread with              *)
(* STATUS_SEND_BLOCKED is in one, and nobody waits for a thread with room.  *)
THEOREM SendersAlwaysListed == Spec => []SendersListed
<1>1. MsgInv => SendersListed
  <2> SUFFICES ASSUME MsgInv PROVE SendersListed
    OBVIOUS
  <2>1. TypeOK /\ OneRunning(k) /\ Lists /\ Queues
    BY DEF MsgInv, KernelInv
  <2>2. \A t \in Threads : \A i \in DOMAIN waiters[t] :
          waiters[t][i] \in Threads /\ waiters[t][i] \in Elems(waiters[t])
    BY <2>1 DEF TypeOK, Elems
  <2>3. ASSUME NEW t \in Threads, NEW u \in Threads,
               NEW i \in DOMAIN waiters[t], NEW j \in DOMAIN waiters[u],
               waiters[t][i] = waiters[u][j]
        PROVE  t = u /\ i = j
    <3>1. t = u
      BY <2>1, <2>2, <2>3 DEF Lists
    <3> QED BY <2>1, <2>3, <3>1 DEF Lists, Once
  <2>4. ASSUME NEW t \in Threads, NEW i \in DOMAIN waiters[t]
        PROVE  k.status[waiters[t][i]] \in {"SEND_BLOCKED", "REPLY_BLOCKED"}
    BY <2>1, <2>2 DEF Lists
  <2>5. ASSUME NEW t \in Threads, waiters[t] # <<>>
        PROVE  ~Room(t)
    <3>1. Len(queue[t]) = Capacity[t] /\ Capacity[t] \in Nat
      BY <2>1, <2>5, MsgAssumption DEF Queues
    <3> QED BY <3>1 DEF Room
  <2>6. \A t \in Threads :
          k.status[t] = "SEND_BLOCKED" => \E u \in Threads : t \in Elems(waiters[u])
    BY <2>1 DEF Lists
  <2> QED BY <2>1, <2>3, <2>4, <2>5, <2>6 DEF SendersListed
<1> QED BY <1>1, MsgInvariant, PTL

(* No lost wakeup: while a thread is blocked in msg_receive(), its queue is *)
(* empty and no sender waits for it.                                        *)
THEOREM BlockedReceiverMissesNothing == Spec => []BlockedReceiverHasNothing
<1>1. MsgInv => BlockedReceiverHasNothing
  <2> SUFFICES ASSUME MsgInv, NEW t \in Threads, k.status[t] = "RECEIVE_BLOCKED"
               PROVE  AtHand(t) = <<>>
    BY DEF BlockedReceiverHasNothing
  <2>1. queue[t] = <<>> /\ waiters[t] = <<>>
    BY DEF MsgInv, Receivers, IsActive, OnRunqueue
  <2> QED BY <2>1 DEF AtHand
<1> QED BY <1>1, MsgInvariant, PTL

(* msg_send_receive() returns with the reply to its own request, and never  *)
(* while the thread is still in a list of senders.                          *)
THEOREM RepliesAlwaysMatch == Spec => []RepliesMatch
<1>1. MsgInv => RepliesMatch
  <2> SUFFICES ASSUME MsgInv, NEW t \in Threads, At(t, "replied")
               PROVE  /\ buf[t] # NoMsg /\ buf[t].kind = "reply"
                      /\ sent[<<t, buf[t].from>>] = buf[t].n
                      /\ \A r \in Threads : t \notin Elems(waiters[r])
    BY DEF RepliesMatch
  <2>1. Executes(k, t) /\ pc[t].at = "replied" /\ TypeOK /\ AtWork /\ Answered
    BY DEF At, MsgInv
  <2>2. Asks(t)
    BY <2>1, PlaceKinds
  <2>3. IsActive(k, t) /\ \A r \in Threads : t \notin Elems(waiters[r])
    BY <2>1 DEF AtWork
  <2>4. k.status[t] # "REPLY_BLOCKED"
    BY <2>3 DEF IsActive, OnRunqueue
  <2>5. HasReply(t)
    BY <2>1, <2>2, <2>4 DEF Answered
  <2> QED BY <2>3, <2>5, NoMsgAssumption DEF HasReply
<1> QED BY <1>1, MsgInvariant, PTL

-----------------------------------------------------------------------------
(* Messages of one sender in a sequence                                     *)

(* Ranks are positions: different and in order, and none is left out.       *)
LEMMA RankFacts ==
  ASSUME NEW S \in SUBSET Int, IsFiniteSet(S)
  PROVE  /\ \A i \in S : Rank(i, S) \in 1 .. Cardinality(S)
         /\ \A i, j \in S : i < j => Rank(i, S) < Rank(j, S)
         /\ \A n \in 1 .. Cardinality(S) : \E i \in S : Rank(i, S) = n
<1> DEFINE Upto(i) == {j \in S : j <= i}
<1>1. ASSUME NEW i \in S
      PROVE  /\ IsFiniteSet(Upto(i)) /\ Rank(i, S) = Cardinality(Upto(i))
             /\ Rank(i, S) \in 1 .. Cardinality(S)
  <2>1. Upto(i) \in SUBSET S /\ Rank(i, S) = Cardinality(Upto(i)) /\ i \in Upto(i)
    BY DEF Rank
  <2> HIDE DEF Upto
  <2>2. IsFiniteSet(Upto(i)) /\ Cardinality(Upto(i)) <= Cardinality(S)
    BY <2>1, FS_Subset
  <2>3. Cardinality(Upto(i)) \in Nat /\ Cardinality(S) \in Nat
    BY <2>2, FS_CardinalityType
  <2>4. Cardinality(Upto(i)) # 0
    BY <2>1, <2>2, FS_EmptySet
  <2> QED BY <2>1, <2>2, <2>3, <2>4
<1>2. ASSUME NEW i \in S, NEW j \in S, i < j
      PROVE  Rank(i, S) < Rank(j, S)
  <2>1. Upto(i) \in SUBSET Upto(j) /\ j \in Upto(j) /\ j \notin Upto(i)
    <3>1. i \in Int /\ j \in Int
      OBVIOUS
    <3>2. ASSUME NEW x \in Upto(i) PROVE x \in Upto(j)
      <4>1. x \in S /\ x <= i /\ x \in Int
        BY <3>2
      <4>2. x <= j
        BY <1>2, <3>1, <4>1
      <4> QED BY <4>1, <4>2
    <3>3. j <= j /\ ~(j <= i)
      BY <1>2, <3>1
    <3> QED BY <3>2, <3>3
  <2>2. /\ IsFiniteSet(Upto(j)) /\ Rank(i, S) = Cardinality(Upto(i))
        /\ Rank(j, S) = Cardinality(Upto(j))
        /\ Rank(i, S) \in 1 .. Cardinality(S) /\ Rank(j, S) \in 1 .. Cardinality(S)
    BY <1>1
  <2> HIDE DEF Upto
  <2>3. Cardinality(Upto(i)) <= Cardinality(Upto(j))
    BY <2>1, <2>2, FS_Subset
  <2>4. Cardinality(Upto(j)) # Cardinality(Upto(i))
    BY <2>1, <2>2, FS_Subset
  <2>5. Cardinality(S) \in Nat
    BY FS_CardinalityType
  <2> QED BY <2>2, <2>3, <2>4, <2>5
<1> HIDE DEF Upto
<1>3. ASSUME NEW n \in 1 .. Cardinality(S)
      PROVE  \E i \in S : Rank(i, S) = n
  <2> DEFINE T == 1 .. Cardinality(S)
             f == [i \in S |-> Rank(i, S)]
  <2>1. Cardinality(S) \in Nat
    BY FS_CardinalityType
  <2>2. IsFiniteSet(T) /\ Cardinality(T) = Cardinality(S)
    BY <2>1, FS_Interval
  <2>3. f \in [S -> T] /\ \A i \in S : f[i] = Rank(i, S)
    BY <1>1
  <2> HIDE DEF f
  <2>4. \A i, j \in S : f[i] = f[j] => i = j
    <3> SUFFICES ASSUME NEW i \in S, NEW j \in S, f[i] = f[j], i # j PROVE FALSE
      OBVIOUS
    <3>1. i < j \/ j < i
      OBVIOUS
    <3>2. Rank(i, S) = Rank(j, S) /\ Rank(i, S) \in Int
      BY <1>1, <2>1, <2>3
    <3> QED BY <1>2, <3>1, <3>2
  <2> HIDE DEF T
  <2>5. f \in Injection(S, T)
    BY <2>3, <2>4 DEF Injection, IsInjective
  <2>6. f \in Surjection(S, T)
    BY <2>2, <2>5, FS_Injection
  <2>7. n \in T
    BY DEF T
  <2>8. \E i \in S : f[i] = n
    BY <2>6, <2>7 DEF Surjection
  <2> QED BY <2>3, <2>8
<1> QED BY <1>1, <1>2, <1>3

(* A place behind all others is the last.                                   *)
LEMMA RankLast ==
  ASSUME NEW S \in SUBSET Int, IsFiniteSet(S), NEW x \in Int, \A i \in S : i < x
  PROVE  /\ IsFiniteSet(S \cup {x}) /\ Cardinality(S \cup {x}) = Cardinality(S) + 1
         /\ Rank(x, S \cup {x}) = Cardinality(S) + 1
         /\ \A i \in S : Rank(i, S \cup {x}) = Rank(i, S)
<1> DEFINE T == S \cup {x}
<1>1. x \notin S
  OBVIOUS
<1>2. IsFiniteSet(T) /\ Cardinality(T) = Cardinality(S) + 1
  BY <1>1, FS_AddElement
<1>3. {j \in T : j <= x} = T
  <2>1. \A j \in T : j <= x
    <3> SUFFICES ASSUME NEW j \in T PROVE j <= x
      OBVIOUS
    <3>1. j < x \/ j = x
      OBVIOUS
    <3>2. j \in Int
      OBVIOUS
    <3> QED BY <3>1, <3>2
  <2> QED BY <2>1
<1>4. ASSUME NEW i \in S
      PROVE  {j \in T : j <= i} = {j \in S : j <= i}
  OBVIOUS
<1> HIDE DEF T
<1>5. Rank(x, T) = Cardinality(T)
  BY <1>3 DEF Rank
<1>6. \A i \in S : Rank(i, T) = Rank(i, S)
  BY <1>4 DEF Rank
<1> QED BY <1>2, <1>5, <1>6 DEF T

(* Without the place before all others every place moves one up.            *)
LEMMA RankFirst ==
  ASSUME NEW S \in SUBSET Int, IsFiniteSet(S), NEW x \in S, \A i \in S \ {x} : x < i
  PROVE  /\ IsFiniteSet(S \ {x}) /\ Cardinality(S) = Cardinality(S \ {x}) + 1
         /\ Rank(x, S) = 1
         /\ \A i \in S \ {x} : Rank(i, S) = Rank(i, S \ {x}) + 1
<1> DEFINE T == S \ {x}
<1>1. IsFiniteSet(T) /\ Cardinality(T) = Cardinality(S) - 1 /\ Cardinality(S) \in Nat
  BY FS_RemoveElement, FS_CardinalityType
<1>2. Rank(x, S) = 1
  <2>1. x <= x
    OBVIOUS
  <2>2. \A j \in S : j <= x => j = x
    <3> SUFFICES ASSUME NEW j \in S, j # x PROVE ~(j <= x)
      OBVIOUS
    <3>1. x < j /\ x \in Int /\ j \in Int
      OBVIOUS
    <3> QED BY <3>1
  <2>3. {j \in S : j <= x} = {x}
    BY <2>1, <2>2
  <2> QED BY <2>3, FS_Singleton DEF Rank
<1>3. ASSUME NEW i \in T
      PROVE  Rank(i, S) = Rank(i, T) + 1
  <2> DEFINE R == {j \in T : j <= i}
  <2>1. R \in SUBSET T /\ x \notin R /\ {j \in S : j <= i} = R \cup {x}
    BY <1>3
  <2>2. Rank(i, S) = Cardinality(R \cup {x}) /\ Rank(i, T) = Cardinality(R)
    BY <2>1 DEF Rank
  <2> HIDE DEF R, T
  <2>3. IsFiniteSet(R)
    BY <1>1, <2>1, FS_Subset
  <2> QED BY <2>1, <2>2, <2>3, FS_AddElement
<1> QED BY <1>1, <1>2, <1>3

(* Ranks do not depend on where the places begin.                           *)
LEMMA RankMoved ==
  ASSUME NEW S \in SUBSET Int, IsFiniteSet(S), NEW T, T = {j - 1 : j \in S}
  PROVE  /\ IsFiniteSet(T) /\ Cardinality(T) = Cardinality(S)
         /\ \A i \in T : i + 1 \in S /\ Rank(i, T) = Rank(i + 1, S)
<1>1. ASSUME NEW A \in SUBSET Int, IsFiniteSet(A), NEW B, B = {j - 1 : j \in A}
      PROVE  IsFiniteSet(B) /\ Cardinality(B) = Cardinality(A)
  <2> DEFINE f == [j \in A |-> j - 1]
  <2>1. f \in [A -> B] /\ \A j \in A : f[j] = j - 1
    BY <1>1
  <2> HIDE DEF f
  <2>2. \A i, j \in A : f[i] = f[j] => i = j
    BY <2>1
  <2>3. \A b \in B : \E a \in A : f[a] = b
    BY <1>1, <2>1
  <2>4. f \in Bijection(A, B)
    BY <2>1, <2>2, <2>3 DEF Bijection, Injection, Surjection, IsInjective
  <2>5. ExistsBijection(A, B)
    BY <2>4 DEF ExistsBijection
  <2> QED BY <1>1, <2>5, FS_Bijection
<1>2. ASSUME NEW i \in T
      PROVE  i + 1 \in S /\ Rank(i, T) = Rank(i + 1, S)
  <2>1. i \in Int /\ i + 1 \in S
    BY <1>2
  <2> DEFINE A == {j \in S : j <= i + 1}
             B == {j \in T : j <= i}
  <2>2. B = {j - 1 : j \in A}
    <3>1. ASSUME NEW b \in B PROVE b \in {j - 1 : j \in A}
      <4>1. PICK j \in S : b = j - 1
        BY <3>1
      <4>2. j \in A
        BY <2>1, <3>1, <4>1
      <4> QED BY <4>1, <4>2
    <3>2. ASSUME NEW j \in A PROVE j - 1 \in B
      BY <2>1, <3>2
    <3> QED BY <3>1, <3>2
  <2>3. A \in SUBSET S /\ Rank(i, T) = Cardinality(B) /\ Rank(i + 1, S) = Cardinality(A)
    BY DEF Rank
  <2> HIDE DEF A, B
  <2>4. A \in SUBSET Int /\ IsFiniteSet(A)
    BY <2>3, FS_Subset
  <2> QED BY <1>1, <2>1, <2>2, <2>3, <2>4
<1> QED BY <1>1, <1>2

(* The places of a sender's messages.                                       *)
LEMMA OfFacts ==
  ASSUME NEW q \in Seq(Message), NEW s
  PROVE  /\ Of(s, q) \in SUBSET Int /\ IsFiniteSet(Of(s, q))
         /\ Cardinality(Of(s, q)) \in Nat /\ Len(q) \in Nat
         /\ Of(s, q) = {i \in 1 .. Len(q) : q[i].from = s}
         /\ \A i \in Of(s, q) : q[i].n \in 0 .. N - 1
<1>1. DOMAIN q = 1 .. Len(q) /\ Len(q) \in Nat /\ \A i \in 1 .. Len(q) : q[i] \in Message
  BY LenProperties, ElementOfSeq
<1>2. Of(s, q) = {i \in 1 .. Len(q) : q[i].from = s}
  BY <1>1 DEF Of
<1>3. Of(s, q) \in SUBSET (1 .. Len(q)) /\ IsFiniteSet(1 .. Len(q))
  BY <1>1, <1>2, FS_Interval
<1>4. IsFiniteSet(Of(s, q))
  BY <1>3, FS_Subset
<1>5. Cardinality(Of(s, q)) \in Nat
  BY <1>4, FS_CardinalityType
<1>6. \A m \in Message : m.n \in 0 .. N - 1
  BY DEF Message
<1> QED BY <1>1, <1>2, <1>3, <1>4, <1>5, <1>6

(* From(s, q) is the sequence of the numbers of the messages of s in q ...  *)
LEMMA FromIs ==
  ASSUME NEW q \in Seq(Message), NEW s
  PROVE  /\ From(s, q) \in Seq(0 .. N - 1)
         /\ Len(From(s, q)) = Cardinality(Of(s, q))
         /\ \A i \in Of(s, q) : From(s, q)[Rank(i, Of(s, q))] = q[i].n
<1> DEFINE S == Of(s, q)
           c == Cardinality(S)
           at(n) == CHOOSE i \in S : Rank(i, S) = n
           f == [n \in 1 .. c |-> q[at(n)].n]
<1>1. /\ S \in SUBSET Int /\ IsFiniteSet(S) /\ c \in Nat
      /\ \A i \in S : q[i].n \in 0 .. N - 1
  BY OfFacts
<1>2. From(s, q) = f
  BY DEF From
<1> HIDE DEF S
<1>3. /\ \A i \in S : Rank(i, S) \in 1 .. c
      /\ \A i, j \in S : i < j => Rank(i, S) < Rank(j, S)
      /\ \A n \in 1 .. c : \E i \in S : Rank(i, S) = n
  BY <1>1, RankFacts
<1> HIDE DEF c
<1>4. \A n \in 1 .. c : at(n) \in S /\ Rank(at(n), S) = n
  BY <1>3
<1> HIDE DEF at
<1>5. f \in [1 .. c -> 0 .. N - 1]
  BY <1>1, <1>4
<1>6. f \in Seq(0 .. N - 1) /\ Len(f) = c
  BY <1>1, <1>5
<1>7. ASSUME NEW i \in S
      PROVE  f[Rank(i, S)] = q[i].n
  <2>1. Rank(i, S) \in 1 .. c
    BY <1>3
  <2> DEFINE j == at(Rank(i, S))
  <2>2. j \in S /\ Rank(j, S) = Rank(i, S)
    BY <1>4, <2>1
  <2>3. f[Rank(i, S)] = q[j].n
    BY <2>1
  <2> HIDE DEF j
  <2>4. i \in Int /\ j \in Int /\ Rank(i, S) \in Int
    BY <1>1, <2>1, <2>2
  <2>5. i = j
    BY <1>3, <2>2, <2>4
  <2> QED BY <2>3, <2>5
<1> QED BY <1>2, <1>6, <1>7 DEF S, c

(* ... and the only one.                                                    *)
LEMMA FromUnique ==
  ASSUME NEW q \in Seq(Message), NEW s, NEW c \in Seq(0 .. N - 1),
         Len(c) = Cardinality(Of(s, q)),
         \A i \in Of(s, q) : c[Rank(i, Of(s, q))] = q[i].n
  PROVE  From(s, q) = c
<1> DEFINE S == Of(s, q)
           f == From(s, q)
<1>1. S \in SUBSET Int /\ IsFiniteSet(S)
  BY OfFacts
<1>2. /\ f \in Seq(0 .. N - 1) /\ Len(f) = Cardinality(S)
      /\ \A i \in S : f[Rank(i, S)] = q[i].n
  BY FromIs
<1>3. \A i \in S : c[Rank(i, S)] = q[i].n
  OBVIOUS
<1>4. Len(c) = Cardinality(S)
  OBVIOUS
<1> HIDE DEF S, f
<1>5. \A n \in 1 .. Cardinality(S) : \E i \in S : Rank(i, S) = n
  BY <1>1, RankFacts
<1>6. \A n \in 1 .. Len(f) : f[n] = c[n]
  BY <1>2, <1>3, <1>5
<1>7. f = c
  BY <1>2, <1>4, <1>6, SeqEqual
<1> QED BY <1>7 DEF f

(* The messages of a sender when another message is appended.               *)
LEMMA FromAppend ==
  ASSUME NEW q \in Seq(Message), NEW m \in Message, NEW s
  PROVE  From(s, Append(q, m)) = IF m.from = s THEN Append(From(s, q), m.n)
                                               ELSE From(s, q)
<1> DEFINE p == Append(q, m)
           S == Of(s, q)
           f == From(s, q)
           l == Len(q)
<1>1. /\ p \in Seq(Message) /\ Len(p) = l + 1 /\ p[l + 1] = m
      /\ \A i \in 1 .. l : p[i] = q[i]
  BY AppendProperties
<1>2. /\ S \in SUBSET Int /\ IsFiniteSet(S) /\ Cardinality(S) \in Nat /\ l \in Nat
      /\ S = {i \in 1 .. l : q[i].from = s}
  BY OfFacts
<1>3. Of(s, p) = {i \in 1 .. Len(p) : p[i].from = s}
  BY <1>1, OfFacts
<1>4. /\ f \in Seq(0 .. N - 1) /\ Len(f) = Cardinality(S)
      /\ \A i \in S : f[Rank(i, S)] = q[i].n
  BY FromIs
<1>5. m.n \in 0 .. N - 1
  BY DEF Message
<1>6. \A i \in S : Rank(i, S) \in 1 .. Cardinality(S)
  BY <1>2, RankFacts
<1> HIDE DEF p, S, f, l
<1>7. CASE m.from # s
  <2>1. Of(s, p) = S
    BY <1>1, <1>2, <1>3, <1>7
  <2>2. \A i \in S : f[Rank(i, S)] = p[i].n
    BY <1>1, <1>2, <1>4
  <2>3. From(s, p) = f
    BY <1>1, <1>4, <2>1, <2>2, FromUnique
  <2> QED BY <1>7, <2>3 DEF p, f
<1>8. CASE m.from = s
  <2> DEFINE g == Append(f, m.n)
             T == S \cup {l + 1}
  <2>1. Of(s, p) = T
    BY <1>1, <1>2, <1>3, <1>8
  <2>2. /\ g \in Seq(0 .. N - 1) /\ Len(g) = Cardinality(S) + 1
        /\ g[Cardinality(S) + 1] = m.n
        /\ \A i \in 1 .. Cardinality(S) : g[i] = f[i]
    BY <1>4, <1>5, AppendProperties
  <2>3. /\ Cardinality(T) = Cardinality(S) + 1
        /\ Rank(l + 1, T) = Cardinality(S) + 1
        /\ \A i \in S : Rank(i, T) = Rank(i, S)
    <3>1. l + 1 \in Int /\ \A i \in S : i < l + 1
      BY <1>2
    <3> QED BY <1>2, <3>1, RankLast
  <2> HIDE DEF g
  <2>4. ASSUME NEW i \in T
        PROVE  g[Rank(i, T)] = p[i].n
    <3>1. CASE i = l + 1
      BY <1>1, <2>2, <2>3, <3>1
    <3>2. CASE i \in S
      <4>1. g[Rank(i, T)] = f[Rank(i, S)]
        BY <1>6, <2>2, <2>3, <3>2
      <4>2. f[Rank(i, S)] = q[i].n /\ p[i] = q[i]
        BY <1>1, <1>2, <1>4, <3>2
      <4> QED BY <4>1, <4>2
    <3> QED BY <3>1, <3>2
  <2> HIDE DEF T
  <2>5. From(s, p) = g
    BY <1>1, <2>1, <2>2, <2>3, <2>4, FromUnique
  <2> QED BY <1>8, <2>5 DEF g, p, f
<1> QED BY <1>7, <1>8

(* The messages of a sender when the first message is taken.                *)
LEMMA FromTail ==
  ASSUME NEW q \in Seq(Message), q # <<>>, NEW s
  PROVE  /\ Head(q).from # s => From(s, Tail(q)) = From(s, q)
         /\ Head(q).from = s => /\ From(s, q) # <<>>
                                /\ Head(From(s, q)) = Head(q).n
                                /\ From(s, Tail(q)) = Tail(From(s, q))
<1> DEFINE p == Tail(q)
           S == Of(s, q)
           R == S \ {1}
           T == Of(s, p)
           f == From(s, q)
           l == Len(q)
<1>1. /\ p \in Seq(Message) /\ Len(p) = l - 1 /\ l \in Nat \ {0} /\ Head(q) = q[1]
      /\ \A i \in 1 .. l - 1 : p[i] = q[i + 1]
  <2>1. p \in Seq(Message) /\ Len(p) = l - 1 /\ \A i \in 1 .. Len(p) : p[i] = q[i + 1]
    BY HeadTailProperties
  <2>2. l \in Nat \ {0} /\ Head(q) = q[1]
    BY EmptySeq
  <2> QED BY <2>1, <2>2
<1>2. /\ S \in SUBSET Int /\ IsFiniteSet(S) /\ Cardinality(S) \in Nat
      /\ S = {i \in 1 .. l : q[i].from = s}
  BY OfFacts
<1>3. T = {i \in 1 .. Len(p) : p[i].from = s}
  BY <1>1, OfFacts
<1>4. /\ f \in Seq(0 .. N - 1) /\ Len(f) = Cardinality(S)
      /\ \A i \in S : f[Rank(i, S)] = q[i].n
  BY FromIs
<1>5. 1 \in S <=> Head(q).from = s
  BY <1>1, <1>2
<1>6. R \in SUBSET Int /\ IsFiniteSet(R)
  BY <1>2, FS_RemoveElement
<1> HIDE DEF p, f, l
<1>7. T = {j - 1 : j \in R}
  <2>1. ASSUME NEW i \in T PROVE i \in {j - 1 : j \in R}
    <3>1. i \in 1 .. l - 1 /\ p[i].from = s
      BY <1>1, <1>3, <2>1
    <3>2. i + 1 \in R /\ i = (i + 1) - 1
      BY <1>1, <1>2, <3>1
    <3> QED BY <3>2
  <2>2. ASSUME NEW j \in R PROVE j - 1 \in T
    <3>1. j \in 1 .. l /\ j # 1 /\ q[j].from = s
      BY <1>2, <2>2
    <3>2. j - 1 \in 1 .. l - 1 /\ (j - 1) + 1 = j
      BY <1>1, <3>1
    <3>3. p[j - 1] = q[j]
      BY <1>1, <3>2
    <3> QED BY <1>1, <1>3, <3>1, <3>2, <3>3
  <2> HIDE DEF T, R
  <2> QED BY <2>1, <2>2
<1> HIDE DEF S, R, T
<1>8. /\ Cardinality(T) = Cardinality(R)
      /\ \A i \in T : i + 1 \in R /\ Rank(i, T) = Rank(i + 1, R)
  BY <1>6, <1>7, RankMoved
<1>9. \A i \in T : p[i] = q[i + 1]
  BY <1>1, <1>3
<1>10. CASE Head(q).from # s
  <2>1. R = S
    BY <1>5, <1>10 DEF R
  <2>2. \A i \in T : f[Rank(i, T)] = p[i].n
    BY <1>4, <1>8, <1>9, <2>1
  <2>3. From(s, p) = f
    BY <1>1, <1>4, <1>8, <2>1, <2>2, FromUnique DEF T
  <2> QED BY <1>10, <2>3 DEF p, f
<1>11. CASE Head(q).from = s
  <2> DEFINE g == Tail(f)
             c == Cardinality(R)
  <2>1. 1 \in S /\ \A i \in R : 1 < i
    <3>1. 1 \in S
      BY <1>5, <1>11
    <3>2. \A i \in R : i \in 1 .. l /\ i # 1
      BY <1>2 DEF R
    <3> QED BY <1>1, <3>1, <3>2
  <2>2. /\ Cardinality(S) = c + 1 /\ Rank(1, S) = 1
        /\ \A i \in R : Rank(i, S) = Rank(i, R) + 1
    BY <1>2, <2>1, RankFirst DEF R
  <2>3. c \in Nat /\ \A i \in R : Rank(i, R) \in 1 .. c
    BY <1>6, RankFacts, FS_CardinalityType
  <2> HIDE DEF c
  <2>4. f # <<>> /\ Head(f) = f[1]
    <3>1. Len(f) # 0
      BY <1>4, <2>2, <2>3
    <3> QED BY <1>4, <3>1, EmptySeq
  <2>5. /\ g \in Seq(0 .. N - 1) /\ Len(g) = c
        /\ \A i \in 1 .. c : g[i] = f[i + 1]
    <3>1. g \in Seq(0 .. N - 1) /\ Len(g) = Len(f) - 1
          /\ \A i \in 1 .. Len(g) : g[i] = f[i + 1]
      BY <1>4, <2>4, HeadTailProperties
    <3> QED BY <1>4, <2>2, <2>3, <3>1
  <2>6. f[1] = q[1].n
    BY <1>4, <2>1, <2>2
  <2> HIDE DEF g
  <2>7. ASSUME NEW i \in T
        PROVE  g[Rank(i, T)] = p[i].n
    <3>1. i + 1 \in R /\ i + 1 \in S /\ Rank(i, T) = Rank(i + 1, R) /\ p[i] = q[i + 1]
      BY <1>8, <1>9 DEF R
    <3>2. g[Rank(i + 1, R)] = f[Rank(i + 1, R) + 1]
      BY <2>3, <2>5, <3>1
    <3>3. f[Rank(i + 1, S)] = q[i + 1].n
      BY <1>4, <3>1
    <3> QED BY <2>2, <3>1, <3>2, <3>3
  <2>8. From(s, p) = g
    <3>1. Len(g) = Cardinality(T)
      BY <1>8, <2>5 DEF c
    <3> QED BY <1>1, <2>5, <2>7, <3>1, FromUnique DEF T
  <2> QED BY <1>1, <1>11, <2>4, <2>6, <2>8 DEF p, f, g
<1> QED BY <1>10, <1>11

-----------------------------------------------------------------------------
(* The channels                                                             *)

Channel == [p \in Pairs |-> OnTheWay(p[1], p[2])]

(* What r was given or has queued, before a step and after it.              *)
LEMMA LineIs ==
  ASSUME NEW r \in Threads
  PROVE  /\ Line(r) = IF Receives(r) /\ buf[r] # NoMsg THEN <<buf[r]>> \o queue[r]
                                                       ELSE queue[r]
         /\ Line(r)' = IF Receives(r)' /\ buf'[r] # NoMsg THEN <<buf'[r]>> \o queue'[r]
                                                          ELSE queue'[r]
BY DEF Line, Receives, ReceivePlaces

(* A line is a sequence of messages.                                        *)
LEMMA LineType ==
  ASSUME TypeOK, NEW r \in Threads
  PROVE  Line(r) \in Seq(Message)
<1>1. queue[r] \in Seq(Message) /\ (buf[r] # NoMsg => buf[r] \in Message)
  BY DEF TypeOK
<1>2. CASE Receives(r) /\ buf[r] # NoMsg
  <2> DEFINE a == <<buf[r]>>
  <2>1. a \in Seq(Message)
    BY <1>1, <1>2
  <2>2. Line(r) = a \o queue[r]
    BY <1>2, LineIs
  <2> HIDE DEF a
  <2> QED BY <1>1, <2>1, <2>2, ConcatProperties
<1>3. CASE ~(Receives(r) /\ buf[r] # NoMsg)
  BY <1>1, <1>3, LineIs
<1> QED BY <1>2, <1>3

(* A step that moves no message.                                            *)
LEMMA ChannelsRest ==
  ASSUME UNCHANGED <<queue, waiters>>,
         \A r \in Threads : /\ Receives(r)' /\ buf'[r] # NoMsg <=>
                                 Receives(r) /\ buf[r] # NoMsg
                            /\ Receives(r) /\ buf[r] # NoMsg => buf'[r] = buf[r],
         \A r \in Threads : \A s \in Elems(waiters[r]) : buf'[s] = buf[s]
  PROVE  \A r \in Threads, s \in Threads \cup {Isr} : OnTheWay(s, r)' = OnTheWay(s, r)
<1> SUFFICES ASSUME NEW r \in Threads, NEW s \in Threads \cup {Isr}
             PROVE  OnTheWay(s, r)' = OnTheWay(s, r)
  OBVIOUS
<1>1. Line(r)' = Line(r)
  BY LineIs
<1>2. waiters'[r] = waiters[r] /\ (s \in Elems(waiters[r]) => buf'[s] = buf[s])
  OBVIOUS
<1> QED BY <1>1, <1>2 DEF OnTheWay

(* A message joins the line of r, from a sender that has none waiting.      *)
LEMMA LineGrows ==
  ASSUME TypeOK, NEW r \in Threads, NEW m \in Message,
         Line(r)' = Append(Line(r), m),
         \A u \in Threads : u # r => Line(u)' = Line(u),
         UNCHANGED waiters,
         \A u \in Threads : \A s \in Elems(waiters[u]) : s # m.from /\ buf'[s] = buf[s]
  PROVE  /\ OnTheWay(m.from, r)' = Append(OnTheWay(m.from, r), m.n)
         /\ \A u \in Threads, s \in Threads \cup {Isr} :
              s # m.from \/ u # r => OnTheWay(s, u)' = OnTheWay(s, u)
<1>1. OnTheWay(m.from, r)' = Append(OnTheWay(m.from, r), m.n)
  <2>1. From(m.from, Append(Line(r), m)) = Append(From(m.from, Line(r)), m.n)
    BY LineType, FromAppend
  <2>2. m.from \notin Elems(waiters[r]) /\ waiters'[r] = waiters[r]
    OBVIOUS
  <2> QED BY <2>1, <2>2 DEF OnTheWay
<1>2. ASSUME NEW u \in Threads, NEW s \in Threads \cup {Isr}, s # m.from \/ u # r
      PROVE  OnTheWay(s, u)' = OnTheWay(s, u)
  <2>1. From(s, Line(u)') = From(s, Line(u))
    <3>1. CASE u # r
      BY <3>1
    <3>2. CASE u = r
      <4>1. From(s, Append(Line(r), m)) = From(s, Line(r))
        BY <1>2, <3>2, LineType, FromAppend
      <4> QED BY <3>2, <4>1
    <3> QED BY <3>1, <3>2
  <2>2. waiters'[u] = waiters[u] /\ (s \in Elems(waiters[u]) => buf'[s] = buf[s])
    OBVIOUS
  <2> QED BY <2>1, <2>2 DEF OnTheWay
<1> QED BY <1>1, <1>2

(* The two partners of a channel.                                           *)
LEMMA PairsAre ==
  ASSUME NEW p \in Pairs
  PROVE  p[1] \in Threads \cup {Isr} /\ p[2] \in Threads /\ p = <<p[1], p[2]>>
BY MsgAssumption DEF Pairs

(* A message m that joins its channel is accepted.                          *)
LEMMA AcceptStep ==
  ASSUME TypeOK, NEW r \in Threads, NEW m, <<m.from, r>> \in Pairs,
         m.n = (sent[<<m.from, r>>] + 1) % N, Accepted(m, r), UNCHANGED got,
         OnTheWay(m.from, r)' = Append(OnTheWay(m.from, r), m.n),
         \A u \in Threads, s \in Threads \cup {Isr} :
           s # m.from \/ u # r => OnTheWay(s, u)' = OnTheWay(s, u)
  PROVE  Abstract!Accept(<<m.from, r>>)
<1> DEFINE p == <<m.from, r>>
<1>1. \A x \in Pairs : x # p => OnTheWay(x[1], x[2])' = OnTheWay(x[1], x[2])
  BY PairsAre
<1>2. p \in Pairs /\ p[1] = m.from /\ p[2] = r
  OBVIOUS
<1>3. Channel[p] = OnTheWay(m.from, r) /\ OnTheWay(p[1], p[2])' = Append(Channel[p], m.n)
  BY <1>2 DEF Channel
<1>4. sent' = [sent EXCEPT ![p] = m.n] /\ m.n = (sent[p] + 1) % N
  BY DEF Accepted
<1> HIDE DEF p
<1>5. Channel' = [Channel EXCEPT ![p] = Append(Channel[p], m.n)]
  BY <1>1, <1>2, <1>3 DEF Channel
<1> QED BY <1>4, <1>5 DEF Abstract!Accept, Abstract!Following, Channel, p

(* A message m that leaves its channel is delivered.                        *)
LEMMA DeliverStep ==
  ASSUME NEW r \in Threads, NEW m, <<m.from, r>> \in Pairs, Takes(r, m), UNCHANGED sent,
         OnTheWay(m.from, r) # <<>>, Head(OnTheWay(m.from, r)) = m.n,
         OnTheWay(m.from, r)' = Tail(OnTheWay(m.from, r)),
         \A u \in Threads, s \in Threads \cup {Isr} :
           s # m.from \/ u # r => OnTheWay(s, u)' = OnTheWay(s, u)
  PROVE  Abstract!Deliver(<<m.from, r>>)
<1> DEFINE p == <<m.from, r>>
<1>1. \A x \in Pairs : x # p => OnTheWay(x[1], x[2])' = OnTheWay(x[1], x[2])
  BY PairsAre
<1>2. p \in Pairs /\ p[1] = m.from /\ p[2] = r
  OBVIOUS
<1>3. Channel[p] = OnTheWay(m.from, r) /\ OnTheWay(p[1], p[2])' = Tail(Channel[p])
  BY <1>2 DEF Channel
<1>4. got' = [got EXCEPT ![p] = m.n]
  BY DEF Takes
<1>5. Channel[p] # <<>> /\ m.n = Head(Channel[p])
  BY <1>3
<1> HIDE DEF p
<1>6. Channel' = [Channel EXCEPT ![p] = Tail(Channel[p])]
  BY <1>1, <1>2, <1>3 DEF Channel
<1> QED BY <1>4, <1>5, <1>6 DEF Abstract!Deliver, Channel, p

(* Steps that the channels do not see.                                      *)
LEMMA RestStep ==
  ASSUME \A r \in Threads, s \in Threads \cup {Isr} : OnTheWay(s, r)' = OnTheWay(s, r)
  PROVE  Channel' = Channel
BY PairsAre DEF Channel

(* A step that changes no data moves no message.                            *)
LEMMA DataRests ==
  ASSUME UNCHANGED data, SamePlaces
  PROVE  UNCHANGED <<Channel, sent, got>>
<1>1. UNCHANGED <<queue, waiters, buf, sent, got>>
  BY DEF data
<1>2. \A r \in Threads : Receives(r)' <=> Receives(r)
  BY DEF SamePlaces
<1>3. \A r \in Threads, s \in Threads \cup {Isr} : OnTheWay(s, r)' = OnTheWay(s, r)
  BY <1>1, <1>2, ChannelsRest
<1> QED BY <1>1, <1>3, RestStep

(* A receiver that blocks had no message on the way.                        *)
LEMMA ReceiveBlocksRests ==
  ASSUME MsgInv, NEW t \in Threads, ReceiveBlocks(t)
  PROVE  UNCHANGED <<Channel, sent, got>>
<1> DEFINE p == [at |-> "yield", next |-> "received"]
<1>1. /\ At(t, "run") /\ Go(t, p) /\ buf' = [buf EXCEPT ![t] = NoMsg]
      /\ UNCHANGED <<queue, waiters, sent, got>> /\ TypeOK
  BY DEF ReceiveBlocks, MsgInv
<1>2. ~Receives(t) /\ \A r \in Threads : t \notin Elems(waiters[r])
  BY <1>1, RunFacts
<1>3. p \in Places
  BY PlaceFacts DEF Goals
<1> HIDE DEF p
<1>4. \A u \in Threads : u # t => (Receives(u)' <=> Receives(u))
  BY <1>1, <1>3, GoEffect
<1>5. \A u \in Threads : buf'[u] = IF u = t THEN NoMsg ELSE buf[u]
  BY <1>1 DEF TypeOK
<1>6. \A r \in Threads : \A s \in Elems(waiters[r]) : buf'[s] = buf[s]
  BY <1>1, <1>2, <1>5, ListMembers
<1>7. \A r \in Threads, s \in Threads \cup {Isr} : OnTheWay(s, r)' = OnTheWay(s, r)
  BY <1>1, <1>2, <1>4, <1>5, <1>6, ChannelsRest
<1> QED BY <1>1, <1>7, RestStep

(* The end of a request moves no message.                                   *)
LEMMA RepliedRests ==
  ASSUME MsgInv, NEW t \in Threads, Replied(t)
  PROVE  UNCHANGED <<Channel, sent, got>>
<1>1. /\ Executes(k, t) /\ pc[t].at = "replied" /\ Go(t, Simple("run"))
      /\ buf' = [buf EXCEPT ![t] = NoMsg]
      /\ UNCHANGED <<queue, waiters, sent, got>> /\ TypeOK
  BY DEF Replied, At, MsgInv
<1>2. ~Receives(t) /\ \A r \in Threads : t \notin Elems(waiters[r])
  BY <1>1, PlaceKinds DEF MsgInv, AtWork
<1>3. Simple("run") \in Places /\ Simple("run") \notin ReceivePlaces
  BY PlaceFacts DEF Goals
<1>4. /\ ~Receives(t)'
      /\ \A u \in Threads : u # t => (Receives(u)' <=> Receives(u))
  BY <1>1, <1>3, GoEffect
<1>5. \A u \in Threads : buf'[u] = IF u = t THEN NoMsg ELSE buf[u]
  BY <1>1 DEF TypeOK
<1>6. \A r \in Threads : \A s \in Elems(waiters[r]) : buf'[s] = buf[s]
  BY <1>1, <1>2, <1>5, ListMembers
<1>7. \A r \in Threads, s \in Threads \cup {Isr} : OnTheWay(s, r)' = OnTheWay(s, r)
  BY <1>1, <1>2, <1>4, <1>5, <1>6, ChannelsRest
<1> QED BY <1>1, <1>7, RestStep

(* A reply goes to a thread that receives nothing else.                     *)
LEMMA AnswersRests ==
  ASSUME MsgInv, NEW t \in Threads, NEW m \in todo[t], Answers(t, m),
         \A u \in Threads : Receives(u)' <=> Receives(u)
  PROVE  UNCHANGED <<Channel, sent, got>>
<1>1. /\ buf' = [buf EXCEPT ![m.from] = ReplyTo(t, m)]
      /\ UNCHANGED <<queue, waiters, sent, got>> /\ TypeOK
  BY DEF Answers, MsgInv
<1>2. /\ m.from \in Threads /\ ~Receives(m.from)
      /\ \A r \in Threads : m.from \notin Elems(waiters[r])
  BY AskerRests
<1>3. \A u \in Threads : u # m.from => buf'[u] = buf[u]
  BY <1>1 DEF TypeOK
<1>4. \A r \in Threads : \A s \in Elems(waiters[r]) : buf'[s] = buf[s]
  BY <1>1, <1>2, <1>3, ListMembers
<1>5. \A r \in Threads : /\ Receives(r)' /\ buf'[r] # NoMsg <=>
                              Receives(r) /\ buf[r] # NoMsg
                         /\ Receives(r) /\ buf[r] # NoMsg => buf'[r] = buf[r]
  BY <1>2, <1>3
<1>6. \A r \in Threads, s \in Threads \cup {Isr} : OnTheWay(s, r)' = OnTheWay(s, r)
  BY <1>1, <1>4, <1>5, ChannelsRest
<1> QED BY <1>1, <1>6, RestStep

(* A message is put in the queue of r.                                      *)
LEMMA LineAppend ==
  ASSUME TypeOK, NEW r \in Threads, NEW m \in Message, queue'[r] = Append(queue[r], m),
         Receives(r)' <=> Receives(r), Receives(r) => buf'[r] = buf[r]
  PROVE  Line(r)' = Append(Line(r), m)
<1>1. queue[r] \in Seq(Message) /\ (buf[r] # NoMsg => buf[r] \in Message)
  BY DEF TypeOK
<1>2. CASE Receives(r) /\ buf[r] # NoMsg
  <2> DEFINE a == <<buf[r]>>
             q == queue[r]
  <2>1. a \in Seq(Message) /\ <<m>> \in Seq(Message) /\ q \in Seq(Message)
    BY <1>1, <1>2
  <2>2. Line(r) = a \o q /\ Line(r)' = a \o Append(q, m)
    BY <1>2, LineIs
  <2> HIDE DEF a, q
  <2>3. a \o q \in Seq(Message)
    BY <2>1, ConcatProperties
  <2>4. Append(q, m) = q \o <<m>> /\ Append(a \o q, m) = (a \o q) \o <<m>>
    BY <2>1, <2>3, AppendIsConcat
  <2>5. a \o (q \o <<m>>) = (a \o q) \o <<m>>
    BY <2>1, ConcatAssociative
  <2> QED BY <2>2, <2>4, <2>5
<1>3. CASE ~(Receives(r) /\ buf[r] # NoMsg)
  BY <1>3, LineIs
<1> QED BY <1>2, <1>3

(* A message is given to a blocked receiver.                                *)
LEMMA LineFirst ==
  ASSUME NEW r \in Threads, NEW m \in Message, Receives(r)', buf[r] = NoMsg,
         buf'[r] = m, queue[r] = <<>>, queue'[r] = <<>>
  PROVE  Line(r)' = Append(Line(r), m)
<1>1. Line(r) = <<>> /\ Line(r)' = <<m>> \o <<>>
  BY LineIs, NoMsgAssumption
<1>2. <<m>> \in Seq(Message) /\ <<>> \in Seq(Message)
  OBVIOUS
<1>3. <<m>> \o <<>> = <<m>>
  BY <1>2, ConcatEmptySeq
<1>4. Append(<<>>, m) = <<m>>
  <2>1. Append(<<>>, m) = <<>> \o <<m>> /\ <<>> \o <<m>> = <<m>>
    BY <1>2, AppendIsConcat, ConcatEmptySeq
  <2> QED BY <2>1
<1> QED BY <1>1, <1>3, <1>4

(* _msg_send() and msg_send_to_self() accept a message.                     *)
LEMMA CalledNumber ==
  ASSUME NEW t, NEW r, NEW s, NEW m, NEW goal, Called(t, r, s, m, goal)
  PROVE  Accepted(m, r) /\ m.n = (sent[<<t, r>>] + 1) % N
BY DEF Called, NewMsg

(* A message that is given to a blocked receiver.                           *)
LEMMA SendDirectAccepts ==
  ASSUME MsgInv, NEW t \in Threads, NEW r \in Threads, NEW s, NEW m, NEW goal,
         Called(t, r, s, m, goal), SendDirect(t, r, s, m, goal)
  PROVE  Abstract!Accept(<<t, r>>)
<1>1. /\ m \in Message /\ m.from = t /\ <<t, r>> \in Pairs /\ r # t
      /\ goal \in Goals /\ goal # "received" /\ s.status[r] = k.status[r]
      /\ UNCHANGED got
  BY CallFacts
<1>2. /\ s.status[r] = "RECEIVE_BLOCKED"
      /\ buf' = [buf EXCEPT ![t] = IF goal = "replied" THEN m ELSE @, ![r] = m]
      /\ Go(t, [at |-> "yield", next |-> goal])
      /\ UNCHANGED <<queue, waiters>>
  BY DEF SendDirect
<1>3. /\ TypeOK /\ Lists /\ Receivers /\ ~Receives(t)
      /\ \A u \in Threads : t \notin Elems(waiters[u])
  BY RunFacts DEF MsgInv, Called
<1>4. /\ Receives(r) /\ queue[r] = <<>> /\ waiters[r] = <<>> /\ buf[r] = NoMsg
      /\ \A u \in Threads : r \notin Elems(waiters[u])
  BY <1>1, <1>2, <1>3 DEF Receivers, Lists, IsActive, OnRunqueue
<1>5. /\ ~Receives(t)'
      /\ \A u \in Threads : u # t => (Receives(u)' <=> Receives(u))
  BY <1>1, <1>2, <1>3, SendPlace
<1>6. /\ buf'[r] = m /\ m # NoMsg
      /\ \A u \in Threads : u # r /\ u # t => buf'[u] = buf[u]
  BY <1>1, <1>2, <1>3, NoMsgAssumption DEF TypeOK
<1>7. Line(r)' = Append(Line(r), m)
  <2>1. Receives(r)' /\ queue'[r] = <<>> /\ queue[r] = <<>>
    BY <1>1, <1>2, <1>4, <1>5
  <2> QED BY <1>1, <1>4, <1>6, <2>1, LineFirst
<1>8. ASSUME NEW u \in Threads, u # r
      PROVE  Line(u)' = Line(u)
  <2>1. queue'[u] = queue[u]
    BY <1>2
  <2>2. CASE u = t
    BY <1>3, <1>5, <2>1, <2>2, LineIs
  <2>3. CASE u # t
    <3>1. (Receives(u)' <=> Receives(u)) /\ buf'[u] = buf[u]
      BY <1>5, <1>6, <1>8, <2>3
    <3> QED BY <2>1, <3>1, LineIs
  <2> QED BY <2>2, <2>3
<1>9. \A u \in Threads : \A v \in Elems(waiters[u]) : v # m.from /\ buf'[v] = buf[v]
  BY <1>1, <1>3, <1>4, <1>6, ListMembers
<1>10. /\ OnTheWay(m.from, r)' = Append(OnTheWay(m.from, r), m.n)
       /\ \A u \in Threads, v \in Threads \cup {Isr} :
            v # m.from \/ u # r => OnTheWay(v, u)' = OnTheWay(v, u)
  BY <1>1, <1>2, <1>3, <1>7, <1>8, <1>9, LineGrows
<1>11. Accepted(m, r) /\ m.n = (sent[<<m.from, r>>] + 1) % N
  BY <1>1, CalledNumber
<1> QED BY <1>1, <1>3, <1>10, <1>11, AcceptStep

(* A message for which the queue has room.                                  *)
LEMMA SendQueuedAccepts ==
  ASSUME MsgInv, NEW t \in Threads, NEW r \in Threads, NEW s, NEW m, NEW goal,
         Called(t, r, s, m, goal), SendQueued(t, r, s, m, goal)
  PROVE  Abstract!Accept(<<t, r>>)
<1>1. /\ m \in Message /\ m.from = t /\ <<t, r>> \in Pairs /\ r # t
      /\ goal \in Goals /\ goal # "received" /\ UNCHANGED got
  BY CallFacts
<1>2. /\ queue' = [queue EXCEPT ![r] = Append(@, m)]
      /\ buf' = [buf EXCEPT ![t] = IF goal = "replied" THEN m ELSE @]
      /\ Go(t, [at |-> "queued", next |-> goal])
      /\ UNCHANGED waiters
  BY DEF SendQueued
<1>3. /\ TypeOK /\ ~Receives(t)
      /\ \A u \in Threads : t \notin Elems(waiters[u])
  BY RunFacts DEF MsgInv, Called
<1>4. /\ ~Receives(t)'
      /\ \A u \in Threads : u # t => (Receives(u)' <=> Receives(u))
  BY <1>1, <1>2, <1>3, SendPlace
<1>5. /\ \A u \in Threads : u # t => buf'[u] = buf[u]
      /\ queue'[r] = Append(queue[r], m)
      /\ \A u \in Threads : u # r => queue'[u] = queue[u]
  BY <1>1, <1>2, <1>3 DEF TypeOK
<1>6. Line(r)' = Append(Line(r), m)
  BY <1>1, <1>3, <1>4, <1>5, LineAppend
<1>7. \A u \in Threads : u # r => Line(u)' = Line(u)
  BY <1>3, <1>4, <1>5, LineIs
<1>8. \A u \in Threads : \A v \in Elems(waiters[u]) : v # m.from /\ buf'[v] = buf[v]
  BY <1>1, <1>3, <1>5, ListMembers
<1>9. /\ OnTheWay(m.from, r)' = Append(OnTheWay(m.from, r), m.n)
      /\ \A u \in Threads, v \in Threads \cup {Isr} :
           v # m.from \/ u # r => OnTheWay(v, u)' = OnTheWay(v, u)
  BY <1>1, <1>2, <1>3, <1>6, <1>7, <1>8, LineGrows
<1>10. Accepted(m, r) /\ m.n = (sent[<<m.from, r>>] + 1) % N
  BY <1>1, CalledNumber
<1> QED BY <1>1, <1>3, <1>9, <1>10, AcceptStep

(* The message of a sender that blocks is behind all that is in the line.   *)
LEMMA SendBlocksAccepts ==
  ASSUME MsgInv, NEW t \in Threads, NEW r \in Threads, NEW s, NEW m, NEW goal,
         Called(t, r, s, m, goal), SendBlocks(t, r, s, m, goal)
  PROVE  Abstract!Accept(<<t, r>>)
<1> DEFINE z == IF s.status[t] = "REPLY_BLOCKED" THEN "REPLY_BLOCKED" ELSE "SEND_BLOCKED"
           b == SetStatus(s, t, z)
<1>1. /\ m \in Message /\ m.from = t /\ <<t, r>> \in Pairs /\ r # t
      /\ goal \in Goals /\ goal # "received" /\ UNCHANGED got
  BY CallFacts
<1>2. /\ waiters' = [waiters EXCEPT ![r] = AddToList(b, @, t)]
      /\ buf' = [buf EXCEPT ![t] = m]
      /\ Go(t, [at |-> "yield", next |-> goal])
      /\ UNCHANGED queue
  BY DEF SendBlocks
<1>3. /\ TypeOK /\ ~Receives(t)
      /\ \A u \in Threads : t \notin Elems(waiters[u])
  BY RunFacts DEF MsgInv, Called
<1>4. /\ ~Receives(t)'
      /\ \A u \in Threads : u # t => (Receives(u)' <=> Receives(u))
  BY <1>1, <1>2, <1>3, SendPlace
<1>5. buf'[t] = m /\ \A u \in Threads : u # t => buf'[u] = buf[u]
  BY <1>2, <1>3 DEF TypeOK
<1> HIDE DEF b
<1>6. /\ waiters'[r] = AddToList(b, waiters[r], t)
      /\ \A u \in Threads : u # r => waiters'[u] = waiters[u]
  BY <1>2, <1>3 DEF TypeOK
<1>7. Elems(waiters'[r]) = Elems(waiters[r]) \cup {t}
  <2>1. waiters[r] \in Seq(Threads)
    BY <1>3, ListMembers
  <2> QED BY <1>6, <2>1, ElemsAdd
<1>8. \A u \in Threads : Line(u)' = Line(u)
  BY <1>2, <1>3, <1>4, <1>5, LineIs
<1>9. OnTheWay(m.from, r)' = Append(OnTheWay(m.from, r), m.n)
  BY <1>1, <1>3, <1>5, <1>7, <1>8 DEF OnTheWay
<1>10. ASSUME NEW u \in Threads, NEW v \in Threads \cup {Isr}, v # m.from \/ u # r
       PROVE  OnTheWay(v, u)' = OnTheWay(v, u)
  <2>1. v \in Elems(waiters'[u]) <=> v \in Elems(waiters[u])
    BY <1>1, <1>6, <1>7, <1>10
  <2>2. v \in Elems(waiters[u]) => buf'[v] = buf[v]
    BY <1>3, <1>5, ListMembers
  <2> QED BY <1>8, <2>1, <2>2 DEF OnTheWay
<1>11. Accepted(m, r) /\ m.n = (sent[<<m.from, r>>] + 1) % N
  BY <1>1, CalledNumber
<1> QED BY <1>1, <1>3, <1>9, <1>10, <1>11, AcceptStep

(* A message of a thread that keeps on running, or of a handler.            *)
LEMMA QueueOnlyAccepts ==
  ASSUME MsgInv, NEW r \in Threads, NEW m \in Message, <<m.from, r>> \in Pairs,
         Accepted(m, r), m.n = (sent[<<m.from, r>>] + 1) % N,
         \A u \in Threads : m.from \notin Elems(waiters[u]),
         queue' = [queue EXCEPT ![r] = Append(@, m)],
         UNCHANGED <<waiters, buf, pc, got>>
  PROVE  Abstract!Accept(<<m.from, r>>)
<1>1. TypeOK
  BY DEF MsgInv
<1>2. \A u \in Threads : Receives(u)' <=> Receives(u)
  BY <1>1, StayEffect
<1>3. /\ queue'[r] = Append(queue[r], m)
      /\ \A u \in Threads : u # r => queue'[u] = queue[u]
  BY <1>1 DEF TypeOK
<1>4. Line(r)' = Append(Line(r), m)
  BY <1>1, <1>2, <1>3, LineAppend
<1>5. \A u \in Threads : u # r => Line(u)' = Line(u)
  BY <1>2, <1>3, LineIs
<1>6. \A u \in Threads : \A v \in Elems(waiters[u]) : v # m.from /\ buf'[v] = buf[v]
  OBVIOUS
<1>7. /\ OnTheWay(m.from, r)' = Append(OnTheWay(m.from, r), m.n)
      /\ \A u \in Threads, v \in Threads \cup {Isr} :
           v # m.from \/ u # r => OnTheWay(v, u)' = OnTheWay(v, u)
  BY <1>1, <1>4, <1>5, <1>6, LineGrows
<1> QED BY <1>1, <1>7, AcceptStep

(* msg_send_to_self()                                                       *)
LEMMA SendToSelfAccepts ==
  ASSUME MsgInv, NEW t \in Threads, SendToSelf(t)
  PROVE  Abstract!Accept(<<t, t>>)
<1> DEFINE m == NewMsg(t, t, "data")
<1>1. /\ At(t, "run") /\ <<t, t>> \in Pairs /\ TypeOK /\ Accepted(m, t)
      /\ queue' = [queue EXCEPT ![t] = Append(@, m)]
      /\ UNCHANGED <<waiters, buf, pc, got>>
  BY DEF MsgInv, SendToSelf
<1>2. m \in Message /\ m.from = t
  BY <1>1, NewMsgIs DEF Kinds
<1>3. m.n = (sent[<<t, t>>] + 1) % N
  BY DEF NewMsg
<1> HIDE DEF m
<1>4. \A u \in Threads : t \notin Elems(waiters[u])
  BY <1>1, RunFacts
<1> QED BY <1>1, <1>2, <1>3, <1>4, QueueOnlyAccepts

(* A handler gives a message to a blocked receiver.                         *)
LEMMA IsrDirectAccepts ==
  ASSUME MsgInv, NEW r \in Threads, NEW m \in Message, m.from = Isr, <<Isr, r>> \in Pairs,
         Accepted(m, r), m.n = (sent[<<Isr, r>>] + 1) % N,
         k.status[r] = "RECEIVE_BLOCKED", buf' = [buf EXCEPT ![r] = m],
         UNCHANGED <<queue, waiters, pc, got>>
  PROVE  Abstract!Accept(<<m.from, r>>)
<1>1. TypeOK /\ Lists /\ Receivers
  BY DEF MsgInv
<1>2. /\ Receives(r) /\ queue[r] = <<>> /\ buf[r] = NoMsg
      /\ \A u \in Threads : r \notin Elems(waiters[u])
  BY <1>1 DEF Receivers, Lists, IsActive, OnRunqueue
<1>3. \A u \in Threads : Receives(u)' <=> Receives(u)
  BY <1>1, StayEffect
<1>4. buf'[r] = m /\ \A u \in Threads : u # r => buf'[u] = buf[u]
  BY <1>1 DEF TypeOK
<1>5. Line(r)' = Append(Line(r), m)
  <2>1. Receives(r)' /\ queue'[r] = <<>>
    BY <1>2, <1>3
  <2> QED BY <1>2, <1>4, <2>1, LineFirst
<1>6. ASSUME NEW u \in Threads, u # r
      PROVE  Line(u)' = Line(u)
  <2>1. queue'[u] = queue[u] /\ buf'[u] = buf[u] /\ (Receives(u)' <=> Receives(u))
    BY <1>3, <1>4, <1>6
  <2> QED BY <2>1, LineIs
<1>7. \A u \in Threads : \A v \in Elems(waiters[u]) : v # m.from /\ buf'[v] = buf[v]
  BY <1>1, <1>2, <1>4, ListMembers, MsgAssumption
<1>8. /\ OnTheWay(m.from, r)' = Append(OnTheWay(m.from, r), m.n)
      /\ \A u \in Threads, v \in Threads \cup {Isr} :
           v # m.from \/ u # r => OnTheWay(v, u)' = OnTheWay(v, u)
  BY <1>1, <1>5, <1>6, <1>7, LineGrows
<1> QED BY <1>1, <1>8, AcceptStep

(* msg_send_int()                                                           *)
LEMMA IsrSendAccepts ==
  ASSUME MsgInv, NEW r \in Threads, IsrSend(r)
  PROVE  <<Isr, r>> \in Pairs /\ Abstract!Accept(<<Isr, r>>)
<1> DEFINE m == NewMsg(Isr, r, "data")
<1>1. /\ <<Isr, r>> \in Pairs /\ Accepted(m, r) /\ UNCHANGED <<waiters, pc, got>>
      /\ \/ /\ k.status[r] = "RECEIVE_BLOCKED"
            /\ buf' = [buf EXCEPT ![r] = m]
            /\ UNCHANGED queue
         \/ /\ queue' = [queue EXCEPT ![r] = Append(@, m)]
            /\ UNCHANGED buf
      /\ TypeOK
  BY DEF IsrSend, MsgInv
<1>2. m \in Message /\ m.from = Isr
  BY <1>1, NewMsgIs DEF Kinds
<1>3. m.n = (sent[<<Isr, r>>] + 1) % N
  BY DEF NewMsg
<1> HIDE DEF m
<1>4. \A u \in Threads : Isr \notin Elems(waiters[u])
  BY <1>1, ListMembers, MsgAssumption
<1>5. CASE queue' = [queue EXCEPT ![r] = Append(@, m)] /\ UNCHANGED buf
  BY <1>1, <1>2, <1>3, <1>4, <1>5, QueueOnlyAccepts
<1>6. CASE /\ k.status[r] = "RECEIVE_BLOCKED"
           /\ buf' = [buf EXCEPT ![r] = m]
           /\ UNCHANGED queue
  BY <1>1, <1>2, <1>3, <1>6, IsrDirectAccepts
<1> QED BY <1>1, <1>5, <1>6

(* The first message h of a line is taken.                                  *)
LEMMA LineShrinks ==
  ASSUME NEW r \in Threads, NEW h \in Seq(Message), h # <<>>, Line(r)' = Tail(h),
         \A s \in Threads \cup {Isr} :
           OnTheWay(s, r) = IF s \in Elems(waiters'[r]) THEN Append(From(s, h), buf[s].n)
                                                        ELSE From(s, h),
         \A s \in Elems(waiters'[r]) : buf'[s] = buf[s],
         \A u \in Threads, s \in Threads \cup {Isr} :
           u # r => OnTheWay(s, u)' = OnTheWay(s, u),
         NEW m, m = Head(h), <<m.from, r>> \in Pairs, Takes(r, m), UNCHANGED sent
  PROVE  Abstract!Deliver(<<m.from, r>>)
<1>1. ASSUME NEW s \in Threads \cup {Isr}
      PROVE  OnTheWay(s, r)' = IF s \in Elems(waiters'[r])
                               THEN Append(From(s, Tail(h)), buf[s].n)
                               ELSE From(s, Tail(h))
  BY <1>1 DEF OnTheWay
<1>2. ASSUME NEW s \in Threads \cup {Isr}, s # m.from
      PROVE  OnTheWay(s, r)' = OnTheWay(s, r)
  <2>1. From(s, Tail(h)) = From(s, h)
    BY <1>2, FromTail
  <2> QED BY <1>1, <2>1
<1>3. m.from \in Threads \cup {Isr} /\ m \in Message
  BY PairsAre
<1> DEFINE f == From(m.from, h)
           b == buf[m.from].n
<1>4. /\ f # <<>> /\ Head(f) = m.n /\ From(m.from, Tail(h)) = Tail(f)
      /\ f \in Seq(0 .. N - 1)
  BY FromTail, FromIs
<1>5. /\ OnTheWay(m.from, r) = IF m.from \in Elems(waiters'[r]) THEN Append(f, b) ELSE f
      /\ OnTheWay(m.from, r)' = IF m.from \in Elems(waiters'[r]) THEN Append(Tail(f), b)
                                                                 ELSE Tail(f)
  BY <1>1, <1>3, <1>4
<1> HIDE DEF f, b
<1>6. /\ Append(f, b) # <<>> /\ Head(Append(f, b)) = Head(f)
      /\ Tail(Append(f, b)) = Append(Tail(f), b)
  <2>1. f \in Seq(0 .. N - 1) /\ f # <<>>
    BY <1>4
  <2>2. /\ Head(Append(f, b)) = Head(f)
        /\ Tail(Append(f, b)) = Append(Tail(f), b)
    BY <2>1, HeadTailAppend
  <2>3. Append(f, b) # <<>>
    <3>1. Len(Append(f, b)) = Len(f) + 1 /\ Len(f) \in Nat /\ Len(<<>>) = 0
      BY <2>1
    <3>2. Len(f) + 1 # 0
      BY <3>1
    <3> QED BY <3>1, <3>2
  <2> QED BY <2>2, <2>3
<1>7. /\ OnTheWay(m.from, r) # <<>> /\ Head(OnTheWay(m.from, r)) = m.n
      /\ OnTheWay(m.from, r)' = Tail(OnTheWay(m.from, r))
  <2>1. CASE m.from \in Elems(waiters'[r])
    BY <1>4, <1>5, <1>6, <2>1
  <2>2. CASE m.from \notin Elems(waiters'[r])
    BY <1>4, <1>5, <2>2
  <2> QED BY <2>1, <2>2
<1>8. \A u \in Threads, s \in Threads \cup {Isr} :
        s # m.from \/ u # r => OnTheWay(s, u)' = OnTheWay(s, u)
  BY <1>2
<1> QED BY <1>7, <1>8, DeliverStep

(* msg_receive() returns with the message that the receiver was given.      *)
LEMMA ReceivedDelivers ==
  ASSUME MsgInv, NEW t \in Threads, Received(t), NEW m, m = buf[t]
  PROVE  <<m.from, t>> \in Pairs /\ Abstract!Deliver(<<m.from, t>>)
<1>1. /\ Executes(k, t) /\ pc[t].at = "received" /\ Go(t, Simple("run"))
      /\ buf' = [buf EXCEPT ![t] = NoMsg] /\ Takes(t, m)
      /\ UNCHANGED <<queue, waiters, sent>> /\ TypeOK /\ Receivers
  BY DEF Received, At, MsgInv
<1>2. /\ IsActive(k, t) /\ \A r \in Threads : t \notin Elems(waiters[r])
      /\ Receives(t)
  BY <1>1, PlaceKinds DEF MsgInv, AtWork
<1>3. m \in Message /\ <<m.from, t>> \in Pairs /\ m # NoMsg
  BY <1>1, <1>2, NoMsgAssumption DEF Receivers, Carried, IsActive, OnRunqueue
<1>4. Simple("run") \in Places /\ Simple("run") \notin ReceivePlaces
  BY PlaceFacts DEF Goals
<1>5. /\ ~Receives(t)'
      /\ \A u \in Threads : u # t => (Receives(u)' <=> Receives(u))
  BY <1>1, <1>4, GoEffect
<1>6. \A u \in Threads : u # t => buf'[u] = buf[u]
  BY <1>1 DEF TypeOK
<1> DEFINE h == Line(t)
<1>7. h \in Seq(Message) /\ h # <<>> /\ Head(h) = m /\ Line(t)' = Tail(h)
  <2>1. h = <<m>> \o queue[t] /\ Line(t)' = queue[t] /\ queue[t] \in Seq(Message)
    BY <1>1, <1>2, <1>3, <1>5, LineIs, ListMembers
  <2> HIDE DEF h
  <2>2. <<m>> \in Seq(Message)
    BY <1>3
  <2>3. h \in Seq(Message) /\ h # <<>> /\ Head(h) = m /\ Tail(h) = queue[t]
    BY <1>3, <2>1, <2>2
  <2> QED BY <2>1, <2>3
<1>8. \A r \in Threads : \A s \in Elems(waiters'[r]) : buf'[s] = buf[s]
  BY <1>1, <1>2, <1>6, ListMembers
<1>9. ASSUME NEW u \in Threads, NEW s \in Threads \cup {Isr}, u # t
      PROVE  OnTheWay(s, u)' = OnTheWay(s, u)
  <2>1. Line(u)' = Line(u)
    BY <1>1, <1>5, <1>6, <1>9, LineIs
  <2>2. waiters'[u] = waiters[u] /\ (s \in Elems(waiters[u]) => buf'[s] = buf[s])
    BY <1>1, <1>8
  <2> QED BY <2>1, <2>2 DEF OnTheWay
<1>10. \A s \in Threads \cup {Isr} :
         OnTheWay(s, t) = IF s \in Elems(waiters'[t]) THEN Append(From(s, h), buf[s].n)
                                                      ELSE From(s, h)
  BY <1>1 DEF OnTheWay
<1> HIDE DEF h
<1>11. Abstract!Deliver(<<m.from, t>>)
  BY <1>1, <1>3, <1>7, <1>8, <1>9, <1>10, LineShrinks
<1> QED BY <1>3, <1>11

(* What is at hand for a receive: the queue, and the message of the first   *)
(* sender behind it. The other senders stay in the list.                    *)
LEMMA HandIs ==
  ASSUME MsgInv, NEW t \in Threads, Receive(t), NEW h, h = AtHand(t)
  PROVE  /\ h \in Seq(Message) /\ h # <<>>
         /\ \A s \in Threads \cup {Isr} :
              OnTheWay(s, t) = IF s \in Elems(waiters'[t]) THEN Append(From(s, h), buf[s].n)
                                                           ELSE From(s, h)
         /\ \A u \in Threads : u # t => waiters'[u] = waiters[u]
         /\ Elems(waiters'[t]) \subseteq Elems(waiters[t])
         /\ \A u \in Threads : \A s \in Elems(waiters'[u]) : buf'[s] = buf[s]
<1>1. At(t, "run") /\ AtHand(t) # <<>> /\ TypeOK /\ Lists
  BY DEF Receive, MsgInv
<1>2. ~Receives(t)
  BY <1>1, RunFacts
<1>3. Line(t) = queue[t] /\ queue[t] \in Seq(Message)
  BY <1>1, <1>2, LineIs, ListMembers
<1>4. CASE waiters[t] = <<>>
  <2>1. h = queue[t] /\ UNCHANGED <<waiters, buf>>
    BY <1>1, <1>4, AtHandIs DEF Receive
  <2>2. \A s \in Threads \cup {Isr} :
          OnTheWay(s, t) = IF s \in Elems(waiters'[t]) THEN Append(From(s, h), buf[s].n)
                                                       ELSE From(s, h)
    BY <1>3, <2>1 DEF OnTheWay
  <2> QED BY <1>1, <1>3, <2>1, <2>2
<1>5. CASE waiters[t] # <<>>
  <2> DEFINE w == Head(waiters[t])
  <2>1. /\ w \in Threads /\ w # t /\ w \in Elems(waiters[t]) /\ buf[w].from = w
        /\ \A u \in Threads : u # w => buf'[u] = buf[u]
    BY <1>5, LetInEffect
  <2>2. waiters' = [waiters EXCEPT ![t] = Tail(@)]
    BY <1>5 DEF Receive
  <2>3. /\ waiters'[t] = Tail(waiters[t])
        /\ \A u \in Threads : u # t => waiters'[u] = waiters[u]
    BY <1>1, <2>2 DEF TypeOK
  <2>4. Elems(waiters'[t]) = Elems(waiters[t]) \ {w}
    <3>1. waiters[t] \in Seq(Threads) /\ Once(waiters[t])
      BY <1>1, ListMembers DEF Lists
    <3> QED BY <1>5, <2>3, <3>1, ElemsTail
  <2>5. h = Append(queue[t], buf[w]) /\ buf[w] \in Message
    BY <1>1, <1>5, AtHandIs
  <2>6. \A u \in Threads : w \notin Elems(waiters'[u])
    BY <1>1, <2>1, <2>3, <2>4 DEF Lists
  <2> HIDE DEF w
  <2>7. \A u \in Threads : \A s \in Elems(waiters'[u]) : buf'[s] = buf[s]
    <3>1. \A u \in Threads : Elems(waiters'[u]) \subseteq Threads
      BY <1>1, <2>3, <2>4, ListMembers
    <3> QED BY <2>1, <2>6, <3>1
  <2>8. ASSUME NEW s \in Threads \cup {Isr}
        PROVE  OnTheWay(s, t) = IF s \in Elems(waiters'[t])
                                THEN Append(From(s, h), buf[s].n) ELSE From(s, h)
    <3>1. From(s, h) = IF s = w THEN Append(From(s, queue[t]), buf[w].n)
                                ELSE From(s, queue[t])
      <4> DEFINE q == queue[t]
                 b == buf[w]
      <4>1. q \in Seq(Message) /\ b \in Message /\ h = Append(q, b) /\ b.from = w
        BY <1>3, <2>1, <2>5
      <4> HIDE DEF q, b
      <4>2. From(s, h) = IF s = w THEN Append(From(s, q), b.n) ELSE From(s, q)
        BY <4>1, FromAppend
      <4> QED BY <4>2 DEF q, b
    <3>2. OnTheWay(s, t) = IF s \in Elems(waiters[t])
                           THEN Append(From(s, queue[t]), buf[s].n) ELSE From(s, queue[t])
      BY <1>3 DEF OnTheWay
    <3> QED BY <2>1, <2>4, <3>1, <3>2
  <2>9. h \in Seq(Message) /\ h # <<>>
    BY <1>3, <2>5, AppendProperties
  <2> QED BY <2>3, <2>4, <2>7, <2>8, <2>9
<1> QED BY <1>4, <1>5

(* msg_receive() and msg_try_receive() with a message at hand.              *)
LEMMA ReceiveDelivers ==
  ASSUME MsgInv, NEW t \in Threads, Receive(t), NEW h, h = AtHand(t), NEW m, m = Head(h)
  PROVE  <<m.from, t>> \in Pairs /\ Abstract!Deliver(<<m.from, t>>)
<1>1. At(t, "run") /\ Takes(t, m) /\ UNCHANGED sent /\ TypeOK
  BY DEF Receive, MsgInv
<1>2. /\ h \in Seq(Message) /\ h # <<>>
      /\ \A s \in Threads \cup {Isr} :
           OnTheWay(s, t) = IF s \in Elems(waiters'[t]) THEN Append(From(s, h), buf[s].n)
                                                        ELSE From(s, h)
      /\ \A u \in Threads : u # t => waiters'[u] = waiters[u]
      /\ Elems(waiters'[t]) \subseteq Elems(waiters[t])
      /\ \A u \in Threads : \A s \in Elems(waiters'[u]) : buf'[s] = buf[s]
  BY HandIs
<1>3. queue'[t] = Tail(h) /\ \A u \in Threads : u # t => queue'[u] = queue[u]
  BY ReceiveQueues
<1>4. /\ ~Receives(t)' /\ Carried(m, t)
      /\ \A u \in Threads : /\ u # t => (Receives(u)' <=> Receives(u))
                            /\ Receives(u) => buf'[u] = buf[u]
  <2>1. ~Receives(t)
    BY <1>1, RunFacts
  <2>2. DOMAIN queue[t] = 1 .. Len(queue[t]) /\ Len(queue[t]) \in Nat
    BY <1>1, ListMembers
  <2>3. CASE waiters[t] = <<>>
    <3>1. UNCHANGED <<pc, buf>>
      BY <2>3 DEF Receive
    <3>2. \A u \in Threads : Receives(u)' <=> Receives(u)
      BY <1>1, <3>1, StayEffect
    <3>3. m = queue[t][1] /\ Len(queue[t]) > 0
      BY <2>3, ReceiveQueues
    <3>4. 1 \in DOMAIN queue[t]
      BY <2>2, <3>3
    <3>5. Carried(m, t)
      BY <3>3, <3>4 DEF MsgInv, Queues
    <3> QED BY <2>1, <3>1, <3>2, <3>5
  <2>4. CASE waiters[t] # <<>>
    <3> DEFINE w == Head(waiters[t])
    <3>1. /\ Carried(buf[w], t) /\ ~Receives(w)
          /\ \A u \in Threads : u # w => buf'[u] = buf[u]
          /\ \A u \in Threads : Receives(u)' <=> Receives(u)
      BY <2>4, LetInEffect
    <3>2. m = IF queue[t] = <<>> THEN buf[w] ELSE queue[t][1]
      BY <2>4, ReceiveQueues
    <3> HIDE DEF w
    <3>3. queue[t] # <<>> => 1 \in DOMAIN queue[t]
      <4>1. queue[t] \in Seq(Message)
        BY <1>1, ListMembers
      <4> QED BY <2>2, <4>1, EmptySeq
    <3>4. Carried(m, t)
      BY <3>1, <3>2, <3>3 DEF MsgInv, Queues
    <3> QED BY <2>1, <3>1, <3>4
  <2> QED BY <2>3, <2>4
<1>5. Line(t)' = Tail(h)
  BY <1>3, <1>4, LineIs
<1>6. ASSUME NEW u \in Threads, NEW s \in Threads \cup {Isr}, u # t
      PROVE  OnTheWay(s, u)' = OnTheWay(s, u)
  <2>1. Line(u)' = Line(u)
    BY <1>3, <1>4, <1>6, LineIs
  <2>2. waiters'[u] = waiters[u] /\ (s \in Elems(waiters'[u]) => buf'[s] = buf[s])
    BY <1>2, <1>6
  <2> QED BY <2>1, <2>2 DEF OnTheWay
<1>7. <<m.from, t>> \in Pairs
  BY <1>4 DEF Carried
<1>8. \A s \in Elems(waiters'[t]) : buf'[s] = buf[s]
  BY <1>2
<1>9. Abstract!Deliver(<<m.from, t>>)
  BY <1>1, <1>2, <1>5, <1>6, <1>7, <1>8, LineShrinks
<1> QED BY <1>7, <1>9

(* No message is on its way at the start.                                   *)
LEMMA InitChannels == Init => Abstract!Init
<1> SUFFICES ASSUME Init PROVE Abstract!Init
  OBVIOUS
<1>1. /\ queue = [t \in Threads |-> <<>>] /\ waiters = [t \in Threads |-> <<>>]
      /\ buf = [t \in Threads |-> NoMsg]
      /\ sent = [p \in Pairs |-> 0] /\ got = [p \in Pairs |-> 0]
  BY DEF Init
<1>2. \A s : From(s, <<>>) = <<>>
  <2> SUFFICES ASSUME NEW s PROVE From(s, <<>>) = <<>>
    OBVIOUS
  <2>1. <<>> \in Seq(Message)
    OBVIOUS
  <2>2. From(s, <<>>) \in Seq(0 .. N - 1) /\ Len(From(s, <<>>)) = Cardinality(Of(s, <<>>))
    BY <2>1, FromIs
  <2>3. Of(s, <<>>) = {}
    BY DEF Of
  <2>4. Cardinality({}) = 0
    BY FS_EmptySet
  <2> QED BY <2>2, <2>3, <2>4, EmptySeq
<1>3. ASSUME NEW p \in Pairs
      PROVE  OnTheWay(p[1], p[2]) = <<>>
  <2>1. p[2] \in Threads
    BY PairsAre
  <2>2. queue[p[2]] = <<>> /\ buf[p[2]] = NoMsg /\ waiters[p[2]] = <<>>
    BY <1>1, <2>1
  <2>3. Line(p[2]) = <<>>
    BY <2>2 DEF Line
  <2>4. Elems(waiters[p[2]]) = {}
    BY <2>2 DEF Elems
  <2> QED BY <1>2, <2>3, <2>4 DEF OnTheWay
<1> QED BY <1>1, <1>3 DEF Abstract!Init

(* msg_send(), msg_try_send() and msg_send_receive() accept one message.    *)
LEMMA CallChannels ==
  ASSUME MsgInv, NEW t \in Threads, NEW r \in Threads, Send(t, r) \/ SendReceive(t, r)
  PROVE  <<t, r>> \in Pairs /\ Abstract!Accept(<<t, r>>)
<1>1. <<t, r>> \in Pairs
  BY DEF Send, SendReceive
<1>2. CASE Send(t, r)
  <2> DEFINE m == NewMsg(t, r, "data")
  <2>1. /\ Called(t, r, k, m, "run")
        /\ \/ SendDirect(t, r, k, m, "run")
           \/ SendQueued(t, r, k, m, "run")
           \/ SendBlocks(t, r, k, m, "run")
    BY <1>2 DEF Send, Called
  <2> HIDE DEF m
  <2> QED BY <1>1, <2>1, SendDirectAccepts, SendQueuedAccepts, SendBlocksAccepts
<1>3. CASE SendReceive(t, r)
  <2> DEFINE m == NewMsg(t, r, "request")
             s == SetStatus(k, t, "REPLY_BLOCKED")
  <2>1. /\ Called(t, r, s, m, "replied")
        /\ \/ SendDirect(t, r, s, m, "replied")
           \/ SendQueued(t, r, s, m, "replied")
           \/ SendBlocks(t, r, s, m, "replied")
    BY <1>3 DEF SendReceive, Called
  <2> HIDE DEF m, s
  <2> QED BY <1>1, <2>1, SendDirectAccepts, SendQueuedAccepts, SendBlocksAccepts
<1> QED BY <1>2, <1>3

(* Every step accepts or delivers one message, or moves none.               *)
LEMMA StepChannels ==
  MsgInv /\ [Next]_vars => [Abstract!Next]_<<Channel, sent, got>>
<1> SUFFICES ASSUME MsgInv, [Next]_vars
             PROVE  (\E p \in Pairs : Abstract!Accept(p) \/ Abstract!Deliver(p))
                    \/ UNCHANGED <<Channel, sent, got>>
  BY DEF Abstract!Next
<1> TypeOK
  BY DEF MsgInv
<1>1. ASSUME UNCHANGED data, UNCHANGED pc
      PROVE  UNCHANGED <<Channel, sent, got>>
  <2>1. SamePlaces
    BY <1>1, StayEffect DEF SamePlaces
  <2> QED BY <1>1, <2>1, DataRests
<1>2. CASE UNCHANGED vars
  BY <1>1, <1>2 DEF vars, data
<1>3. CASE PendSV \/ EndIdle
  BY <1>1, <1>3 DEF PendSV, EndIdle
<1>4. ASSUME NEW t \in Threads, NEW r \in Threads, Send(t, r) \/ SendReceive(t, r)
      PROVE  \E p \in Pairs : Abstract!Accept(p)
  BY <1>4, CallChannels
<1>5. ASSUME NEW t \in Threads, SendToSelf(t)
      PROVE  \E p \in Pairs : Abstract!Accept(p)
  <2>1. <<t, t>> \in Pairs
    BY <1>5 DEF SendToSelf
  <2> QED BY <1>5, <2>1, SendToSelfAccepts
<1>6. ASSUME NEW t \in Threads, IsrSend(t)
      PROVE  \E p \in Pairs : Abstract!Accept(p)
  BY <1>6, IsrSendAccepts
<1>7. ASSUME NEW t \in Threads, Received(t)
      PROVE  \E p \in Pairs : Abstract!Deliver(p)
  BY <1>7, ReceivedDelivers
<1>8. ASSUME NEW t \in Threads, Receive(t)
      PROVE  \E p \in Pairs : Abstract!Deliver(p)
  BY <1>8, ReceiveDelivers
<1>9. ASSUME NEW t \in Threads, NEW g, SendReceiveGone(t, g)
      PROVE  UNCHANGED <<Channel, sent, got>>
  BY <1>1, <1>9 DEF SendReceiveGone
<1>10. ASSUME NEW t \in Threads, IsrStart(t)
       PROVE  UNCHANGED <<Channel, sent, got>>
  BY <1>1, <1>10 DEF IsrStart
<1>11. ASSUME NEW t \in Threads, Queued(t) \/ DoYield(t) \/ DoSwitch(t)
       PROVE  UNCHANGED <<Channel, sent, got>>
  <2>1. SamePlaces
    BY <1>11, QueuedKeeps, DoYieldKeeps, DoSwitchKeeps
  <2>2. UNCHANGED data
    BY <1>11 DEF Queued, DoYield, DoSwitch, data
  <2> QED BY <2>1, <2>2, DataRests
<1>12. ASSUME NEW t \in Threads, NEW m \in todo[t], Reply(t, m)
       PROVE  UNCHANGED <<Channel, sent, got>>
  <2> DEFINE p == [at |-> "switch", prio |-> k.prio[m.from]]
  <2>1. At(t, "run") /\ Answers(t, m) /\ Go(t, p)
    BY <1>12 DEF Reply
  <2>2. m.from \in Threads /\ KernelInv(k)
    BY AskerRests DEF MsgInv
  <2>3. p \in Places /\ p \notin ReceivePlaces /\ ~Receives(t)
    BY <2>1, <2>2, PlaceFacts, KernelTypes, RunFacts
  <2> HIDE DEF p
  <2>4. \A u \in Threads : Receives(u)' <=> Receives(u)
    BY <2>1, <2>3, GoEffect
  <2> QED BY <2>1, <2>4, AnswersRests
<1>13. ASSUME NEW t \in Threads, NEW m \in todo[t], IsrReply(t, m)
       PROVE  UNCHANGED <<Channel, sent, got>>
  <2>1. Answers(t, m) /\ UNCHANGED pc
    BY <1>13 DEF IsrReply
  <2> QED BY <2>1, StayEffect, AnswersRests
<1>14. ASSUME NEW t \in Threads, ReceiveBlocks(t) \/ Replied(t)
       PROVE  UNCHANGED <<Channel, sent, got>>
  BY <1>14, ReceiveBlocksRests, RepliedRests
<1> QED BY <1>2, <1>3, <1>4, <1>5, <1>6, <1>7, <1>8, <1>9, <1>10, <1>11, <1>12,
           <1>13, <1>14 DEF Next, Finish, Answer

(* The messages of two partners are a FIFO channel: a message that a call   *)
(* reported as sent arrives once and in order, directly, through the queue  *)
(* or by way of a blocked sender.                                           *)
THEOREM MessagesAreChannels == Spec => ChannelsSpec
<1>1. Init => Abstract!Init
  BY InitChannels
<1>2. MsgInv /\ [Next]_vars => [Abstract!Next]_<<Channel, sent, got>>
  BY StepChannels
<1> QED BY <1>1, <1>2, MsgInvariant, PTL DEF Spec, ChannelsSpec, Abstract!Spec, Channel
=============================================================================
