-------------------------------- MODULE Msg --------------------------------
(***************************************************************************)
(* RIOT's thread messages (core/msg.c) on the scheduler of module Kernel:   *)
(* blocking and non-blocking sends, sends of interrupt handlers and to the  *)
(* thread itself, receives with and without a message queue, and requests   *)
(* that block for a reply.                                                  *)
(*                                                                          *)
(* buf[t] is the message_t that thread_t.wait_data points to: the message of *)
(* a blocked sender, the destination of a blocked receiver, and both in turn *)
(* for msg_send_receive(). A message is numbered by its sender and receiver. *)
(***************************************************************************)
EXTENDS Kernel

CONSTANTS Isr,        \* KERNEL_PID_ISR as a sender
          Gone,       \* targets whose thread does not exist
          NoMsg,
          Capacity,   \* the size of each thread's message queue, 0 for none
          BasePrio,   \* the priority of each thread
          Starters,   \* the threads that are ready at the start
          Links,      \* the pairs of a sender and a receiver that the
                      \* application uses
          N           \* messages of a pair are numbered modulo N

ASSUME MsgAssumption ==
  /\ IsFiniteSet(Threads)
  /\ Isr \notin Threads /\ Gone \cap Threads = {}
  /\ Capacity \in [Threads -> Nat]
  /\ BasePrio \in [Threads -> Prios] /\ Starters \subseteq Threads
  /\ Links \subseteq (Threads \cup {Isr}) \X (Threads \cup Gone)
  /\ N \in Nat \ {0, 1}

Pairs == {p \in Links : p[2] \in Threads}
Kinds == {"data", "request", "reply"}
Message == [from : Threads \cup {Isr}, n : 0 .. N - 1, kind : Kinds]

ASSUME NoMsgAssumption == NoMsg \notin Message

VARIABLES k, queue, waiters, buf, pc,
          todo,    \* the requests a thread received and has to answer
          sent,    \* history: the number of the last message accepted
          got      \* history: the number of the last message received

vars == <<k, queue, waiters, buf, pc, todo, sent, got>>
data == <<queue, waiters, buf, todo, sent, got>>

(* "yield" is before a thread_yield_higher(), "queued" before the test of   *)
(* me->status in _msg_send(), "switch" before a sched_switch(); `next` is   *)
(* where the call continues. "received" and "replied" are after the wait.   *)
Goals == {"run", "received", "replied"}
Simple(p) == [at |-> p]
Places == {Simple(g) : g \in Goals} \cup [at : {"yield", "queued"}, next : Goals]
          \cup [at : {"switch"}, prio : Prios]

TypeOK == /\ k \in KernelType
          /\ queue \in [Threads -> Seq(Message)]
          /\ waiters \in [Threads -> Seq(Threads)]
          /\ buf \in [Threads -> Message \cup {NoMsg}]
          /\ pc \in [Threads -> Places]
          /\ todo \in [Threads -> SUBSET Message]
          /\ sent \in [Pairs -> 0 .. N - 1]
          /\ got \in [Pairs -> 0 .. N - 1]

Init == /\ k \in StartStates(BasePrio, Starters)
        /\ queue = [t \in Threads |-> <<>>]
        /\ waiters = [t \in Threads |-> <<>>]
        /\ buf = [t \in Threads |-> NoMsg]
        /\ pc = [t \in Threads |-> Simple("run")]
        /\ todo = [t \in Threads |-> {}]
        /\ sent = [p \in Pairs |-> 0]
        /\ got = [p \in Pairs |-> 0]

Go(t, place) == pc' = [pc EXCEPT ![t] = place]
At(t, p) == Executes(k, t) /\ pc[t].at = p

NewMsg(s, r, kind) == [from |-> s, n |-> (sent[<<s, r>>] + 1) % N, kind |-> kind]
Accepted(m, r) == sent' = [sent EXCEPT ![<<m.from, r>>] = m.n]

(* queue_msg(): cib_put() finds a free place.                               *)
Room(r) == Len(queue[r]) < Capacity[r]

(* The receiver's code has the message m.                                   *)
Takes(r, m) ==
  /\ got' = [got EXCEPT ![<<m.from, r>>] = m.n]
  /\ todo' = IF m.kind = "request" THEN [todo EXCEPT ![r] = @ \cup {m}] ELSE todo

-----------------------------------------------------------------------------
(* _msg_send() of thread t, from the state s of the scheduler. `goal` is    *)
(* where t goes when the call has done its waiting.                         *)

SendDirect(t, r, s, m, goal) ==
  /\ s.status[r] = "RECEIVE_BLOCKED"
  /\ buf' = [buf EXCEPT ![t] = IF goal = "replied" THEN m ELSE @, ![r] = m]
  /\ k' = SetStatus(s, r, "PENDING")
  /\ Go(t, [at |-> "yield", next |-> goal])
  /\ UNCHANGED <<queue, waiters>>

SendQueued(t, r, s, m, goal) ==
  /\ s.status[r] # "RECEIVE_BLOCKED" /\ Room(r)
  /\ queue' = [queue EXCEPT ![r] = Append(@, m)]
  /\ buf' = [buf EXCEPT ![t] = IF goal = "replied" THEN m ELSE @]
  /\ k' = s
  /\ Go(t, [at |-> "queued", next |-> goal])
  /\ UNCHANGED waiters

(* Mutant of SendBlocks: a sender that needs a reply blocks as any other.   *)
SendBlocksOneway(t, r, s, m, goal) ==
  /\ s.status[r] # "RECEIVE_BLOCKED" /\ ~Room(r)
  /\ LET b == SetStatus(s, t, "SEND_BLOCKED")
     IN k' = b /\ waiters' = [waiters EXCEPT ![r] = AddToList(b, @, t)]
  /\ buf' = [buf EXCEPT ![t] = m]
  /\ Go(t, [at |-> "yield", next |-> goal])
  /\ UNCHANGED queue

SendBlocks(t, r, s, m, goal) ==
  /\ s.status[r] # "RECEIVE_BLOCKED" /\ ~Room(r)
  /\ LET b == SetStatus(s, t, IF s.status[t] = "REPLY_BLOCKED" THEN "REPLY_BLOCKED"
                                                               ELSE "SEND_BLOCKED")
     IN /\ k' = b
        /\ waiters' = [waiters EXCEPT ![r] = AddToList(b, @, t)]
  /\ buf' = [buf EXCEPT ![t] = m]
  /\ Go(t, [at |-> "yield", next |-> goal])
  /\ UNCHANGED queue

(* msg_send(), and msg_try_send(), which returns 0 instead of blocking      *)
Send(t, r) ==
  /\ At(t, "run") /\ r # t /\ <<t, r>> \in Pairs
  /\ LET m == NewMsg(t, r, "data")
     IN /\ \/ SendDirect(t, r, k, m, "run")
           \/ SendQueued(t, r, k, m, "run")
           \/ SendBlocks(t, r, k, m, "run")
        /\ Accepted(m, r)
  /\ UNCHANGED <<todo, got>>

(* msg_send_to_self(), when the queue has room                              *)
SendToSelf(t) ==
  /\ At(t, "run") /\ <<t, t>> \in Pairs /\ Room(t)
  /\ LET m == NewMsg(t, t, "data")
     IN queue' = [queue EXCEPT ![t] = Append(@, m)] /\ Accepted(m, t)
  /\ UNCHANGED <<k, waiters, buf, pc, todo, got>>

(* msg_send_receive()                                                       *)
SendReceive(t, r) ==
  /\ At(t, "run") /\ r # t /\ <<t, r>> \in Pairs
  /\ LET m == NewMsg(t, r, "request")
         s == SetStatus(k, t, "REPLY_BLOCKED")
     IN /\ \/ SendDirect(t, r, s, m, "replied")
           \/ SendQueued(t, r, s, m, "replied")
           \/ SendBlocks(t, r, s, m, "replied")
        /\ Accepted(m, r)
  /\ UNCHANGED <<todo, got>>

(* msg_send_receive() to a pid that has no thread: _msg_send() returns -1.  *)
SendReceiveGone(t, g) ==
  /\ At(t, "run") /\ g \in Gone /\ <<t, g>> \in Links
  /\ k' = SetStatus(k, t, "REPLY_BLOCKED")
  /\ UNCHANGED <<data, pc>>

(* The end of a send that was queued: a request has to wait for its reply.  *)
Queued(t) ==
  /\ At(t, "queued")
  /\ Go(t, IF k.status[t] = "REPLY_BLOCKED" THEN [pc[t] EXCEPT !.at = "yield"]
                                            ELSE Simple(pc[t].next))
  /\ UNCHANGED <<k, data>>

-----------------------------------------------------------------------------
(* Mutant of AtHand: a waiting sender is served before the queue.           *)
AtHandSenderFirst(t) ==
  (IF waiters[t] = <<>> THEN <<>> ELSE <<buf[Head(waiters[t])]>>) \o queue[t]

(* _msg_receive(): the messages at hand are those of the queue and that of  *)
(* the first waiting sender, which moves to the place that became free.     *)
AtHand(t) == queue[t] \o (IF waiters[t] = <<>> THEN <<>>
                                               ELSE <<buf[Head(waiters[t])]>>)

(* Mutant of Receive: with a message queued, no waiting sender is let in.   *)
ReceiveQueuedOnly(t) ==
  /\ At(t, "run") /\ queue[t] # <<>>
  /\ Takes(t, Head(queue[t]))
  /\ queue' = [queue EXCEPT ![t] = Tail(@)]
  /\ UNCHANGED <<k, waiters, pc, buf, sent>>

Receive(t) ==
  /\ At(t, "run") /\ AtHand(t) # <<>>
  /\ Takes(t, Head(AtHand(t)))
  /\ queue' = [queue EXCEPT ![t] = Tail(AtHand(t))]
  /\ IF waiters[t] = <<>>
     THEN UNCHANGED <<k, waiters, pc, buf>>
     ELSE LET w == Head(waiters[t])
          IN /\ waiters' = [waiters EXCEPT ![t] = Tail(@)]
             /\ IF k.status[w] = "REPLY_BLOCKED" THEN UNCHANGED <<k, pc, buf>>
                ELSE /\ k' = SetStatus(k, w, "PENDING")
                     /\ buf' = [buf EXCEPT ![w] = NoMsg]
                     /\ Go(t, IF k.prio[w] < PrioLevels - 1
                              THEN [at |-> "switch", prio |-> k.prio[w]]
                              ELSE Simple("run"))
  /\ UNCHANGED sent

(* Mutant of ReceiveBlocks: the list of waiting senders is not looked at.   *)
ReceiveBlocksUnseeing(t) ==
  /\ At(t, "run") /\ queue[t] = <<>>
  /\ buf' = [buf EXCEPT ![t] = NoMsg]
  /\ k' = SetStatus(k, t, "RECEIVE_BLOCKED")
  /\ Go(t, [at |-> "yield", next |-> "received"])
  /\ UNCHANGED <<queue, waiters, todo, sent, got>>

(* msg_receive() with nothing at hand; msg_try_receive() returns -1.        *)
ReceiveBlocks(t) ==
  /\ At(t, "run") /\ AtHand(t) = <<>>
  /\ buf' = [buf EXCEPT ![t] = NoMsg]
  /\ k' = SetStatus(k, t, "RECEIVE_BLOCKED")
  /\ Go(t, [at |-> "yield", next |-> "received"])
  /\ UNCHANGED <<queue, waiters, todo, sent, got>>

Received(t) ==
  /\ At(t, "received")
  /\ Takes(t, buf[t])
  /\ buf' = [buf EXCEPT ![t] = NoMsg]
  /\ Go(t, Simple("run"))
  /\ UNCHANGED <<k, queue, waiters, sent>>

(* The return of msg_send_receive(), with the reply in its buffer.          *)
Replied(t) ==
  /\ At(t, "replied")
  /\ buf' = [buf EXCEPT ![t] = NoMsg]
  /\ Go(t, Simple("run"))
  /\ UNCHANGED <<k, queue, waiters, todo, sent, got>>

(* msg_reply() to the request m; the sender must still wait for it.         *)
ReplyTo(t, m) == [from |-> t, n |-> m.n, kind |-> "reply"]

Answers(t, m) ==
  /\ m \in todo[t] /\ k.status[m.from] = "REPLY_BLOCKED"
  /\ buf' = [buf EXCEPT ![m.from] = ReplyTo(t, m)]
  /\ todo' = [todo EXCEPT ![t] = @ \ {m}]
  /\ UNCHANGED <<queue, waiters, sent, got>>

Reply(t, m) ==
  /\ At(t, "run") /\ Answers(t, m)
  /\ k' = SetStatus(k, m.from, "PENDING")
  /\ Go(t, [at |-> "switch", prio |-> k.prio[m.from]])

DoYield(t) ==
  /\ At(t, "yield")
  /\ k' = YieldHigher(k)
  /\ Go(t, Simple(pc[t].next))
  /\ UNCHANGED data

DoSwitch(t) ==
  /\ At(t, "switch")
  /\ \E test \in SwitchTests(k, pc[t].prio) : k' = ThreadSwitch(k, test)
  /\ Go(t, Simple("run"))
  /\ UNCHANGED data

-----------------------------------------------------------------------------
(* Interrupt handlers, each followed by cortexm_isr_end(), and the processor *)

Request(s) == IsrEnd([s EXCEPT !.csr = TRUE])

(* msg_send_int(): a message to a busy thread without room is refused.      *)
IsrSend(r) ==
  /\ <<Isr, r>> \in Pairs
  /\ LET m == NewMsg(Isr, r, "data")
     IN /\ \/ /\ k.status[r] = "RECEIVE_BLOCKED"
              /\ buf' = [buf EXCEPT ![r] = m]
              /\ k' = Request(SetStatus(k, r, "PENDING"))
              /\ UNCHANGED queue
           \/ /\ k.status[r] # "RECEIVE_BLOCKED" /\ Room(r)
              /\ queue' = [queue EXCEPT ![r] = Append(@, m)]
              /\ UNCHANGED <<k, buf>>
        /\ Accepted(m, r)
  /\ UNCHANGED <<waiters, pc, todo, got>>

(* msg_reply_int(): a handler answers a request that t took.                *)
IsrReply(t, m) ==
  /\ Answers(t, m)
  /\ k' = Request(SetStatus(k, m.from, "PENDING"))
  /\ UNCHANGED pc

(* thread_wakeup() of a thread that waits to start                          *)
IsrStart(t) ==
  /\ k.status[t] = "SLEEPING"
  /\ LET woken == SetStatus(k, t, "PENDING")
     IN \E test \in SwitchTests(woken, k.prio[t]) : k' = IsrSwitch(woken, test)
  /\ UNCHANGED <<data, pc>>

PendSV == k.pendsv /\ ~k.idle /\ k' = SchedRun(k) /\ UNCHANGED <<data, pc>>
EndIdle == k.idle /\ k.bitcache # {} /\ k' = IdleReturn(k) /\ UNCHANGED <<data, pc>>

-----------------------------------------------------------------------------
Finish(t) == Queued(t) \/ Received(t) \/ Replied(t) \/ DoYield(t) \/ DoSwitch(t)
Answer(t) == \E m \in todo[t] : Reply(t, m)

Next == \/ \E t \in Threads :
             \/ \E r \in Threads : Send(t, r) \/ SendReceive(t, r)
             \/ \E g \in Gone : SendReceiveGone(t, g)
             \/ SendToSelf(t) \/ Receive(t) \/ ReceiveBlocks(t)
             \/ Answer(t) \/ Finish(t)
             \/ IsrSend(t) \/ IsrStart(t)
             \/ \E m \in todo[t] : IsrReply(t, m)
        \/ PendSV \/ EndIdle

Spec == Init /\ [][Next]_vars

-----------------------------------------------------------------------------
(* Properties                                                               *)

(* The numbers of the messages of s in q: the n-th is at the place in S that *)
(* has n places of S up to it.                                              *)
Rank(i, S) == Cardinality({j \in S : j <= i})
Of(s, q) == {i \in DOMAIN q : q[i].from = s}
From(s, q) == LET S == Of(s, q)
              IN [n \in 1 .. Cardinality(S) |-> q[CHOOSE i \in S : Rank(i, S) = n].n]

(* What r was given or has in its queue, in the order of its arrival. Behind *)
(* it on the way from s to r is the message of s, if s is blocked with one. *)
Line(r) == IF pc[r] \in {Simple("received"), [at |-> "yield", next |-> "received"]}
              /\ buf[r] # NoMsg
           THEN <<buf[r]>> \o queue[r] ELSE queue[r]
OnTheWay(s, r) == IF s \in Elems(waiters[r]) THEN Append(From(s, Line(r)), buf[s].n)
                                             ELSE From(s, Line(r))

(* Messages between two partners are a FIFO channel: none that a call       *)
(* reported as sent is lost, duplicated or overtaken, whether it went       *)
(* directly, through the queue or by way of a blocked sender.               *)
Abstract == INSTANCE Channels WITH Pairs <- Pairs, N <- N, sent <- sent, got <- got,
                                   chan <- [p \in Pairs |-> OnTheWay(p[1], p[2])]
ChannelsSpec == Abstract!Spec

(* No lost wakeup: a thread blocked in msg_receive() has no message queued  *)
(* and no sender waiting for it.                                            *)
BlockedReceiverHasNothing ==
  \A t \in Threads : k.status[t] = "RECEIVE_BLOCKED" => AtHand(t) = <<>>

(* The senders' lists and the runqueues use the same rq_entry: a thread is in *)
(* at most one list, once, and then its status keeps it off the runqueues; a *)
(* thread with STATUS_SEND_BLOCKED is in one, and nobody waits for a thread *)
(* that has room for the message.                                           *)
SendersListed ==
  /\ TypeOK /\ OneRunning(k)
  /\ \A t, u \in Threads : \A i \in DOMAIN waiters[t], j \in DOMAIN waiters[u] :
       waiters[t][i] = waiters[u][j] => t = u /\ i = j
  /\ \A t \in Threads :
       /\ \A i \in DOMAIN waiters[t] :
            k.status[waiters[t][i]] \in {"SEND_BLOCKED", "REPLY_BLOCKED"}
       /\ k.status[t] = "SEND_BLOCKED" => \E u \in Threads : t \in Elems(waiters[u])
       /\ waiters[t] # <<>> => ~Room(t)

(* msg_send_receive() returns with the reply to its own request, and no     *)
(* request is answered while it still waits in a list or in a queue.        *)
RepliesMatch ==
  \A t \in Threads :
    At(t, "replied") => /\ buf[t] # NoMsg /\ buf[t].kind = "reply"
                        /\ sent[<<t, buf[t].from>>] = buf[t].n
                        /\ \A r \in Threads : t \notin Elems(waiters[r])

(* A thread that runs its own code is ready: the statuses of a blocked      *)
(* thread, as STATUS_REPLY_BLOCKED, are those of threads that wait.         *)
RunningIsReady == \A t \in Threads : At(t, "run") => IsActive(k, t)
=============================================================================
