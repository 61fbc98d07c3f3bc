------------------------------ MODULE Channels ------------------------------
(***************************************************************************)
(* What RIOT's messages and mailboxes promise, whatever queues and waiting  *)
(* threads carry the messages: a set of FIFO channels, one for each pair of *)
(* a sender and a receiver, or for each mailbox. Every message that a sender *)
(* was told is accepted arrives once and in order.                          *)
(*                                                                          *)
(* Messages are numbered modulo N. sent[p] is the number of the last one    *)
(* accepted on channel p, got[p] of the last one that a receiver took.      *)
(***************************************************************************)
EXTENDS Integers, Sequences

CONSTANTS Pairs, N

VARIABLES chan, sent, got

Following(n) == (n + 1) % N

Init == /\ chan = [p \in Pairs |-> <<>>]
        /\ sent = [p \in Pairs |-> 0]
        /\ got = [p \in Pairs |-> 0]

Accept(p) ==
  /\ chan' = [chan EXCEPT ![p] = Append(@, Following(sent[p]))]
  /\ sent' = [sent EXCEPT ![p] = Following(@)]
  /\ UNCHANGED got

Deliver(p) ==
  /\ chan[p] # <<>>
  /\ got' = [got EXCEPT ![p] = Head(chan[p])]
  /\ chan' = [chan EXCEPT ![p] = Tail(@)]
  /\ UNCHANGED sent

(* A message that is received as it is sent passes an empty channel only.   *)
Pass(p) ==
  /\ chan[p] = <<>>
  /\ sent' = [sent EXCEPT ![p] = Following(@)]
  /\ got' = [got EXCEPT ![p] = Following(sent[p])]
  /\ UNCHANGED chan

Next == \E p \in Pairs : Accept(p) \/ Deliver(p) \/ Pass(p)

Spec == Init /\ [][Next]_<<chan, sent, got>>
=============================================================================
