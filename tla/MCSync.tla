------------------------------- MODULE MCSync -------------------------------
(* Sync for TLC, with three threads: a consumer above the producer and one  *)
(* below it; a looper with a thread that waits for events above it, and a   *)
(* thread that posts below it.                                              *)
EXTENDS Sync, TLC
CONSTANTS hi, mid, lo, e1, e2

ThreeLevels == hi :> 0 @@ mid :> 1 @@ lo :> 2
TwoQueues == e1 :> 1 @@ e2 :> 2 @@ SyncEv :> 1
(* Only the looper cancels an event that event_get() may be taking.         *)
OwnCancels == {<<mid, e1>>, <<mid, e2>>, <<lo, e2>>}
=============================================================================
