------------------------------ MODULE MCEvents ------------------------------
(* Events for TLC with a single queue: what event_wait_timeout_ztimer()     *)
(* promises is about the queue it is called for.                            *)
EXTENDS Events, TLC
CONSTANTS loop, low, e1

TwoLevels == loop :> 0 @@ low :> 1
OneQueue == e1 :> 1 @@ SyncEv :> 1
=============================================================================
