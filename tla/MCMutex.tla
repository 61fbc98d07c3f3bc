------------------------------ MODULE MCMutex ------------------------------
(* Mutex for TLC: three threads, a mutex a and a signal s.                  *)
EXTENDS Mutex, TLC
CONSTANTS hi, mid, lo, a, b, s

TwoLevels == hi :> 0 @@ mid :> 1 @@ lo :> 1
ThreeLevels == hi :> 0 @@ mid :> 1 @@ lo :> 2
=============================================================================
