----------------------------- MODULE Reentrant ------------------------------
(***************************************************************************)
(* What a recursive mutex promises (core/lib/include/rmutex.h): one thread  *)
(* at a time holds it, as often as it locked it, and it is free or in the   *)
(* hands of a waiter only when it was unlocked as often.                    *)
(***************************************************************************)
EXTENDS Naturals

CONSTANTS Users, Nobody

VARIABLES holder, depth
vars == <<holder, depth>>

Init == holder = Nobody /\ depth = 0

Acquire(t) == holder = Nobody /\ holder' = t /\ depth' = 1
Nest(t) == holder = t /\ depth' = depth + 1 /\ UNCHANGED holder
Unnest(t) == holder = t /\ depth > 1 /\ depth' = depth - 1 /\ UNCHANGED holder
Free(t) == holder = t /\ depth = 1 /\ holder' = Nobody /\ depth' = 0
HandOver(t, u) == holder = t /\ u # t /\ depth = 1 /\ holder' = u /\ UNCHANGED depth

Next == \E t \in Users : \/ Acquire(t) \/ Nest(t) \/ Unnest(t) \/ Free(t)
                         \/ \E u \in Users : HandOver(t, u)

Spec == Init /\ [][Next]_vars
=============================================================================
