----------------------------- MODULE AlarmClock -----------------------------
(***************************************************************************)
(* What a ztimer clock promises (sys/include/ztimer.h): a timer that is set *)
(* and not removed or set again expires once, not before its time and at    *)
(* most Latency after it.                                                   *)
(***************************************************************************)
EXTENDS Integers

CONSTANTS Timers, MaxOffset, Latency

VARIABLES armed, left   \* the timers that are set, and the time until they are due
vars == <<armed, left>>

Init == armed = {} /\ left = [t \in Timers |-> 0]

Set(t, val) == armed' = armed \cup {t} /\ left' = [left EXCEPT ![t] = val]
Remove(t) == t \in armed /\ armed' = armed \ {t} /\ UNCHANGED left

Due == {t \in armed : left[t] <= 0}
Expire == Due # {} /\ armed' = armed \ Due /\ UNCHANGED left

Tick == /\ \A t \in armed : left[t] > -Latency
        /\ left' = [t \in Timers |-> IF left[t] < -Latency THEN left[t] ELSE left[t] - 1]
        /\ UNCHANGED armed

Next == \/ \E t \in Timers : Remove(t) \/ \E val \in 0 .. MaxOffset : Set(t, val)
        \/ Expire \/ Tick

Spec == Init /\ [][Next]_vars
=============================================================================
