------------------------------ MODULE MCDevice ------------------------------
(* Device for TLC: three timers on a counter of four values, whose          *)
(* checkpoints come before the timers; a power-on for each game and one for *)
(* the clock, four finished games of the box and sort games and one of the  *)
(* runner.                                                                  *)
EXTENDS Device, TLC
CONSTANTS q1, q2, q3, q4, q5, t1, t2, t3

OneGameEach == {{}} \cup {{g} : g \in AllGames}
FourFinished == [g \in ScoredGames |-> IF g = "runner" THEN 1 ELSE 4]
=============================================================================
