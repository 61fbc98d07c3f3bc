------------------------------ MODULE MCSched ------------------------------
(* Sched for TLC: three control blocks, three pids, two priorities.         *)
EXTENDS Sched, TLC
CONSTANTS t1, t2, t3

MCSymmetry == Permutations(Threads \ {Main})
=============================================================================
