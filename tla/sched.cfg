SPECIFICATION Spec
CONSTANTS
  t1 = t1
  t2 = t2
  t3 = t3
  Threads = {t1, t2, t3}
  NoThread = NoThread
  PrioLevels = 2
  MaxPid = 3
  Main = t1
  MainPrio = 1
  CreateFlags = {"NONE", "SLEEPING", "WOUT_YIELD"}
  PrioChangers = {t1}
SYMMETRY MCSymmetry
INVARIANTS TypeOK SchedulerConsistent TableConsistent NoMissedPreemption
PROPERTIES TurnsKept
CHECK_DEADLOCK FALSE
