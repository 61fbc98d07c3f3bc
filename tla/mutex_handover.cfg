SPECIFICATION Spec
CONSTANTS
  hi = hi
  mid = mid
  lo = lo
  a = a
  b = b
  s = s
  Threads = {hi, mid, lo}
  NoThread = NoThread
  NoMutex = NoMutex
  PrioLevels = 3
  Mutexes = {a}
  Signals = {}
  BasePrio <- ThreeLevels
  Starters = {lo}
  Lockers = {hi, mid, lo}
  Calls = {"lock", "unlock"}
  PI = TRUE
INVARIANTS HolderInherits
CHECK_DEADLOCK FALSE
