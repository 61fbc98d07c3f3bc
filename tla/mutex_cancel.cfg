SPECIFICATION Spec
CONSTANTS
  hi = hi
  mid = mid
  lo = lo
  a = a
  b = b
  s = s
  Threads = {hi, mid, lo}
  NoThread = NoThread
  NoMutex = NoMutex
  PrioLevels = 2
  Mutexes = {a}
  Signals = {}
  BasePrio <- TwoLevels
  Starters = {mid, lo}
  Lockers = {hi, mid, lo}
  Calls = {"lock", "unlock", "lock_cancelable", "cancel"}
  PI = FALSE
INVARIANTS LockedIsHeld
CHECK_DEADLOCK FALSE
