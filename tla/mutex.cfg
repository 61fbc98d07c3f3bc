SPECIFICATION Spec
CONSTANTS
  hi = hi
  mid = mid
  lo = lo
  a = a
  b = b
  s = s
  Threads = {hi, mid, lo}
  NoThread = NoThread
  NoMutex = NoMutex
  PrioLevels = 2
  Mutexes = {a}
  Signals = {s}
  BasePrio <- TwoLevels
  Starters = {mid, lo}
  Lockers = {hi, mid, lo}
  Calls = {"lock", "trylock", "lock_cancelable", "cancel", "unlock", "unlock_and_sleep", "sleep"}
  PI = FALSE
INVARIANTS ListsConsistent MutualExclusion CancelEndsWait
PROPERTIES WaitersInOrder
