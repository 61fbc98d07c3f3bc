SPECIFICATION FairSpec
CONSTANTS
  hi = hi
  mid = mid
  lo = lo
  a = a
  b = b
  s = s
  Threads = {hi, mid, lo}
  NoThread = NoThread
  NoMutex = NoMutex
  PrioLevels = 3
  Mutexes = {a}
  Signals = {}
  BasePrio <- ThreeLevels
  Starters = {lo}
  Lockers = {hi, lo}
  Calls = {"lock", "trylock", "lock_cancelable", "unlock", "sleep"}
  PI = TRUE
INVARIANTS QuietMeansBase HolderInherits
PROPERTIES HighestGets
