SPECIFICATION SyncFairSpec
CONSTANTS
  hi = hi
  mid = mid
  lo = lo
  lock = lock
  rec = rec
  synced = synced
  e1 = e1
  e2 = e2
  SyncEv = SyncEv
  NoEv = NoEv
  Threads = {hi, mid, lo}
  NoThread = NoThread
  NoMutex = NoMutex
  PrioLevels = 3
  Mutexes = {lock, rec}
  Signals = {synced}
  BasePrio <- ThreeLevels
  Starters = {mid, lo}
  Lockers = {hi, mid, lo}
  Calls = {"lock", "trylock", "unlock", "sleep"}
  PI = FALSE
  Consumers = {hi, lo}
  Producers = {mid}
  Recursers = {mid, lo}
  MaxItems = 2
  MaxDepth = 2
  Looper = mid
  Posters = {lo}
  Syncers = {hi}
  Flaggers = {hi}
  Evs = {e1, e2}
  Cancels <- OwnCancels
  NQueues = 2
  QueueOf <- TwoQueues
INVARIANTS
  MonitorLists NoLostWakeup ConditionGuarded HolderNests
  NodesLinked WaitsHonoured PostsAnswered NotSleptThrough SyncIsBarrier
PROPERTIES RecursiveMutex WaiterWoken EventsHandled
