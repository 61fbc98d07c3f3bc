SPECIFICATION EventsSpec
CONSTANTS
  loop = loop
  low = low
  e1 = e1
  SyncEv = SyncEv
  NoEv = NoEv
  synced = synced
  Threads = {loop, low}
  NoThread = NoThread
  NoMutex = NoMutex
  PrioLevels = 2
  Mutexes = {}
  Signals = {synced}
  BasePrio <- TwoLevels
  Starters = {loop, low}
  Lockers = {low}
  Calls = {"lock", "sleep"}
  PI = FALSE
  Looper = loop
  Posters = {low}
  Syncers = {low}
  Flaggers = {}
  Evs = {e1}
  Cancels = {}
  NQueues = 1
  QueueOf <- OneQueue
INVARIANTS BlocksUntilTimeout
