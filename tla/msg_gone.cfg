SPECIFICATION Spec
CONSTANTS
  server = server
  client = client
  peer = peer
  gone = gone
  Threads = {server, client, peer}
  NoThread = NoThread
  PrioLevels = 3
  Isr = Isr
  Gone = {gone}
  NoMsg = NoMsg
  Capacity <- MCCapacity
  BasePrio <- MCPrio
  Starters = {client, peer}
  Links <- GoneLinks
  N = 2
INVARIANTS RunningIsReady
CHECK_DEADLOCK FALSE
