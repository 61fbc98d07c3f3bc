SPECIFICATION Spec
CONSTANTS
  rx = rx
  tx = tx
  h = h
  m = m
  l = l
  Threads = {h, m, l}
  NoThread = NoThread
  PrioLevels = 2
  Half = 4
  Boxes = {tx}
  Size <- OneBox
  Putters = {tx}
  Getters = {tx}
  BasePrio <- MCPrio
  Starters = {m, l}
  N = 2
INVARIANTS NoReaderBesideMessage
CHECK_DEADLOCK FALSE
