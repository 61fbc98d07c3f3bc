SPECIFICATION Spec
CONSTANTS
  rx = rx
  tx = tx
  h = h
  m = m
  l = l
  Threads = {h, m, l}
  NoThread = NoThread
  PrioLevels = 2
  Half = 4
  Boxes = {rx, tx}
  Size <- MCSize
  Putters = {tx}
  Getters = {rx}
  BasePrio <- MCPrio
  Starters = {m, l}
  N = 2
SYMMETRY MCSymmetry
INVARIANTS ListsConsistent NoReaderBesideMessage WritersNotStranded
PROPERTIES FifoSpec
