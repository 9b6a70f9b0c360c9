\* Two sockets are asked for memory each, and the sum is 0, as --socket-mem
\* leaves it.
SPECIFICATION PagesSpec
CONSTANTS
  Threads = {t1}
  Segs <- OneSeg
  Requests <- Shapes
  Resizes <- GrowShrink
  NumLists = 3
  MinSize = 2
  MaxNode = 1
  Sizes <- MCSizes
  MaxMemseg = 4
  Machines <- MCMachines
  Configs <- Parsed
  Lcores <- MCLcores
  IntSpan = 8
  LongSpan = 64
  Copies = {}
  Pools = {}
  Pow2s = {1}
  Readings = {}
  Splits = {}
  Width = 256
  CcMask = 15
INVARIANTS SocketsServed
CHECK_DEADLOCK FALSE
