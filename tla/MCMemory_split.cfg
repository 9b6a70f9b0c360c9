\* Strings of up to six characters that are split into two tokens.
SPECIFICATION FunctionsSpec
CONSTANTS
  Threads = {t1}
  Segs <- OneSeg
  Requests <- Shapes
  Resizes <- GrowShrink
  NumLists = 3
  MinSize = 2
  MaxNode = 1
  Sizes <- MCSizes
  MaxMemseg = 4
  Machines <- MCMachines
  Configs <- Parsed
  Lcores <- MCLcores
  IntSpan = 8
  LongSpan = 64
  Copies = {}
  Pools = {}
  Pow2s = {}
  Readings = {}
  Splits <- TwoTokens
  Width = 256
  CcMask = 15
INVARIANTS SplitsAtMost
CHECK_DEADLOCK FALSE
