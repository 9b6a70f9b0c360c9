\* Three machines and eleven requests for huge pages; one memseg of thirteen lines
\* and one caller, with every way to split, pad, join and resize elements; every
\* function with arguments on both sides of its limits.  Start-up and functions
\* come to an end.
SPECIFICATION MCSpec
CONSTANTS
  Threads = {t1}
  Segs <- OneSeg
  Requests <- Shapes
  Resizes <- GrowShrink
  NumLists = 3
  MinSize = 2
  MaxNode = 1
  Sizes <- MCSizes
  MaxMemseg = 4
  Machines <- MCMachines
  Configs <- MCConfigs
  Lcores <- MCLcores
  IntSpan = 8
  LongSpan = 64
  Copies <- MCCopies
  Pools <- MCPools
  Pow2s <- MCPow2s
  Readings <- MCReadings
  Splits <- MCSplits
  Width = 256
  CcMask = 15
INVARIANTS HeapSound SegmentsTrue RequestServed PagesReturned CopySound LayoutSound AnswersRight
PROPERTIES AllocSound
CHECK_DEADLOCK FALSE
