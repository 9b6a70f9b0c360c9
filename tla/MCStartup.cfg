\* b does without huge pages; each process may call rte_eal_init twice.
\* The processes may end, or wait for ever for a primary.
SPECIFICATION StartSpec
CONSTANTS
  a = a  b = b  c = c
  Procs = {a, b, c}
  None = None
  PrefixOf <- MCPrefixOf
  NoShconf = {c}
  NoHuge = {b}
  MaxCalls = 2
INVARIANTS ConfigIntact FileKept MemoryOnce
PROPERTIES HugedirGranted
CHECK_DEADLOCK FALSE
