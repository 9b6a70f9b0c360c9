\* A primary and a secondary of the same prefix.
SPECIFICATION StartSpec
CONSTANTS
  a = a  b = b  c = c
  Procs = {a, b}
  None = None
  PrefixOf <- MCPrefixOf
  NoShconf = {}
  NoHuge = {}
  MaxCalls = 1
PROPERTIES SecondaryAttaches
CHECK_DEADLOCK FALSE
