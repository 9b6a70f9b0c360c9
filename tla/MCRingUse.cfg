\* A ring whose capacity is below size - 1 (RING_F_EXACT_SZ).
SPECIFICATION MCSpec
CONSTANTS
  Producers = {p1, p2}
  Consumers = {c1}
  Second = p2
  Objs = {a}
  Size = 4
  Capacity = 2
  M = 8
  Bursts = {1}
  Behaviors = {"FIXED"}
  Single <- SingleCons
  NoObj = NoObj
INVARIANTS CountSound
PROPERTIES CommittedCompletes CallsReturn
