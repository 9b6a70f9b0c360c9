\* Two producers that ask for no, one or two objects, in both behaviours: races
\* for the head, partial grants and refusals beside another reservation, and
\* indexes that wrap.
SPECIFICATION Spec
CONSTANTS
  Producers = {p1, p2}
  Consumers = {c1}
  Objs = {a}
  Size = 4
  Capacity = 2
  M = 8
  Bursts = {0, 1, 2}
  Behaviors = {"FIXED", "VARIABLE"}
  Single <- AllMulti
  NoObj = NoObj
SYMMETRY Symmetry
INVARIANTS WindowOrder ReservationsTile IndInv
PROPERTIES RefusalJustified
