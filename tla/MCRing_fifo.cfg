\* A single producer, and two consumers that share what it adds two, or one,
\* at a time.
SPECIFICATION Spec
CONSTANTS
  Producers = {p1}
  Consumers = {c1, c2}
  Objs = {a, b}
  Size = 4
  Capacity = 3
  M = 8
  Bursts = {2}
  Behaviors = {"VARIABLE"}
  Single <- SingleProd
  NoObj = NoObj
SYMMETRY Symmetry
PROPERTIES ImplementsFifo
