\* Two threads reserve and free zones under three names, of which the table has
\* room for two, and use the heaps of two sockets beside it.
SPECIFICATION ZoneSpec
CONSTANTS
  Threads = {t1, t2}
  Segs <- TwoSockets
  Requests <- OnPages
  Resizes <- Grow
  NumLists = 2
  MinSize = 2
  MaxMemzone = 2
  ZoneNames = {n1, n2, n3}
  ZoneRequests <- Zones
SYMMETRY Symmetry
INVARIANTS ZonesSound
PROPERTIES WholeFitsUnlessTaken FullOnlyWhenNoneFits HeaderStable
