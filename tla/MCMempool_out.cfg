\* A failed get of fewer objects than the cache can hold.
SPECIFICATION PoolSpec
CONSTANTS
  Lcores = {l1, l2}
  Others = {}
  Objects = {a, b, c, d}
  CacheSize = 3
  CacheMax = 4
  RingSize = 8
  Bursts = {1, 2}
SYMMETRY Symmetry
PROPERTIES FailOnlyWhenOut
