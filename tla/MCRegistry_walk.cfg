\* A reader of the list of mempools beside a caller that frees one.
SPECIFICATION RegSpec
CONSTANTS
  Callers = {t1, t2}
  RingNames = {}
  PoolNames = {m}
  Addrs = {1, 2, 3, 4}
  Tes = {1, 2, 3}
  MaxChunks = 1
INVARIANTS PoolReadersSafe
