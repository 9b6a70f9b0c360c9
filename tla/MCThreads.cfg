\* Three threads on a reader-writer lock or a recursive lock; two that elide
\* one; two slave lcores, one of them a service lcore; a primary and a
\* secondary that share three tailq slots, with a name that is cut to another
\* one; a mempool of three objects in a ring of four slots, which has room for
\* all three and no more, with two lcores that have caches of two and a thread
\* without; two callers that create and free a ring and a mempool of two
\* chunks.
SPECIFICATION MCSpec
CONSTANTS
  Threads = {t1, t2, t3}
  Tids = {t1, t2, t3}
  NoUser = NoUser
  MaxDepth = 2
  TmThreads = {t1, t2}
  MaxRetries = 2
  Values = 3
  Slaves = {s1, s2}
  Service = {s2}
  MaxJobs = 3
  Primary = p
  Secondaries = {q}
  Names = {n1, n2, n3}
  n1 = n1
  LongNames = {n3}
  Cut <- CutToN1
  NoName = NoName
  MaxTailq = 3
  Lcores = {l1, l2}
  Others = {x1}
  Objects = {a, b, c}
  CacheSize = 2
  CacheMax = 2
  RingSize = 4
  Bursts = {1, 2, 3}
  Callers = {t1, t2}
  RingNames = {r}
  PoolNames = {m}
  Addrs = {1, 2, 3, 4}
  Tes = {1, 2, 3}
  MaxChunks = 2
INVARIANTS Exclusion MutualExclusion ElisionSound LaunchSound TailqsSound PutsFit Conservation NothingLeaked PoolsIntact ListsSound
PROPERTIES SomebodyEnters SomebodyGetsIt ElisionEnds LaunchEnds FailOnlyWhenShort SomebodyReturns
