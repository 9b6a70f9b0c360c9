------------------------------- MODULE Mempool -------------------------------
(***************************************************************************)
(* Getting objects from a mempool and putting them back (rte_mempool.h)    *)
(* through the ring driver (rte_mempool_ring.c).  Every lcore has a cache  *)
(* in front of the common ring; a thread that is not an EAL thread has     *)
(* none.  The ring is the one of RingFifo.tla, which Ring.tla implements:  *)
(* an enqueue or a dequeue is two steps, and its slots are in use between  *)
(* them.  The code does not look at the result of an enqueue.              *)
(***************************************************************************)
EXTENDS Integers, Sequences, FiniteSets

CONSTANTS
  Lcores,     \* threads with a cache
  Others,     \* threads without (lcore_id >= RTE_MAX_LCORE)
  Objects,    \* the objects of the pool, mp->size of them
  CacheSize,  \* cache->size
  CacheMax,   \* RTE_MEMPOOL_CACHE_MAX_SIZE
  RingSize,   \* rte_align32pow2(mp->size + 1), the size of the ring
  Bursts      \* the values of n that callers pass

Users == Lcores \cup Others

(* rte_mempool_create_empty refuses a cache larger than                    *)
(* RTE_MEMPOOL_CACHE_MAX_SIZE or with a flush threshold above mp->size.    *)
ASSUME MempoolAssumption ==
  /\ IsFiniteSet(Objects) /\ Lcores \cap Others = {}
  /\ CacheSize \in Nat \ {0} /\ CacheMax \in Nat /\ RingSize \in Nat
  /\ CacheSize <= CacheMax
  /\ (CacheSize * 3) \div 2 <= Cardinality(Objects)
  /\ Cardinality(Objects) + 1 <= RingSize
  /\ Bursts \subseteq Nat \ {0}

VARIABLES
  queue, claim, taken,  \* the ring: see RingFifo
  app,     \* the objects the application has
  cache,   \* cache[l]: objs[0 .. len - 1] of the cache of l
  phase,      \* where each thread is
  table,   \* the table of the enqueue that is under way
  keep,    \* cache->len after that enqueue
  want,    \* n of the get that is under way
  fill     \* the dequeue under way fills the cache

ring == <<queue, claim, taken>>
pool_vars == <<queue, claim, taken, app, cache, phase, table, keep, want, fill>>

(* rte_ring_init: the mask, size - 1.                                      *)
RingCapacity == RingSize - 1

(* CALC_CACHE_FLUSHTHRESH: 1.5 times the size, truncated.                  *)
FlushThresh == (CacheSize * 3) \div 2

Pool == INSTANCE RingFifo
          WITH Producers <- Users, Consumers <- Users,
               Objs <- Objects, Capacity <- RingCapacity

Elems(s) == {s[k] : k \in DOMAIN s}
Tables == {t \in UNION {[1 .. k -> app] : k \in Bursts} :
             \A j, k \in DOMAIN t : t[j] = t[k] => j = k}
Top(s, k) == SubSeq(s, Len(s) - k + 1, Len(s))
Below(s, k) == SubSeq(s, 1, Len(s) - k)

(* rte_mempool_default_cache                                               *)
HasCache(l) == l \in Lcores

(* The pool after rte_mempool_populate_default: all objects in the ring,   *)
(* in some order.                                                          *)
PoolInit ==
  /\ queue \in {s \in [1 .. Cardinality(Objects) -> Objects] : Elems(s) = Objects}
  /\ claim = [l \in Users |-> <<>>]
  /\ taken = [l \in Users |-> <<>>]
  /\ app = {}
  /\ cache = [l \in Users |-> <<>>]
  /\ phase = [l \in Users |-> "idle"]
  /\ table = [l \in Users |-> <<>>]
  /\ keep = [l \in Users |-> 0]
  /\ want = [l \in Users |-> 0]
  /\ fill = [l \in Users |-> FALSE]

(* rte_mempool_ops_enqueue_bulk(mp, t, ...), after which len = k.          *)
Enqueue(l, t, k) ==
  /\ phase' = [phase EXCEPT ![l] = "enqueue"]
  /\ table' = [table EXCEPT ![l] = t]
  /\ keep' = [keep EXCEPT ![l] = k]

NoEnqueue == UNCHANGED <<phase, table, keep>>

(* Mutant: the flush starts at the first object of the cache.              *)
FlushAll(s) == s

(* &cache->objs[cache->size]                                               *)
AboveSize(s) == SubSeq(s, CacheSize + 1, Len(s))

(* Mutant: the cache is never flushed.                                     *)
NeverFlush(s) == FALSE

(* cache->len >= cache->flushthresh                                        *)
MustFlush(s) == Len(s) >= FlushThresh

(* __mempool_generic_put, into the cache.                                  *)
PutCache(l, t) ==
  LET objs == cache[l] \o t
  IN /\ phase[l] = "idle"
     /\ HasCache(l) /\ Len(t) <= CacheMax
     /\ app' = app \ Elems(t)
     /\ cache' = [cache EXCEPT ![l] = objs]
     /\ IF MustFlush(objs) THEN Enqueue(l, AboveSize(objs), CacheSize) ELSE NoEnqueue
     /\ UNCHANGED <<ring, want, fill>>

(* __mempool_generic_put, straight to the ring.                            *)
PutRing(l, t) ==
  /\ phase[l] = "idle"
  /\ ~HasCache(l) \/ Len(t) > CacheMax
  /\ app' = app \ Elems(t)
  /\ Enqueue(l, t, Len(cache[l]))
  /\ UNCHANGED <<ring, cache, want, fill>>

(* rte_mempool_cache_flush                                                 *)
CacheFlush(l) ==
  /\ phase[l] = "idle"
  /\ HasCache(l)
  /\ Enqueue(l, cache[l], 0)
  /\ UNCHANGED <<ring, app, cache, want, fill>>

(* The enqueue is over: cache->len is set.                                 *)
EnqueueOver(l) ==
  /\ phase' = [phase EXCEPT ![l] = "idle"]
  /\ table' = [table EXCEPT ![l] = <<>>]
  /\ keep' = [keep EXCEPT ![l] = 0]
  /\ cache' = [cache EXCEPT ![l] = SubSeq(@, 1, keep[l])]

(* common_ring_[ms]p_enqueue, up to the move of the head.  When the ring   *)
(* has no room, or nothing is to be added, the result says so and is       *)
(* ignored: the objects would be gone.                                     *)
EnqueueHead(l) ==
  /\ phase[l] = "enqueue"
  /\ IF table[l] # <<>> /\ Pool!InUse + Len(table[l]) <= RingCapacity
       THEN /\ Pool!Claim(l, table[l])
            /\ phase' = [phase EXCEPT ![l] = "publish"]
            /\ UNCHANGED <<cache, table, keep>>
       ELSE EnqueueOver(l) /\ UNCHANGED ring
  /\ UNCHANGED <<app, want, fill>>

(* ... and its end.                                                        *)
EnqueueTail(l) ==
  /\ phase[l] = "publish"
  /\ Pool!Publish(l)
  /\ EnqueueOver(l)
  /\ UNCHANGED <<app, want, fill>>

-----------------------------------------------------------------------------
(* __mempool_generic_get, from the cache.                                  *)
GetCache(l, k) ==
  /\ phase[l] = "idle"
  /\ HasCache(l) /\ k < CacheSize /\ k <= Len(cache[l])
  /\ app' = app \cup Elems(Top(cache[l], k))
  /\ cache' = [cache EXCEPT ![l] = Below(@, k)]
  /\ UNCHANGED <<ring, phase, table, keep, want, fill>>

(* __mempool_generic_get, by way of the ring: to fill the cache, or        *)
(* straight to the caller.                                                 *)
GetRing(l, k) ==
  /\ phase[l] = "idle"
  /\ ~(HasCache(l) /\ k < CacheSize /\ k <= Len(cache[l]))
  /\ phase' = [phase EXCEPT ![l] = "dequeue"]
  /\ want' = [want EXCEPT ![l] = k]
  /\ fill' = [fill EXCEPT ![l] = HasCache(l) /\ k < CacheSize]
  /\ UNCHANGED <<ring, app, cache, table, keep>>

(* req: enough to fill the cache and to serve the request, or n.           *)
Request(l) ==
  IF fill[l] THEN want[l] + (CacheSize - Len(cache[l])) ELSE want[l]

GetOver(l) ==
  /\ phase' = [phase EXCEPT ![l] = "idle"]
  /\ want' = [want EXCEPT ![l] = 0]
  /\ fill' = [fill EXCEPT ![l] = FALSE]

(* Mutant: after a failed fill the get gives up.                           *)
DequeueGivesUp(l) ==
  /\ phase[l] = "dequeue"
  /\ \/ /\ Request(l) <= Len(queue)
        /\ Pool!Take(l, Request(l))
        /\ phase' = [phase EXCEPT ![l] = "release"]
        /\ UNCHANGED <<want, fill>>
     \/ /\ Request(l) > Len(queue)
        /\ GetOver(l)
        /\ UNCHANGED ring
  /\ UNCHANGED <<app, cache, table, keep>>

(* common_ring_[ms]c_dequeue, up to the move of the head; when filling the *)
(* cache fails the ring is tried with n, and when that fails so does the   *)
(* get.                                                                    *)
DequeueHead(l) ==
  /\ phase[l] = "dequeue"
  /\ \/ /\ Request(l) <= Len(queue)
        /\ Pool!Take(l, Request(l))
        /\ phase' = [phase EXCEPT ![l] = "release"]
        /\ UNCHANGED <<want, fill>>
     \/ /\ Request(l) > Len(queue) /\ fill[l]
        /\ fill' = [fill EXCEPT ![l] = FALSE]
        /\ UNCHANGED <<ring, phase, want>>
     \/ /\ Request(l) > Len(queue) /\ ~fill[l]
        /\ GetOver(l)
        /\ UNCHANGED ring
  /\ UNCHANGED <<app, cache, table, keep>>

(* The end of the dequeue and of the get.                                  *)
DequeueTail(l) ==
  LET objs == cache[l] \o taken[l]
  IN /\ phase[l] = "release"
     /\ Pool!Release(l)
     /\ IF fill[l]
          THEN /\ app' = app \cup Elems(Top(objs, want[l]))
               /\ cache' = [cache EXCEPT ![l] = Below(objs, want[l])]
          ELSE app' = app \cup Elems(taken[l]) /\ UNCHANGED cache
     /\ GetOver(l)
     /\ UNCHANGED <<table, keep>>

PoolStep(l) ==
  EnqueueHead(l) \/ EnqueueTail(l) \/ DequeueHead(l) \/ DequeueTail(l)

PoolNext ==
  \E l \in Users :
    \/ PoolStep(l)
    \/ CacheFlush(l)
    \/ \E t \in Tables : PutCache(l, t) \/ PutRing(l, t)
    \/ \E k \in Bursts : GetCache(l, k) \/ GetRing(l, k)

PoolSpec == PoolInit /\ [][PoolNext]_pool_vars

-----------------------------------------------------------------------------
(* The type of the state.                                                  *)
PoolTypeOK ==
  /\ app \subseteq Objects
  /\ \A l \in Users :
       /\ Elems(cache[l]) \cup Elems(table[l]) \subseteq Objects
       /\ phase[l] \in {"idle", "enqueue", "publish", "dequeue", "release"}
       /\ keep[l] \in 0 .. Len(cache[l])
       /\ fill[l] => HasCache(l) /\ Len(cache[l]) < want[l]
  /\ \A l \in Others : cache[l] = <<>>

(* What of the cache is not being flushed.                                 *)
Cached(l) ==
  IF phase[l] \in {"enqueue", "publish"} THEN SubSeq(cache[l], 1, keep[l]) ELSE cache[l]

(* The sequences of objects that are somewhere in the pool.                *)
Places ==
  {<<"queue", queue>>}
    \cup {<<l, Cached(l)>> : l \in Users}
    \cup {<<l, "put", table[l]>> : l \in Users}
    \cup {<<l, "get", taken[l]>> : l \in Users}
Contents(place) == place[Len(place)]

(* No object is lost and none is handed out twice: each one is with the    *)
(* application or at exactly one position of one cache, of the ring or of  *)
(* a call under way, although puts and flushes ignore what the ring says.  *)
Conservation ==
  \A o \in Objects :
    LET spots == {e \in Places \X (1 .. Cardinality(Objects)) :
                    e[2] <= Len(Contents(e[1])) /\ Contents(e[1])[e[2]] = o}
    IN Cardinality(spots) = IF o \in app THEN 0 ELSE 1

(* "adding in mempool always success" (rte_mempool.h:842): when a table is *)
(* to be enqueued the ring has room for it, even while dequeues that have  *)
(* taken their objects still keep the slots.                               *)
PutAlwaysFits ==
  \A l \in Users :
    phase[l] = "enqueue" => Pool!InUse + Len(table[l]) <= RingCapacity

(* A cache stays within its array of 3 * RTE_MEMPOOL_CACHE_MAX_SIZE        *)
(* pointers, also while it holds more than its flush threshold.  Between   *)
(* calls it is below the threshold, or at most its size (for a size of one *)
(* the two are equal): mempool_audit_cache, which panics above the         *)
(* threshold, never does.                                                  *)
CacheBounded ==
  \A l \in Users :
    /\ Len(cache[l]) + (IF fill[l] THEN Len(taken[l]) ELSE 0) <= 3 * CacheMax
    /\ phase[l] = "idle" => Len(cache[l]) < FlushThresh \/ Len(cache[l]) <= CacheSize

(* A get fails only when neither the cache of the lcore nor the ring can   *)
(* serve it alone; for one object that is the documented case, "when the   *)
(* local cache and common pool are empty".                                 *)
FailOnlyWhenShort ==
  [][\A l \in Users :
       phase[l] = "dequeue" /\ phase'[l] = "idle" =>
         /\ Len(queue) < want[l]
         /\ HasCache(l) /\ want[l] < CacheSize => Len(cache[l]) < want[l]]_pool_vars

(* rte_mempool.h says of a get that could not fill the cache and then did  *)
(* not get n objects from the ring either: "If that fails, we are truly    *)
(* out of buffers".                                                        *)
FailOnlyWhenOut ==
  [][\A l \in Users :
       phase[l] = "dequeue" /\ phase'[l] = "idle" /\ HasCache(l) /\ want[l] < CacheSize =>
         Len(queue) + Len(cache[l]) < want[l]]_pool_vars

(* Nothing is ever written where there is no room for it: neither in the   *)
(* ring behind a put or a flush, nor in the array of a cache               *)
(* (__mempool_generic_put, __mempool_generic_get).                         *)
PutsFit == PoolTypeOK /\ PutAlwaysFits /\ CacheBounded
=============================================================================
