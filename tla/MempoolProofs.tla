--------------------------- MODULE MempoolProofs ----------------------------
(***************************************************************************)
(* Proofs about getting and putting objects (Mempool.tla), for any objects, *)
(* any cache size the creation of a pool accepts and any number of lcores. *)
(***************************************************************************)
EXTENDS Mempool, FiniteSetTheorems, SequenceTheorems, TLAPS

-----------------------------------------------------------------------------
(* Sequences without repetition and their elements.                        *)
Once(s) == \A j, k \in DOMAIN s : s[j] = s[k] => j = k

LEMMA ConcatElems ==
  ASSUME NEW S, NEW s \in Seq(S), NEW t \in Seq(S)
  PROVE  /\ s \o t \in Seq(S) /\ Len(s \o t) = Len(s) + Len(t)
         /\ Elems(s \o t) = Elems(s) \cup Elems(t)
         /\ Once(s) /\ Once(t) /\ Elems(s) \cap Elems(t) = {} => Once(s \o t)
<1> DEFINE u == s \o t
<1>1. /\ u \in Seq(S) /\ Len(u) = Len(s) + Len(t) /\ Len(s) \in Nat /\ Len(t) \in Nat
      /\ \A j \in 1 .. Len(s) + Len(t) : u[j] = IF j <= Len(s) THEN s[j] ELSE t[j - Len(s)]
      /\ DOMAIN u = 1 .. Len(s) + Len(t) /\ DOMAIN s = 1 .. Len(s) /\ DOMAIN t = 1 .. Len(t)
  BY ConcatProperties, LenProperties
<1> HIDE DEF u
<1>2. /\ \A j \in DOMAIN s : j \in DOMAIN u /\ u[j] = s[j]
      /\ \A j \in DOMAIN t : j + Len(s) \in DOMAIN u /\ u[j + Len(s)] = t[j]
      /\ \A j \in DOMAIN u : \/ j \in DOMAIN s /\ u[j] = s[j]
                             \/ j - Len(s) \in DOMAIN t /\ u[j] = t[j - Len(s)]
  BY <1>1
<1>3. Elems(u) = Elems(s) \cup Elems(t)
  BY <1>2 DEF Elems
<1>4. ASSUME Once(s), Once(t), Elems(s) \cap Elems(t) = {} PROVE Once(u)
  <2> SUFFICES ASSUME NEW j \in DOMAIN u, NEW k \in DOMAIN u, u[j] = u[k] PROVE j = k
    BY DEF Once
  <2>1. CASE j \in DOMAIN s /\ u[j] = s[j] /\ k \in DOMAIN s /\ u[k] = s[k]
    BY <1>4, <2>1 DEF Once
  <2>2. CASE /\ j - Len(s) \in DOMAIN t /\ u[j] = t[j - Len(s)]
             /\ k - Len(s) \in DOMAIN t /\ u[k] = t[k - Len(s)]
    <3>1. j - Len(s) = k - Len(s)
      BY <1>4, <2>2 DEF Once
    <3> QED BY <1>1, <3>1
  <2>3. CASE j \in DOMAIN s /\ u[j] = s[j] /\ k - Len(s) \in DOMAIN t /\ u[k] = t[k - Len(s)]
    BY <1>4, <2>3 DEF Elems
  <2>4. CASE k \in DOMAIN s /\ u[k] = s[k] /\ j - Len(s) \in DOMAIN t /\ u[j] = t[j - Len(s)]
    BY <1>4, <2>4 DEF Elems
  <2> QED BY <1>2, <2>1, <2>2, <2>3, <2>4
<1> QED BY <1>1, <1>3, <1>4 DEF u

LEMMA SplitElems ==
  ASSUME NEW S, NEW s \in Seq(S), NEW k \in 0 .. Len(s)
  PROVE  LET a == SubSeq(s, 1, k)
             b == SubSeq(s, k + 1, Len(s))
         IN /\ a \in Seq(S) /\ b \in Seq(S) /\ Len(a) = k /\ Len(b) = Len(s) - k
            /\ Elems(s) = Elems(a) \cup Elems(b)
            /\ Once(s) => Once(a) /\ Once(b) /\ Elems(a) \cap Elems(b) = {}
<1> DEFINE a == SubSeq(s, 1, k)
           b == SubSeq(s, k + 1, Len(s))
<1>1. Len(s) \in Nat /\ DOMAIN s = 1 .. Len(s) /\ \A j \in 1 .. Len(s) : s[j] \in S
  BY LenProperties
<1>2. a \in Seq(S) /\ Len(a) = k /\ \A j \in 1 .. k : a[j] = s[j]
  <2>1. \A j \in 1 .. k : s[j] \in S
    BY <1>1
  <2>2. /\ a \in Seq(S) /\ Len(a) = IF 1 <= k THEN k - 1 + 1 ELSE 0
        /\ \A j \in 1 .. k - 1 + 1 : a[j] = s[1 + j - 1]
    BY <1>1, <2>1, SubSeqProperties
  <2> HIDE DEF a
  <2> QED BY <1>1, <2>2
<1>3. b \in Seq(S) /\ Len(b) = Len(s) - k /\ \A j \in 1 .. Len(s) - k : b[j] = s[j + k]
  <2>1. \A j \in k + 1 .. Len(s) : s[j] \in S
    BY <1>1
  <2>2. /\ b \in Seq(S) /\ Len(b) = IF k + 1 <= Len(s) THEN Len(s) - (k + 1) + 1 ELSE 0
        /\ \A j \in 1 .. Len(s) - (k + 1) + 1 : b[j] = s[(k + 1) + j - 1]
    BY <1>1, <2>1, SubSeqProperties
  <2> HIDE DEF b
  <2>3. Len(b) = Len(s) - k /\ Len(s) - (k + 1) + 1 = Len(s) - k
    <3> DEFINE m == Len(s)
    <3>1. m \in Nat /\ k \in 0 .. m /\ Len(b) = IF k + 1 <= m THEN m - (k + 1) + 1 ELSE 0
      BY <1>1, <2>2
    <3> HIDE DEF m
    <3>2. Len(b) = m - k /\ m - (k + 1) + 1 = m - k
      BY <3>1
    <3> QED BY <3>2 DEF m
  <2>4. ASSUME NEW j \in 1 .. Len(s) - k PROVE b[j] = s[j + k]
    <3>1. (k + 1) + j - 1 = j + k /\ j \in 1 .. Len(s) - (k + 1) + 1
      BY <1>1, <2>3
    <3> QED BY <2>2, <3>1
  <2> QED BY <2>2, <2>3, <2>4
<1> HIDE DEF a, b
<1>4. DOMAIN a = 1 .. k /\ DOMAIN b = 1 .. Len(s) - k
  BY <1>2, <1>3, LenProperties
<1>5. /\ \A j \in DOMAIN a : j \in DOMAIN s /\ a[j] = s[j] /\ j <= k
      /\ \A j \in DOMAIN b : j + k \in DOMAIN s /\ b[j] = s[j + k] /\ j + k > k
      /\ \A j \in DOMAIN s : \/ j \in DOMAIN a /\ a[j] = s[j]
                             \/ j - k \in DOMAIN b /\ b[j - k] = s[j]
  <2>1. \A j \in DOMAIN a : j \in DOMAIN s /\ a[j] = s[j] /\ j <= k
    BY <1>1, <1>2, <1>4
  <2>2. \A j \in DOMAIN b : j + k \in DOMAIN s /\ b[j] = s[j + k] /\ j + k > k
    BY <1>1, <1>3, <1>4
  <2>3. ASSUME NEW j \in DOMAIN s, ~(j <= k) PROVE j - k \in DOMAIN b /\ b[j - k] = s[j]
    <3>1. j - k \in 1 .. Len(s) - k /\ (j - k) + k = j
      BY <1>1, <2>3
    <3> QED BY <1>3, <1>4, <3>1
  <2>4. ASSUME NEW j \in DOMAIN s, j <= k PROVE j \in DOMAIN a /\ a[j] = s[j]
    BY <1>1, <1>2, <1>4, <2>4
  <2> QED BY <2>1, <2>2, <2>3, <2>4
<1>6. Elems(s) = Elems(a) \cup Elems(b)
  BY <1>5 DEF Elems
<1>7. ASSUME Once(s) PROVE Once(a) /\ Once(b) /\ Elems(a) \cap Elems(b) = {}
  <2>1. Once(a)
    BY <1>5, <1>7 DEF Once
  <2>2. Once(b)
    <3> SUFFICES ASSUME NEW j \in DOMAIN b, NEW h \in DOMAIN b, b[j] = b[h] PROVE j = h
      BY DEF Once
    <3>1. j + k = h + k
      BY <1>5, <1>7 DEF Once
    <3> QED BY <1>1, <1>4, <3>1
  <2>3. ASSUME NEW j \in DOMAIN a, NEW h \in DOMAIN b, a[j] = b[h] PROVE FALSE
    <3>1. j = h + k
      BY <1>5, <1>7, <2>3 DEF Once
    <3> QED BY <1>1, <1>4, <1>5, <3>1
  <2> QED BY <2>1, <2>2, <2>3 DEF Elems
<1> QED BY <1>2, <1>3, <1>6, <1>7 DEF a, b

(* A sequence without repetition is as long as it has elements.            *)
LEMMA LengthCounts ==
  ASSUME NEW S, NEW s \in Seq(S), Once(s)
  PROVE  IsFiniteSet(Elems(s)) /\ Cardinality(Elems(s)) = Len(s)
<1>1. Len(s) \in Nat /\ DOMAIN s = 1 .. Len(s) /\ s \in [1 .. Len(s) -> S]
  BY LenProperties
<1>2. s \in [1 .. Len(s) -> Elems(s)]
  BY <1>1 DEF Elems
<1>3. s \in Bijection(1 .. Len(s), Elems(s))
  BY <1>1, <1>2 DEF Once, Elems, Bijection, Injection, Surjection, IsInjective
<1>4. IsFiniteSet(1 .. Len(s)) /\ Cardinality(1 .. Len(s)) = Len(s)
  BY <1>1, FS_Interval
<1> QED BY <1>3, <1>4, FS_Bijection DEF ExistsBijection

-----------------------------------------------------------------------------
(* The numbers a pool is created with.                                     *)
LEMMA Numbers ==
  /\ IsFiniteSet(Objects) /\ Cardinality(Objects) \in Nat
  /\ Cardinality(Objects) <= RingCapacity /\ RingCapacity \in Nat
  /\ CacheSize \in Nat /\ 0 < CacheSize /\ CacheMax \in Nat /\ CacheSize <= CacheMax
  /\ FlushThresh \in Nat /\ CacheSize <= FlushThresh /\ 2 * FlushThresh <= 3 * CacheMax
  /\ \A k \in Bursts : k \in Nat /\ 0 < k
<1>1. IsFiniteSet(Objects) /\ Cardinality(Objects) \in Nat
  BY MempoolAssumption, FS_CardinalityType
<1>2. CacheSize \in Nat /\ 0 < CacheSize /\ CacheMax \in Nat /\ CacheSize <= CacheMax
  BY MempoolAssumption
<1>3. FlushThresh \in Nat /\ CacheSize <= FlushThresh /\ 2 * FlushThresh <= 3 * CacheMax
  BY <1>2 DEF FlushThresh
<1> QED BY <1>1, <1>2, <1>3, MempoolAssumption DEF RingCapacity

-----------------------------------------------------------------------------
(* Where an object that the application does not have can be.              *)
Loc == {<<"ring", "ring">>} \cup ({"cache", "put", "get"} \X Users)

At(x) ==
  IF x[1] = "ring" THEN queue
    ELSE IF x[1] = "cache" THEN Cached(x[2])
    ELSE IF x[1] = "put" THEN table[x[2]] ELSE taken[x[2]]

Held == [x \in Loc |-> At(x)]

(* The objects of S are each in a or at one position of one sequence of f. *)
Spread(f, L, a, S) ==
  /\ \A x \in L : Once(f[x]) /\ Elems(f[x]) \cap a = {}
  /\ \A x, y \in L : x # y => Elems(f[x]) \cap Elems(f[y]) = {}
  /\ \A o \in S : o \in a \/ \E x \in L : o \in Elems(f[x])

PoolTypes ==
  /\ queue \in Seq(Objects) /\ app \subseteq Objects
  /\ claim \in [Users -> Seq(Objects)] /\ taken \in [Users -> Seq(Objects)]
  /\ cache \in [Users -> Seq(Objects)] /\ table \in [Users -> Seq(Objects)]
  /\ phase \in [Users -> {"idle", "enqueue", "publish", "dequeue", "release"}]
  /\ keep \in [Users -> Nat] /\ want \in [Users -> Nat] /\ fill \in [Users -> BOOLEAN]

Settled(k) == k < FlushThresh \/ k <= CacheSize

(* The put, flush or get that thread l is in.                              *)
Putting(l) == phase[l] \in {"enqueue", "publish"}
Getting(l) == phase[l] \in {"dequeue", "release"}
CallOf(l) ==
  /\ claim[l] = IF phase[l] = "publish" THEN table[l] ELSE <<>>
  /\ phase[l] = "publish" => table[l] # <<>>
  /\ ~Putting(l) => table[l] = <<>> /\ keep[l] = 0 /\ Settled(Len(cache[l]))
  /\ Putting(l) => Settled(keep[l]) /\ Len(cache[l]) <= FlushThresh + CacheMax
  /\ keep[l] <= Len(cache[l])
  /\ l \notin Lcores => cache[l] = <<>>
  /\ phase[l] = "release" => Len(taken[l]) = Request(l)
  /\ phase[l] # "release" => taken[l] = <<>>
  /\ Getting(l) => /\ 0 < want[l]
                   /\ l \in Lcores /\ want[l] < CacheSize => Len(cache[l]) < want[l]
  /\ fill[l] => Getting(l) /\ l \in Lcores /\ want[l] < CacheSize

PoolInv ==
  /\ PoolTypes
  /\ \A l \in Users : CallOf(l)
  /\ Spread(Held, Loc, app, Objects)

LEMMA EmptyElems == Elems(<<>>) = {} /\ Once(<<>>) /\ Len(<<>>) = 0
BY DEF Elems, Once

-----------------------------------------------------------------------------
(* A thread moves objects between the ring (q), the part of its cache it   *)
(* keeps (c), its table (p), what it took (g) and the application (a).     *)
Parts(q, c, p, g, a) ==
  /\ Once(q) /\ Once(c) /\ Once(p) /\ Once(g)
  /\ Elems(q) \cap Elems(c) = {} /\ Elems(q) \cap Elems(p) = {}
  /\ Elems(q) \cap Elems(g) = {} /\ Elems(c) \cap Elems(p) = {}
  /\ Elems(c) \cap Elems(g) = {} /\ Elems(p) \cap Elems(g) = {}
  /\ Elems(q) \cap a = {} /\ Elems(c) \cap a = {}
  /\ Elems(p) \cap a = {} /\ Elems(g) \cap a = {}

Whole(q, c, p, g, a) == a \cup Elems(q) \cup Elems(c) \cup Elems(p) \cup Elems(g)

LEMMA SpreadParts ==
  ASSUME NEW L, NEW f, NEW a, NEW S, Spread(f, L, a, S),
         NEW x \in L, NEW y \in L, NEW z \in L, NEW w \in L,
         x # y, x # z, x # w, y # z, y # w, z # w
  PROVE  Parts(f[x], f[y], f[z], f[w], a)
BY DEF Spread, Parts

LEMMA Transfer ==
  ASSUME NEW L, NEW f, NEW h, NEW a, NEW b, NEW S, Spread(f, L, a, S),
         NEW x \in L, NEW y \in L, NEW z \in L, NEW w \in L,
         x # y, x # z, x # w, y # z, y # w, z # w,
         \A v \in L : v \notin {x, y, z, w} => h[v] = f[v],
         Parts(h[x], h[y], h[z], h[w], b),
         Whole(h[x], h[y], h[z], h[w], b) = Whole(f[x], f[y], f[z], f[w], a)
  PROVE  Spread(h, L, b, S)
<1> DEFINE X == {x, y, z, w}
<1>1. \A v \in X : \A o : o \in Elems(h[v]) => o \in a \/ \E u \in X : o \in Elems(f[u])
  BY DEF Whole
<1>2. \A o : o \in b => o \in a \/ \E u \in X : o \in Elems(f[u])
  BY DEF Whole
<1>3. /\ \A v \in X : \A o : o \in Elems(f[v]) => o \in b \/ \E u \in X : o \in Elems(h[u])
      /\ \A o : o \in a => o \in b \/ \E u \in X : o \in Elems(h[u])
  BY DEF Whole
<1>4. \A v \in X : Once(h[v]) /\ Elems(h[v]) \cap b = {}
  BY DEF Parts
<1>5. \A v, u \in X : v # u => Elems(h[v]) \cap Elems(h[u]) = {}
  BY DEF Parts
<1>6. X \subseteq L
  OBVIOUS
<1> HIDE DEF X
<1>7. \A v \in L : v \notin X => h[v] = f[v]
  BY DEF X
<1>8. ASSUME NEW v \in L PROVE Once(h[v]) /\ Elems(h[v]) \cap b = {}
  <2>1. CASE v \in X
    BY <1>4, <2>1
  <2>2. CASE v \notin X
    BY <1>2, <1>6, <1>7, <2>2 DEF Spread
  <2> QED BY <2>1, <2>2
<1>9. ASSUME NEW v \in L, NEW u \in L, v # u PROVE Elems(h[v]) \cap Elems(h[u]) = {}
  <2>1. CASE v \in X /\ u \in X
    BY <1>5, <1>9, <2>1
  <2>2. CASE v \in X /\ u \notin X
    BY <1>1, <1>6, <1>7, <2>2 DEF Spread
  <2>3. CASE v \notin X /\ u \in X
    BY <1>1, <1>6, <1>7, <2>3 DEF Spread
  <2>4. CASE v \notin X /\ u \notin X
    BY <1>7, <1>9, <2>4 DEF Spread
  <2> QED BY <2>1, <2>2, <2>3, <2>4
<1>10. ASSUME NEW o \in S PROVE o \in b \/ \E u \in L : o \in Elems(h[u])
  <2>1. CASE o \in a
    BY <1>3, <1>6, <2>1
  <2>2. ASSUME NEW u \in L, o \in Elems(f[u]) PROVE o \in b \/ \E v \in L : o \in Elems(h[v])
    BY <1>3, <1>6, <1>7, <2>2
  <2> QED BY <2>1, <2>2 DEF Spread
<1> QED BY <1>8, <1>9, <1>10 DEF Spread

(* The places of a thread, and those of the others.                        *)
PlacesNamed ==
  /\ <<"ring", "ring">> \in Loc /\ Held[<<"ring", "ring">>] = queue
  /\ \A l \in Users :
       /\ <<"cache", l>> \in Loc /\ Held[<<"cache", l>>] = Cached(l)
       /\ <<"put", l>> \in Loc /\ Held[<<"put", l>>] = table[l]
       /\ <<"get", l>> \in Loc /\ Held[<<"get", l>>] = taken[l]

LEMMA Named == PlacesNamed
BY DEF PlacesNamed, Loc, Held, At

LEMMA InLoc ==
  ASSUME NEW x \in Loc
  PROVE  \/ x = <<"ring", "ring">>
         \/ \E m \in Users : x = <<"cache", m>> \/ x = <<"put", m>> \/ x = <<"get", m>>
BY DEF Loc

LEMMA OwnParts ==
  ASSUME PoolInv, NEW l \in Users
  PROVE  Parts(queue, Cached(l), table[l], taken[l], app)
<1> DEFINE r == <<"ring", "ring">>
           c == <<"cache", l>>
           p == <<"put", l>>
           g == <<"get", l>>
<1>1. /\ r \in Loc /\ c \in Loc /\ p \in Loc /\ g \in Loc
      /\ Held[r] = queue /\ Held[c] = Cached(l) /\ Held[p] = table[l] /\ Held[g] = taken[l]
  BY Named DEF PlacesNamed
<1>2. r # c /\ r # p /\ r # g /\ c # p /\ c # g /\ p # g
  OBVIOUS
<1>3. Spread(Held, Loc, app, Objects)
  BY DEF PoolInv
<1> HIDE DEF r, c, p, g
<1>4. Parts(Held[r], Held[c], Held[p], Held[g], app)
  BY <1>1, <1>2, <1>3, SpreadParts
<1> QED BY <1>1, <1>4

(* What another thread's step leaves alone.                                *)
Same(m) ==
  /\ claim'[m] = claim[m] /\ taken'[m] = taken[m] /\ cache'[m] = cache[m]
  /\ phase'[m] = phase[m] /\ table'[m] = table[m] /\ keep'[m] = keep[m]
  /\ want'[m] = want[m] /\ fill'[m] = fill[m]

LEMMA SameCall ==
  ASSUME NEW m \in Users, CallOf(m), Same(m)
  PROVE  CallOf(m)' /\ Cached(m)' = Cached(m)
BY DEF CallOf, Same, Cached, Putting, Getting, Request

(* A step of one thread keeps the invariant when it keeps the part of it   *)
(* that is about this thread and the objects it moves.                     *)
LEMMA OneThread ==
  ASSUME PoolInv, NEW l \in Users, PoolTypes', CallOf(l)',
         \A m \in Users : m # l => Same(m),
         Parts(queue, Cached(l), table[l], taken[l], app)',
         Whole(queue, Cached(l), table[l], taken[l], app)'
           = Whole(queue, Cached(l), table[l], taken[l], app)
  PROVE  PoolInv'
<1> DEFINE r == <<"ring", "ring">>
           c == <<"cache", l>>
           p == <<"put", l>>
           g == <<"get", l>>
<1>1. /\ r \in Loc /\ c \in Loc /\ p \in Loc /\ g \in Loc
      /\ Held[r] = queue /\ Held[c] = Cached(l) /\ Held[p] = table[l] /\ Held[g] = taken[l]
  BY Named DEF PlacesNamed
<1>2. PlacesNamed'
  BY Named, PTL
<1>3. r # c /\ r # p /\ r # g /\ c # p /\ c # g /\ p # g
  OBVIOUS
<1>4. \A m \in Users : m # l => CallOf(m)' /\ Cached(m)' = Cached(m)
  BY SameCall DEF PoolInv
<1>5. ASSUME NEW v \in Loc, v \notin {r, c, p, g} PROVE Held'[v] = Held[v]
  <2>1. PICK m \in Users : v = <<"cache", m>> \/ v = <<"put", m>> \/ v = <<"get", m>>
    BY <1>5, InLoc
  <2>2. m # l
    BY <1>5, <2>1
  <2>3. Cached(m)' = Cached(m) /\ table'[m] = table[m] /\ taken'[m] = taken[m]
    BY <1>4, <2>2 DEF Same
  <2> QED BY <1>2, <2>1, <2>3, Named DEF PlacesNamed
<1>6. /\ Held'[r] = queue' /\ Held'[c] = Cached(l)'
      /\ Held'[p] = table'[l] /\ Held'[g] = taken'[l]
  BY <1>2 DEF PlacesNamed
<1>7. Spread(Held, Loc, app, Objects)
  BY DEF PoolInv
<1>8. /\ Parts(Held'[r], Held'[c], Held'[p], Held'[g], app')
      /\ Whole(Held'[r], Held'[c], Held'[p], Held'[g], app')
           = Whole(Held[r], Held[c], Held[p], Held[g], app)
  BY <1>1, <1>6
<1> HIDE DEF r, c, p, g
<1>9. Spread(Held', Loc, app', Objects)
  BY <1>1, <1>3, <1>5, <1>7, <1>8, Transfer
<1> QED BY <1>4, <1>9 DEF PoolInv, Spread, Loc

-----------------------------------------------------------------------------
(* The slots in use hold different objects, none of them in a table that   *)
(* is yet to be enqueued: there are fewer objects than slots.              *)
LEMMA WeightCounts ==
  ASSUME NEW f \in [Users -> Seq(Objects)], \A m \in Users : Once(f[m]),
         \A m, k \in Users : m # k => Elems(f[m]) \cap Elems(f[k]) = {}
  PROVE  LET A == UNION {Elems(f[m]) : m \in Users}
         IN A \subseteq Objects /\ Pool!Weight(f, Users) \in Nat
            /\ Pool!Weight(f, Users) <= Cardinality(A)
<1> DEFINE A == UNION {Elems(f[m]) : m \in Users}
           P == Pool!Places(f, Users)
           h == [e \in P |-> f[e[1]][e[2]]]
<1>1. \A m \in Users : Len(f[m]) \in Nat /\ DOMAIN f[m] = 1 .. Len(f[m])
                        /\ Elems(f[m]) \subseteq Objects
  BY LenProperties DEF Elems
<1>2. \A e \in P : e[1] \in Users /\ e[2] \in DOMAIN f[e[1]] /\ e = <<e[1], e[2]>>
  BY <1>1, Numbers DEF Pool!Places
<1> HIDE DEF P
<1>3. \A e \in P : f[e[1]][e[2]] \in Elems(f[e[1]])
  BY <1>2 DEF Elems
<1>4. h \in [P -> A]
  BY <1>2, <1>3
<1>5. ASSUME NEW d \in P, NEW e \in P, h[d] = h[e] PROVE d = e
  <2>1. f[d[1]][d[2]] = f[e[1]][e[2]]
    BY <1>5
  <2>2. d[1] = e[1]
    BY <1>2, <1>3, <2>1
  <2>3. d[2] = e[2]
    BY <1>2, <2>1, <2>2 DEF Once
  <2> QED BY <1>2, <2>2, <2>3
<1>6. h \in Injection(P, A)
  BY <1>4, <1>5 DEF Injection, IsInjective
<1>7. A \subseteq Objects
  BY <1>1
<1> HIDE DEF A
<1>8. IsFiniteSet(A)
  BY <1>7, Numbers, FS_Subset
<1>9. IsFiniteSet(P) /\ Cardinality(P) <= Cardinality(A)
  BY <1>6, <1>8, FS_Injection
<1>10. Cardinality(P) \in Nat
  BY <1>9, FS_CardinalityType
<1>11. Pool!Weight(f, Users) = Cardinality(P)
  BY DEF P, Pool!Weight, Pool!Places, Pool!Cardinality, Cardinality
<1> QED BY <1>7, <1>9, <1>10, <1>11 DEF A

LEMMA DisjointCount ==
  ASSUME NEW A \in SUBSET Objects, NEW B \in SUBSET Objects, A \cap B = {}
  PROVE  /\ Cardinality(A) \in Nat /\ Cardinality(B) \in Nat
         /\ Cardinality(A \cup B) = Cardinality(A) + Cardinality(B)
         /\ Cardinality(A \cup B) <= Cardinality(Objects)
<1>1. IsFiniteSet(A) /\ IsFiniteSet(B)
  BY Numbers, FS_Subset
<1>2. Cardinality(A) \in Nat /\ Cardinality(B) \in Nat
  BY <1>1, FS_CardinalityType
<1>3. Cardinality(A \cup B) = Cardinality(A) + Cardinality(B) - Cardinality({})
  BY <1>1, FS_Union
<1>4. Cardinality({}) = 0
  BY FS_EmptySet
<1>5. A \cup B \in SUBSET Objects
  OBVIOUS
<1>6. Cardinality(A \cup B) <= Cardinality(Objects)
  BY <1>5, Numbers, FS_Subset
<1> QED BY <1>2, <1>3, <1>4, <1>6

LEMMA SumBound ==
  ASSUME NEW a \in Nat, NEW b \in Nat, NEW c \in Nat, NEW d \in Nat, NEW x \in Nat,
         NEW y \in Nat, NEW n \in Nat, NEW m \in Nat,
         x <= a, y <= c, a + b + c + d <= n, n <= m
  PROVE  x + b + y + d <= m
OBVIOUS

LEMMA PutFits == PoolInv => PutAlwaysFits
<1> SUFFICES ASSUME PoolInv, NEW l \in Users, phase[l] = "enqueue"
             PROVE  Pool!InUse + Len(table[l]) <= RingCapacity
  BY DEF PutAlwaysFits
<1> DEFINE A == UNION {Elems(claim[m]) : m \in Users}
           B == Elems(queue)
           C == UNION {Elems(taken[m]) : m \in Users}
           D == Elems(table[l])
<1>1. /\ \A x \in Loc : Once(Held[x])
      /\ \A x, y \in Loc : x # y => Elems(Held[x]) \cap Elems(Held[y]) = {}
  BY DEF PoolInv, Spread
<1>2. /\ <<"ring", "ring">> \in Loc /\ Held[<<"ring", "ring">>] = queue
      /\ \A m \in Users :
           /\ <<"put", m>> \in Loc /\ Held[<<"put", m>>] = table[m]
           /\ <<"get", m>> \in Loc /\ Held[<<"get", m>>] = taken[m]
  BY Named DEF PlacesNamed
<1>3. /\ queue \in Seq(Objects) /\ claim \in [Users -> Seq(Objects)]
      /\ taken \in [Users -> Seq(Objects)] /\ table \in [Users -> Seq(Objects)]
  BY DEF PoolInv, PoolTypes
<1>4. \A m \in Users : claim[m] = IF phase[m] = "publish" THEN table[m] ELSE <<>>
  BY DEF PoolInv, CallOf
<1>5. Once(queue) /\ \A m \in Users : Once(table[m]) /\ Once(taken[m]) /\ Once(claim[m])
  BY <1>1, <1>2, <1>4, EmptyElems
<1>6. \A m \in Users : Elems(claim[m]) \subseteq Elems(table[m])
  BY <1>4, EmptyElems
<1>7. /\ \A m, k \in Users : m # k => /\ Elems(table[m]) \cap Elems(table[k]) = {}
                                    /\ Elems(taken[m]) \cap Elems(taken[k]) = {}
      /\ \A m, k \in Users : Elems(table[m]) \cap Elems(taken[k]) = {}
      /\ \A m \in Users : /\ Elems(table[m]) \cap Elems(queue) = {}
                          /\ Elems(taken[m]) \cap Elems(queue) = {}
  <2>1. ASSUME NEW m \in Users, NEW k \in Users, m # k
        PROVE /\ Elems(table[m]) \cap Elems(table[k]) = {}
              /\ Elems(taken[m]) \cap Elems(taken[k]) = {}
    <3>1. <<"put", m>> # <<"put", k>> /\ <<"get", m>> # <<"get", k>>
      BY <2>1
    <3> QED BY <1>1, <1>2, <3>1
  <2>2. ASSUME NEW m \in Users, NEW k \in Users PROVE Elems(table[m]) \cap Elems(taken[k]) = {}
    <3>1. <<"put", m>> # <<"get", k>>
      OBVIOUS
    <3> QED BY <1>1, <1>2, <3>1
  <2>3. ASSUME NEW m \in Users
        PROVE /\ Elems(table[m]) \cap Elems(queue) = {}
              /\ Elems(taken[m]) \cap Elems(queue) = {}
    <3>1. <<"put", m>> # <<"ring", "ring">> /\ <<"get", m>> # <<"ring", "ring">>
      OBVIOUS
    <3> QED BY <1>1, <1>2, <3>1
  <2> QED BY <2>1, <2>2, <2>3
<1>8. /\ A \subseteq Objects /\ Pool!Weight(claim, Users) \in Nat
      /\ Pool!Weight(claim, Users) <= Cardinality(A)
  <2>1. \A m, k \in Users : m # k => Elems(claim[m]) \cap Elems(claim[k]) = {}
    BY <1>6, <1>7
  <2> QED BY <1>3, <1>5, <2>1, WeightCounts
<1>9. /\ C \subseteq Objects /\ Pool!Weight(taken, Users) \in Nat
      /\ Pool!Weight(taken, Users) <= Cardinality(C)
  BY <1>3, <1>5, <1>7, WeightCounts
<1>10. B \subseteq Objects /\ Cardinality(B) = Len(queue) /\ Len(queue) \in Nat
  <2>1. B \subseteq Objects /\ Len(queue) \in Nat
    BY <1>3, LenProperties DEF Elems
  <2> QED BY <1>3, <1>5, <2>1, LengthCounts
<1>11. D \subseteq Objects /\ Cardinality(D) = Len(table[l]) /\ Len(table[l]) \in Nat
  <2>1. D \subseteq Objects /\ Len(table[l]) \in Nat
    BY <1>3, LenProperties DEF Elems
  <2> QED BY <1>3, <1>5, <2>1, LengthCounts
<1>12. A \cap B = {} /\ (A \cup B) \cap C = {} /\ (A \cup B \cup C) \cap D = {}
  <2>1. A \cap B = {}
    BY <1>6, <1>7
  <2>2. (A \cup B) \cap C = {}
    BY <1>6, <1>7
  <2>3. A \cap D = {}
    <3> SUFFICES ASSUME NEW m \in Users, NEW o \in Elems(claim[m]), o \in D PROVE FALSE
      OBVIOUS
    <3>1. m # l
      BY <1>4, EmptyElems
    <3> QED BY <1>6, <1>7, <3>1
  <2>4. (B \cup C) \cap D = {}
    BY <1>7
  <2> QED BY <2>1, <2>2, <2>3, <2>4
<1> HIDE DEF A, B, C, D
<1>13. Cardinality(A \cup B) = Cardinality(A) + Cardinality(B)
       /\ Cardinality(A) \in Nat /\ Cardinality(B) \in Nat
  BY <1>8, <1>10, <1>12, DisjointCount
<1>14. Cardinality(A \cup B \cup C) = Cardinality(A \cup B) + Cardinality(C)
       /\ Cardinality(C) \in Nat
  BY <1>8, <1>9, <1>10, <1>12, DisjointCount
<1>15. /\ Cardinality(A \cup B \cup C \cup D) = Cardinality(A \cup B \cup C) + Cardinality(D)
       /\ Cardinality(A \cup B \cup C \cup D) <= Cardinality(Objects)
  BY <1>8, <1>9, <1>10, <1>11, <1>12, DisjointCount
<1>16. Cardinality(A) + Len(queue) + Cardinality(C) + Len(table[l]) <= Cardinality(Objects)
  BY <1>10, <1>11, <1>13, <1>14, <1>15
<1>17. /\ Cardinality(Objects) <= RingCapacity /\ Cardinality(Objects) \in Nat
       /\ RingCapacity \in Nat
  BY Numbers
<1>18. /\ Cardinality(A) \in Nat /\ Cardinality(C) \in Nat
       /\ Len(queue) \in Nat /\ Len(table[l]) \in Nat
  BY <1>10, <1>11, <1>13, <1>14
<1>19. Pool!Weight(claim, Users) + Len(queue) + Pool!Weight(taken, Users) + Len(table[l])
         <= RingCapacity
  BY <1>8, <1>9, <1>16, <1>17, <1>18, SumBound
<1> QED BY <1>19 DEF Pool!InUse

-----------------------------------------------------------------------------
(* One step of one thread.                                                 *)
LEMMA OfUser ==
  ASSUME PoolInv, NEW l \in Users
  PROVE  /\ PoolTypes /\ CallOf(l)
         /\ cache[l] \in Seq(Objects) /\ table[l] \in Seq(Objects)
         /\ taken[l] \in Seq(Objects) /\ claim[l] \in Seq(Objects) /\ queue \in Seq(Objects)
         /\ Len(cache[l]) \in Nat /\ Len(table[l]) \in Nat /\ Len(taken[l]) \in Nat
         /\ Len(queue) \in Nat /\ keep[l] \in Nat /\ want[l] \in Nat /\ fill[l] \in BOOLEAN
         /\ app \subseteq Objects
<1>1. /\ PoolTypes /\ CallOf(l)
      /\ cache[l] \in Seq(Objects) /\ table[l] \in Seq(Objects)
      /\ taken[l] \in Seq(Objects) /\ claim[l] \in Seq(Objects) /\ queue \in Seq(Objects)
      /\ keep[l] \in Nat /\ want[l] \in Nat /\ fill[l] \in BOOLEAN /\ app \subseteq Objects
  BY DEF PoolInv, PoolTypes
<1> QED BY <1>1, LenProperties

LEMMA ElemsIn ==
  ASSUME NEW S, NEW s \in Seq(S)
  PROVE  Elems(s) \subseteq S /\ (Len(s) = 0 => Elems(s) = {}) /\ (s # <<>> <=> 0 < Len(s))
BY LenProperties, EmptySeq DEF Elems

LEMMA TableIs ==
  ASSUME PoolInv, NEW t \in Tables
  PROVE  t \in Seq(Objects) /\ Once(t) /\ Elems(t) \subseteq app /\ Len(t) \in Nat /\ 0 < Len(t)
<1>1. PICK k \in Bursts : t \in [1 .. k -> app]
  BY DEF Tables
<1>2. k \in Nat /\ 0 < k /\ app \subseteq Objects
  BY Numbers DEF PoolInv, PoolTypes
<1>3. t \in Seq(app) /\ Len(t) = k
  BY <1>1, <1>2
<1>4. t \in Seq(Objects)
  BY <1>1, <1>2
<1> QED BY <1>2, <1>3, <1>4, ElemsIn DEF Tables, Once

LEMMA PutCacheInv ==
  ASSUME PoolInv, NEW l \in Users, NEW t \in Tables, PutCache(l, t)
  PROVE  PoolInv'
<1> DEFINE objs == cache[l] \o t
<1>1. /\ PoolTypes /\ CallOf(l) /\ cache[l] \in Seq(Objects) /\ Len(cache[l]) \in Nat
      /\ phase[l] = "idle" /\ l \in Lcores /\ Len(t) <= CacheMax
      /\ app' = app \ Elems(t) /\ cache' = [cache EXCEPT ![l] = objs]
      /\ queue' = queue /\ claim' = claim /\ taken' = taken /\ want' = want /\ fill' = fill
  BY OfUser DEF PutCache, ring, HasCache
<1>2. t \in Seq(Objects) /\ Once(t) /\ Elems(t) \subseteq app /\ Len(t) \in Nat /\ 0 < Len(t)
  BY TableIs
<1>3. Parts(queue, cache[l], <<>>, taken[l], app) /\ Cached(l) = cache[l] /\ table[l] = <<>>
  BY <1>1, OwnParts DEF Cached, CallOf, Putting
<1>4. /\ objs \in Seq(Objects) /\ Len(objs) = Len(cache[l]) + Len(t) /\ Len(objs) \in Nat
      /\ Elems(objs) = Elems(cache[l]) \cup Elems(t) /\ Once(objs)
  BY <1>1, <1>2, <1>3, ConcatElems DEF Parts
<1>5. cache'[l] = objs /\ \A m \in Users : m # l => cache'[m] = cache[m]
  BY <1>1 DEF PoolTypes
<1>6. Len(cache[l]) <= FlushThresh /\ Len(objs) <= FlushThresh + CacheMax
  BY <1>1, <1>2, <1>4, Numbers DEF CallOf, Settled, Putting
<1> HIDE DEF objs
<1>7. CASE MustFlush(objs)
  <2> DEFINE up == AboveSize(objs)
             low == SubSeq(objs, 1, CacheSize)
  <2>1. CacheSize \in 0 .. Len(objs)
    BY <1>4, <1>7, Numbers DEF MustFlush
  <2>2. /\ up \in Seq(Objects) /\ low \in Seq(Objects)
        /\ Elems(objs) = Elems(low) \cup Elems(up)
        /\ Once(low) /\ Once(up) /\ Elems(low) \cap Elems(up) = {}
    BY <1>4, <2>1, SplitElems DEF AboveSize
  <2>3. /\ phase' = [phase EXCEPT ![l] = "enqueue"] /\ table' = [table EXCEPT ![l] = up]
        /\ keep' = [keep EXCEPT ![l] = CacheSize]
    BY <1>7 DEF PutCache, Enqueue, objs
  <2> HIDE DEF up, low
  <2>4. /\ phase'[l] = "enqueue" /\ table'[l] = up /\ keep'[l] = CacheSize
        /\ \A m \in Users : m # l => /\ phase'[m] = phase[m] /\ table'[m] = table[m]
                                     /\ keep'[m] = keep[m]
    BY <1>1, <2>3 DEF PoolTypes
  <2>5. PoolTypes'
    BY <1>1, <1>4, <2>2, <2>3, Numbers DEF PoolTypes
  <2>6. CallOf(l)'
    BY <1>1, <1>4, <1>5, <1>6, <2>1, <2>4, Numbers
    DEF CallOf, Putting, Getting, Settled, Request
  <2>7. \A m \in Users : m # l => Same(m)
    BY <1>1, <1>5, <2>4 DEF Same
  <2>8. Cached(l)' = low
    BY <1>5, <2>4 DEF Cached, low
  <2>9. /\ Parts(queue', low, up, taken'[l], app')
        /\ Whole(queue', low, up, taken'[l], app') = Whole(queue, cache[l], <<>>, taken[l], app)
    BY <1>1, <1>2, <1>3, <1>4, <2>2, EmptyElems DEF Parts, Whole
  <2> QED BY <1>3, <2>4, <2>5, <2>6, <2>7, <2>8, <2>9, OneThread
<1>8. CASE ~MustFlush(objs)
  <2>1. phase' = phase /\ table' = table /\ keep' = keep
    BY <1>8 DEF PutCache, NoEnqueue, objs
  <2>2. PoolTypes'
    BY <1>1, <1>4, <2>1 DEF PoolTypes
  <2>3. Settled(Len(objs))
    BY <1>4, <1>8, Numbers DEF MustFlush, Settled
  <2>4. CallOf(l)'
    BY <1>1, <1>4, <1>5, <2>1, <2>3 DEF CallOf, Putting, Getting, Request
  <2>5. \A m \in Users : m # l => Same(m)
    BY <1>1, <1>5, <2>1 DEF Same
  <2>6. Cached(l)' = objs /\ table'[l] = <<>>
    BY <1>1, <1>3, <1>5, <2>1 DEF Cached
  <2>7. /\ Parts(queue', objs, <<>>, taken'[l], app')
        /\ Whole(queue', objs, <<>>, taken'[l], app') = Whole(queue, cache[l], <<>>, taken[l], app)
    BY <1>1, <1>2, <1>3, <1>4, EmptyElems DEF Parts, Whole
  <2> QED BY <1>3, <2>2, <2>4, <2>5, <2>6, <2>7, OneThread
<1> QED BY <1>7, <1>8

LEMMA PutRingInv ==
  ASSUME PoolInv, NEW l \in Users, NEW t \in Tables, PutRing(l, t)
  PROVE  PoolInv'
<1> DEFINE k == Len(cache[l])
           low == SubSeq(cache[l], 1, k)
<1>1. /\ PoolTypes /\ CallOf(l) /\ cache[l] \in Seq(Objects) /\ k \in Nat
      /\ phase[l] = "idle" /\ app' = app \ Elems(t) /\ cache' = cache
      /\ queue' = queue /\ claim' = claim /\ taken' = taken /\ want' = want /\ fill' = fill
      /\ phase' = [phase EXCEPT ![l] = "enqueue"] /\ table' = [table EXCEPT ![l] = t]
      /\ keep' = [keep EXCEPT ![l] = k]
  BY OfUser DEF PutRing, ring, Enqueue
<1>2. t \in Seq(Objects) /\ Once(t) /\ Elems(t) \subseteq app
  BY TableIs
<1>3. Parts(queue, cache[l], <<>>, taken[l], app) /\ Cached(l) = cache[l] /\ table[l] = <<>>
  BY <1>1, OwnParts DEF Cached, CallOf, Putting
<1>4. Elems(low) = Elems(cache[l]) /\ Once(low)
  <2>1. k \in 0 .. k
    BY <1>1
  <2> DEFINE b == SubSeq(cache[l], k + 1, k)
  <2>2. /\ b \in Seq(Objects) /\ Len(b) = k - k /\ Elems(cache[l]) = Elems(low) \cup Elems(b)
        /\ Once(low)
    BY <1>1, <1>3, <2>1, SplitElems DEF Parts
  <2> HIDE DEF b
  <2>3. k - k = 0
    BY <1>1
  <2>4. Elems(b) = {}
    BY <2>2, <2>3, ElemsIn
  <2> QED BY <2>2, <2>4
<1>5. /\ phase'[l] = "enqueue" /\ table'[l] = t /\ keep'[l] = k
      /\ \A m \in Users : m # l => /\ phase'[m] = phase[m] /\ table'[m] = table[m]
                                   /\ keep'[m] = keep[m]
  BY <1>1 DEF PoolTypes
<1>6. PoolTypes'
  BY <1>1, <1>2 DEF PoolTypes
<1>7. CallOf(l)'
  BY <1>1, <1>5, Numbers DEF CallOf, Putting, Getting, Settled, Request
<1>8. \A m \in Users : m # l => Same(m)
  BY <1>1, <1>5 DEF Same
<1>9. Cached(l)' = low
  BY <1>1, <1>5 DEF Cached
<1> HIDE DEF low
<1>10. /\ Parts(queue', low, t, taken'[l], app')
       /\ Whole(queue', low, t, taken'[l], app') = Whole(queue, cache[l], <<>>, taken[l], app)
  BY <1>1, <1>2, <1>3, <1>4, EmptyElems DEF Parts, Whole
<1> QED BY <1>3, <1>5, <1>6, <1>7, <1>8, <1>9, <1>10, OneThread

LEMMA CacheFlushInv ==
  ASSUME PoolInv, NEW l \in Users, CacheFlush(l)
  PROVE  PoolInv'
<1> DEFINE low == SubSeq(cache[l], 1, 0)
<1>1. /\ PoolTypes /\ CallOf(l) /\ cache[l] \in Seq(Objects) /\ Len(cache[l]) \in Nat
      /\ phase[l] = "idle" /\ app' = app /\ cache' = cache
      /\ queue' = queue /\ claim' = claim /\ taken' = taken /\ want' = want /\ fill' = fill
      /\ phase' = [phase EXCEPT ![l] = "enqueue"] /\ table' = [table EXCEPT ![l] = cache[l]]
      /\ keep' = [keep EXCEPT ![l] = 0]
  BY OfUser DEF CacheFlush, ring, Enqueue
<1>2. Parts(queue, cache[l], <<>>, taken[l], app) /\ Cached(l) = cache[l] /\ table[l] = <<>>
  BY <1>1, OwnParts DEF Cached, CallOf, Putting
<1>3. Elems(low) = {} /\ Once(low)
  <2>1. 0 \in 0 .. Len(cache[l])
    BY <1>1
  <2>2. low \in Seq(Objects) /\ Len(low) = 0 /\ Once(low)
    BY <1>1, <1>2, <2>1, SplitElems DEF Parts
  <2> QED BY <2>2, ElemsIn
<1>4. /\ phase'[l] = "enqueue" /\ table'[l] = cache[l] /\ keep'[l] = 0
      /\ \A m \in Users : m # l => /\ phase'[m] = phase[m] /\ table'[m] = table[m]
                                   /\ keep'[m] = keep[m]
  BY <1>1 DEF PoolTypes
<1>5. PoolTypes'
  BY <1>1 DEF PoolTypes
<1>6. CallOf(l)'
  BY <1>1, <1>4, Numbers DEF CallOf, Putting, Getting, Settled, Request
<1>7. \A m \in Users : m # l => Same(m)
  BY <1>1, <1>4 DEF Same
<1>8. Cached(l)' = low
  BY <1>1, <1>4 DEF Cached
<1> HIDE DEF low
<1>9. /\ Parts(queue', low, cache[l], taken'[l], app')
      /\ Whole(queue', low, cache[l], taken'[l], app') = Whole(queue, cache[l], <<>>, taken[l], app)
  BY <1>1, <1>2, <1>3, EmptyElems DEF Parts, Whole
<1> QED BY <1>2, <1>4, <1>5, <1>6, <1>7, <1>8, <1>9, OneThread

LEMMA EnqueueOverInv ==
  ASSUME PoolInv, NEW l \in Users, Putting(l), EnqueueOver(l),
         app' = app, want' = want, fill' = fill, taken' = taken,
         claim' \in [Users -> Seq(Objects)], queue' \in Seq(Objects),
         claim'[l] = <<>>, \A m \in Users : m # l => claim'[m] = claim[m],
         Parts(queue', Cached(l), <<>>, taken[l], app),
         Elems(queue') = Elems(queue) \cup Elems(table[l])
  PROVE  PoolInv'
<1>1. /\ PoolTypes /\ CallOf(l) /\ cache[l] \in Seq(Objects) /\ Len(cache[l]) \in Nat
      /\ keep[l] \in 0 .. Len(cache[l]) /\ Settled(keep[l]) /\ taken[l] = <<>> /\ ~fill[l]
      /\ l \notin Lcores => cache[l] = <<>>
  BY OfUser DEF CallOf, Putting, Getting
<1>2. Cached(l) = SubSeq(cache[l], 1, keep[l])
  BY DEF Cached, Putting
<1>3. Cached(l) \in Seq(Objects) /\ Len(Cached(l)) = keep[l]
  BY <1>1, <1>2, SplitElems
<1>4. /\ phase' = [phase EXCEPT ![l] = "idle"] /\ table' = [table EXCEPT ![l] = <<>>]
      /\ keep' = [keep EXCEPT ![l] = 0] /\ cache' = [cache EXCEPT ![l] = Cached(l)]
  BY <1>2 DEF EnqueueOver
<1>5. /\ phase'[l] = "idle" /\ table'[l] = <<>> /\ keep'[l] = 0 /\ cache'[l] = Cached(l)
      /\ \A m \in Users : m # l => /\ phase'[m] = phase[m] /\ table'[m] = table[m]
                                   /\ keep'[m] = keep[m] /\ cache'[m] = cache[m]
  BY <1>1, <1>4 DEF PoolTypes
<1>6. l \notin Lcores => Cached(l) = <<>>
  BY <1>1, <1>3, EmptySeq
<1>7. PoolTypes'
  BY <1>1, <1>3, <1>4 DEF PoolTypes
<1>8. CallOf(l)'
  BY <1>1, <1>3, <1>5, <1>6, EmptyElems DEF CallOf, Putting, Getting, Settled, Request
<1>9. \A m \in Users : m # l => Same(m)
  BY <1>5 DEF Same
<1>10. Cached(l)' = Cached(l)
  BY <1>5 DEF Cached
<1>11. /\ Parts(queue', Cached(l), <<>>, taken'[l], app')
       /\ Whole(queue', Cached(l), <<>>, taken'[l], app')
            = Whole(queue, Cached(l), table[l], taken[l], app)
  BY EmptyElems DEF Parts, Whole
<1> QED BY <1>5, <1>7, <1>8, <1>9, <1>10, <1>11, OneThread

LEMMA EnqueueHeadInv ==
  ASSUME PoolInv, NEW l \in Users, EnqueueHead(l)
  PROVE  PoolInv'
<1>1. /\ PoolTypes /\ CallOf(l) /\ table[l] \in Seq(Objects) /\ queue \in Seq(Objects)
      /\ claim \in [Users -> Seq(Objects)] /\ phase[l] = "enqueue"
      /\ app' = app /\ want' = want /\ fill' = fill
  BY OfUser DEF EnqueueHead, PoolTypes
<1>2. Parts(queue, Cached(l), table[l], taken[l], app)
  BY OwnParts
<1>3. Pool!InUse + Len(table[l]) <= RingCapacity
  BY <1>1, PutFits DEF PutAlwaysFits
<1>4. CASE table[l] # <<>>
  <2>1. /\ claim' = [claim EXCEPT ![l] = table[l]] /\ queue' = queue /\ taken' = taken
        /\ phase' = [phase EXCEPT ![l] = "publish"]
        /\ cache' = cache /\ table' = table /\ keep' = keep
    BY <1>3, <1>4 DEF EnqueueHead, Pool!Claim
  <2>2. /\ claim'[l] = table[l] /\ phase'[l] = "publish"
        /\ \A m \in Users : m # l => claim'[m] = claim[m] /\ phase'[m] = phase[m]
    BY <1>1, <2>1 DEF PoolTypes
  <2>3. PoolTypes'
    BY <1>1, <2>1 DEF PoolTypes
  <2>4. CallOf(l)'
    BY <1>1, <1>4, <2>1, <2>2 DEF CallOf, Putting, Getting, Settled, Request
  <2>5. \A m \in Users : m # l => Same(m)
    BY <1>1, <2>1, <2>2 DEF Same
  <2>6. Cached(l)' = Cached(l)
    BY <1>1, <2>1, <2>2 DEF Cached
  <2> QED BY <1>1, <1>2, <2>1, <2>3, <2>4, <2>5, <2>6, OneThread
<1>5. CASE table[l] = <<>>
  <2>1. EnqueueOver(l) /\ queue' = queue /\ claim' = claim /\ taken' = taken
    BY <1>5 DEF EnqueueHead, ring
  <2>2. claim[l] = <<>> /\ Putting(l)
    BY <1>1 DEF CallOf, Putting
  <2> QED BY <1>1, <1>2, <1>5, <2>1, <2>2, EnqueueOverInv, EmptyElems
<1> QED BY <1>4, <1>5

LEMMA EnqueueTailInv ==
  ASSUME PoolInv, NEW l \in Users, EnqueueTail(l)
  PROVE  PoolInv'
<1>1. /\ PoolTypes /\ CallOf(l) /\ table[l] \in Seq(Objects) /\ queue \in Seq(Objects)
      /\ claim \in [Users -> Seq(Objects)] /\ phase[l] = "publish" /\ EnqueueOver(l)
      /\ queue' = queue \o claim[l] /\ claim' = [claim EXCEPT ![l] = <<>>] /\ taken' = taken
      /\ app' = app /\ want' = want /\ fill' = fill
  BY OfUser DEF EnqueueTail, PoolTypes, Pool!Publish
<1>2. claim[l] = table[l] /\ Putting(l)
  BY <1>1 DEF CallOf, Putting
<1>3. Parts(queue, Cached(l), table[l], taken[l], app)
  BY OwnParts
<1>4. /\ queue' \in Seq(Objects) /\ Once(queue')
      /\ Elems(queue') = Elems(queue) \cup Elems(table[l])
  BY <1>1, <1>2, <1>3, ConcatElems DEF Parts
<1>5. claim' \in [Users -> Seq(Objects)] /\ claim'[l] = <<>>
      /\ \A m \in Users : m # l => claim'[m] = claim[m]
  BY <1>1
<1>6. Parts(queue', Cached(l), <<>>, taken[l], app)
  BY <1>3, <1>4, EmptyElems DEF Parts
<1> QED BY <1>1, <1>2, <1>4, <1>5, <1>6, EnqueueOverInv

-----------------------------------------------------------------------------
(* Gets.                                                                   *)
LEMMA EndsElems ==
  ASSUME NEW S, NEW s \in Seq(S), NEW k \in 0 .. Len(s)
  PROVE  /\ Below(s, k) \in Seq(S) /\ Len(Below(s, k)) = Len(s) - k
         /\ Elems(s) = Elems(Below(s, k)) \cup Elems(Top(s, k))
         /\ Once(s) => Once(Below(s, k)) /\ Elems(Below(s, k)) \cap Elems(Top(s, k)) = {}
<1>1. Len(s) - k \in 0 .. Len(s) /\ Len(s) \in Nat
  BY LenProperties
<1> QED BY <1>1, SplitElems DEF Below, Top

LEMMA GetCacheInv ==
  ASSUME PoolInv, NEW l \in Users, NEW k \in Bursts, GetCache(l, k)
  PROVE  PoolInv'
<1> DEFINE low == Below(cache[l], k)
           top == Top(cache[l], k)
<1>1. /\ PoolTypes /\ CallOf(l) /\ cache[l] \in Seq(Objects) /\ Len(cache[l]) \in Nat
      /\ phase[l] = "idle" /\ l \in Lcores /\ k \in Nat /\ k <= Len(cache[l])
      /\ app' = app \cup Elems(top) /\ cache' = [cache EXCEPT ![l] = low]
      /\ queue' = queue /\ claim' = claim /\ taken' = taken /\ want' = want /\ fill' = fill
      /\ phase' = phase /\ table' = table /\ keep' = keep
  BY OfUser, Numbers DEF GetCache, ring, HasCache
<1>2. Parts(queue, cache[l], table[l], taken[l], app) /\ Cached(l) = cache[l]
  BY <1>1, OwnParts DEF Cached
<1>3. /\ low \in Seq(Objects) /\ Len(low) = Len(cache[l]) - k
      /\ Elems(cache[l]) = Elems(low) \cup Elems(top)
      /\ Once(low) /\ Elems(low) \cap Elems(top) = {}
  <2>1. k \in 0 .. Len(cache[l])
    BY <1>1
  <2> QED BY <1>1, <1>2, <2>1, EndsElems DEF Parts
<1> HIDE DEF low, top
<1>4. cache'[l] = low /\ \A m \in Users : m # l => cache'[m] = cache[m]
  BY <1>1 DEF PoolTypes
<1>5. PoolTypes'
  <2>1. app' \subseteq Objects
    BY <1>1, <1>3, ElemsIn DEF PoolTypes
  <2> QED BY <1>1, <1>3, <2>1 DEF PoolTypes
<1>6. Len(low) \in Nat /\ Settled(Len(low))
  BY <1>1, <1>3, Numbers DEF CallOf, Putting, Settled
<1>7. CallOf(l)'
  BY <1>1, <1>4, <1>6 DEF CallOf, Putting, Getting, Request
<1>8. \A m \in Users : m # l => Same(m)
  BY <1>1, <1>4 DEF Same
<1>9. Cached(l)' = low
  BY <1>1, <1>4 DEF Cached
<1>10. /\ Parts(queue', low, table'[l], taken'[l], app')
       /\ Whole(queue', low, table'[l], taken'[l], app')
            = Whole(queue, cache[l], table[l], taken[l], app)
  BY <1>1, <1>2, <1>3 DEF Parts, Whole
<1> QED BY <1>2, <1>5, <1>7, <1>8, <1>9, <1>10, OneThread

LEMMA GetRingInv ==
  ASSUME PoolInv, NEW l \in Users, NEW k \in Bursts, GetRing(l, k)
  PROVE  PoolInv'
<1>1. /\ PoolTypes /\ CallOf(l) /\ Len(cache[l]) \in Nat
      /\ phase[l] = "idle" /\ k \in Nat /\ 0 < k
      /\ ~(l \in Lcores /\ k < CacheSize /\ k <= Len(cache[l]))
      /\ phase' = [phase EXCEPT ![l] = "dequeue"] /\ want' = [want EXCEPT ![l] = k]
      /\ fill' = [fill EXCEPT ![l] = (l \in Lcores /\ k < CacheSize)]
      /\ queue' = queue /\ claim' = claim /\ taken' = taken /\ app' = app
      /\ cache' = cache /\ table' = table /\ keep' = keep
  BY OfUser, Numbers DEF GetRing, ring, HasCache
<1>2. Parts(queue, Cached(l), table[l], taken[l], app)
  BY OwnParts
<1>3. /\ phase'[l] = "dequeue" /\ want'[l] = k /\ fill'[l] = (l \in Lcores /\ k < CacheSize)
      /\ \A m \in Users : m # l => /\ phase'[m] = phase[m] /\ want'[m] = want[m]
                                   /\ fill'[m] = fill[m]
  BY <1>1 DEF PoolTypes
<1>4. PoolTypes'
  BY <1>1 DEF PoolTypes
<1>5. CallOf(l)'
  <2>1. fill'[l] => l \in Lcores /\ k < CacheSize
    BY <1>3
  <2>2. l \in Lcores /\ k < CacheSize => Len(cache[l]) < k
    BY <1>1
  <2> QED BY <1>1, <1>3, <2>1, <2>2 DEF CallOf, Putting, Getting, Settled
<1>6. \A m \in Users : m # l => Same(m)
  BY <1>1, <1>3 DEF Same
<1>7. Cached(l)' = Cached(l)
  BY <1>1, <1>3 DEF Cached
<1> QED BY <1>1, <1>2, <1>4, <1>5, <1>6, <1>7, OneThread

LEMMA Requested ==
  ASSUME PoolInv, NEW l \in Users, Getting(l)
  PROVE  Request(l) \in Nat /\ 0 < Request(l) /\ 0 < want[l]
         /\ (fill[l] => Len(cache[l]) + Request(l) = want[l] + CacheSize)
<1>1. /\ CallOf(l) /\ want[l] \in Nat /\ Len(cache[l]) \in Nat /\ CacheSize \in Nat
      /\ 0 < want[l]
  BY OfUser, Numbers DEF CallOf
<1>2. fill[l] => Len(cache[l]) < want[l] /\ want[l] < CacheSize
  BY <1>1 DEF CallOf
<1> QED BY <1>1, <1>2 DEF Request

LEMMA DequeueHeadInv ==
  ASSUME PoolInv, NEW l \in Users, DequeueHead(l)
  PROVE  PoolInv'
<1>1. /\ PoolTypes /\ CallOf(l) /\ queue \in Seq(Objects) /\ Len(queue) \in Nat
      /\ phase[l] = "dequeue" /\ app' = app /\ cache' = cache /\ table' = table /\ keep' = keep
      /\ Request(l) \in Nat /\ 0 < Request(l) /\ taken[l] = <<>>
  BY OfUser, Requested DEF DequeueHead, CallOf, Getting
<1>2. Parts(queue, Cached(l), table[l], taken[l], app)
  BY OwnParts
<1>3. CASE /\ Request(l) <= Len(queue)
           /\ Pool!Take(l, Request(l))
           /\ phase' = [phase EXCEPT ![l] = "release"]
           /\ UNCHANGED <<want, fill>>
  <2> DEFINE k == Request(l)
             first == SubSeq(queue, 1, k)
             rest == SubSeq(queue, k + 1, Len(queue))
  <2>1. /\ taken' = [taken EXCEPT ![l] = first] /\ queue' = rest /\ claim' = claim
        /\ phase' = [phase EXCEPT ![l] = "release"] /\ want' = want /\ fill' = fill
    BY <1>3 DEF Pool!Take
  <2>2. k \in 0 .. Len(queue)
    BY <1>1, <1>3
  <2>3. /\ first \in Seq(Objects) /\ rest \in Seq(Objects) /\ Len(first) = k
        /\ Elems(queue) = Elems(first) \cup Elems(rest)
        /\ Once(first) /\ Once(rest) /\ Elems(first) \cap Elems(rest) = {}
    BY <1>1, <1>2, <2>2, SplitElems DEF Parts
  <2> HIDE DEF first, rest
  <2>4. /\ taken'[l] = first /\ phase'[l] = "release"
        /\ \A m \in Users : m # l => taken'[m] = taken[m] /\ phase'[m] = phase[m]
    BY <1>1, <2>1 DEF PoolTypes
  <2>5. PoolTypes'
    BY <1>1, <2>1, <2>3 DEF PoolTypes
  <2>6. Request(l)' = k
    BY <1>1, <2>1 DEF Request
  <2>7. CallOf(l)'
    BY <1>1, <2>1, <2>3, <2>4, <2>6 DEF CallOf, Putting, Getting, Settled
  <2>8. \A m \in Users : m # l => Same(m)
    BY <1>1, <2>1, <2>4 DEF Same
  <2>9. Cached(l)' = Cached(l)
    BY <1>1, <2>1, <2>4 DEF Cached
  <2>10. /\ Parts(rest, Cached(l), table[l], first, app)
         /\ Whole(rest, Cached(l), table[l], first, app)
              = Whole(queue, Cached(l), table[l], taken[l], app)
    BY <1>1, <1>2, <2>3, EmptyElems DEF Parts, Whole
  <2> QED BY <1>1, <2>1, <2>4, <2>5, <2>7, <2>8, <2>9, <2>10, OneThread
<1>4. CASE /\ Request(l) > Len(queue) /\ fill[l]
           /\ fill' = [fill EXCEPT ![l] = FALSE]
           /\ UNCHANGED <<ring, phase, want>>
  <2>1. /\ fill' = [fill EXCEPT ![l] = FALSE] /\ queue' = queue /\ claim' = claim
        /\ taken' = taken /\ phase' = phase /\ want' = want
    BY <1>4 DEF ring
  <2>2. fill'[l] = FALSE /\ \A m \in Users : m # l => fill'[m] = fill[m]
    BY <1>1, <2>1 DEF PoolTypes
  <2>3. PoolTypes'
    BY <1>1, <2>1 DEF PoolTypes
  <2>4. CallOf(l)'
    BY <1>1, <2>1, <2>2 DEF CallOf, Putting, Getting, Settled
  <2>5. \A m \in Users : m # l => Same(m)
    BY <1>1, <2>1, <2>2 DEF Same
  <2>6. Cached(l)' = Cached(l)
    BY <1>1, <2>1 DEF Cached
  <2> QED BY <1>1, <1>2, <2>1, <2>3, <2>4, <2>5, <2>6, OneThread
<1>5. CASE /\ Request(l) > Len(queue) /\ ~fill[l]
           /\ GetOver(l)
           /\ UNCHANGED ring
  <2>1. /\ phase' = [phase EXCEPT ![l] = "idle"] /\ want' = [want EXCEPT ![l] = 0]
        /\ fill' = [fill EXCEPT ![l] = FALSE]
        /\ queue' = queue /\ claim' = claim /\ taken' = taken
    BY <1>5 DEF ring, GetOver
  <2>2. /\ fill'[l] = FALSE /\ phase'[l] = "idle" /\ want'[l] = 0
        /\ \A m \in Users : m # l => /\ fill'[m] = fill[m] /\ phase'[m] = phase[m]
                                     /\ want'[m] = want[m]
    BY <1>1, <2>1 DEF PoolTypes
  <2>3. PoolTypes'
    BY <1>1, <2>1 DEF PoolTypes
  <2>4. CallOf(l)'
    BY <1>1, <2>1, <2>2 DEF CallOf, Putting, Getting, Settled
  <2>5. \A m \in Users : m # l => Same(m)
    BY <1>1, <2>1, <2>2 DEF Same
  <2>6. Cached(l)' = Cached(l)
    BY <1>1, <2>1, <2>2 DEF Cached
  <2> QED BY <1>1, <1>2, <2>1, <2>3, <2>4, <2>5, <2>6, OneThread
<1> QED BY <1>3, <1>4, <1>5 DEF DequeueHead

LEMMA DequeueTailInv ==
  ASSUME PoolInv, NEW l \in Users, DequeueTail(l)
  PROVE  PoolInv'
<1> DEFINE objs == cache[l] \o taken[l]
<1>1. /\ PoolTypes /\ CallOf(l) /\ cache[l] \in Seq(Objects) /\ taken[l] \in Seq(Objects)
      /\ Len(cache[l]) \in Nat /\ Len(taken[l]) \in Nat /\ want[l] \in Nat
      /\ phase[l] = "release" /\ Len(taken[l]) = Request(l) /\ app \subseteq Objects
      /\ taken' = [taken EXCEPT ![l] = <<>>] /\ queue' = queue /\ claim' = claim
      /\ phase' = [phase EXCEPT ![l] = "idle"] /\ want' = [want EXCEPT ![l] = 0]
      /\ fill' = [fill EXCEPT ![l] = FALSE] /\ table' = table /\ keep' = keep
  BY OfUser DEF DequeueTail, CallOf, Pool!Release, GetOver
<1>2. Parts(queue, cache[l], table[l], taken[l], app) /\ Cached(l) = cache[l]
  BY <1>1, OwnParts DEF Cached
<1>3. /\ taken'[l] = <<>> /\ phase'[l] = "idle" /\ want'[l] = 0 /\ fill'[l] = FALSE
      /\ \A m \in Users : m # l => /\ fill'[m] = fill[m] /\ phase'[m] = phase[m]
                                   /\ want'[m] = want[m] /\ taken'[m] = taken[m]
  BY <1>1 DEF PoolTypes
<1>4. CASE fill[l]
  <2> DEFINE low == Below(objs, want[l])
             top == Top(objs, want[l])
  <2>1. app' = app \cup Elems(top) /\ cache' = [cache EXCEPT ![l] = low]
    BY <1>4 DEF DequeueTail
  <2>2. /\ objs \in Seq(Objects) /\ Len(objs) = Len(cache[l]) + Len(taken[l])
        /\ Elems(objs) = Elems(cache[l]) \cup Elems(taken[l]) /\ Once(objs)
    <3>1. Once(cache[l]) /\ Once(taken[l]) /\ Elems(cache[l]) \cap Elems(taken[l]) = {}
      BY <1>2 DEF Parts
    <3>2. cache[l] \in Seq(Objects) /\ taken[l] \in Seq(Objects)
      BY <1>1
    <3> QED BY <3>1, <3>2, ConcatElems
  <2>3. Len(objs) = want[l] + CacheSize /\ CacheSize \in Nat /\ l \in Lcores
    BY <1>1, <1>4, <2>2, Requested, Numbers DEF Getting, CallOf
  <2> HIDE DEF objs
  <2>4. /\ low \in Seq(Objects) /\ Len(low) = CacheSize
        /\ Elems(objs) = Elems(low) \cup Elems(top)
        /\ Once(low) /\ Elems(low) \cap Elems(top) = {}
    <3>1. want[l] \in 0 .. Len(objs) /\ Len(objs) - want[l] = CacheSize
      BY <1>1, <2>3
    <3>2. /\ low \in Seq(Objects) /\ Len(low) = Len(objs) - want[l]
          /\ Elems(objs) = Elems(low) \cup Elems(top)
          /\ Once(low) /\ Elems(low) \cap Elems(top) = {}
      <4>1. objs \in Seq(Objects) /\ Once(objs) /\ want[l] \in 0 .. Len(objs)
        BY <2>2, <3>1
      <4> QED BY <4>1, EndsElems
    <3> QED BY <3>1, <3>2
  <2> HIDE DEF low, top
  <2>5. cache'[l] = low /\ \A m \in Users : m # l => cache'[m] = cache[m]
    BY <1>1, <2>1 DEF PoolTypes
  <2>6. PoolTypes'
    <3>1. app' \subseteq Objects
      BY <1>1, <2>1, <2>2, <2>4, ElemsIn
    <3> QED BY <1>1, <2>1, <2>4, <3>1 DEF PoolTypes
  <2>7. CallOf(l)'
    BY <1>1, <1>3, <2>3, <2>4, <2>5 DEF CallOf, Putting, Getting, Settled
  <2>8. \A m \in Users : m # l => Same(m)
    BY <1>1, <1>3, <2>5 DEF Same
  <2>9. Cached(l)' = low
    BY <1>3, <2>5 DEF Cached
  <2>10. /\ Parts(queue, low, table[l], <<>>, app')
         /\ Whole(queue, low, table[l], <<>>, app')
              = Whole(queue, cache[l], table[l], taken[l], app)
    BY <1>2, <2>1, <2>2, <2>4, EmptyElems DEF Parts, Whole
  <2> QED BY <1>1, <1>2, <1>3, <2>6, <2>7, <2>8, <2>9, <2>10, OneThread
<1>5. CASE ~fill[l]
  <2>1. app' = app \cup Elems(taken[l]) /\ cache' = cache
    BY <1>5 DEF DequeueTail
  <2>2. PoolTypes'
    <3>1. app' \subseteq Objects
      BY <1>1, <2>1, ElemsIn
    <3> QED BY <1>1, <2>1, <3>1 DEF PoolTypes
  <2>3. CallOf(l)'
    BY <1>1, <1>3, <2>1 DEF CallOf, Putting, Getting, Settled
  <2>4. \A m \in Users : m # l => Same(m)
    BY <1>1, <1>3, <2>1 DEF Same
  <2>5. Cached(l)' = cache[l]
    BY <1>3, <2>1 DEF Cached
  <2>6. /\ Parts(queue, cache[l], table[l], <<>>, app')
        /\ Whole(queue, cache[l], table[l], <<>>, app')
              = Whole(queue, cache[l], table[l], taken[l], app)
    BY <1>2, <2>1, EmptyElems DEF Parts, Whole
  <2> QED BY <1>1, <1>2, <1>3, <2>2, <2>3, <2>4, <2>5, <2>6, OneThread
<1> QED BY <1>4, <1>5

LEMMA PoolInitInv == PoolInit => PoolInv
<1> SUFFICES ASSUME PoolInit PROVE PoolInv
  OBVIOUS
<1> DEFINE N == Cardinality(Objects)
<1>1. N \in Nat /\ queue \in [1 .. N -> Objects] /\ Elems(queue) = Objects
  BY Numbers DEF PoolInit
<1>2. /\ queue \in Seq(Objects) /\ app = {}
      /\ claim = [l \in Users |-> <<>>] /\ taken = [l \in Users |-> <<>>]
      /\ cache = [l \in Users |-> <<>>] /\ phase = [l \in Users |-> "idle"]
      /\ table = [l \in Users |-> <<>>] /\ keep = [l \in Users |-> 0]
      /\ want = [l \in Users |-> 0] /\ fill = [l \in Users |-> FALSE]
  BY <1>1 DEF PoolInit
<1>3. PoolTypes
  BY <1>2 DEF PoolTypes
<1>4. ASSUME NEW l \in Users PROVE CallOf(l)
  BY <1>2, Numbers DEF CallOf, Putting, Getting, Settled, Request
<1>5. Once(queue)
  <2>1. DOMAIN queue = 1 .. N
    BY <1>1
  <2>2. queue \in Surjection(1 .. N, Objects)
    BY <1>1, <2>1 DEF Surjection, Elems
  <2>3. IsFiniteSet(1 .. N) /\ Cardinality(1 .. N) = N
    BY <1>1, FS_Interval
  <2>4. queue \in Injection(1 .. N, Objects)
    BY <2>2, <2>3, FS_SurjSameCardinalityImpliesInj
  <2> QED BY <2>1, <2>4 DEF Injection, IsInjective, Once
<1>6. ASSUME NEW x \in Loc
      PROVE  (x = <<"ring", "ring">> /\ Held[x] = queue) \/ Held[x] = <<>>
  <2>1. CASE x = <<"ring", "ring">>
    BY <2>1, Named DEF PlacesNamed
  <2>2. ASSUME NEW m \in Users, x = <<"cache", m>> \/ x = <<"put", m>> \/ x = <<"get", m>>
        PROVE  Held[x] = <<>>
    <3>1. Cached(m) = <<>> /\ table[m] = <<>> /\ taken[m] = <<>>
      BY <1>2 DEF Cached
    <3> QED BY <2>2, <3>1, Named DEF PlacesNamed
  <2> QED BY <2>1, <2>2, InLoc
<1>7. \A x \in Loc : Once(Held[x])
  BY <1>5, <1>6, EmptyElems
<1>8. \A x, y \in Loc : x # y => Elems(Held[x]) \cap Elems(Held[y]) = {}
  BY <1>6, EmptyElems
<1>9. \A o \in Objects : \E x \in Loc : o \in Elems(Held[x])
  <2>1. <<"ring", "ring">> \in Loc /\ Held[<<"ring", "ring">>] = queue
    BY Named DEF PlacesNamed
  <2> QED BY <1>1, <2>1
<1> QED BY <1>2, <1>3, <1>4, <1>7, <1>8, <1>9 DEF PoolInv, Spread

LEMMA PoolStepInv == PoolInv /\ [PoolNext]_pool_vars => PoolInv'
<1> SUFFICES ASSUME PoolInv, [PoolNext]_pool_vars PROVE PoolInv'
  OBVIOUS
<1>1. ASSUME NEW l \in Users, PoolStep(l) PROVE PoolInv'
  BY <1>1, EnqueueHeadInv, EnqueueTailInv, DequeueHeadInv, DequeueTailInv DEF PoolStep
<1>2. ASSUME NEW l \in Users, CacheFlush(l) PROVE PoolInv'
  BY <1>2, CacheFlushInv
<1>3. ASSUME NEW l \in Users, NEW t \in Tables, PutCache(l, t) \/ PutRing(l, t) PROVE PoolInv'
  BY <1>3, PutCacheInv, PutRingInv
<1>4. ASSUME NEW l \in Users, NEW k \in Bursts, GetCache(l, k) \/ GetRing(l, k) PROVE PoolInv'
  BY <1>4, GetCacheInv, GetRingInv
<1>5. CASE UNCHANGED pool_vars
  <2>1. PoolTypes' /\ Held' = Held /\ app' = app
    BY <1>5 DEF PoolInv, PoolTypes, pool_vars, Held, At, Cached
  <2>2. \A l \in Users : CallOf(l)'
    BY <1>5, SameCall DEF PoolInv, pool_vars, Same
  <2> QED BY <2>1, <2>2 DEF PoolInv
<1> QED BY <1>1, <1>2, <1>3, <1>4, <1>5 DEF PoolNext

LEMMA TwiceSize ==
  ASSUME NEW k \in Nat, NEW j \in Nat, NEW i \in Nat
  PROVE  /\ k <= FlushThresh + CacheMax => k <= 3 * CacheMax
         /\ i < CacheSize /\ k + j = i + CacheSize => k + j <= 3 * CacheMax
<1>1. /\ CacheSize \in Nat /\ CacheMax \in Nat /\ CacheSize <= CacheMax
      /\ FlushThresh \in Nat /\ 2 * FlushThresh <= 3 * CacheMax
  BY Numbers
<1> HIDE DEF FlushThresh
<1> QED BY <1>1

LEMMA InvPutsFit == PoolInv => PutsFit
<1> SUFFICES ASSUME PoolInv PROVE PutsFit
  OBVIOUS
<1>1. PoolTypeOK
  <2>1. ASSUME NEW l \in Users
        PROVE  /\ Elems(cache[l]) \cup Elems(table[l]) \subseteq Objects
               /\ phase[l] \in {"idle", "enqueue", "publish", "dequeue", "release"}
               /\ keep[l] \in 0 .. Len(cache[l])
               /\ fill[l] => HasCache(l) /\ Len(cache[l]) < want[l]
    <3>1. Elems(cache[l]) \subseteq Objects /\ Elems(table[l]) \subseteq Objects
      BY OfUser, ElemsIn
    <3>2. keep[l] \in 0 .. Len(cache[l])
      BY OfUser DEF CallOf
    <3>3. fill[l] => HasCache(l) /\ Len(cache[l]) < want[l]
      BY OfUser DEF CallOf, HasCache
    <3> QED BY <3>1, <3>2, <3>3 DEF PoolInv, PoolTypes
  <2>2. ASSUME NEW l \in Others PROVE cache[l] = <<>>
    <3>1. l \in Users /\ l \notin Lcores
      BY MempoolAssumption DEF Users
    <3> QED BY <3>1, OfUser DEF CallOf
  <2> QED BY <2>1, <2>2 DEF PoolTypeOK, PoolInv, PoolTypes
<1>2. ASSUME NEW l \in Users
      PROVE  Len(cache[l]) + (IF fill[l] THEN Len(taken[l]) ELSE 0) <= 3 * CacheMax
  <2>1. /\ CallOf(l) /\ Len(cache[l]) \in Nat /\ Len(taken[l]) \in Nat /\ want[l] \in Nat
    BY OfUser
  <2>2. CASE fill[l] /\ phase[l] = "release"
    <3>1. /\ Len(cache[l]) + Len(taken[l]) = want[l] + CacheSize /\ want[l] < CacheSize
      BY <2>1, <2>2, Requested DEF CallOf, Getting
    <3>2. Len(cache[l]) + Len(taken[l]) <= 3 * CacheMax
      <4>1. Len(cache[l]) \in Nat /\ Len(taken[l]) \in Nat /\ want[l] \in Nat
        BY <2>1
      <4> QED BY <3>1, <4>1, TwiceSize
    <3> QED BY <2>2, <3>2
  <2>3. CASE ~(fill[l] /\ phase[l] = "release")
    <3>1. fill[l] => Len(taken[l]) = 0
      BY <2>1, <2>3, EmptyElems DEF CallOf
    <3>2. Len(cache[l]) <= FlushThresh + CacheMax
      BY <2>1, Numbers DEF CallOf, Settled, Putting
    <3>3. Len(cache[l]) <= 3 * CacheMax
      BY <2>1, <3>2, TwiceSize
    <3>4. Len(cache[l]) + 0 = Len(cache[l])
      BY <2>1
    <3> QED BY <3>1, <3>3, <3>4
  <2> QED BY <2>2, <2>3
<1>3. ASSUME NEW l \in Users, phase[l] = "idle"
      PROVE  Len(cache[l]) < FlushThresh \/ Len(cache[l]) <= CacheSize
  BY <1>3, OfUser DEF CallOf, Putting, Settled
<1> QED BY <1>1, <1>2, <1>3, PutFits DEF PutsFit, CacheBounded

(* No put, flush or get of a pool writes where there is no room, whatever  *)
(* the number of lcores, the cache size and the bursts: the ring has a     *)
(* slot for every table that a put or a flush adds, so that the result it  *)
(* ignores is never a failure, and a cache stays in its array.             *)
THEOREM PoolFits == PoolSpec => []PutsFit
BY PoolInitInv, PoolStepInv, InvPutsFit, PTL DEF PoolSpec

-----------------------------------------------------------------------------
(* Conservation counts what Spread says.                                   *)
Spot(x) ==
  IF x[1] = "ring" THEN <<"queue", queue>>
    ELSE IF x[1] = "cache" THEN <<x[2], Cached(x[2])>>
    ELSE IF x[1] = "put" THEN <<x[2], "put", table[x[2]]>> ELSE <<x[2], "get", taken[x[2]]>>

LEMMA SpotsArePlaces ==
  /\ \A x \in Loc : Spot(x) \in Places /\ Contents(Spot(x)) = Held[x]
  /\ \A e \in Places : \E x \in Loc : e = Spot(x)
<1>1. ASSUME NEW x \in Loc PROVE Spot(x) \in Places /\ Contents(Spot(x)) = Held[x]
  <2>1. CASE x = <<"ring", "ring">>
    <3>1. Spot(x) = <<"queue", queue>> /\ Held[x] = queue
      BY <2>1, Named DEF PlacesNamed, Spot
    <3> QED BY <3>1 DEF Places, Contents
  <2>2. ASSUME NEW m \in Users, x = <<"cache", m>> \/ x = <<"put", m>> \/ x = <<"get", m>>
        PROVE  Spot(x) \in Places /\ Contents(Spot(x)) = Held[x]
    <3>1. CASE x = <<"cache", m>>
      <4>1. Spot(x) = <<m, Cached(m)>> /\ Held[x] = Cached(m)
        BY <3>1, Named DEF PlacesNamed, Spot
      <4> QED BY <4>1 DEF Places, Contents
    <3>2. CASE x = <<"put", m>>
      <4>1. Spot(x) = <<m, "put", table[m]>> /\ Held[x] = table[m]
        BY <3>2, Named DEF PlacesNamed, Spot
      <4> QED BY <4>1 DEF Places, Contents
    <3>3. CASE x = <<"get", m>>
      <4>1. Spot(x) = <<m, "get", taken[m]>> /\ Held[x] = taken[m]
        BY <3>3, Named DEF PlacesNamed, Spot
      <4> QED BY <4>1 DEF Places, Contents
    <3> QED BY <2>2, <3>1, <3>2, <3>3
  <2> QED BY <2>1, <2>2, InLoc
<1>2. ASSUME NEW e \in Places PROVE \E x \in Loc : e = Spot(x)
  <2>1. CASE e = <<"queue", queue>>
    <3>1. Spot(<<"ring", "ring">>) = e
      BY <2>1 DEF Spot
    <3> QED BY <3>1, Named DEF PlacesNamed
  <2>2. ASSUME NEW m \in Users, e = <<m, Cached(m)>> PROVE \E x \in Loc : e = Spot(x)
    <3>1. Spot(<<"cache", m>>) = e
      BY <2>2 DEF Spot
    <3> QED BY <3>1, Named DEF PlacesNamed
  <2>3. ASSUME NEW m \in Users, e = <<m, "put", table[m]>> PROVE \E x \in Loc : e = Spot(x)
    <3>1. Spot(<<"put", m>>) = e
      BY <2>3 DEF Spot
    <3> QED BY <3>1, Named DEF PlacesNamed
  <2>4. ASSUME NEW m \in Users, e = <<m, "get", taken[m]>> PROVE \E x \in Loc : e = Spot(x)
    <3>1. Spot(<<"get", m>>) = e
      BY <2>4 DEF Spot
    <3> QED BY <3>1, Named DEF PlacesNamed
  <2> QED BY <2>1, <2>2, <2>3, <2>4 DEF Places
<1> QED BY <1>1, <1>2

LEMMA HeldTypes ==
  ASSUME PoolInv, NEW x \in Loc
  PROVE  Held[x] \in Seq(Objects)
<1>1. ASSUME NEW m \in Users PROVE Cached(m) \in Seq(Objects)
  <2>1. cache[m] \in Seq(Objects) /\ keep[m] \in 0 .. Len(cache[m])
    BY OfUser DEF CallOf
  <2> QED BY <2>1, SplitElems DEF Cached
<1> QED BY <1>1, InLoc, Named, OfUser, ZenonT(40) DEF PlacesNamed, PoolInv, PoolTypes

LEMMA InvConservation == PoolInv => Conservation
<1> SUFFICES ASSUME PoolInv, NEW o \in Objects
             PROVE  Cardinality({e \in Places \X (1 .. Cardinality(Objects)) :
                                   e[2] <= Len(Contents(e[1])) /\ Contents(e[1])[e[2]] = o})
                      = IF o \in app THEN 0 ELSE 1
  BY DEF Conservation
<1> DEFINE N == Cardinality(Objects)
           spots == {e \in Places \X (1 .. N) :
                       e[2] <= Len(Contents(e[1])) /\ Contents(e[1])[e[2]] = o}
<1>1. /\ \A x \in Loc : Once(Held[x]) /\ Elems(Held[x]) \cap app = {}
      /\ \A x, y \in Loc : x # y => Elems(Held[x]) \cap Elems(Held[y]) = {}
      /\ o \in app \/ \E x \in Loc : o \in Elems(Held[x])
  BY DEF PoolInv, Spread
<1>2. \A x \in Loc : /\ Len(Held[x]) \in Nat /\ DOMAIN Held[x] = 1 .. Len(Held[x])
                     /\ Elems(Held[x]) \subseteq Objects
  BY HeldTypes, LenProperties, ElemsIn
<1>3. ASSUME NEW e \in spots
      PROVE  \E x \in Loc : /\ e = <<Spot(x), e[2]>> /\ e[2] \in DOMAIN Held[x]
                            /\ Held[x][e[2]] = o /\ o \in Elems(Held[x])
  <2>1. e[1] \in Places /\ e[2] \in 1 .. N /\ e = <<e[1], e[2]>>
        /\ e[2] <= Len(Contents(e[1])) /\ Contents(e[1])[e[2]] = o
    OBVIOUS
  <2>2. PICK x \in Loc : e[1] = Spot(x)
    BY <2>1, SpotsArePlaces
  <2>3. Contents(e[1]) = Held[x]
    BY <2>2, SpotsArePlaces
  <2>4. e[2] \in DOMAIN Held[x]
    BY <1>2, <2>1, <2>3, Numbers
  <2> QED BY <2>1, <2>2, <2>3, <2>4 DEF Elems
<1>4. CASE o \in app
  <2>1. spots = {}
    BY <1>1, <1>3, <1>4
  <2> QED BY <1>4, <2>1, FS_EmptySet
<1>5. CASE o \notin app
  <2>1. PICK x \in Loc : o \in Elems(Held[x])
    BY <1>1, <1>5
  <2>2. PICK j \in DOMAIN Held[x] : Held[x][j] = o
    BY <2>1 DEF Elems
  <2> DEFINE s == <<Spot(x), j>>
  <2>3. s \in spots
    <3>1. Len(Held[x]) <= N
      <4>1. Cardinality(Elems(Held[x])) = Len(Held[x])
        BY <1>1, HeldTypes, LengthCounts
      <4> QED BY <1>2, <4>1, Numbers, FS_Subset
    <3>2. j \in 1 .. N /\ j <= Len(Held[x])
      BY <1>2, <3>1, Numbers
    <3> QED BY <2>2, <3>2, SpotsArePlaces
  <2>4. ASSUME NEW e \in spots PROVE e = s
    <3>1. PICK y \in Loc : /\ e = <<Spot(y), e[2]>> /\ e[2] \in DOMAIN Held[y]
                           /\ Held[y][e[2]] = o /\ o \in Elems(Held[y])
      BY <1>3
    <3>2. x = y
      BY <1>1, <2>1, <3>1
    <3>3. e[2] = j
      BY <1>1, <2>2, <3>1, <3>2 DEF Once
    <3> QED BY <3>1, <3>2, <3>3
  <2> HIDE DEF s, spots
  <2>5. spots = {s}
    BY <2>3, <2>4
  <2>6. Cardinality(spots) = 1
    BY <2>5, FS_Singleton
  <2> QED BY <1>5, <2>6 DEF spots
<1> QED BY <1>4, <1>5

(* No object of a pool is lost and none is handed out twice, whatever the  *)
(* interleaving of gets, puts and flushes, though nobody looks at what an  *)
(* enqueue of __mempool_generic_put returns.                               *)
THEOREM PoolConserves == PoolSpec => []Conservation
BY PoolInitInv, PoolStepInv, InvConservation, PTL DEF PoolSpec

(* A get fails only when the ring has fewer objects than were asked for    *)
(* and the cache, when it may serve the request, has too: the retry with n *)
(* after a failed fill leaves no other case.                               *)
THEOREM PoolFailsWhenShort == PoolSpec => FailOnlyWhenShort
<1> DEFINE Short(l) ==
      phase[l] = "dequeue" /\ phase'[l] = "idle" =>
         /\ Len(queue) < want[l]
         /\ HasCache(l) /\ want[l] < CacheSize => Len(cache[l]) < want[l]
<1>1. ASSUME PoolInv, [PoolNext]_pool_vars, NEW l \in Users PROVE Short(l)
  <2> SUFFICES ASSUME phase[l] = "dequeue", phase'[l] = "idle"
               PROVE  /\ Len(queue) < want[l]
                      /\ HasCache(l) /\ want[l] < CacheSize => Len(cache[l]) < want[l]
    OBVIOUS
  <2>1. /\ PoolTypes /\ CallOf(l) /\ Len(queue) \in Nat /\ want[l] \in Nat
        /\ Len(cache[l]) \in Nat
    BY <1>1, OfUser
  <2>2. l \in Lcores /\ want[l] < CacheSize => Len(cache[l]) < want[l]
    BY <2>1 DEF CallOf, Getting
  <2>3. PoolNext
    BY <1>1 DEF pool_vars
  <2>4. PICK m \in Users : \/ PoolStep(m) \/ CacheFlush(m)
                           \/ \E t \in Tables : PutCache(m, t) \/ PutRing(m, t)
                           \/ \E k \in Bursts : GetCache(m, k) \/ GetRing(m, k)
    BY <2>3 DEF PoolNext
  <2>5. DequeueHead(l)
    <3>1. m = l
      BY <1>1, <2>1, <2>4
      DEF PoolTypes, PoolStep, CacheFlush, PutCache, PutRing, GetCache, GetRing, EnqueueHead,
          EnqueueTail, DequeueHead, DequeueTail, Enqueue, NoEnqueue, EnqueueOver, GetOver
    <3> QED BY <2>4, <3>1
        DEF PoolStep, CacheFlush, PutCache, PutRing, GetCache, GetRing, EnqueueHead,
            EnqueueTail, DequeueTail
  <2>6. Request(l) > Len(queue) /\ ~fill[l]
    BY <2>1, <2>5 DEF DequeueHead, PoolTypes
  <2>7. Len(queue) < want[l]
    BY <2>1, <2>6 DEF Request
  <2> QED BY <2>2, <2>7 DEF HasCache
<1>2. PoolInv /\ [PoolNext]_pool_vars => [\A l \in Users : Short(l)]_pool_vars
  BY <1>1
<1> QED BY <1>2, PoolInitInv, PoolStepInv, PTL DEF PoolSpec, FailOnlyWhenShort
=============================================================================
