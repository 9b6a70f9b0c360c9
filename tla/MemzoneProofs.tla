---------------------------- MODULE MemzoneProofs ---------------------------
(***************************************************************************)
(* Proofs about Memzone.  The heap's lemmas of HeapProofs say what each    *)
(* call does to the blocks; here the table of memzones, its count and the  *)
(* calls under way are shown to agree with them.                           *)
(***************************************************************************)
EXTENDS Memzone, HeapProofs

Holder(c) == c.op \in {"max", "alloc"}

(* A memzone call, and the heap's call that the thread is in meanwhile.    *)
ZoneCall(z, c) ==
  \/ z = Idle
  \/ /\ z # Idle /\ z.op = "max" /\ c = Idle /\ z.req \in ZoneRequests /\ z.req.bound = 0
     /\ z.len \in Nat /\ z.socket \in Sockets \cup {AnySocket} /\ z.look \subseteq Sockets
     /\ DOMAIN z = {"op", "name", "req", "len", "socket", "look"}
  \/ /\ z # Idle /\ z.op = "alloc" /\ c # Idle /\ c.op = "malloc" /\ c.from = NULL /\ z.max \in Nat
     /\ z.max > 0 => c.req.bound = 0 /\ c.req.size = WholeLen(z.max, c.req.align)
  \/ z # Idle /\ z.op = "free" /\ c = Idle

(* mlock: one reservation at a time, for a name that is free, with room.   *)
Locked(Z) ==
  /\ DOMAIN Z = Threads
  /\ \A t, u \in Threads : Holder(Z[t]) /\ Holder(Z[u]) => t = u

Reserving ==
  \A t \in Threads : Holder(zcall[t]) => Lookup(zcall[t].name) = {} /\ memzone_cnt < MaxMemzone

(* A zone of the table and its block.                                      *)
ZoneOwns(h, B, Z, m) ==
  m.addr \in Z /\ B[m.addr] = m.len /\ m.socket_id = SocketOf(h, m.addr)

TableSound ==
  /\ DOMAIN memzone = Slots /\ memzone_cnt = Cardinality(Used)
  /\ \A i, j \in Used :
       (memzone[i].name = memzone[j].name \/ memzone[i].addr = memzone[j].addr) => i = j
  /\ \A i \in Used : ZoneOwns(mem, block, zblocks, memzone[i])

(* Who has the blocks of zones.                                            *)
ZoneBlocks ==
  /\ zblocks \subseteq DOMAIN block
  /\ \A t \in Threads : call[t] # Idle => call[t].from \notin zblocks
  /\ \A t \in Freeing : zcall[t].addr \in zblocks
  /\ \A t, u \in Freeing : zcall[t].addr = zcall[u].addr => t = u
  /\ \A i \in Used, t \in Freeing : memzone[i].addr # zcall[t].addr
  /\ \A p \in zblocks : (\E i \in Used : p = memzone[i].addr) \/ (\E t \in Freeing : p = zcall[t].addr)

ZoneInv ==
  /\ HeapInv /\ Locked(zcall) /\ \A t \in Threads : ZoneCall(zcall[t], call[t])
  /\ Reserving /\ TableSound /\ ZoneBlocks

-----------------------------------------------------------------------------
USE DEF HEADER_LEN, OVERHEAD, MIN_DATA_SIZE, NULL, AnySocket

LEMMA SlotsFinite == IsFiniteSet(Slots) /\ Cardinality(Slots) = MaxMemzone /\ Slots \subseteq Nat
<1>1. MaxMemzone \in Nat /\ MaxMemzone > 0
  BY MemzoneAssumption
<1>2. 0 \in Int /\ MaxMemzone - 1 \in Int
  BY <1>1
<1>3. IsFiniteSet(0 .. MaxMemzone - 1)
        /\ Cardinality(0 .. MaxMemzone - 1) = IF 0 > MaxMemzone - 1 THEN 0 ELSE MaxMemzone - 1 - 0 + 1
  BY <1>2, FS_Interval
<1> QED BY <1>1, <1>3 DEF Slots

LEMMA UsedFinite == IsFiniteSet(Used) /\ Cardinality(Used) \in Nat /\ Used \in SUBSET Slots
<1>1. Used \in SUBSET Slots
  BY DEF Used
<1> QED BY <1>1, SlotsFinite, FS_Subset, FS_CardinalityType

(* The block is as it was.                                                 *)
Quiet(q) ==
  q \in DOMAIN block' /\ block'[q] = block[q] /\ SocketOf(mem', q) = SocketOf(mem, q)

LEMMA ZoneFacts ==
  ASSUME ZoneInv
  PROVE  /\ HeapInv /\ MemInv /\ Locked(zcall) /\ (\A t \in Threads : ZoneCall(zcall[t], call[t]))
         /\ Reserving /\ TableSound /\ ZoneBlocks /\ DOMAIN zcall = Threads
         /\ zblocks \subseteq DOMAIN block /\ NULL \notin zblocks
<1>1. /\ HeapInv /\ MemInv /\ Locked(zcall) /\ (\A t \in Threads : ZoneCall(zcall[t], call[t]))
      /\ Reserving /\ TableSound /\ ZoneBlocks /\ DOMAIN zcall = Threads
      /\ zblocks \subseteq DOMAIN block
  BY DEF ZoneInv, HeapInv, ZoneBlocks, Locked
<1>2. DOMAIN block \subseteq Nat
  BY <1>1, MemFacts
<1> QED BY <1>1, <1>2

LEMMA TableFrame ==
  ASSUME TableSound, memzone' = memzone, memzone_cnt' = memzone_cnt, zblocks' = zblocks,
         \A q \in zblocks : Quiet(q)
  PROVE  TableSound'
<1>1. Used' = Used
  BY DEF Used
<1>2. ASSUME NEW i \in Used PROVE ZoneOwns(mem', block', zblocks', memzone'[i])
  <2>1. ZoneOwns(mem, block, zblocks, memzone[i])
    BY DEF TableSound
  <2>2. memzone[i].addr \in zblocks
    BY <2>1 DEF ZoneOwns
  <2>3. Quiet(memzone[i].addr)
    BY <2>2
  <2> QED BY <2>1, <2>3 DEF ZoneOwns, Quiet
<1> QED BY <1>1, <1>2 DEF TableSound

LEMMA BlocksFrame ==
  ASSUME ZoneBlocks, memzone' = memzone, zblocks' = zblocks, Freeing' = Freeing,
         \A t \in Freeing : zcall'[t] = zcall[t], zblocks \subseteq DOMAIN block',
         \A t \in Threads : call'[t] # Idle => call'[t].from \notin zblocks
  PROVE  ZoneBlocks'
<1>1. Used' = Used
  BY DEF Used
<1> QED BY <1>1 DEF ZoneBlocks

(* A step of the heap that leaves the blocks of zones alone.               *)
LEMMA QuietFrame ==
  ASSUME ZoneInv, UNCHANGED zone_vars, HeapInv', \A q \in zblocks : Quiet(q),
         \A t \in Threads : ZoneCall(zcall[t], call'[t]),
         \A t \in Threads : call'[t] # Idle => call'[t].from \notin zblocks
  PROVE  ZoneInv'
<1>1. memzone' = memzone /\ memzone_cnt' = memzone_cnt /\ zblocks' = zblocks /\ zcall' = zcall
  BY DEF zone_vars
<1>2. Freeing' = Freeing /\ Used' = Used
  BY <1>1 DEF Freeing, Used
<1>3. TableSound'
  BY <1>1, TableFrame, ZoneFacts
<1>4. ZoneBlocks'
  <2>1. zblocks \subseteq DOMAIN block'
    BY DEF Quiet
  <2> QED BY <1>1, <1>2, <2>1, BlocksFrame, ZoneFacts
<1>5. Reserving'
  BY <1>1, <1>2, ZoneFacts DEF Reserving, Lookup
<1>6. \A t \in Threads : ZoneCall(zcall'[t], call'[t])
  BY <1>1
<1>7. Locked(zcall')
  BY <1>1, ZoneFacts
<1> QED BY <1>3, <1>4, <1>5, <1>6, <1>7 DEF ZoneInv

(* What the steps of the heap leave alone.                                 *)
LEMMA UntouchedQuiet ==
  ASSUME mem' = mem, block' = block, NEW q \in DOMAIN block
  PROVE  Quiet(q)
BY DEF Quiet

LEMMA AddQuiet ==
  ASSUME MemInv, AddMemseg, NEW q \in DOMAIN block
  PROVE  Quiet(q)
<1>1. Steady(mem, mem', segs', q) /\ block' = block
  BY AddStep DEF AddMemseg
<1> QED BY <1>1, SteadySocket DEF Quiet

LEMMA AllocQuiet ==
  ASSUME MemInv, NEW t \in Threads, CallOf(call[t], block), call[t] # Idle, HeapAlloc(t),
         NEW q \in DOMAIN block
  PROVE  Quiet(q)
<1>1. PICK p : /\ Served(mem, mem', segs, block, call[t].req, Head(call[t].socks), p)
               /\ block' = With(block, p, call[t].req.size)
  BY AllocStep
<1>2. p \notin DOMAIN block /\ Steady(mem, mem', segs, q)
  BY <1>1 DEF Served, Allocated
<1>3. q \in DOMAIN block' /\ block'[q] = block[q]
  BY <1>1, <1>2 DEF With
<1> QED BY <1>2, <1>3, SteadySocket DEF Quiet

LEMMA FreeQuiet ==
  ASSUME MemInv, NEW p \in DOMAIN block, FreeBlock(p), segs' = segs, NEW q \in DOMAIN block, q # p
  PROVE  Quiet(q)
<1>1. block' = Without(block, {p}) /\ Steady(mem, mem', segs, q)
  BY FreeStep
<1>2. q \in DOMAIN block' /\ block'[q] = block[q]
  BY <1>1 DEF Without
<1> QED BY <1>1, <1>2, SteadySocket DEF Quiet

LEMMA ReallocQuiet ==
  ASSUME MemInv, NEW t \in Threads, NEW p \in DOMAIN block, NEW z \in Resizes, Realloc(t, p, z),
         NEW q \in DOMAIN block, q # p
  PROVE  Quiet(q)
<1>1. block' = [block EXCEPT ![p] = z.size] /\ Steady(mem, mem', segs, q)
  BY ReallocStep
<1>2. q \in DOMAIN block' /\ block'[q] = block[q]
  BY <1>1
<1> QED BY <1>1, <1>2, SteadySocket DEF Quiet

-----------------------------------------------------------------------------
(* The heap's own callers, beside the reservations.                        *)
LEMMA HeapCallStep ==
  ASSUME ZoneInv, NEW t \in Threads, zcall[t] = Idle, HeapCall(t), UNCHANGED zone_vars
  PROVE  ZoneInv'
<1>1. HeapInv /\ MemInv /\ CallOf(call[t], block) /\ zblocks \subseteq DOMAIN block /\ NULL \notin zblocks
  BY ZoneFacts DEF HeapInv, CallsOf
<1>2. \A u \in Threads : call[u] # Idle => call[u].from \notin zblocks
  BY ZoneFacts DEF ZoneBlocks
<1>3. ASSUME HeapInv', \A q \in zblocks : Quiet(q), NEW c, call' = [call EXCEPT ![t] = c],
             c # Idle => c.from \notin zblocks
      PROVE  ZoneInv'
  <2>1. call'[t] = c /\ \A u \in Threads \ {t} : call'[u] = call[u]
    BY <1>1, <1>3, CallSet
  <2>2. \A u \in Threads : ZoneCall(zcall[u], call'[u])
    <3>1. ZoneCall(zcall[t], call'[t])
      BY DEF ZoneCall
    <3> QED BY <2>1, <3>1, ZoneFacts
  <2>3. \A u \in Threads : call'[u] # Idle => call'[u].from \notin zblocks
    BY <1>2, <1>3, <2>1
  <2> QED BY <1>3, <2>2, <2>3, QuietFrame
<1>4. ASSUME HeapInv', \A q \in zblocks : Quiet(q), call' = call
      PROVE  ZoneInv'
  BY <1>2, <1>4, QuietFrame, ZoneFacts
<1>5. ASSUME NEW r \in Requests, NEW socks \in Orders \cup {<<s>> : s \in Sockets}, Malloc(t, r, socks)
      PROVE  ZoneInv'
  <2> DEFINE c == [op |-> "malloc", req |-> r, socks |-> socks, from |-> NULL]
  <2>1. HeapInv'
    BY <1>1, <1>5, StepInv DEF Next
  <2>2. mem' = mem /\ block' = block /\ call' = [call EXCEPT ![t] = c]
    BY <1>5 DEF Malloc
  <2>3. \A q \in zblocks : Quiet(q)
    BY <1>1, <2>2, UntouchedQuiet
  <2>4. c.from \notin zblocks
    BY <1>1
  <2> HIDE DEF c
  <2> QED BY <1>3, <2>1, <2>2, <2>3, <2>4
<1>6. ASSUME HeapAlloc(t)
      PROVE  ZoneInv'
  <2> DEFINE c == IF call[t].from = NULL THEN Idle ELSE [op |-> "free", from |-> call[t].from]
  <2>1. HeapInv'
    BY <1>1, <1>6, StepInv DEF Next
  <2>2. call[t] # Idle
    BY <1>6, NotIdle DEF HeapAlloc
  <2>3. \A q \in zblocks : Quiet(q)
    BY <1>1, <1>6, <2>2, AllocQuiet
  <2>4. call' = [call EXCEPT ![t] = c]
    BY <1>6 DEF HeapAlloc
  <2>5. c # Idle => c.from = call[t].from
    OBVIOUS
  <2> HIDE DEF c
  <2> QED BY <1>2, <1>3, <2>1, <2>2, <2>3, <2>4, <2>5
<1>7. ASSUME HeapFull(t)
      PROVE  ZoneInv'
  <2> DEFINE d == [op |-> "malloc", req |-> call[t].req, socks |-> Tail(call[t].socks), from |-> call[t].from]
             c == IF Len(call[t].socks) = 1 THEN Idle ELSE d
  <2>1. HeapInv'
    BY <1>1, <1>7, StepInv DEF Next
  <2>2. call[t] # Idle
    BY <1>7, NotIdle DEF HeapFull
  <2>3. mem' = mem /\ block' = block /\ call' = [call EXCEPT ![t] = c]
    BY <1>7 DEF HeapFull
  <2>4. \A q \in zblocks : Quiet(q)
    BY <1>1, <2>3, UntouchedQuiet
  <2>5. d.from = call[t].from
    OBVIOUS
  <2> HIDE DEF d
  <2>6. c # Idle => c.from = call[t].from
    BY <2>5
  <2> HIDE DEF c
  <2> QED BY <1>2, <1>3, <2>1, <2>2, <2>3, <2>4, <2>6
<1>8. ASSUME NEW p \in Usable \ zblocks, Free(t, p)
      PROVE  ZoneInv'
  <2>1. HeapInv'
    BY <1>1, <1>8, StepInv DEF Next
  <2>2. p \in DOMAIN block /\ FreeBlock(p) /\ segs' = segs /\ call' = call
    BY <1>8 DEF Free, Usable
  <2>3. \A q \in zblocks : Quiet(q)
    BY <1>1, <2>2, FreeQuiet
  <2> QED BY <1>4, <2>1, <2>2, <2>3
<1>9. ASSUME NEW p \in Usable \ zblocks, NEW z \in Resizes, Realloc(t, p, z)
      PROVE  ZoneInv'
  <2>1. HeapInv'
    BY <1>1, <1>9, StepInv DEF Next
  <2>2. p \in DOMAIN block /\ call' = call
    BY <1>9 DEF Realloc, Usable
  <2>3. \A q \in zblocks : Quiet(q)
    BY <1>1, <1>9, <2>2, ReallocQuiet
  <2> QED BY <1>4, <2>1, <2>2, <2>3
<1>10. ASSUME NEW p \in Usable \ zblocks, NEW z \in Resizes, NEW socks \in Orders,
              ReallocMove(t, p, z, socks)
       PROVE  ZoneInv'
  <2>1. HeapInv'
    BY <1>1, <1>10, StepInv DEF Next
  <2> DEFINE r == [size |-> z.size, align |-> IF z.align = 0 THEN 1 ELSE z.align,
                   bound |-> 0, flags |-> [page |-> AnySize, hint |-> FALSE]]
             c == [op |-> "malloc", socks |-> socks, from |-> p, req |-> r]
  <2>2. mem' = mem /\ block' = block /\ call' = [call EXCEPT ![t] = c]
    BY <1>10 DEF ReallocMove
  <2> HIDE DEF r
  <2>3. c.from = p
    OBVIOUS
  <2> HIDE DEF c
  <2>4. \A q \in zblocks : Quiet(q)
    BY <1>1, <2>2, UntouchedQuiet
  <2> QED BY <1>3, <2>1, <2>2, <2>3, <2>4
<1>11. ASSUME ReallocFree(t)
       PROVE  ZoneInv'
  <2> DEFINE p == call[t].from
  <2>1. HeapInv'
    BY <1>1, <1>11, StepInv DEF Next
  <2>2. /\ call[t].op = "free" /\ FreeBlock(p) /\ segs' = segs
        /\ call' = [call EXCEPT ![t] = Idle] /\ call[t] # Idle
    BY <1>11, NotIdle DEF ReallocFree
  <2>3. p \in DOMAIN block /\ p \notin zblocks
    BY <1>1, <1>2, <2>2 DEF CallOf
  <2> HIDE DEF p
  <2>4. \A q \in zblocks : Quiet(q)
    BY <1>1, <2>2, <2>3, FreeQuiet
  <2> QED BY <1>3, <2>1, <2>2, <2>4
<1> QED BY <1>5, <1>6, <1>7, <1>8, <1>9, <1>10, <1>11 DEF HeapCall

LEMMA SegStep ==
  ASSUME ZoneInv, AddMemseg, UNCHANGED zone_vars
  PROVE  ZoneInv'
<1>1. HeapInv /\ MemInv /\ zblocks \subseteq DOMAIN block
  BY ZoneFacts
<1>2. HeapInv'
  BY <1>1, StepInv DEF Next
<1>3. \A q \in zblocks : Quiet(q)
  BY <1>1, AddQuiet
<1>4. call' = call
  BY DEF AddMemseg
<1>5. \A u \in Threads : call[u] # Idle => call[u].from \notin zblocks
  BY ZoneFacts DEF ZoneBlocks
<1> QED BY <1>2, <1>3, <1>4, <1>5, QuietFrame, ZoneFacts

-----------------------------------------------------------------------------
(* A number that is the greatest of a finite set, found as the one with    *)
(* the fewest above it.                                                    *)
LEMMA MostOf ==
  ASSUME NEW F, IsFiniteSet(F), F # {}, NEW f \in [F -> Nat]
  PROVE  \E x \in F : \A y \in F : f[y] <= f[x]
<1> DEFINE Up(x) == {y \in F : f[y] > f[x]}
           N == {Cardinality(Up(x)) : x \in F}
<1>1. \A x \in F : Up(x) \in SUBSET F /\ IsFiniteSet(Up(x)) /\ Cardinality(Up(x)) \in Nat
  <2>1. SUFFICES ASSUME NEW x \in F
                 PROVE  Up(x) \in SUBSET F /\ IsFiniteSet(Up(x)) /\ Cardinality(Up(x)) \in Nat
    OBVIOUS
  <2>2. Up(x) \in SUBSET F
    OBVIOUS
  <2> HIDE DEF Up
  <2>3. IsFiniteSet(Up(x))
    BY <2>2, FS_Subset
  <2> QED BY <2>2, <2>3, FS_CardinalityType
<1>2. N \in SUBSET Nat /\ N # {}
  <2> HIDE DEF Up
  <2> QED BY <1>1
<1>3. PICK m \in N : \A k \in N : m <= k
  <2> HIDE DEF N
  <2> QED BY <1>2, LeastNat
<1>4. PICK x \in F : m = Cardinality(Up(x))
  <2> HIDE DEF Up
  <2> QED BY <1>3
<1>5. ASSUME NEW y \in F, f[y] > f[x] PROVE FALSE
  <2>1. y \in Up(x) /\ y \notin Up(y)
    BY <1>5
  <2>2. Up(y) \in SUBSET Up(x)
    <3>1. SUFFICES ASSUME NEW z \in F, f[z] > f[y] PROVE f[z] > f[x]
      OBVIOUS
    <3>2. f[x] \in Nat /\ f[y] \in Nat /\ f[z] \in Nat
      OBVIOUS
    <3> QED BY <1>5, <3>1, <3>2
  <2> HIDE DEF Up
  <2>3. Cardinality(Up(y)) \in N /\ Cardinality(Up(y)) \in Nat /\ Cardinality(Up(x)) \in Nat
    BY <1>1
  <2>4. Cardinality(Up(x)) <= Cardinality(Up(y))
    BY <1>3, <1>4, <2>3
  <2>5. Cardinality(Up(y)) <= Cardinality(Up(x)) /\ (Cardinality(Up(x)) = Cardinality(Up(y)) => Up(x) = Up(y))
    BY <1>1, <2>2, FS_Subset
  <2>6. Up(x) = Up(y)
    BY <2>3, <2>4, <2>5
  <2> QED BY <2>1, <2>6
<1>6. \A y \in F : f[y] <= f[x]
  <2>1. SUFFICES ASSUME NEW y \in F PROVE f[y] <= f[x]
    OBVIOUS
  <2>2. f[y] \in Nat /\ f[x] \in Nat /\ ~(f[y] > f[x])
    BY <1>5
  <2> QED BY <2>2
<1> QED BY <1>6

(* malloc_heap_get_stats: the size is that of a free element of the heap,  *)
(* unless there is none.                                                   *)
LEMMA GreatestIs ==
  ASSUME NEW h, NEW n \in 0 .. Len(Segs), NEW B, HeapOf(h, n, B), NEW sock \in Sockets
  PROVE  \/ Greatest(h, sock) = 0
         \/ \E a \in FreeOf(h) :
              /\ Segs[h.elem[a].ms].socket_id = sock /\ h.elem[a].size = Greatest(h, sock)
              /\ h.elem[a].size \in Nat
<1> DEFINE listed(k) == {h.free_head[sock][k][j] : j \in DOMAIN h.free_head[sock][k]}
           F == UNION {listed(k) : k \in Lists}
           sizes == {h.elem[a].size : a \in F}
<1>1. Greatest(h, sock) = IF sizes = {} THEN 0 ELSE CHOOSE x \in sizes : \A y \in sizes : x >= y
  BY DEF Greatest
<1>2. /\ Typed(h, n) /\ Listed(h, FreeOf(h) \ {}) /\ IsFiniteSet(DOMAIN h.elem)
  BY DEF HeapOf, HeapBut, Tiled, Typed
<1>3. \A a \in F : a \in FreeOf(h) /\ Segs[h.elem[a].ms].socket_id = sock
  <2>1. SUFFICES ASSUME NEW k \in Lists, NEW j \in DOMAIN h.free_head[sock][k]
                 PROVE  /\ h.free_head[sock][k][j] \in FreeOf(h)
                        /\ Segs[h.elem[h.free_head[sock][k][j]].ms].socket_id = sock
    OBVIOUS
  <2>2. Belongs(h, FreeOf(h) \ {}, sock, k, h.free_head[sock][k][j])
    BY <1>2 DEF Listed
  <2> QED BY <2>2 DEF Belongs
<1> HIDE DEF F
<1>4. \A a \in F : a \in DOMAIN h.elem /\ h.elem[a].size \in Nat
  <2>1. \A a \in F : a \in DOMAIN h.elem
    BY <1>3 DEF FreeOf, ElemsOf
  <2> QED BY <1>2, <2>1, Header
<1>5. IsFiniteSet(F)
  <2>1. F \in SUBSET DOMAIN h.elem
    BY <1>4
  <2> QED BY <1>2, <2>1, FS_Subset
<1>6. CASE F = {}
  <2>1. sizes = {}
    BY <1>6
  <2> QED BY <1>1, <2>1
<1>7. CASE F # {}
  <2> DEFINE f == [a \in F |-> h.elem[a].size]
  <2>1. f \in [F -> Nat]
    BY <1>4
  <2>2. \A a \in F : f[a] = h.elem[a].size
    OBVIOUS
  <2> HIDE DEF f
  <2>3. PICK x \in F : \A y \in F : f[y] <= f[x]
    BY <1>5, <1>7, <2>1, MostOf
  <2>4. h.elem[x].size \in sizes /\ \A y \in sizes : h.elem[x].size >= y
    <3>1. h.elem[x].size \in sizes
      OBVIOUS
    <3>2. ASSUME NEW a \in F PROVE h.elem[x].size >= h.elem[a].size
      <4>1. f[a] <= f[x] /\ f[a] = h.elem[a].size /\ f[x] = h.elem[x].size
        BY <2>2, <2>3
      <4>2. h.elem[a].size \in Nat /\ h.elem[x].size \in Nat
        BY <1>4
      <4> QED BY <4>1, <4>2
    <3> QED BY <3>1, <3>2
  <2> HIDE DEF sizes
  <2>5. Greatest(h, sock) \in sizes
    BY <1>1, <2>4
  <2>6. PICK a \in F : Greatest(h, sock) = h.elem[a].size
    BY <2>5 DEF sizes
  <2> QED BY <1>3, <1>4, <2>6
<1> QED BY <1>6, <1>7

(* The sockets can be ordered.                                             *)
LEMMA LeastSocket ==
  ASSUME NEW L \in SUBSET Sockets, L # {}
  PROVE  (CHOOSE s \in L : \A u \in L : s <= u) \in L
<1>1. \A s \in Sockets : s \in Nat
  BY MallocAssumption DEF Sockets
<1>2. \E x \in L : \A y \in L : x <= y
  BY <1>1, LeastNat
<1> QED BY <1>2

-----------------------------------------------------------------------------
(* The steps of a reservation.                                             *)
LEMMA ZcallSet ==
  ASSUME ZoneInv, NEW t \in Threads, NEW d, zcall' = [zcall EXCEPT ![t] = d]
  PROVE  /\ DOMAIN zcall' = Threads /\ zcall'[t] = d
         /\ \A u \in Threads \ {t} : zcall'[u] = zcall[u]
BY ZoneFacts

LEMMA LockedSet ==
  ASSUME ZoneInv, NEW t \in Threads, NEW d, zcall' = [zcall EXCEPT ![t] = d],
         Holder(d) => mlock_free \/ Holder(zcall[t])
  PROVE  Locked(zcall')
<1>1. /\ DOMAIN zcall' = Threads /\ zcall'[t] = d
      /\ \A u \in Threads \ {t} : zcall'[u] = zcall[u]
  BY ZcallSet
<1>2. \A u, v \in Threads : Holder(zcall[u]) /\ Holder(zcall[v]) => u = v
  BY ZoneFacts DEF Locked
<1>3. mlock_free => \A u \in Threads : ~Holder(zcall[u])
  BY DEF mlock_free, Holder
<1>4. ASSUME NEW u \in Threads, NEW v \in Threads, Holder(zcall'[u]), Holder(zcall'[v]), u # v
      PROVE  FALSE
  <2>1. CASE u = t
    BY <1>1, <1>2, <1>3, <1>4, <2>1
  <2>2. CASE v = t
    BY <1>1, <1>2, <1>3, <1>4, <2>2
  <2>3. CASE u # t /\ v # t
    BY <1>1, <1>2, <1>4, <2>3
  <2> QED BY <2>1, <2>2, <2>3
<1> QED BY <1>1, <1>4 DEF Locked

LEMMA CallFrame ==
  ASSUME ZoneInv, NEW t \in Threads, NEW d, zcall' = [zcall EXCEPT ![t] = d],
         memzone' = memzone, memzone_cnt' = memzone_cnt, zblocks' = zblocks, mem' = mem, block' = block,
         HeapInv', \A u \in Threads \ {t} : call'[u] = call[u],
         call'[t] # Idle => call'[t].from \notin zblocks,
         ZoneCall(d, call'[t]), zcall[t].op # "free", d.op # "free",
         Holder(d) => \/ Holder(zcall[t]) /\ d.name = zcall[t].name
                      \/ mlock_free /\ Lookup(d.name) = {} /\ memzone_cnt < MaxMemzone
  PROVE  ZoneInv'
<1>1. zcall'[t] = d /\ \A u \in Threads \ {t} : zcall'[u] = zcall[u]
  BY ZcallSet
<1>2. Locked(zcall')
  BY LockedSet
<1>3. \A u \in Threads : ZoneCall(zcall'[u], call'[u])
  BY <1>1, ZoneFacts
<1>4. Used' = Used
  BY DEF Used
<1>5. Reserving'
  <2>1. SUFFICES ASSUME NEW u \in Threads, Holder(zcall'[u])
                 PROVE  {i \in Used : memzone[i].name = zcall'[u].name} = {} /\ memzone_cnt < MaxMemzone
    BY <1>4 DEF Reserving, Lookup
  <2>2. \A v \in Threads : Holder(zcall[v]) =>
          {i \in Used : memzone[i].name = zcall[v].name} = {} /\ memzone_cnt < MaxMemzone
    BY ZoneFacts DEF Reserving, Lookup
  <2>3. CASE u = t
    BY <1>1, <2>1, <2>2, <2>3 DEF Lookup
  <2>4. CASE u # t
    BY <1>1, <2>1, <2>2, <2>4
  <2> QED BY <2>3, <2>4
<1>6. \A q \in zblocks : Quiet(q)
  BY UntouchedQuiet, ZoneFacts
<1>7. TableSound'
  BY <1>6, TableFrame, ZoneFacts
<1>8. ZoneBlocks'
  <2>1. Freeing' = Freeing /\ \A u \in Freeing : zcall'[u] = zcall[u]
    BY <1>1 DEF Freeing
  <2>2. zblocks \subseteq DOMAIN block'
    BY ZoneFacts
  <2>3. \A u \in Threads : call'[u] # Idle => call'[u].from \notin zblocks
    BY ZoneFacts DEF ZoneBlocks
  <2> QED BY <2>1, <2>2, <2>3, BlocksFrame, ZoneFacts
<1> QED BY <1>2, <1>3, <1>5, <1>7, <1>8 DEF ZoneInv

LEMMA IdleOp == Idle.op = "idle" /\ ~Holder(Idle)
BY DEF Idle, Holder

LEMMA TriesAre ==
  ASSUME NEW socket \in Sockets \cup {-1}, NEW socks \in Tries(socket)
  PROVE  socks \in Seq(Sockets) /\ socks # <<>>
<1>1. socks \in Orders \cup {<<s>> : s \in Sockets}
  BY DEF Tries
<1> QED BY <1>1, OrdersAre

(* The heap's call of a reservation.                                       *)
LEMMA AllocateStep ==
  ASSUME ZoneInv, NEW t \in Threads, NEW n, NEW z \in ZoneRequests, NEW len \in Nat, len # 0,
         NEW socket \in Sockets \cup {-1}, NEW max \in Nat, Allocate(t, n, z, len, socket, max),
         UNCHANGED <<mem, segs, alloc_count, block, memzone, memzone_cnt, zblocks>>,
         zcall[t].op # "free", max > 0 => z.bound = 0 /\ len = WholeLen(max, AtLeastOne(z.align)),
         \/ Holder(zcall[t]) /\ n = zcall[t].name
         \/ mlock_free /\ Lookup(n) = {} /\ memzone_cnt < MaxMemzone
  PROVE  ZoneInv'
<1> DEFINE r == Request(z, len)
           d == [op |-> "alloc", name |-> n, max |-> max]
<1>1. PICK socks \in Tries(socket) :
        /\ call' = [call EXCEPT ![t] = [op |-> "malloc", req |-> r, socks |-> socks, from |-> NULL]]
        /\ zcall' = [zcall EXCEPT ![t] = d]
  BY DEF Allocate
<1>2. r.size = len /\ r.align = AtLeastOne(z.align) /\ r.bound = z.bound
  BY DEF Request
<1>3. Requested(r)
  <2>1. z.align \in Nat /\ z.bound \in Nat
    BY MemzoneAssumption
  <2> HIDE DEF r
  <2> QED BY <1>2, <2>1 DEF Requested, AtLeastOne
<1> HIDE DEF r
<1> DEFINE c == [op |-> "malloc", req |-> r, socks |-> socks, from |-> NULL]
<1>4. c.op = "malloc" /\ c.req = r /\ c.from = NULL /\ c # Idle
  <2>1. c.op = "malloc" /\ c.req = r /\ c.from = NULL
    OBVIOUS
  <2> QED BY <2>1, NotIdle
<1>5. socks \in Seq(Sockets) /\ socks # <<>>
  BY TriesAre
<1>6. CallsOf(call', block)
  BY <1>1, <1>3, <1>5, MallocCalls, ZoneFacts
<1>7. HeapInv'
  <2>1. MemInv
    BY ZoneFacts
  <2> QED BY <1>6, <2>1 DEF HeapInv, MemInv
<1>8. call'[t] = c /\ \A u \in Threads \ {t} : call'[u] = call[u]
  <2> HIDE DEF c
  <2>1. call' = [call EXCEPT ![t] = c]
    BY <1>1 DEF c
  <2> QED BY <2>1, CallSet, ZoneFacts
<1>9. d.op = "alloc" /\ d.name = n /\ d.max = max /\ d # Idle
  <2>1. d.op = "alloc" /\ d.name = n /\ d.max = max
    OBVIOUS
  <2> QED BY <2>1, NotIdle
<1> HIDE DEF c, d
<1>10. ZoneCall(d, c)
  BY <1>2, <1>4, <1>9 DEF ZoneCall
<1>11. c.from \notin zblocks
  BY <1>4, ZoneFacts
<1> QED BY <1>1, <1>7, <1>8, <1>9, <1>10, <1>11, CallFrame

LEMMA ReserveStep ==
  ASSUME ZoneInv, NEW t \in Threads, NEW n \in ZoneNames, NEW z \in ZoneRequests, Reserve(t, n, z)
  PROVE  ZoneInv'
<1>1. /\ call[t] = Idle /\ zcall[t] = Idle /\ mlock_free /\ ~Refused(n, z)
      /\ UNCHANGED <<mem, segs, alloc_count, block, memzone, memzone_cnt, zblocks>>
  BY DEF Reserve, Ready
<1>2. zcall[t].op # "free"
  BY <1>1, IdleOp
<1>3. Lookup(n) = {} /\ memzone_cnt < MaxMemzone
  <2>1. memzone_cnt \in Nat /\ MaxMemzone \in Nat
    BY ZoneFacts, UsedFinite, MemzoneAssumption DEF TableSound
  <2> QED BY <1>1, <2>1 DEF Refused
<1>4. z.len \in Nat /\ z.bound \in Nat /\ z.align \in Nat /\ z.socket \in Sockets \cup {-1}
  BY MemzoneAssumption
<1>5. CASE z.len = 0 /\ z.bound = 0
  <2> DEFINE d == [op |-> "max", name |-> n, req |-> z, len |-> 0, socket |-> z.socket, look |-> Sockets]
  <2>1. zcall' = [zcall EXCEPT ![t] = d] /\ call' = call
    BY <1>5 DEF Reserve
  <2>2. /\ d.op = "max" /\ d.name = n /\ d.req = z /\ d.len = 0 /\ d.socket = z.socket /\ d.look = Sockets
        /\ DOMAIN d = {"op", "name", "req", "len", "socket", "look"}
    OBVIOUS
  <2> HIDE DEF d
  <2>3. d # Idle
    BY <2>2, NotIdle
  <2>4. ZoneCall(d, call[t])
    BY <1>1, <1>4, <1>5, <2>2, <2>3 DEF ZoneCall
  <2>5. HeapInv'
    <3>1. HeapInv
      BY ZoneFacts
    <3> QED BY <1>1, <2>1, <3>1 DEF HeapInv, MemInv
  <2> QED BY <1>1, <1>2, <1>3, <2>1, <2>2, <2>4, <2>5, CallFrame
<1>6. CASE ~(z.len = 0 /\ z.bound = 0)
  <2> DEFINE len == IF z.len = 0 THEN z.bound ELSE z.len
  <2>1. Allocate(t, n, z, len, z.socket, 0)
    BY <1>6 DEF Reserve
  <2>2. len \in Nat /\ len # 0
    BY <1>4, <1>6
  <2> HIDE DEF len
  <2> QED BY <1>1, <1>2, <1>3, <1>4, <2>1, <2>2, AllocateStep
<1> QED BY <1>5, <1>6

LEMMA ZoneCallMax ==
  ASSUME ZoneInv, NEW t \in Threads, zcall[t].op = "max"
  PROVE  /\ zcall[t] # Idle /\ call[t] = Idle /\ zcall[t].req \in ZoneRequests /\ zcall[t].req.bound = 0
         /\ zcall[t].len \in Nat /\ zcall[t].socket \in Sockets \cup {-1} /\ zcall[t].look \subseteq Sockets
         /\ Holder(zcall[t]) /\ DOMAIN zcall[t] = {"op", "name", "req", "len", "socket", "look"}
<1>1. ZoneCall(zcall[t], call[t])
  BY ZoneFacts
<1>2. zcall[t] # Idle
  BY IdleOp
<1> QED BY <1>1, <1>2 DEF ZoneCall, Holder

LEMMA MaxStep ==
  ASSUME ZoneInv, NEW t \in Threads, MaxFreeElem(t)
  PROVE  ZoneInv'
<1> DEFINE c == zcall[t]
           sock == CHOOSE s \in c.look : \A u \in c.look : s <= u
           len == Greatest(mem, sock)
           skip == c.req.socket # AnySocket /\ c.req.socket # sock
           d == IF skip \/ len <= c.len THEN [c EXCEPT !.look = @ \ {sock}]
                ELSE [c EXCEPT !.look = @ \ {sock}, !.len = len, !.socket = sock]
<1>1. /\ c.op = "max" /\ c.look # {} /\ zcall' = [zcall EXCEPT ![t] = d]
      /\ UNCHANGED <<vars, memzone, memzone_cnt, zblocks>>
  BY ZoneFacts DEF MaxFreeElem
<1>2. /\ c # Idle /\ call[t] = Idle /\ c.req \in ZoneRequests /\ c.req.bound = 0
      /\ c.len \in Nat /\ c.socket \in Sockets \cup {-1} /\ c.look \subseteq Sockets /\ Holder(c)
      /\ DOMAIN c = {"op", "name", "req", "len", "socket", "look"}
  BY <1>1, ZoneCallMax
<1>3. sock \in Sockets
  <2> DEFINE L == c.look
  <2>1. L \in SUBSET Sockets /\ L # {}
    BY <1>1, <1>2
  <2>2. (CHOOSE s \in L : \A u \in L : s <= u) \in L
    <3> HIDE DEF L
    <3> QED BY <2>1, LeastSocket
  <2> QED BY <2>1, <2>2
<1> HIDE DEF sock
<1>4. len \in Nat
  <2>1. segs \in 0 .. Len(Segs) /\ HeapOf(mem, segs, block)
    BY ZoneFacts, MemFacts
  <2>2. \/ len = 0
        \/ \E a \in FreeOf(mem) : mem.elem[a].size = len /\ mem.elem[a].size \in Nat
    BY <1>3, <2>1, GreatestIs
  <2> QED BY <2>2
<1> HIDE DEF len, skip, c
<1>5. /\ d.op = c.op /\ d.name = c.name /\ d.req = c.req /\ DOMAIN d = DOMAIN c
      /\ d.len \in Nat /\ d.socket \in Sockets \cup {-1} /\ d.look \subseteq Sockets
  <2> DEFINE e == [c EXCEPT !.look = @ \ {sock}]
             f == [c EXCEPT !.look = @ \ {sock}, !.len = len, !.socket = sock]
  <2>1. /\ e.op = c.op /\ e.name = c.name /\ e.req = c.req /\ e.len = c.len /\ e.socket = c.socket
        /\ e.look = c.look \ {sock} /\ DOMAIN e = DOMAIN c
    BY <1>2
  <2>2. /\ f.op = c.op /\ f.name = c.name /\ f.req = c.req /\ f.len = len /\ f.socket = sock
        /\ f.look = c.look \ {sock} /\ DOMAIN f = DOMAIN c
    BY <1>2
  <2>3. d = e \/ d = f
    OBVIOUS
  <2> HIDE DEF d, e, f
  <2> QED BY <1>2, <1>3, <1>4, <2>1, <2>2, <2>3
<1> HIDE DEF d
<1>6. d # Idle /\ d.op # "free"
  BY <1>1, <1>5, NotIdle
<1>7. ZoneCall(d, call[t])
  BY <1>1, <1>2, <1>5, <1>6 DEF ZoneCall
<1>8. mem' = mem /\ block' = block /\ call' = call /\ HeapInv'
  <2>1. HeapInv
    BY ZoneFacts
  <2> QED BY <1>1, <2>1 DEF HeapInv, MemInv, vars
<1>9. Holder(zcall[t]) /\ d.name = zcall[t].name /\ zcall[t].op # "free"
  BY <1>1, <1>2, <1>5 DEF c
<1> QED BY <1>1, <1>2, <1>6, <1>7, <1>8, <1>9, CallFrame

LEMMA WholeLenType ==
  ASSUME NEW len \in Nat, NEW align \in Nat \ {0}
  PROVE  WholeLen(len, align) \in Nat
BY DEF WholeLen

LEMMA WholeStep ==
  ASSUME ZoneInv, NEW t \in Threads, ReserveWhole(t)
  PROVE  ZoneInv'
<1> DEFINE c == zcall[t]
           len == WholeLen(c.len, AtLeastOne(c.req.align))
<1>1. /\ c.op = "max" /\ UNCHANGED <<mem, segs, alloc_count, block, memzone, memzone_cnt, zblocks>>
      /\ IF len = 0 THEN zcall' = [zcall EXCEPT ![t] = Idle] /\ UNCHANGED call
         ELSE Allocate(t, c.name, c.req, len, c.socket, c.len)
  BY DEF ReserveWhole
<1>2. /\ call[t] = Idle /\ c.req \in ZoneRequests /\ c.req.bound = 0
      /\ c.len \in Nat /\ c.socket \in Sockets \cup {-1} /\ Holder(c)
  BY <1>1, ZoneCallMax
<1>3. len \in Nat
  <2>1. c.req.align \in Nat
    BY <1>2, MemzoneAssumption
  <2>2. AtLeastOne(c.req.align) \in Nat \ {0}
    BY <2>1 DEF AtLeastOne
  <2> QED BY <1>2, <2>2, WholeLenType
<1>4. CASE len = 0
  <2>1. HeapInv' /\ call' = call
    <3>1. HeapInv
      BY ZoneFacts
    <3> QED BY <1>1, <1>4, <3>1 DEF HeapInv, MemInv
  <2>2. zcall' = [zcall EXCEPT ![t] = Idle]
    BY <1>1, <1>4
  <2>3. ZoneCall(Idle, call[t])
    BY DEF ZoneCall
  <2>4. zcall[t].op # "free" /\ Idle.op # "free" /\ ~Holder(Idle)
    BY <1>1, IdleOp
  <2> QED BY <1>1, <1>2, <2>1, <2>2, <2>3, <2>4, CallFrame
<1>5. CASE len # 0
  <2>1. Allocate(t, c.name, c.req, len, c.socket, c.len)
    BY <1>1, <1>5
  <2>2. c.req.bound = 0 /\ len = WholeLen(c.len, AtLeastOne(c.req.align))
    BY <1>2
  <2>3. zcall[t].op # "free" /\ Holder(zcall[t])
    BY <1>1, <1>2
  <2> HIDE DEF len
  <2> QED BY <1>1, <1>2, <1>3, <1>5, <2>1, <2>2, <2>3, AllocateStep
<1> QED BY <1>4, <1>5

LEMMA ZoneCallAlloc ==
  ASSUME ZoneInv, NEW t \in Threads, zcall[t].op = "alloc"
  PROVE  /\ zcall[t] # Idle /\ call[t] # Idle /\ call[t].op = "malloc" /\ call[t].from = NULL
         /\ zcall[t].max \in Nat /\ Holder(zcall[t]) /\ CallOf(call[t], block) /\ Requested(call[t].req)
         /\ zcall[t].max > 0 =>
              call[t].req.bound = 0 /\ call[t].req.size = WholeLen(zcall[t].max, call[t].req.align)
<1>1. ZoneCall(zcall[t], call[t]) /\ CallOf(call[t], block)
  BY ZoneFacts DEF HeapInv, CallsOf
<1>2. zcall[t] # Idle
  BY IdleOp
<1>3. /\ call[t] # Idle /\ call[t].op = "malloc" /\ call[t].from = NULL /\ zcall[t].max \in Nat
      /\ zcall[t].max > 0 =>
           call[t].req.bound = 0 /\ call[t].req.size = WholeLen(zcall[t].max, call[t].req.align)
  BY <1>1, <1>2 DEF ZoneCall
<1>4. Requested(call[t].req)
  BY <1>1, <1>3 DEF CallOf
<1> QED BY <1>1, <1>2, <1>3, <1>4 DEF Holder

LEMMA FullZoneStep ==
  ASSUME ZoneInv, NEW t \in Threads, ZoneFull(t)
  PROVE  ZoneInv'
<1> DEFINE d == [op |-> "malloc", req |-> call[t].req, socks |-> Tail(call[t].socks), from |-> call[t].from]
           c == IF Len(call[t].socks) = 1 THEN Idle ELSE d
<1>1. /\ zcall[t].op = "alloc" /\ HeapFull(t)
      /\ zcall' = IF call'[t] = Idle THEN [zcall EXCEPT ![t] = Idle] ELSE zcall
      /\ UNCHANGED <<memzone, memzone_cnt, zblocks>>
  BY DEF ZoneFull
<1>2. mem' = mem /\ block' = block /\ call' = [call EXCEPT ![t] = c]
  BY <1>1 DEF HeapFull
<1>3. HeapInv'
  BY <1>1, StepInv, ZoneFacts DEF Next
<1>4. d.op = "malloc" /\ d.req = call[t].req /\ d.from = call[t].from /\ d # Idle
  <2>1. d.op = "malloc" /\ d.req = call[t].req /\ d.from = call[t].from
    OBVIOUS
  <2> QED BY <2>1, NotIdle
<1> HIDE DEF d
<1>5. c = Idle \/ c = d
  OBVIOUS
<1> HIDE DEF c
<1>6. call'[t] = c /\ \A u \in Threads \ {t} : call'[u] = call[u]
  BY <1>2, CallSet, ZoneFacts
<1>7. call'[t] # Idle => call'[t].from \notin zblocks
  BY <1>1, <1>4, <1>5, <1>6, ZoneFacts, ZoneCallAlloc
<1>8. CASE c = Idle
  <2>1. zcall' = [zcall EXCEPT ![t] = Idle] /\ ZoneCall(Idle, call'[t])
    BY <1>1, <1>6, <1>8 DEF ZoneCall
  <2>2. zcall[t].op # "free" /\ Idle.op # "free" /\ ~Holder(Idle)
    BY <1>1, IdleOp
  <2> QED BY <1>1, <1>2, <1>3, <1>6, <1>7, <2>1, <2>2, CallFrame
<1>9. CASE c = d
  <2>1. zcall' = zcall
    BY <1>1, <1>4, <1>6, <1>9
  <2>2. ZoneCall(zcall[t], call'[t])
    BY <1>1, <1>4, <1>6, <1>9, ZoneCallAlloc DEF ZoneCall
  <2>3. \A u \in Threads : ZoneCall(zcall[u], call'[u])
    BY <1>6, <2>2, ZoneFacts
  <2>4. \A u \in Threads : call'[u] # Idle => call'[u].from \notin zblocks
    BY <1>6, <1>7, ZoneFacts DEF ZoneBlocks
  <2>5. \A q \in zblocks : Quiet(q)
    BY <1>2, UntouchedQuiet, ZoneFacts
  <2>6. UNCHANGED zone_vars
    BY <1>1, <2>1 DEF zone_vars
  <2> QED BY <1>3, <2>3, <2>4, <2>5, <2>6, QuietFrame
<1> QED BY <1>5, <1>8, <1>9

(* get_next_free_memzone finds a slot when the count leaves room.          *)
LEMMA NextFreeIs ==
  ASSUME memzone_cnt = Cardinality(Used), memzone_cnt < MaxMemzone
  PROVE  NextFree \in Slots \ Used
<1>1. Slots \ Used # {}
  <2>1. SUFFICES ASSUME Slots \ Used = {} PROVE FALSE
    OBVIOUS
  <2>2. Used = Slots
    BY <2>1, UsedFinite
  <2>3. Cardinality(Used) = MaxMemzone /\ MaxMemzone \in Nat
    BY <2>2, SlotsFinite, MemzoneAssumption
  <2> QED BY <2>3
<1>2. Slots \ Used \in SUBSET Nat
  BY SlotsFinite
<1>3. \E i \in Slots \ Used : \A j \in Slots \ Used : i <= j
  BY <1>1, <1>2, LeastNat
<1> QED BY <1>3 DEF NextFree

LEMMA ZoneAllocStep ==
  ASSUME ZoneInv, NEW t \in Threads, ZoneAlloc(t)
  PROVE  ZoneInv'
<1> DEFINE r == call[t].req
<1>1. zcall[t].op = "alloc" /\ HeapAlloc(t) /\ memzone_cnt' = memzone_cnt + 1
        /\ zcall' = [zcall EXCEPT ![t] = Idle]
  BY DEF ZoneAlloc
<1>2. /\ call[t] # Idle /\ call[t].from = NULL /\ Holder(zcall[t]) /\ CallOf(call[t], block)
  BY <1>1, ZoneCallAlloc
<1>3. HeapInv /\ MemInv /\ TableSound /\ ZoneBlocks /\ Reserving /\ zblocks \subseteq DOMAIN block
  BY ZoneFacts
<1>4. HeapInv'
  BY <1>1, <1>3, StepInv DEF Next
<1>5. PICK p : /\ Served(mem, mem', segs, block, r, Head(call[t].socks), p)
               /\ block' = With(block, p, r.size)
  BY <1>1, <1>2, <1>3, AllocStep
<1>6. p \notin DOMAIN block /\ DOMAIN block' = DOMAIN block \cup {p} /\ block'[p] = r.size
  BY <1>5 DEF Served, Allocated, With
<1>7. (CHOOSE x \in DOMAIN block' : x \notin DOMAIN block) = p
  BY <1>6
<1> DEFINE i == NextFree
           m == [name |-> zcall[t].name, addr |-> p, len |-> r.size, socket_id |-> SocketOf(mem', p)]
<1>8. memzone' = [memzone EXCEPT ![i] = m] /\ zblocks' = zblocks \cup {p}
  BY <1>7 DEF ZoneAlloc, SocketOf
<1>9. p \in Nat /\ p # NULL /\ p \notin zblocks
  <2>1. DOMAIN block' \subseteq Nat
    <3>1. MemInv'
      BY <1>4 DEF HeapInv
    <3>2. Owned(mem', segs', block', {})
      BY <3>1 DEF MemInv, HeapOf, HeapBut
    <3> QED BY <3>2 DEF Owned
  <2>2. p \in Nat
    BY <1>6, <2>1
  <2> QED BY <1>3, <1>6, <2>2
<1>10. i \in Slots \ Used
  BY <1>2, <1>3, NextFreeIs DEF TableSound, Reserving
<1>11. m.name = zcall[t].name /\ m.addr = p /\ m.len = r.size /\ m.socket_id = SocketOf(mem', p)
  OBVIOUS
<1> HIDE DEF m, i, r
<1>12. DOMAIN memzone' = Slots /\ memzone'[i] = m /\ \A j \in Slots \ {i} : memzone'[j] = memzone[j]
  BY <1>3, <1>8, <1>10 DEF TableSound
<1>13. Used' = Used \cup {i} /\ i \notin Used /\ \A j \in Used : memzone'[j] = memzone[j] /\ j # i
  <2>1. Used' = {j \in Slots : memzone'[j].addr # NULL}
    BY DEF Used
  <2>2. Used = {j \in Slots : memzone[j].addr # NULL}
    BY DEF Used
  <2> QED BY <1>9, <1>10, <1>11, <1>12, <2>1, <2>2
<1>14. call'[t] = Idle /\ \A u \in Threads \ {t} : call'[u] = call[u]
  <2>1. call' = [call EXCEPT ![t] = Idle]
    BY <1>1, <1>2, <1>3 DEF HeapAlloc, HeapInv, CallsOf
  <2> QED BY <1>3, <2>1, CallSet
<1>15. zcall'[t] = Idle /\ \A u \in Threads \ {t} : zcall'[u] = zcall[u]
  BY <1>1, ZcallSet
<1>16. Locked(zcall')
  BY <1>1, IdleOp, LockedSet
<1>17. \A u \in Threads : ~Holder(zcall'[u])
  <2>1. \A u \in Threads \ {t} : ~Holder(zcall[u])
    BY <1>2, ZoneFacts DEF Locked
  <2> QED BY <1>15, <2>1, IdleOp
<1>18. \A u \in Threads : ZoneCall(zcall'[u], call'[u])
  <2>1. ZoneCall(Idle, Idle)
    BY DEF ZoneCall
  <2> QED BY <1>14, <1>15, <2>1, ZoneFacts
<1>19. \A q \in zblocks : Quiet(q)
  BY <1>1, <1>2, <1>3, AllocQuiet
<1>20. TableSound'
  <2>1. memzone_cnt' = Cardinality(Used')
    <3>1. memzone_cnt = Cardinality(Used)
      BY <1>3 DEF TableSound
    <3>2. Cardinality(Used \cup {i}) = Cardinality(Used) + 1
      BY <1>13, UsedFinite, FS_AddElement
    <3> QED BY <1>1, <1>13, <3>1, <3>2
  <2>2. ASSUME NEW j \in Used
        PROVE  ZoneOwns(mem', block', zblocks', memzone'[j]) /\ memzone[j].addr \in zblocks /\ memzone[j].name # m.name
    <3>1. ZoneOwns(mem, block, zblocks, memzone[j])
      BY <1>3 DEF TableSound
    <3>2. memzone[j].addr \in zblocks /\ Quiet(memzone[j].addr)
      BY <1>19, <3>1 DEF ZoneOwns
    <3>3. ZoneOwns(mem', block', zblocks', memzone'[j])
      BY <1>8, <1>13, <3>1, <3>2 DEF ZoneOwns, Quiet
    <3>4. memzone[j].name # m.name
      BY <1>2, <1>3, <1>11 DEF Reserving, Lookup
    <3> QED BY <3>2, <3>3, <3>4
  <2>3. ZoneOwns(mem', block', zblocks', memzone'[i])
    BY <1>6, <1>8, <1>11, <1>12 DEF ZoneOwns
  <2>4. ASSUME NEW j \in Used', NEW k \in Used',
               memzone'[j].name = memzone'[k].name \/ memzone'[j].addr = memzone'[k].addr, j # k
        PROVE  FALSE
    <3>1. CASE j = i
      <4>1. k \in Used /\ memzone'[k] = memzone[k] /\ memzone'[j] = m
        BY <1>12, <1>13, <2>4, <3>1
      <4> QED BY <1>9, <1>11, <2>2, <2>4, <4>1
    <3>2. CASE k = i
      <4>1. j \in Used /\ memzone'[j] = memzone[j] /\ memzone'[k] = m
        BY <1>12, <1>13, <2>4, <3>2
      <4> QED BY <1>9, <1>11, <2>2, <2>4, <4>1
    <3>3. CASE j # i /\ k # i
      <4>1. j \in Used /\ memzone'[j] = memzone[j] /\ k \in Used /\ memzone'[k] = memzone[k]
        BY <1>13, <3>3
      <4> QED BY <1>3, <2>4, <4>1 DEF TableSound
    <3> QED BY <3>1, <3>2, <3>3
  <2>5. \A j \in Used' : ZoneOwns(mem', block', zblocks', memzone'[j])
    BY <1>13, <2>2, <2>3
  <2> QED BY <1>12, <2>1, <2>4, <2>5 DEF TableSound
<1>21. Freeing' = Freeing /\ \A u \in Freeing : zcall'[u] = zcall[u] /\ u # t
  BY <1>1, <1>15, IdleOp DEF Freeing
<1>22. ZoneBlocks'
  <2>1. zblocks' \subseteq DOMAIN block'
    BY <1>3, <1>6, <1>8
  <2>2. ASSUME NEW u \in Threads, call'[u] # Idle PROVE call'[u].from \notin zblocks'
    <3>1. u # t /\ call'[u] = call[u]
      BY <1>14, <2>2
    <3>2. call[u].from \notin zblocks
      BY <1>3, <2>2, <3>1 DEF ZoneBlocks
    <3>3. call[u].from \in DOMAIN block \cup {NULL}
      <4>1. CallOf(call[u], block)
        BY <1>3 DEF HeapInv, CallsOf
      <4> QED BY <2>2, <3>1, <4>1 DEF CallOf
    <3> QED BY <1>6, <1>8, <1>9, <3>1, <3>2, <3>3
  <2>3. \A u \in Freeing : zcall[u].addr \in zblocks
    BY <1>3 DEF ZoneBlocks
  <2>4. \A u, v \in Freeing : zcall[u].addr = zcall[v].addr => u = v
    BY <1>3 DEF ZoneBlocks
  <2>5. ASSUME NEW j \in Used', NEW u \in Freeing PROVE memzone'[j].addr # zcall[u].addr
    <3>1. CASE j = i
      BY <1>9, <1>11, <1>12, <2>3, <3>1
    <3>2. CASE j # i
      BY <1>3, <1>13, <3>2 DEF ZoneBlocks
    <3> QED BY <3>1, <3>2
  <2>6. ASSUME NEW q \in zblocks'
        PROVE  (\E j \in Used' : q = memzone'[j].addr) \/ (\E u \in Freeing : q = zcall[u].addr)
    <3>1. CASE q = p
      BY <1>11, <1>12, <1>13, <3>1
    <3>2. CASE q \in zblocks
      <4>1. (\E j \in Used : q = memzone[j].addr) \/ (\E u \in Freeing : q = zcall[u].addr)
        BY <1>3, <3>2 DEF ZoneBlocks
      <4> QED BY <1>13, <4>1
    <3> QED BY <1>8, <3>1, <3>2
  <2> QED BY <1>8, <1>21, <2>1, <2>2, <2>3, <2>4, <2>5, <2>6 DEF ZoneBlocks
<1>23. Reserving'
  BY <1>17 DEF Reserving
<1> QED BY <1>4, <1>16, <1>18, <1>20, <1>22, <1>23 DEF ZoneInv

(* The slot is cleared; its block is now that of the call.                 *)
LEMMA ZoneFreeStep ==
  ASSUME ZoneInv, NEW t \in Threads, NEW i \in Slots, ZoneFree(t, i)
  PROVE  ZoneInv'
<1> DEFINE d == [op |-> "free", addr |-> memzone[i].addr]
<1>1. /\ call[t] = Idle /\ zcall[t] = Idle /\ mlock_free /\ i \in Used
      /\ memzone' = [memzone EXCEPT ![i] = NoZone] /\ memzone_cnt' = memzone_cnt - 1
      /\ zcall' = [zcall EXCEPT ![t] = d] /\ UNCHANGED <<vars, zblocks>>
  BY DEF ZoneFree, Ready
<1>2. HeapInv /\ TableSound /\ ZoneBlocks /\ Reserving /\ zblocks \subseteq DOMAIN block
  BY ZoneFacts
<1>3. mem' = mem /\ block' = block /\ call' = call /\ zblocks' = zblocks /\ HeapInv'
  BY <1>1, <1>2 DEF HeapInv, MemInv, vars
<1>4. d.op = "free" /\ d.addr = memzone[i].addr /\ d # Idle /\ ~Holder(d)
  <2>1. d.op = "free" /\ d.addr = memzone[i].addr
    OBVIOUS
  <2> QED BY <2>1, NotIdle DEF Holder
<1> HIDE DEF d
<1>5. zcall'[t] = d /\ \A u \in Threads \ {t} : zcall'[u] = zcall[u]
  BY <1>1, ZcallSet
<1>6. Locked(zcall')
  BY <1>1, <1>4, LockedSet
<1>7. \A u \in Threads : ~Holder(zcall'[u])
  BY <1>1, <1>4, <1>5 DEF mlock_free, Holder
<1>8. \A u \in Threads : ZoneCall(zcall'[u], call'[u])
  <2>1. ZoneCall(d, call[t])
    BY <1>1, <1>4 DEF ZoneCall
  <2> QED BY <1>3, <1>5, <2>1, ZoneFacts
<1>9. DOMAIN memzone' = Slots /\ memzone'[i] = NoZone /\ \A j \in Slots \ {i} : memzone'[j] = memzone[j]
  BY <1>1, <1>2 DEF TableSound
<1>10. Used' = Used \ {i} /\ \A j \in Used \ {i} : memzone'[j] = memzone[j]
  <2>1. Used' = {j \in Slots : memzone'[j].addr # NULL}
    BY DEF Used
  <2>2. Used = {j \in Slots : memzone[j].addr # NULL}
    BY DEF Used
  <2>3. NoZone.addr = NULL
    BY DEF NoZone
  <2> QED BY <1>9, <2>1, <2>2, <2>3
<1>11. TableSound'
  <2>1. memzone_cnt' = Cardinality(Used')
    <3>1. memzone_cnt = Cardinality(Used)
      BY <1>2 DEF TableSound
    <3>2. Cardinality(Used \ {i}) = Cardinality(Used) - 1
      BY <1>1, UsedFinite, FS_RemoveElement
    <3> QED BY <1>1, <1>10, <3>1, <3>2
  <2>2. ASSUME NEW j \in Used', NEW k \in Used',
               memzone'[j].name = memzone'[k].name \/ memzone'[j].addr = memzone'[k].addr
        PROVE  j = k
    <3>1. j \in Used /\ memzone'[j] = memzone[j] /\ k \in Used /\ memzone'[k] = memzone[k]
      BY <1>10
    <3> QED BY <1>2, <2>2, <3>1 DEF TableSound
  <2>3. ASSUME NEW j \in Used' PROVE ZoneOwns(mem', block', zblocks', memzone'[j])
    <3>1. j \in Used /\ memzone'[j] = memzone[j]
      BY <1>10
    <3>2. ZoneOwns(mem, block, zblocks, memzone[j])
      BY <1>2, <3>1 DEF TableSound
    <3> QED BY <1>3, <3>1, <3>2
  <2> QED BY <1>9, <2>1, <2>2, <2>3 DEF TableSound
<1>12. Freeing' = Freeing \cup {t} /\ t \notin Freeing /\ \A u \in Freeing : zcall'[u] = zcall[u] /\ u # t
  <2>1. Freeing' = {u \in Threads : zcall'[u].op = "free"}
    BY DEF Freeing
  <2>2. Freeing = {u \in Threads : zcall[u].op = "free"}
    BY DEF Freeing
  <2>3. zcall[t].op # "free"
    BY <1>1, IdleOp
  <2> QED BY <1>4, <1>5, <2>1, <2>2, <2>3
<1>13. ZoneBlocks'
  <2>1. \A u \in Threads : call'[u] # Idle => call'[u].from \notin zblocks'
    BY <1>2, <1>3 DEF ZoneBlocks
  <2>2. memzone[i].addr \in zblocks
    BY <1>1, <1>2 DEF TableSound, ZoneOwns
  <2>3. \A u \in Freeing : memzone[i].addr # zcall[u].addr
    BY <1>1, <1>2 DEF ZoneBlocks
  <2>4. \A u \in Freeing' : zcall'[u].addr \in zblocks'
    BY <1>2, <1>3, <1>4, <1>5, <1>12, <2>2 DEF ZoneBlocks
  <2>5. ASSUME NEW u \in Freeing', NEW v \in Freeing', zcall'[u].addr = zcall'[v].addr, u # v
        PROVE  FALSE
    <3>1. CASE u = t
      BY <1>4, <1>5, <1>12, <2>3, <2>5, <3>1
    <3>2. CASE v = t
      BY <1>4, <1>5, <1>12, <2>3, <2>5, <3>2
    <3>3. CASE u # t /\ v # t
      BY <1>2, <1>12, <2>5, <3>3 DEF ZoneBlocks
    <3> QED BY <3>1, <3>2, <3>3
  <2>6. ASSUME NEW j \in Used', NEW u \in Freeing' PROVE memzone'[j].addr # zcall'[u].addr
    <3>1. j \in Used /\ j # i /\ memzone'[j] = memzone[j]
      BY <1>10
    <3>2. CASE u = t
      BY <1>1, <1>2, <1>4, <1>5, <3>1, <3>2 DEF TableSound
    <3>3. CASE u # t
      BY <1>2, <1>12, <3>1, <3>3 DEF ZoneBlocks
    <3> QED BY <3>2, <3>3
  <2>7. ASSUME NEW q \in zblocks'
        PROVE  (\E j \in Used' : q = memzone'[j].addr) \/ (\E u \in Freeing' : q = zcall'[u].addr)
    <3>1. (\E j \in Used : q = memzone[j].addr) \/ (\E u \in Freeing : q = zcall[u].addr)
      BY <1>2, <1>3 DEF ZoneBlocks
    <3>2. ASSUME NEW j \in Used, q = memzone[j].addr
          PROVE  (\E k \in Used' : q = memzone'[k].addr) \/ (\E u \in Freeing' : q = zcall'[u].addr)
      <4>1. CASE j = i
        BY <1>4, <1>5, <1>12, <3>2, <4>1
      <4>2. CASE j # i
        BY <1>10, <3>2, <4>2
      <4> QED BY <4>1, <4>2
    <3>3. ASSUME NEW u \in Freeing, q = zcall[u].addr
          PROVE  \E v \in Freeing' : q = zcall'[v].addr
      BY <1>12, <3>3
    <3> QED BY <3>1, <3>2, <3>3
  <2> QED BY <1>2, <1>3, <2>1, <2>4, <2>5, <2>6, <2>7 DEF ZoneBlocks
<1>14. Reserving'
  BY <1>7 DEF Reserving
<1> QED BY <1>3, <1>6, <1>8, <1>11, <1>13, <1>14 DEF ZoneInv

(* A call of rte_memzone_free that has cleared its slot.                   *)
LEMMA ZoneCallFree ==
  ASSUME ZoneInv, NEW t \in Threads, zcall[t].op = "free"
  PROVE  /\ zcall[t] # Idle /\ call[t] = Idle /\ t \in Freeing
         /\ zcall[t].addr \in zblocks /\ zcall[t].addr \in DOMAIN block
<1>1. ZoneCall(zcall[t], call[t])
  BY ZoneFacts
<1>2. zcall[t] # Idle
  BY IdleOp
<1>3. t \in Freeing
  BY DEF Freeing
<1> QED BY <1>1, <1>2, <1>3, ZoneFacts DEF ZoneCall, ZoneBlocks

(* The block is given back to the heap without mlock: nobody else has it.  *)
LEMMA ZoneFreeBlockStep ==
  ASSUME ZoneInv, NEW t \in Threads, ZoneFreeBlock(t)
  PROVE  ZoneInv'
<1> DEFINE p == zcall[t].addr
<1>1. /\ zcall[t].op = "free" /\ FreeBlock(p) /\ zblocks' = zblocks \ {p}
      /\ zcall' = [zcall EXCEPT ![t] = Idle] /\ UNCHANGED <<segs, call, memzone, memzone_cnt>>
  BY DEF ZoneFreeBlock
<1>2. call[t] = Idle /\ t \in Freeing /\ p \in zblocks /\ p \in DOMAIN block
  BY <1>1, ZoneCallFree
<1>3. /\ HeapInv /\ MemInv /\ CallsOf(call, block) /\ TableSound /\ ZoneBlocks /\ Reserving
      /\ zblocks \subseteq DOMAIN block
  BY ZoneFacts DEF HeapInv
<1> HIDE DEF p
<1>4. MemInv' /\ block' = Without(block, {p})
  BY <1>1, <1>2, <1>3, FreeStep
<1>5. \A u \in Threads : call[u] # Idle => call[u].from \notin zblocks
  BY <1>3 DEF ZoneBlocks
<1>6. HeapInv'
  <2>1. \A u \in Threads : call[u] # Idle => call[u].from # p
    BY <1>2, <1>5
  <2>2. CallsOf(call, block')
    BY <1>3, <1>4, <2>1, FreeCalls
  <2> QED BY <1>1, <1>4, <2>2 DEF HeapInv
<1>7. \A q \in zblocks \ {p} : Quiet(q)
  BY <1>1, <1>2, <1>3, FreeQuiet
<1>8. zcall'[t] = Idle /\ \A u \in Threads \ {t} : zcall'[u] = zcall[u]
  BY <1>1, ZcallSet
<1>9. Locked(zcall')
  BY <1>1, IdleOp, LockedSet
<1>10. \A u \in Threads : ZoneCall(zcall'[u], call'[u])
  <2>1. ZoneCall(Idle, call[t])
    BY DEF ZoneCall
  <2> QED BY <1>1, <1>8, <2>1, ZoneFacts
<1>11. Used' = Used
  BY <1>1 DEF Used
<1>12. Reserving'
  <2>1. ASSUME NEW u \in Threads, Holder(zcall'[u])
        PROVE  {j \in Used : memzone[j].name = zcall'[u].name} = {} /\ memzone_cnt < MaxMemzone
    <3>1. u # t /\ zcall'[u] = zcall[u]
      BY <1>8, <2>1, IdleOp
    <3> QED BY <1>3, <2>1, <3>1 DEF Reserving, Lookup
  <2> QED BY <1>1, <1>11, <2>1 DEF Reserving, Lookup
<1>13. \A j \in Used : memzone[j].addr # p
  BY <1>2, <1>3 DEF ZoneBlocks, p
<1>14. TableSound'
  <2>1. ASSUME NEW j \in Used PROVE ZoneOwns(mem', block', zblocks', memzone[j])
    <3>1. ZoneOwns(mem, block, zblocks, memzone[j])
      BY <1>3 DEF TableSound
    <3>2. memzone[j].addr \in zblocks \ {p} /\ Quiet(memzone[j].addr)
      BY <1>7, <1>13, <3>1 DEF ZoneOwns
    <3> QED BY <1>1, <3>1, <3>2 DEF ZoneOwns, Quiet
  <2> QED BY <1>1, <1>3, <1>11, <2>1 DEF TableSound
<1>15. Freeing' = Freeing \ {t} /\ \A u \in Freeing' : u \in Freeing /\ zcall'[u] = zcall[u] /\ u # t
  <2>1. Freeing' = {u \in Threads : zcall'[u].op = "free"}
    BY DEF Freeing
  <2>2. Freeing = {u \in Threads : zcall[u].op = "free"}
    BY DEF Freeing
  <2> QED BY <1>8, <2>1, <2>2, IdleOp
<1>16. ZoneBlocks'
  <2>1. zblocks' \subseteq DOMAIN block'
    BY <1>1, <1>7 DEF Quiet
  <2>2. \A u \in Threads : call'[u] # Idle => call'[u].from \notin zblocks'
    BY <1>1, <1>5
  <2>3. \A u \in Freeing' : zcall'[u].addr \in zblocks'
    <3>1. SUFFICES ASSUME NEW u \in Freeing' PROVE zcall'[u].addr \in zblocks'
      OBVIOUS
    <3>2. u \in Freeing /\ zcall'[u] = zcall[u] /\ u # t
      BY <1>15
    <3>3. zcall[u].addr \in zblocks /\ zcall[u].addr # p
      BY <1>2, <1>3, <3>2 DEF ZoneBlocks, p
    <3> QED BY <1>1, <3>2, <3>3
  <2>4. \A u, v \in Freeing' : zcall'[u].addr = zcall'[v].addr => u = v
    BY <1>3, <1>15 DEF ZoneBlocks
  <2>5. \A j \in Used', u \in Freeing' : memzone'[j].addr # zcall'[u].addr
    BY <1>1, <1>3, <1>11, <1>15 DEF ZoneBlocks
  <2>6. ASSUME NEW q \in zblocks'
        PROVE  (\E j \in Used' : q = memzone'[j].addr) \/ (\E u \in Freeing' : q = zcall'[u].addr)
    <3>1. q \in zblocks /\ q # p
      BY <1>1
    <3>2. (\E j \in Used : q = memzone[j].addr) \/ (\E u \in Freeing : q = zcall[u].addr)
      BY <1>3, <3>1 DEF ZoneBlocks
    <3>3. ASSUME NEW u \in Freeing, q = zcall[u].addr
          PROVE  \E v \in Freeing' : q = zcall'[v].addr
      <4>1. u # t
        BY <3>1, <3>3 DEF p
      <4> QED BY <1>15, <3>3, <4>1
    <3> QED BY <1>1, <1>11, <3>2, <3>3
  <2> QED BY <2>1, <2>2, <2>3, <2>4, <2>5, <2>6 DEF ZoneBlocks
<1> QED BY <1>6, <1>9, <1>10, <1>12, <1>14, <1>16 DEF ZoneInv

-----------------------------------------------------------------------------
LEMMA ZoneInitInv ==
  ASSUME ZoneInit
  PROVE  ZoneInv
<1>1. /\ Init /\ memzone = [i \in Slots |-> NoZone] /\ memzone_cnt = 0
      /\ zcall = [t \in Threads |-> Idle] /\ zblocks = {}
  BY DEF ZoneInit
<1>2. HeapInv
  BY <1>1, InitInv
<1>3. Used = {}
  <2>1. NoZone.addr = NULL
    BY DEF NoZone
  <2> QED BY <1>1, <2>1 DEF Used
<1>4. DOMAIN zcall = Threads /\ \A t \in Threads : zcall[t] = Idle
  BY <1>1
<1>5. Freeing = {}
  BY <1>4, IdleOp DEF Freeing
<1>6. Locked(zcall) /\ Reserving
  BY <1>4, IdleOp DEF Locked, Reserving
<1>7. \A t \in Threads : ZoneCall(zcall[t], call[t])
  BY <1>4 DEF ZoneCall
<1>8. TableSound
  BY <1>1, <1>3, FS_EmptySet DEF TableSound
<1>9. ZoneBlocks
  BY <1>1, <1>3, <1>5 DEF ZoneBlocks
<1> QED BY <1>2, <1>6, <1>7, <1>8, <1>9 DEF ZoneInv

LEMMA ZoneStepInv ==
  ASSUME ZoneInv, [ZoneNext]_mz_vars
  PROVE  ZoneInv'
<1>1. CASE UNCHANGED mz_vars
  <2>1. UNCHANGED zone_vars /\ mem' = mem /\ block' = block /\ call' = call /\ UNCHANGED vars
    BY <1>1 DEF mz_vars, vars
  <2>2. HeapInv'
    BY <2>1, StepInv, ZoneFacts
  <2>3. \A q \in zblocks : Quiet(q)
    BY <2>1, UntouchedQuiet, ZoneFacts
  <2>4. \A u \in Threads : call[u] # Idle => call[u].from \notin zblocks
    BY ZoneFacts DEF ZoneBlocks
  <2> QED BY <2>1, <2>2, <2>3, <2>4, QuietFrame, ZoneFacts
<1>2. CASE AddMemseg /\ UNCHANGED zone_vars
  BY <1>2, SegStep
<1>3. ASSUME NEW t \in Threads, zcall[t] = Idle /\ HeapCall(t) /\ UNCHANGED zone_vars
      PROVE  ZoneInv'
  BY <1>3, HeapCallStep
<1>4. ASSUME NEW t \in Threads, NEW n \in ZoneNames, NEW z \in ZoneRequests, Reserve(t, n, z)
      PROVE  ZoneInv'
  BY <1>4, ReserveStep
<1>5. ASSUME NEW t \in Threads, MaxFreeElem(t) PROVE ZoneInv'
  BY <1>5, MaxStep
<1>6. ASSUME NEW t \in Threads, ReserveWhole(t) PROVE ZoneInv'
  BY <1>6, WholeStep
<1>7. ASSUME NEW t \in Threads, ZoneAlloc(t) PROVE ZoneInv'
  BY <1>7, ZoneAllocStep
<1>8. ASSUME NEW t \in Threads, ZoneFull(t) PROVE ZoneInv'
  BY <1>8, FullZoneStep
<1>9. ASSUME NEW t \in Threads, NEW i \in Slots, ZoneFree(t, i) PROVE ZoneInv'
  BY <1>9, ZoneFreeStep
<1>10. ASSUME NEW t \in Threads, ZoneFreeBlock(t) PROVE ZoneInv'
  BY <1>10, ZoneFreeBlockStep
<1> QED BY <1>1, <1>2, <1>3, <1>4, <1>5, <1>6, <1>7, <1>8, <1>9, <1>10 DEF ZoneNext

(* The invariant of the memzones: one reservation at a time holds mlock,   *)
(* the table agrees with its count and with the blocks of the heap, and a  *)
(* block of a zone is in the table or in the hands of the one call of      *)
(* rte_memzone_free that took it out of it.                                *)
THEOREM ZoneInvariant == ZoneSpec => []ZoneInv
<1>1. ZoneInit => ZoneInv
  BY ZoneInitInv
<1>2. ZoneInv /\ [ZoneNext]_mz_vars => ZoneInv'
  BY ZoneStepInv
<1> QED BY <1>1, <1>2, PTL DEF ZoneSpec

-----------------------------------------------------------------------------
LEMMA OneToOne ==
  ASSUME NEW S, NEW T, IsFiniteSet(T), NEW f \in [S -> T],
         \A x, y \in S : f[x] = f[y] => x = y, \A y \in T : \E x \in S : f[x] = y
  PROVE  IsFiniteSet(S) /\ Cardinality(S) = Cardinality(T)
<1>1. f \in Injection(S, T) /\ f \in Surjection(S, T)
  BY DEF Injection, Surjection, IsInjective
<1> QED BY <1>1, FS_Injection

(* Each block of a zone has one owner.                                     *)
LEMMA BlocksCounted ==
  ASSUME ZoneInv
  PROVE  /\ zblocks = {memzone[i].addr : i \in Used} \cup {zcall[t].addr : t \in Freeing}
         /\ Cardinality(zblocks) = Cardinality(Used) + Cardinality(Freeing)
<1> DEFINE A == {memzone[i].addr : i \in Used}
           D == {zcall[t].addr : t \in Freeing}
           f == [i \in Used |-> memzone[i].addr]
           g == [t \in Freeing |-> zcall[t].addr]
<1>1. /\ \A i \in Used : memzone[i].addr \in zblocks
      /\ \A i, j \in Used : memzone[i].addr = memzone[j].addr => i = j
  BY ZoneFacts DEF TableSound, ZoneOwns
<1>2. /\ \A t \in Freeing : zcall[t].addr \in zblocks
      /\ \A t, u \in Freeing : zcall[t].addr = zcall[u].addr => t = u
      /\ \A i \in Used, t \in Freeing : memzone[i].addr # zcall[t].addr
      /\ \A p \in zblocks : (\E i \in Used : p = memzone[i].addr) \/ (\E t \in Freeing : p = zcall[t].addr)
  BY ZoneFacts DEF ZoneBlocks
<1>3. zblocks = A \cup D /\ A \cap D = {}
  <2>1. A \subseteq zblocks /\ D \subseteq zblocks
    BY <1>1, <1>2
  <2>2. \A p \in zblocks : p \in A \/ p \in D
    BY <1>2
  <2>3. \A p \in A : p \notin D
    BY <1>2
  <2> HIDE DEF A, D
  <2> QED BY <2>1, <2>2, <2>3
<1>4. IsFiniteSet(A) /\ IsFiniteSet(D)
  <2>1. IsFiniteSet(DOMAIN block)
    BY ZoneFacts, MemFacts DEF HeapOf, HeapBut, Owned
  <2>2. A \in SUBSET DOMAIN block /\ D \in SUBSET DOMAIN block
    <3> HIDE DEF A, D
    <3> QED BY <1>3, ZoneFacts
  <2> HIDE DEF A, D
  <2> QED BY <2>1, <2>2, FS_Subset
<1>5. Cardinality(Used) = Cardinality(A)
  <2>1. f \in [Used -> A] /\ \A y \in A : \E x \in Used : f[x] = y
    OBVIOUS
  <2>2. \A x, y \in Used : f[x] = f[y] => x = y
    BY <1>1
  <2> HIDE DEF A, f
  <2> QED BY <1>4, <2>1, <2>2, OneToOne
<1>6. Cardinality(Freeing) = Cardinality(D)
  <2>1. g \in [Freeing -> D] /\ \A y \in D : \E x \in Freeing : g[x] = y
    OBVIOUS
  <2>2. \A x, y \in Freeing : g[x] = g[y] => x = y
    BY <1>2
  <2> HIDE DEF D, g
  <2> QED BY <1>4, <2>1, <2>2, OneToOne
<1>7. Cardinality(zblocks) = Cardinality(A) + Cardinality(D)
  <2> HIDE DEF A, D
  <2>1. Cardinality(A \cup D) = Cardinality(A) + Cardinality(D) - Cardinality(A \cap D)
    BY <1>4, FS_Union
  <2>2. Cardinality(A \cap D) = 0
    BY <1>3, FS_EmptySet
  <2>3. Cardinality(A) \in Nat /\ Cardinality(D) \in Nat
    BY <1>4, FS_CardinalityType
  <2> QED BY <1>3, <2>1, <2>2, <2>3
<1> QED BY <1>3, <1>5, <1>6, <1>7

(* The table of memzones, its count and the blocks of the heap agree       *)
(* (eal_common_memzone.c), for any number of threads and slots: no zone's  *)
(* block is lost or freed twice, although rte_memzone_free gives it back   *)
(* when mlock is no longer held.                                           *)
THEOREM ZonesAreSound == ZoneSpec => []ZonesSound
<1>1. ASSUME ZoneInv PROVE ZonesSound
  <2>1. BlocksOwned
    BY <1>1, ZoneFacts, BlocksHold
  <2>2. CountExact
    BY <1>1, ZoneFacts DEF CountExact, TableSound
  <2>3. \A i, j \in Used : memzone[i].name = memzone[j].name => i = j
    BY <1>1, ZoneFacts DEF TableSound
  <2>4. \A i \in Used :
          /\ memzone[i].addr \in DOMAIN block
          /\ block[memzone[i].addr] = memzone[i].len
          /\ memzone[i].socket_id = Segs[mem.elem[FromData(mem, memzone[i].addr)].ms].socket_id
    BY <1>1, ZoneFacts DEF TableSound, ZoneOwns, SocketOf
  <2>5. ZonesOwnBlocks
    BY <1>1, <2>3, <2>4, BlocksCounted DEF ZonesOwnBlocks
  <2> QED BY <2>1, <2>2, <2>5 DEF ZonesSound
<1>2. ZoneInv => ZonesSound
  BY <1>1
<1> QED BY <1>2, ZoneInvariant, PTL

-----------------------------------------------------------------------------
(* The heap sees its own calls only, whoever makes them.                   *)
LEMMA ZoneHeapStep ==
  ASSUME ZoneInv, [ZoneNext]_mz_vars
  PROVE  HeapStep
<1>1. HeapInv
  BY ZoneFacts
<1>2. ASSUME UNCHANGED vars PROVE HeapStep
  BY <1>1, <1>2, HeapCalls
<1>3. CASE UNCHANGED mz_vars
  BY <1>2, <1>3 DEF mz_vars
<1>4. CASE AddMemseg
  BY <1>4 DEF HeapStep
<1>5. ASSUME NEW t \in Threads, HeapCall(t) PROVE HeapStep
  <2>1. Next
    <3>1. ASSUME NEW r \in Requests, NEW socks \in Orders \cup {<<s>> : s \in Sockets}, Malloc(t, r, socks)
          PROVE  Next
      BY <3>1 DEF Next
    <3>2. ASSUME HeapAlloc(t) \/ HeapFull(t) \/ ReallocFree(t) PROVE Next
      BY <3>2 DEF Next
    <3>3. ASSUME NEW p \in Usable \ zblocks, Free(t, p) PROVE Next
      BY <3>3 DEF Next
    <3>4. ASSUME NEW p \in Usable \ zblocks, NEW z \in Resizes,
                 Realloc(t, p, z) \/ \E socks \in Orders : ReallocMove(t, p, z, socks)
          PROVE  Next
      BY <3>4 DEF Next
    <3> QED BY <1>5, <3>1, <3>2, <3>3, <3>4 DEF HeapCall
  <2> QED BY <1>1, <2>1, HeapCalls
<1>6. ASSUME NEW t \in Threads, call[t] = Idle, NEW c, call' = call \/ call' = [call EXCEPT ![t] = c],
             UNCHANGED <<mem, segs, alloc_count, block>>
      PROVE  HeapStep
  <2>1. CASE call' = call
    BY <1>2, <1>6, <2>1 DEF vars
  <2>2. CASE call' = [call EXCEPT ![t] = c]
    BY <1>1, <1>6, <2>2, CallingIs DEF HeapStep
  <2> QED BY <1>6, <2>1, <2>2
<1>7. ASSUME NEW t \in Threads, NEW n \in ZoneNames, NEW z \in ZoneRequests, Reserve(t, n, z)
      PROVE  HeapStep
  <2>1. call[t] = Idle /\ UNCHANGED <<mem, segs, alloc_count, block>>
    BY <1>7 DEF Reserve, Ready
  <2>2. \E c : call' = call \/ call' = [call EXCEPT ![t] = c]
    BY <1>7 DEF Reserve, Allocate
  <2> QED BY <1>6, <2>1, <2>2
<1>8. ASSUME NEW t \in Threads, MaxFreeElem(t) PROVE HeapStep
  BY <1>2, <1>8 DEF MaxFreeElem
<1>9. ASSUME NEW t \in Threads, ReserveWhole(t) PROVE HeapStep
  <2>1. zcall[t].op = "max" /\ UNCHANGED <<mem, segs, alloc_count, block>>
    BY <1>9 DEF ReserveWhole
  <2>2. \E c : call' = call \/ call' = [call EXCEPT ![t] = c]
    BY <1>9 DEF ReserveWhole, Allocate
  <2>3. call[t] = Idle
    BY <2>1, ZoneCallMax
  <2> QED BY <1>6, <2>1, <2>2, <2>3
<1>10. ASSUME NEW t \in Threads, ZoneAlloc(t) PROVE HeapStep
  BY <1>1, <1>10, AllocatingIs DEF ZoneAlloc, HeapStep
<1>11. ASSUME NEW t \in Threads, ZoneFull(t) PROVE HeapStep
  BY <1>1, <1>11, RefusingIs DEF ZoneFull, HeapStep
<1>12. ASSUME NEW t \in Threads, NEW i \in Slots, ZoneFree(t, i) PROVE HeapStep
  BY <1>2, <1>12 DEF ZoneFree
<1>13. ASSUME NEW t \in Threads, ZoneFreeBlock(t) PROVE HeapStep
  <2>1. zcall[t].op = "free" /\ FreeBlock(zcall[t].addr) /\ segs' = segs /\ call' = call
    BY <1>13 DEF ZoneFreeBlock
  <2>2. zcall[t].addr \in DOMAIN block
    BY <2>1, ZoneCallFree
  <2>3. FreeingStep(zcall[t].addr)
    BY <2>1 DEF FreeingStep
  <2> QED BY <2>2, <2>3 DEF HeapStep
<1> QED BY <1>3, <1>4, <1>5, <1>7, <1>8, <1>9, <1>10, <1>11, <1>12, <1>13 DEF ZoneNext

(* The header of a block that nobody frees or resizes stays as it is while *)
(* zones are reserved and freed: malloc_elem_free and malloc_elem_resize,  *)
(* which rte_memzone_free calls without mlock, may read it unlocked.       *)
THEOREM ZoneHeaderStable == ZoneSpec => HeaderStable
<1>1. ZoneInv /\ [ZoneNext]_mz_vars =>
        [\A p \in DOMAIN block :
           LET a == FromData(mem, p)
               e == mem.elem[a]
           IN p \in DOMAIN block' /\ block'[p] = block[p] =>
                /\ a \in DOMAIN mem'.elem
                /\ [mem'.elem[a] EXCEPT !.prev = e.prev] = e]_vars
  BY ZoneFacts, ZoneHeapStep, StableStep DEF SameHeader
<1> QED BY <1>1, ZoneInvariant, PTL DEF HeaderStable, ZoneSpec

(* malloc_heap_alloc, for a zone as for a caller of rte_malloc, turns to   *)
(* the next heap or gives up only when this one has no element that fits.  *)
THEOREM ZoneFullOnlyWhenNoneFits == ZoneSpec => FullOnlyWhenNoneFits
<1>1. ZoneInv /\ [ZoneNext]_mz_vars =>
        [\A t \in Threads :
           LET c == call[t]
           IN c # Idle /\ c.op = "malloc" /\ call'[t] # c /\ mem' = mem =>
                ~\E a \in FreeElems :
                   /\ Segs[mem.elem[a].ms].socket_id = Head(c.socks)
                   /\ CanHold(mem, a, c.req)
                   /\ c.req.flags.hint \/ PageFits(c.req, mem.elem[a].ms)]_vars
  BY ZoneFacts, ZoneHeapStep, FullStep
<1> QED BY <1>1, ZoneInvariant, PTL DEF FullOnlyWhenNoneFits, ZoneSpec

-----------------------------------------------------------------------------
(* WholeLen leaves room for the headers and for the alignment.             *)
LEMMA WholeFits ==
  ASSUME NEW h, NEW a \in Nat, NEW size \in Nat, h.elem[a].size = size, NEW max \in Nat, max <= size,
         NEW r, Requested(r), r.bound = 0, r.size = WholeLen(max, r.align)
  PROVE  CanHold(h, a, r)
<1> DEFINE end == a + size
           atEnd == AlignFloor(end - r.size, r.align)
<1>1. r.size \in Nat \ {0} /\ r.align \in Nat \ {0} /\ r.size = max - 1 - r.align
  <2>1. r.size \in Nat \ {0} /\ r.align \in Nat \ {0}
    BY DEF Requested
  <2>2. r.size = IF max < 1 + r.align THEN 0 ELSE max - 1 - r.align
    BY DEF WholeLen
  <2> QED BY <2>1, <2>2
<1>2. end - r.size \in Int
  BY <1>1
<1>3. atEnd \in Int /\ end - r.size < atEnd + r.align
  BY <1>1, <1>2, FloorBelow
<1>4. SameBound(atEnd, end - 1, r.bound)
  BY DEF SameBound
<1>5. StartPt(h, a, r) = IF atEnd - 1 < a THEN NULL ELSE atEnd - 1
  BY <1>4 DEF StartPt
<1> HIDE DEF atEnd
<1>6. atEnd - 1 >= a
  BY <1>1, <1>3
<1>7. StartPt(h, a, r) = atEnd - 1 /\ atEnd - 1 >= a
  BY <1>3, <1>5, <1>6
<1> QED BY <1>3, <1>7 DEF CanHold

(* The step that gives up the whole of the greatest element.               *)
LEMMA WholeTaken ==
  ASSUME ZoneInv, NEW t \in Threads, ZoneFull(t), zcall[t].max > 0,
         call[t].req.flags.page = AnySize \/ call[t].req.flags.hint
  PROVE  Greatest(mem, Head(call[t].socks)) < zcall[t].max
<1> DEFINE r == call[t].req
           sock == Head(call[t].socks)
           max == zcall[t].max
           big == Greatest(mem, sock)
<1>1. zcall[t].op = "alloc" /\ HeapFull(t)
  BY DEF ZoneFull
<1>2. /\ call[t] # Idle /\ call[t].op = "malloc" /\ CallOf(call[t], block) /\ Requested(r)
      /\ max \in Nat /\ r.bound = 0 /\ r.size = WholeLen(max, r.align)
  BY <1>1, ZoneCallAlloc
<1>3. sock \in Sockets
  <2>1. call[t].socks \in Seq(Sockets) /\ call[t].socks # <<>>
    BY <1>2 DEF CallOf
  <2> QED BY <2>1
<1>4. segs \in 0 .. Len(Segs) /\ HeapOf(mem, segs, block)
  BY ZoneFacts, MemFacts
<1>5. FindSuitable(mem, sock, r) = NULL
  BY <1>1 DEF HeapFull
<1>6. r.flags.page = AnySize \/ r.flags.hint
  OBVIOUS
<1>7. max > 0
  OBVIOUS
<1> HIDE DEF r, sock, max
<1>8. \/ big = 0
      \/ \E a \in FreeOf(mem) :
           /\ Segs[mem.elem[a].ms].socket_id = sock /\ mem.elem[a].size = big /\ mem.elem[a].size \in Nat
  BY <1>3, <1>4, GreatestIs
<1>9. SUFFICES ASSUME ~(big < max) PROVE FALSE
  BY DEF r, sock, max
<1>10. PICK a \in FreeOf(mem) :
        /\ Segs[mem.elem[a].ms].socket_id = sock /\ mem.elem[a].size = big /\ big \in Nat
  BY <1>2, <1>7, <1>8, <1>9
<1> HIDE DEF big
<1>11. max <= big
  BY <1>2, <1>9, <1>10
<1>12. a \in Nat
  BY <1>10, MemFacts, ZoneFacts DEF FreeOf, ElemsOf, Typed
<1>13. CanHold(mem, a, r)
  BY <1>2, <1>10, <1>11, <1>12, WholeFits
<1>14. Suits(mem, sock, r, a)
  BY <1>10, <1>13 DEF Suits
<1>15. r.flags.hint \/ PageFits(r, mem.elem[a].ms)
  BY <1>6 DEF PageFits
<1> QED BY <1>2, <1>3, <1>4, <1>5, <1>14, <1>15, NoneFits

(* Which step ends an allocation for a zone.                               *)
LEMMA ReservationEnds ==
  ASSUME ZoneInv, [ZoneNext]_mz_vars, NEW t \in Threads, zcall[t].op = "alloc", zcall'[t] = Idle
  PROVE  ZoneAlloc(t) \/ ZoneFull(t)
<1>1. zcall[t] # Idle /\ zcall'[t] # zcall[t]
  BY ZoneCallAlloc
<1>2. zcall' # zcall
  BY <1>1
<1>3. ASSUME NEW u \in Threads, NEW d, zcall' = [zcall EXCEPT ![u] = d] PROVE u = t
  BY <1>1, <1>3, ZcallSet
<1>4. ASSUME NEW u \in Threads, NEW n \in ZoneNames, NEW z \in ZoneRequests, Reserve(u, n, z)
      PROVE  FALSE
  <2>1. \E d : zcall' = [zcall EXCEPT ![u] = d]
    BY <1>4 DEF Reserve, Allocate
  <2>2. zcall[u] = Idle
    BY <1>4 DEF Reserve
  <2> QED BY <1>1, <1>3, <2>1, <2>2
<1>5. ASSUME NEW u \in Threads, MaxFreeElem(u) PROVE FALSE
  <2>1. zcall[u].op = "max" /\ \E d : zcall' = [zcall EXCEPT ![u] = d]
    BY <1>5 DEF MaxFreeElem
  <2> QED BY <1>3, <2>1
<1>6. ASSUME NEW u \in Threads, ReserveWhole(u) PROVE FALSE
  <2>1. zcall[u].op = "max" /\ \E d : zcall' = [zcall EXCEPT ![u] = d]
    BY <1>6 DEF ReserveWhole, Allocate
  <2> QED BY <1>3, <2>1
<1>7. ASSUME NEW u \in Threads, ZoneAlloc(u) PROVE u = t
  BY <1>3, <1>7 DEF ZoneAlloc
<1>8. ASSUME NEW u \in Threads, ZoneFull(u) PROVE u = t
  BY <1>2, <1>3, <1>8 DEF ZoneFull
<1>9. ASSUME NEW u \in Threads, NEW i \in Slots, ZoneFree(u, i) PROVE FALSE
  <2>1. \E d : zcall' = [zcall EXCEPT ![u] = d]
    BY <1>9 DEF ZoneFree
  <2>2. zcall[u] = Idle
    BY <1>9 DEF ZoneFree
  <2> QED BY <1>1, <1>3, <2>1, <2>2
<1>10. ASSUME NEW u \in Threads, ZoneFreeBlock(u) PROVE FALSE
  <2>1. zcall[u].op = "free" /\ zcall' = [zcall EXCEPT ![u] = Idle]
    BY <1>10 DEF ZoneFreeBlock
  <2> QED BY <1>3, <2>1
<1>11. ~UNCHANGED mz_vars /\ ~UNCHANGED zone_vars
  BY <1>2 DEF mz_vars, zone_vars
<1> QED BY <1>4, <1>5, <1>6, <1>7, <1>8, <1>9, <1>10, <1>11 DEF ZoneNext

(* rte_memzone_reserve with length 0 gets the greatest free element that   *)
(* find_heap_max_free_elem saw, unless a call in between has made it       *)
(* smaller: what the headers and the alignment can take was subtracted.    *)
THEOREM WholeZoneFits == ZoneSpec => WholeFitsUnlessTaken
<1>1. ASSUME ZoneInv, [ZoneNext]_mz_vars, NEW t \in Threads, zcall[t].op = "alloc", zcall[t].max > 0,
             zcall'[t] = Idle, mem' = mem, call[t].req.flags.page = AnySize \/ call[t].req.flags.hint
      PROVE  Greatest(mem, Head(call[t].socks)) < zcall[t].max
  <2>1. ASSUME ZoneAlloc(t) PROVE FALSE
    BY <1>1, <2>1, AllocatingIs, AllocChanges, ZoneFacts DEF ZoneAlloc
  <2>2. ZoneFull(t)
    BY <1>1, <2>1, ReservationEnds
  <2> QED BY <1>1, <2>2, WholeTaken
<1>2. ZoneInv /\ [ZoneNext]_mz_vars =>
        [\A t \in Threads :
           zcall[t].op = "alloc" /\ zcall[t].max > 0 /\ zcall'[t] = Idle /\ mem' = mem
             /\ (call[t].req.flags.page = AnySize \/ call[t].req.flags.hint) =>
               Greatest(mem, Head(call[t].socks)) < zcall[t].max]_mz_vars
  BY <1>1
<1> QED BY <1>2, ZoneInvariant, PTL DEF WholeFitsUnlessTaken, ZoneSpec
=============================================================================
