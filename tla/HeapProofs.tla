----------------------------- MODULE HeapProofs -----------------------------
(***************************************************************************)
(* Proofs about MallocHeap.  The operators of malloc_elem.c map a memory   *)
(* to a memory, so the parts of the invariant are stated of any memory h   *)
(* with n memsegs: what each operator makes of them is a lemma, and a call *)
(* is a chain of such lemmas.  HeapBut says what holds on the way.         *)
(***************************************************************************)
EXTENDS MallocHeap, TLAPS, FiniteSetTheorems, FunctionTheorems, SequenceTheorems,
        WellFoundedInduction

-----------------------------------------------------------------------------
ElemsOf(h) == {a \in DOMAIN h.elem : h.elem[a].state # "PAD"}
Ends(n) == {EndElem(s) : s \in 1 .. n}
FreeOf(h) == {a \in ElemsOf(h) : h.elem[a].state = "FREE"}
BusyOf(h, n) == {a \in ElemsOf(h) : h.elem[a].state = "BUSY"} \ Ends(n)
After(h, a) == a + h.elem[a].size
ListOf(h, a) ==
  h.free_head[Segs[h.elem[a].ms].socket_id][FreeListIndex(h.elem[a].size - HEADER_LEN)]

IsHdr(e, n) ==
  /\ e = Elem(e.size, e.state, e.pad, e.prev, e.ms)
  /\ e.size \in Nat /\ e.state \in {"FREE", "BUSY", "PAD"} /\ e.pad \in 0 .. 1
  /\ e.prev \in Nat \cup {NULL} /\ e.ms \in 1 .. n

Typed(h, n) ==
  /\ DOMAIN h = {"elem", "free_head", "dirty"}
  /\ DOMAIN h.elem \subseteq Nat /\ IsFiniteSet(DOMAIN h.elem)
  /\ \A a \in DOMAIN h.elem : IsHdr(h.elem[a], n)
  /\ h.free_head \in [Sockets -> [Lists -> Seq(Nat)]]

(* Every memseg begins with an element and ends with the marker.           *)
Bordered(h, n) ==
  \A s \in 1 .. n :
    /\ Segs[s].addr \in ElemsOf(h) /\ h.elem[Segs[s].addr].ms = s
    /\ h.elem[Segs[s].addr].prev = NULL
    /\ EndElem(s) \in ElemsOf(h) /\ h.elem[EndElem(s)].ms = s
    /\ h.elem[EndElem(s)].state = "BUSY"

(* Each element leads to the next and back, and stays in its memseg.       *)
Linked(h, n, a) ==
  /\ Segs[h.elem[a].ms].addr <= a /\ a <= EndElem(h.elem[a].ms)
  /\ a \notin Ends(n) =>
       /\ h.elem[a].size >= 2
       /\ After(h, a) \in ElemsOf(h) /\ h.elem[After(h, a)].prev = a
       /\ h.elem[After(h, a)].ms = h.elem[a].ms
       /\ \A b \in ElemsOf(h) : b <= a \/ After(h, a) <= b
  /\ LET b == h.elem[a].prev
     IN IF b = NULL THEN a = Segs[h.elem[a].ms].addr
        ELSE b \in ElemsOf(h) \ Ends(n) /\ After(h, b) = a

Tiled(h, n) ==
  Typed(h, n) /\ Bordered(h, n) /\ \A a \in ElemsOf(h) : Linked(h, n, a)

(* The lines of the elements in E.                                         *)
Span(h, E) == UNION {a .. After(h, a) - 1 : a \in E}

(* The dummy headers are those of the padded busy elements.                *)
Padded(h, n, E) ==
  /\ \A x \in DOMAIN h.elem : h.elem[x].state = "PAD" =>
       \/ x \in Span(h, E)
       \/ /\ x - 1 \in BusyOf(h, n) \ E /\ h.elem[x - 1].pad = 1
          /\ h.elem[x].pad = 1 /\ h.elem[x].prev = NULL
  /\ \A a \in BusyOf(h, n) \ E : h.elem[a].pad = 1 =>
       a + 1 \in DOMAIN h.elem /\ h.elem[a + 1].state = "PAD"

(* The free lists have the elements of L, each once and where it belongs.  *)
Belongs(h, L, sock, k, a) ==
  a \in L /\ sock = Segs[h.elem[a].ms].socket_id /\ k = FreeListIndex(h.elem[a].size - HEADER_LEN)
OnceEach(list) == \A i, j \in DOMAIN list : list[i] = list[j] => i = j
Listed(h, L) ==
  /\ L \subseteq FreeOf(h)
  /\ \A sock \in Sockets, k \in Lists :
       /\ OnceEach(h.free_head[sock][k])
       /\ \A i \in DOMAIN h.free_head[sock][k] : Belongs(h, L, sock, k, h.free_head[sock][k][i])
  /\ \A a \in L : \E i \in DOMAIN ListOf(h, a) : ListOf(h, a)[i] = a

(* The data of the elements in F is zero.                                  *)
Clean(h, F) == \A a \in F : \A x \in a + 1 .. After(h, a) - 1 : x \notin h.dirty

(* No two free elements are neighbours.                                    *)
Apart(h, E) == \A a \in FreeOf(h) \ E : After(h, a) \notin FreeOf(h) \ E

Memory(n) == UNION {Lines(Segs[s].addr, Segs[s].len) : s \in 1 .. n}

(* Each block is that of one busy element.                                 *)
Owned(h, n, B, E) ==
  /\ DOMAIN B \subseteq Nat /\ IsFiniteSet(DOMAIN B)
  /\ \A p \in DOMAIN B :
       B[p] \in Nat /\ \E a \in BusyOf(h, n) \ E : p = a + h.elem[a].pad + 1
  /\ \A a \in BusyOf(h, n) \ E :
       LET p == a + h.elem[a].pad + 1 IN p \in DOMAIN B /\ p + B[p] <= After(h, a)

(* The heap in the middle of a call that works on the elements in E; the   *)
(* free elements are on the lists but for those in M.                      *)
HeapBut(h, n, B, E, M) ==
  /\ Tiled(h, n) /\ E \subseteq ElemsOf(h) \ Ends(n)
  /\ Padded(h, n, E) /\ Listed(h, FreeOf(h) \ M) /\ Clean(h, FreeOf(h) \ E)
  /\ Apart(h, E) /\ h.dirty \subseteq Memory(n) /\ Owned(h, n, B, E)

HeapOf(h, n, B) == HeapBut(h, n, B, {}, {})

(* The busy elements that a call does not work on keep their headers.      *)
Keeps(h, g, n, E, F) ==
  /\ BusyOf(g, n) \ F = BusyOf(h, n) \ E
  /\ \A a \in BusyOf(h, n) \ E :
       /\ g.elem[a].size = h.elem[a].size /\ g.elem[a].pad = h.elem[a].pad
       /\ g.elem[a].ms = h.elem[a].ms

OnSocket(h, B, sock) == {p \in DOMAIN B : Segs[h.elem[FromData(h, p)].ms].socket_id = sock}

Requested(r) == r.size \in Nat \ {0} /\ r.align \in Nat \ {0} /\ r.bound \in Nat

(* What a call works with; the block that a realloc moves is its own.      *)
CallOf(c, B) ==
  \/ c = Idle
  \/ /\ c # Idle /\ c.op = "malloc" /\ Requested(c.req)
     /\ c.socks \in Seq(Sockets) /\ c.socks # <<>> /\ c.from \in DOMAIN B \cup {NULL}
  \/ c # Idle /\ c.op = "free" /\ c.from \in DOMAIN B

CallsOf(C, B) ==
  /\ DOMAIN C = Threads /\ \A t \in Threads : CallOf(C[t], B)
  /\ \A t, u \in Threads : C[t] # Idle /\ C[u] # Idle /\ t # u =>
       C[t].from # C[u].from \/ C[t].from = NULL

(* The count of each heap.                                                 *)
Counted(h, B, count) ==
  DOMAIN count = Sockets /\ \A sock \in Sockets : count[sock] = Cardinality(OnSocket(h, B, sock))

MemInv ==
  segs \in 0 .. Len(Segs) /\ HeapOf(mem, segs, block) /\ Counted(mem, block, alloc_count)

HeapInv == MemInv /\ CallsOf(call, block)

-----------------------------------------------------------------------------
USE DEF HEADER_LEN, OVERHEAD, MIN_DATA_SIZE, NULL

(* Memsegs.                                                                *)
LEMMA SegFacts ==
  ASSUME NEW s \in 1 .. Len(Segs)
  PROVE  /\ Segs[s].addr \in Nat /\ Segs[s].addr > 0 /\ Segs[s].len \in Nat
         /\ EndElem(s) \in Nat /\ Segs[s].addr + 3 <= EndElem(s)
         /\ EndElem(s) = Segs[s].addr + Segs[s].len - 1
         /\ Segs[s].socket_id \in Sockets
BY MallocAssumption DEF EndElem, Sockets

LEMMA SegsApart ==
  ASSUME NEW s \in 1 .. Len(Segs), NEW z \in 1 .. Len(Segs), s # z
  PROVE  EndElem(s) < Segs[z].addr \/ EndElem(z) < Segs[s].addr
<1>1. s \in DOMAIN Segs /\ z \in DOMAIN Segs
  BY MallocAssumption
<1>2. Segs[s].addr + Segs[s].len <= Segs[z].addr \/ Segs[z].addr + Segs[z].len <= Segs[s].addr
  BY <1>1, MallocAssumption
<1>3. /\ Segs[s].addr \in Nat /\ Segs[s].len \in Nat /\ EndElem(s) = Segs[s].addr + Segs[s].len - 1
      /\ Segs[z].addr \in Nat /\ Segs[z].len \in Nat /\ EndElem(z) = Segs[z].addr + Segs[z].len - 1
  BY SegFacts
<1> DEFINE a == Segs[s].addr
           k == Segs[s].len
           b == Segs[z].addr
           l == Segs[z].len
<1>4. a \in Nat /\ k \in Nat /\ b \in Nat /\ l \in Nat /\ (a + k <= b \/ b + l <= a)
  BY <1>2, <1>3
<1> HIDE DEF a, b, k, l
<1>5. a + k - 1 < b \/ b + l - 1 < a
  BY <1>4
<1> QED BY <1>3, <1>5 DEF a, b, k, l

LEMMA IndexType ==
  ASSUME NEW x
  PROVE  FreeListIndex(x) \in Lists
<1>1. NumLists \in Nat /\ NumLists > 0
  BY MallocAssumption
<1>2. IsFiniteSet(0 .. NumLists - 2) /\ Cardinality(0 .. NumLists - 2) <= NumLists - 1
  <2>1. 0 \in Int /\ NumLists - 2 \in Int
    BY <1>1
  <2>2. IsFiniteSet(0 .. NumLists - 2)
        /\ Cardinality(0 .. NumLists - 2) = IF 0 > NumLists - 2 THEN 0 ELSE NumLists - 2 - 0 + 1
    BY <2>1, FS_Interval
  <2> QED BY <1>1, <2>2
<1>3. {k \in 0 .. NumLists - 2 : x > MinSize * 4 ^ k} \in SUBSET (0 .. NumLists - 2)
  OBVIOUS
<1>4. FreeListIndex(x) <= NumLists - 1 /\ FreeListIndex(x) \in Nat
  BY <1>1, <1>2, <1>3, FS_Subset, FS_CardinalityType DEF FreeListIndex
<1> QED BY <1>1, <1>4 DEF Lists

LEMMA IndexMonotone ==
  ASSUME NEW x \in Int, NEW y \in Int, x <= y
  PROVE  FreeListIndex(x) <= FreeListIndex(y)
<1>1. NumLists \in Nat /\ NumLists > 0 /\ MinSize \in Nat
  BY MallocAssumption
<1>2. ASSUME NEW k \in 0 .. NumLists - 2, x > MinSize * 4 ^ k
      PROVE  y > MinSize * 4 ^ k
  <2>1. 4 ^ k \in Nat
    BY <1>1, MallocAssumption DEF Lists
  <2>2. MinSize * 4 ^ k \in Int
    BY <1>1, <2>1
  <2> QED BY <1>2, <2>2
<1>3. {k \in 0 .. NumLists - 2 : x > MinSize * 4 ^ k}
        \in SUBSET {k \in 0 .. NumLists - 2 : y > MinSize * 4 ^ k}
  BY <1>2
<1>4. IsFiniteSet({k \in 0 .. NumLists - 2 : y > MinSize * 4 ^ k})
  <2>1. IsFiniteSet(0 .. NumLists - 2)
    BY <1>1, FS_Interval
  <2>2. {k \in 0 .. NumLists - 2 : y > MinSize * 4 ^ k} \in SUBSET (0 .. NumLists - 2)
    OBVIOUS
  <2> QED BY <2>1, <2>2, FS_Subset
<1> QED BY <1>3, <1>4, FS_Subset DEF FreeListIndex

LEMMA FloorBelow ==
  ASSUME NEW x \in Int, NEW d \in Nat \ {0}
  PROVE  /\ AlignFloor(x, d) \in Int /\ AlignFloor(x, d) <= x /\ x < AlignFloor(x, d) + d
         /\ AlignFloor(x, d) % d = 0
<1> DEFINE q == x \div d
<1>1. q \in Int /\ x % d \in 0 .. d - 1 /\ x = d * q + (x % d)
  OBVIOUS
<1>2. q * d \in Int /\ q * d = d * q
  BY <1>1
<1>3. (q * d) % d = 0
  BY <1>1
<1>4. AlignFloor(x, d) = q * d
  BY DEF AlignFloor
<1> HIDE DEF q
<1> QED BY <1>1, <1>2, <1>3, <1>4

-----------------------------------------------------------------------------
(* Headers.                                                                *)
LEMMA Header ==
  ASSUME NEW h, NEW n \in 0 .. Len(Segs), Typed(h, n), NEW a \in DOMAIN h.elem
  PROVE  /\ a \in Nat /\ IsHdr(h.elem[a], n)
         /\ h.elem[a].size \in Nat /\ h.elem[a].state \in {"FREE", "BUSY", "PAD"}
         /\ h.elem[a].pad \in 0 .. 1 /\ h.elem[a].prev \in Nat \cup {-1}
         /\ h.elem[a].ms \in 1 .. n /\ h.elem[a].ms \in 1 .. Len(Segs)
         /\ After(h, a) \in Nat
<1>1. a \in Nat /\ IsHdr(h.elem[a], n)
  BY DEF Typed
<1>2. Len(Segs) \in Nat
  BY MallocAssumption
<1> QED BY <1>1, <1>2 DEF IsHdr, After

LEMMA HdrSize ==
  ASSUME NEW e, NEW n, IsHdr(e, n), NEW x \in Nat
  PROVE  [e EXCEPT !.size = x] = Elem(x, e.state, e.pad, e.prev, e.ms)
BY DEF IsHdr, Elem

LEMMA HdrPrev ==
  ASSUME NEW e, NEW n, IsHdr(e, n), NEW x \in Nat \cup {-1}
  PROVE  [e EXCEPT !.prev = x] = Elem(e.size, e.state, e.pad, x, e.ms)
BY DEF IsHdr, Elem

LEMMA HdrState ==
  ASSUME NEW e, NEW n, IsHdr(e, n), NEW x
  PROVE  [e EXCEPT !.state = x] = Elem(e.size, x, e.pad, e.prev, e.ms)
BY DEF IsHdr, Elem

LEMMA ElemIs ==
  ASSUME NEW size, NEW state, NEW pad, NEW prev, NEW ms,
         NEW e, e = Elem(size, state, pad, prev, ms)
  PROVE  /\ e.size = size /\ e.state = state /\ e.pad = pad /\ e.prev = prev /\ e.ms = ms
         /\ \A n : size \in Nat /\ state \in {"FREE", "BUSY", "PAD"} /\ pad \in 0 .. 1
                 /\ prev \in Nat \cup {-1} /\ ms \in 1 .. n => IsHdr(e, n)
BY DEF Elem, IsHdr

LEMMA ElemHdr ==
  ASSUME NEW n, NEW size \in Nat, NEW state \in {"FREE", "BUSY", "PAD"}, NEW pad \in 0 .. 1,
         NEW prev \in Nat \cup {-1}, NEW ms \in 1 .. n,
         NEW e, e = Elem(size, state, pad, prev, ms)
  PROVE  IsHdr(e, n)
BY DEF Elem, IsHdr

LEMMA HdrSizeType ==
  ASSUME NEW e, NEW n, IsHdr(e, n), NEW x \in Nat, NEW f, f = [e EXCEPT !.size = x]
  PROVE  IsHdr(f, n)
<1>1. /\ e.state \in {"FREE", "BUSY", "PAD"} /\ e.pad \in 0 .. 1 /\ e.prev \in Nat \cup {-1} /\ e.ms \in 1 .. n
  BY DEF IsHdr
<1>2. f = Elem(x, e.state, e.pad, e.prev, e.ms)
  BY HdrSize
<1>3. f.size = x /\ f.state = e.state /\ f.pad = e.pad /\ f.prev = e.prev /\ f.ms = e.ms
  BY <1>2 DEF Elem
<1> QED BY <1>1, <1>2, <1>3, Zenon DEF IsHdr, NULL

LEMMA HdrPrevType ==
  ASSUME NEW e, NEW n, IsHdr(e, n), NEW x \in Nat \cup {-1}, NEW f, f = [e EXCEPT !.prev = x]
  PROVE  IsHdr(f, n)
<1>1. e.size \in Nat /\ e.state \in {"FREE", "BUSY", "PAD"} /\ e.pad \in 0 .. 1 /\ e.ms \in 1 .. n
  BY DEF IsHdr
<1>2. f = Elem(e.size, e.state, e.pad, x, e.ms)
  BY HdrPrev
<1> QED BY <1>1, <1>2, ElemHdr, Zenon

LEMMA SplitIs ==
  ASSUME NEW h, NEW n \in 0 .. Len(Segs), Typed(h, n), NEW a \in DOMAIN h.elem,
         NEW at \in Nat, at \notin DOMAIN h.elem, a < at, at < After(h, a),
         NEW z, z = After(h, a), z \in DOMAIN h.elem,
         NEW g, g = Split(h, a, at)
  PROVE  /\ Typed(g, n) /\ g.free_head = h.free_head /\ g.dirty = h.dirty \cup {at}
         /\ DOMAIN g.elem = DOMAIN h.elem \cup {at}
         /\ g.elem[at] = Elem(z - at, "FREE", 0, a, h.elem[a].ms)
         /\ g.elem[a] = Elem(at - a, h.elem[a].state, h.elem[a].pad, h.elem[a].prev, h.elem[a].ms)
         /\ g.elem[z] = Elem(h.elem[z].size, h.elem[z].state, h.elem[z].pad, at, h.elem[z].ms)
         /\ \A b \in DOMAIN h.elem \ {a, z} : g.elem[b] = h.elem[b]
<1> DEFINE m == With(h.elem, at, Elem(h.elem[a].size - (at - a), "FREE", 0, -1, h.elem[a].ms))
           i == InitElem(h, at, h.elem[a].ms, h.elem[a].size - (at - a))
           k == [m EXCEPT ![at].prev = a, ![z].prev = at, ![a].size = at - a]
<1>1. /\ a \in Nat /\ h.elem[a].size \in Nat /\ h.elem[a].ms \in 1 .. n /\ z \in Nat
      /\ IsHdr(h.elem[a], n) /\ IsHdr(h.elem[z], n)
  BY Header, Zenon
<1>2. DOMAIN i = {"elem", "free_head", "dirty"}
        /\ i.elem = m /\ i.free_head = h.free_head /\ i.dirty = h.dirty \cup {at}
  BY DEF InitElem, Typed
<1>3. g = [i EXCEPT !.elem[at].prev = a, !.elem[z].prev = at, !.elem[a].size = at - a]
  BY Zenon DEF Split, After
<1> HIDE DEF i
<1>4. DOMAIN g = {"elem", "free_head", "dirty"}
        /\ g.elem = k /\ g.free_head = h.free_head /\ g.dirty = h.dirty \cup {at}
  BY <1>2, <1>3, Zenon
<1>5. /\ DOMAIN m = DOMAIN h.elem \cup {at} /\ \A b \in DOMAIN h.elem : m[b] = h.elem[b]
      /\ m[at] = Elem(h.elem[a].size - (at - a), "FREE", 0, -1, h.elem[a].ms)
  BY DEF With
<1> HIDE DEF m
<1>6. /\ DOMAIN k = DOMAIN m /\ k[at] = [m[at] EXCEPT !.prev = a]
      /\ k[a] = [m[a] EXCEPT !.size = at - a] /\ k[z] = [m[z] EXCEPT !.prev = at]
      /\ \A b \in DOMAIN h.elem \ {a, z} : k[b] = m[b]
  <2>1. a # at /\ z # at /\ a # z
    BY <1>1
  <2> QED BY <1>5, <2>1, Zenon
<1> HIDE DEF k
<1>7. /\ k[at] = Elem(z - at, "FREE", 0, a, h.elem[a].ms)
      /\ k[a] = Elem(at - a, h.elem[a].state, h.elem[a].pad, h.elem[a].prev, h.elem[a].ms)
      /\ k[z] = Elem(h.elem[z].size, h.elem[z].state, h.elem[z].pad, at, h.elem[z].ms)
      /\ at - a \in Nat /\ z - at \in Nat
  <2>1. h.elem[a].size - (at - a) = z - at /\ at - a \in Nat /\ z - at \in Nat
    <3> DEFINE size == h.elem[a].size
    <3>1. size \in Nat /\ z = a + size /\ a < at /\ at < z /\ a \in Nat
      BY <1>1 DEF After
    <3> HIDE DEF size
    <3>2. size - (at - a) = z - at /\ at - a \in Nat /\ z - at \in Nat
      BY <3>1
    <3> QED BY <3>2 DEF size
  <2>2. k[at] = Elem(z - at, "FREE", 0, a, h.elem[a].ms)
    BY <1>5, <1>6, <2>1 DEF Elem
  <2>3. k[a] = Elem(at - a, h.elem[a].state, h.elem[a].pad, h.elem[a].prev, h.elem[a].ms)
    <3>1. m[a] = h.elem[a]
      BY <1>5
    <3>2. ASSUME NEW x \in Nat
          PROVE  [h.elem[a] EXCEPT !.size = x]
                   = Elem(x, h.elem[a].state, h.elem[a].pad, h.elem[a].prev, h.elem[a].ms)
      BY <1>1, HdrSize
    <3>3. k[a] = [h.elem[a] EXCEPT !.size = at - a]
      BY <1>6, <3>1
    <3> QED BY <2>1, <3>2, <3>3, Zenon
  <2>4. k[z] = Elem(h.elem[z].size, h.elem[z].state, h.elem[z].pad, at, h.elem[z].ms)
    <3>1. m[z] = h.elem[z]
      BY <1>5
    <3> QED BY <1>1, <1>6, <3>1, HdrPrev
  <2> QED BY <2>1, <2>2, <2>3, <2>4
<1>8. \A b \in DOMAIN k : IsHdr(k[b], n)
  <2>1. IsHdr(k[at], n)
    BY <1>1, <1>7, ElemIs
  <2>2. IsHdr(k[a], n)
    <3>1. k[a] = [h.elem[a] EXCEPT !.size = at - a] /\ at - a \in Nat
      BY <1>5, <1>6, <1>7
    <3> QED BY <1>1, <3>1, HdrSizeType, Zenon
  <2>3. IsHdr(k[z], n)
    <3>1. k[z] = [h.elem[z] EXCEPT !.prev = at] /\ at \in Nat \cup {-1}
      BY <1>5, <1>6
    <3> QED BY <1>1, <3>1, HdrPrevType, Zenon
  <2>4. \A b \in DOMAIN h.elem \ {a, z} : IsHdr(k[b], n)
    BY <1>5, <1>6 DEF Typed
  <2> QED BY <1>5, <1>6, <2>1, <2>2, <2>3, <2>4
<1>9. DOMAIN k \subseteq Nat /\ IsFiniteSet(DOMAIN k)
  <2>1. IsFiniteSet(DOMAIN h.elem) /\ DOMAIN h.elem \subseteq Nat
    BY DEF Typed
  <2> QED BY <1>5, <1>6, <2>1, FS_AddElement
<1>10. Typed(g, n)
  BY <1>4, <1>8, <1>9, Zenon DEF Typed
<1> QED BY <1>4, <1>5, <1>6, <1>7, <1>10

Push(a, list) == <<a>> \o list

Pushed(h, g, S, K, a) ==
  /\ g.free_head[S][K] = Push(a, h.free_head[S][K])
  /\ \A sock \in Sockets, k \in Lists :
       ~(sock = S /\ k = K) => g.free_head[sock][k] = h.free_head[sock][k]

LEMMA InsertIs ==
  ASSUME NEW h, NEW n \in 0 .. Len(Segs), Typed(h, n), NEW a \in DOMAIN h.elem,
         NEW S, S = Segs[h.elem[a].ms].socket_id,
         NEW K, K = FreeListIndex(h.elem[a].size - 1),
         NEW g, g = Insert(h, a)
  PROVE  /\ Typed(g, n) /\ g.dirty = h.dirty /\ DOMAIN g.elem = DOMAIN h.elem
         /\ g.elem[a] = Elem(h.elem[a].size, "FREE", h.elem[a].pad, h.elem[a].prev, h.elem[a].ms)
         /\ \A b \in DOMAIN h.elem \ {a} : g.elem[b] = h.elem[b]
         /\ Pushed(h, g, S, K, a)
<1>1. S \in Sockets /\ K \in Lists /\ a \in Nat /\ IsHdr(h.elem[a], n)
  BY Header, SegFacts, IndexType, Zenon
<1>2. g = [h EXCEPT !.elem[a].state = "FREE", !.free_head[S][K] = <<a>> \o @]
  BY Zenon DEF Insert
<1>3. /\ DOMAIN g = {"elem", "free_head", "dirty"} /\ g.dirty = h.dirty
      /\ g.elem = [h.elem EXCEPT ![a].state = "FREE"]
      /\ g.free_head = [h.free_head EXCEPT ![S][K] = <<a>> \o @]
  BY <1>2, Zenon DEF Typed
<1>4. /\ DOMAIN g.elem = DOMAIN h.elem /\ \A b \in DOMAIN h.elem \ {a} : g.elem[b] = h.elem[b]
      /\ g.elem[a] = [h.elem[a] EXCEPT !.state = "FREE"]
  BY <1>3, Zenon
<1>5. g.elem[a] = Elem(h.elem[a].size, "FREE", h.elem[a].pad, h.elem[a].prev, h.elem[a].ms)
  BY <1>1, <1>4, HdrState
<1>6. \A b \in DOMAIN g.elem : IsHdr(g.elem[b], n)
  <2>1. IsHdr(g.elem[a], n)
    BY <1>5, ElemIs, Header
  <2> QED BY <1>4, <2>1 DEF Typed
<1>7. h.free_head \in [Sockets -> [Lists -> Seq(Nat)]] /\ <<a>> \o h.free_head[S][K] \in Seq(Nat)
  BY <1>1 DEF Typed
<1>8. /\ DOMAIN g.free_head = Sockets /\ \A sock \in Sockets \ {S} : g.free_head[sock] = h.free_head[sock]
      /\ g.free_head[S] = [h.free_head[S] EXCEPT ![K] = <<a>> \o h.free_head[S][K]]
  BY <1>1, <1>3, <1>7, Zenon
<1>9. /\ g.free_head[S][K] = <<a>> \o h.free_head[S][K]
      /\ \A k \in Lists \ {K} : g.free_head[S][k] = h.free_head[S][k]
      /\ g.free_head[S] \in [Lists -> Seq(Nat)]
  <2>1. h.free_head[S] \in [Lists -> Seq(Nat)]
    BY <1>1, <1>7, Zenon
  <2>2. DOMAIN g.free_head[S] = Lists /\ g.free_head[S][K] = <<a>> \o h.free_head[S][K]
    BY <1>1, <1>8, <2>1, Zenon
  <2>3. \A k \in Lists \ {K} : g.free_head[S][k] = h.free_head[S][k]
    BY <1>1, <1>8, <2>1, Zenon
  <2>4. g.free_head[S] = [k \in Lists |-> g.free_head[S][k]]
    BY <1>1, <1>8, <2>1, Zenon
  <2>5. \A k \in Lists : g.free_head[S][k] \in Seq(Nat)
    BY <1>7, <2>1, <2>2, <2>3, Zenon
  <2> QED BY <2>2, <2>3, <2>4, <2>5, Zenon
<1>10. g.free_head \in [Sockets -> [Lists -> Seq(Nat)]]
  <2>1. \A sock \in Sockets : g.free_head[sock] \in [Lists -> Seq(Nat)]
    BY <1>7, <1>8, <1>9, Zenon
  <2>2. g.free_head = [sock \in Sockets |-> g.free_head[sock]]
    BY <1>3, <1>7, Zenon
  <2> QED BY <2>1, <2>2
<1>11. Typed(g, n)
  BY <1>3, <1>4, <1>6, <1>10, Zenon DEF Typed
<1>12. \A sock \in Sockets, k \in Lists :
         ~(sock = S /\ k = K) => g.free_head[sock][k] = h.free_head[sock][k]
  <2>1. ASSUME NEW sock \in Sockets, NEW k \in Lists, ~(sock = S /\ k = K)
        PROVE  g.free_head[sock][k] = h.free_head[sock][k]
    <3>1. CASE sock # S
      BY <1>8, <3>1, Zenon
    <3>2. CASE sock = S
      <4>1. k # K
        BY <2>1, <3>2, Zenon
      <4> QED BY <1>9, <3>2, <4>1, Zenon
    <3> QED BY <3>1, <3>2
  <2> QED BY <2>1, Zenon
<1> QED BY <1>3, <1>4, <1>5, <1>9, <1>11, <1>12, Zenon DEF Push, Pushed

Dropped(list, j, new) ==
  /\ DOMAIN new = 1 .. Len(list) - 1
  /\ \A i \in DOMAIN new : (i < j => new[i] = list[i]) /\ (i >= j => new[i] = list[i + 1])

LEMMA UnlinkIs ==
  ASSUME NEW list \in Seq(Nat), NEW a, NEW g, g = Unlink(list, a)
  PROVE  /\ g \in Seq(Nat)
         /\ ~(\E i \in DOMAIN list : list[i] = a) => g = list
         /\ (\E i \in DOMAIN list : list[i] = a) =>
              \E j \in DOMAIN list : list[j] = a /\ Dropped(list, j, g)
<1>1. CASE ~(\E i \in DOMAIN list : list[i] = a)
  BY <1>1 DEF Unlink
<1>2. CASE \E i \in DOMAIN list : list[i] = a
  <2> DEFINE j == CHOOSE i \in DOMAIN list : list[i] = a
  <2>1. j \in DOMAIN list /\ list[j] = a
    BY <1>2
  <2>2. g = [i \in 1 .. Len(list) - 1 |-> IF i < j THEN list[i] ELSE list[i + 1]]
    BY <1>2 DEF Unlink
  <2> HIDE DEF j
  <2>3. Len(list) \in Nat /\ Len(list) - 1 \in Nat /\ DOMAIN list = 1 .. Len(list)
    BY <2>1
  <2>4. g \in [1 .. Len(list) - 1 -> Nat]
    BY <2>1, <2>2, <2>3
  <2>5. g \in Seq(Nat)
    BY <2>3, <2>4, SeqDef
  <2>6. Dropped(list, j, g)
    BY <2>1, <2>2, <2>3 DEF Dropped
  <2> QED BY <1>2, <2>1, <2>5, <2>6
<1> QED BY <1>1, <1>2

LEMMA RemoveIs ==
  ASSUME NEW h, NEW n \in 0 .. Len(Segs), Typed(h, n), NEW a, NEW g, g = Remove(h, a)
  PROVE  /\ Typed(g, n) /\ g.dirty = h.dirty /\ g.elem = h.elem
         /\ \A sock \in Sockets, k \in Lists :
              /\ g.free_head[sock][k] = Unlink(h.free_head[sock][k], a)
              /\ h.free_head[sock][k] \in Seq(Nat)
<1>1. /\ DOMAIN g = {"elem", "free_head", "dirty"} /\ g.dirty = h.dirty /\ g.elem = h.elem
      /\ g.free_head = [sock \in Sockets |-> [k \in Lists |-> Unlink(h.free_head[sock][k], a)]]
  BY DEF Remove, Typed
<1>2. \A sock \in Sockets, k \in Lists :
        /\ h.free_head[sock][k] \in Seq(Nat)
        /\ Unlink(h.free_head[sock][k], a) \in Seq(Nat)
  BY UnlinkIs DEF Typed
<1>3. g.free_head \in [Sockets -> [Lists -> Seq(Nat)]]
  BY <1>1, <1>2
<1>4. Typed(g, n)
  BY <1>1, <1>3 DEF Typed
<1> QED BY <1>1, <1>2, <1>4

LEMMA JoinIs ==
  ASSUME NEW h, NEW n \in 0 .. Len(Segs), Typed(h, n), NEW a \in DOMAIN h.elem,
         NEW b \in DOMAIN h.elem, a < b, NEW z, z = After(h, b), z \in DOMAIN h.elem, b < z,
         NEW g, g = Join(h, a, b)
  PROVE  /\ Typed(g, n) /\ g.free_head = h.free_head /\ g.dirty = h.dirty
         /\ DOMAIN g.elem = DOMAIN h.elem \ {b}
         /\ g.elem[a] = Elem(h.elem[a].size + h.elem[b].size, h.elem[a].state, h.elem[a].pad,
                             h.elem[a].prev, h.elem[a].ms)
         /\ g.elem[z] = Elem(h.elem[z].size, h.elem[z].state, h.elem[z].pad, a, h.elem[z].ms)
         /\ \A x \in DOMAIN h.elem \ {a, b, z} : g.elem[x] = h.elem[x]
<1> DEFINE m == [h.elem EXCEPT ![a].size = @ + h.elem[b].size, ![z].prev = a]
<1>1. /\ a \in Nat /\ b \in Nat /\ z \in Nat /\ h.elem[a].size \in Nat /\ h.elem[b].size \in Nat
      /\ IsHdr(h.elem[a], n) /\ IsHdr(h.elem[z], n)
  BY Header
<1>2. /\ DOMAIN g = {"elem", "free_head", "dirty"} /\ g.dirty = h.dirty
      /\ g.elem = Without(m, {b}) /\ g.free_head = h.free_head
  <2>1. g = [h EXCEPT !.elem = Without(m, {b})]
    BY DEF Join, After
  <2> HIDE DEF m
  <2> QED BY <2>1 DEF Typed
<1>3. /\ DOMAIN m = DOMAIN h.elem /\ m[a] = [h.elem[a] EXCEPT !.size = h.elem[a].size + h.elem[b].size]
      /\ m[z] = [h.elem[z] EXCEPT !.prev = a] /\ a # z
      /\ \A x \in DOMAIN h.elem \ {a, z} : m[x] = h.elem[x]
  BY <1>1
<1> HIDE DEF m
<1>4. /\ DOMAIN g.elem = DOMAIN h.elem \ {b}
      /\ \A x \in DOMAIN h.elem \ {b} : g.elem[x] = m[x]
  BY <1>2, <1>3 DEF Without
<1>5. g.elem[a] = Elem(h.elem[a].size + h.elem[b].size, h.elem[a].state, h.elem[a].pad,
                       h.elem[a].prev, h.elem[a].ms)
  <2>1. h.elem[a].size + h.elem[b].size \in Nat /\ g.elem[a] = m[a]
    BY <1>1, <1>4
  <2> QED BY <1>1, <1>3, <2>1, HdrSize
<1>6. g.elem[z] = Elem(h.elem[z].size, h.elem[z].state, h.elem[z].pad, a, h.elem[z].ms)
  <2>1. g.elem[z] = m[z] /\ a \in Nat \cup {-1}
    BY <1>1, <1>4
  <2> QED BY <1>1, <1>3, <2>1, HdrPrev
<1>7. IsHdr(g.elem[a], n) /\ IsHdr(g.elem[z], n)
  <2>1. h.elem[a].size + h.elem[b].size \in Nat /\ a \in Nat \cup {-1}
    BY <1>1
  <2>2. /\ g.elem[a] = [h.elem[a] EXCEPT !.size = h.elem[a].size + h.elem[b].size]
        /\ g.elem[z] = [h.elem[z] EXCEPT !.prev = a]
    BY <1>1, <1>3, <1>4
  <2>3. IsHdr(g.elem[a], n)
    <3>1. IsHdr(h.elem[a], n) /\ h.elem[a].size + h.elem[b].size \in Nat
      BY <1>1, <2>1, Zenon
    <3>2. g.elem[a] = [h.elem[a] EXCEPT !.size = h.elem[a].size + h.elem[b].size]
      BY <2>2, Zenon
    <3> QED BY <3>1, <3>2, HdrSizeType, Zenon
  <2>4. IsHdr(g.elem[z], n)
    <3>1. IsHdr(h.elem[z], n) /\ g.elem[z] = [h.elem[z] EXCEPT !.prev = a]
      BY <1>1, <2>2, Zenon
    <3> QED BY <2>1, <3>1, HdrPrevType, Zenon
  <2> QED BY <2>3, <2>4
<1>8. \A x \in DOMAIN g.elem : IsHdr(g.elem[x], n)
  BY <1>3, <1>4, <1>7 DEF Typed
<1>9. Typed(g, n)
  <2>1. IsFiniteSet(DOMAIN h.elem \ {b}) /\ DOMAIN h.elem \ {b} \subseteq Nat
    BY FS_RemoveElement DEF Typed
  <2> QED BY <1>2, <1>4, <1>8, <2>1 DEF Typed
<1>10. \A x \in DOMAIN h.elem \ {a, b, z} : g.elem[x] = h.elem[x]
  BY <1>3, <1>4, Zenon
<1> QED BY <1>2, <1>4, <1>5, <1>6, <1>9, <1>10, Zenon

LEMMA PadIs ==
  ASSUME NEW h, NEW n \in 0 .. Len(Segs), Typed(h, n), NEW a \in DOMAIN h.elem,
         NEW new \in {a, a + 1}, h.elem[a].size >= 2,
         NEW g, g = Pad(h, a, new)
  PROVE  /\ Typed(g, n) /\ g.free_head = h.free_head
         /\ DOMAIN g.elem = DOMAIN h.elem \cup {new} /\ h.dirty \cup {new} = g.dirty \cup {new}
         /\ h.dirty \subseteq g.dirty
         /\ g.elem[a] = Elem(h.elem[a].size, "BUSY", new - a, h.elem[a].prev, h.elem[a].ms)
         /\ new # a =>
              g.elem[new] = Elem(h.elem[a].size - (new - a), "PAD", new - a, -1, h.elem[a].ms)
         /\ \A b \in DOMAIN h.elem \ {a, new} : g.elem[b] = h.elem[b]
<1> DEFINE dummy == Elem(h.elem[a].size - (new - a), "PAD", new - a, -1, h.elem[a].ms)
           k == [h EXCEPT !.elem[a].state = "BUSY", !.elem[a].pad = new - a]
<1>1. /\ a \in Nat /\ h.elem[a].size \in Nat /\ h.elem[a].prev \in Nat \cup {-1}
      /\ h.elem[a].ms \in 1 .. n /\ IsHdr(h.elem[a], n)
  BY Header
<1>2. new \in Nat /\ new - a \in 0 .. 1 /\ h.elem[a].size - (new - a) \in Nat
  BY <1>1
<1>3. /\ DOMAIN k = {"elem", "free_head", "dirty"} /\ k.free_head = h.free_head /\ k.dirty = h.dirty
      /\ k.elem = [h.elem EXCEPT ![a].state = "BUSY", ![a].pad = new - a]
  BY DEF Typed
<1>4. g = IF new - a = 0 THEN k ELSE [k EXCEPT !.elem = With(@, new, dummy), !.dirty = @ \cup {new}]
  BY DEF Pad
<1> HIDE DEF dummy, k
<1>5. /\ DOMAIN k.elem = DOMAIN h.elem /\ \A b \in DOMAIN h.elem \ {a} : k.elem[b] = h.elem[b]
      /\ k.elem[a] = [h.elem[a] EXCEPT !.state = "BUSY", !.pad = new - a]
  BY <1>3
<1>6. k.elem[a] = Elem(h.elem[a].size, "BUSY", new - a, h.elem[a].prev, h.elem[a].ms)
  BY <1>1, <1>5 DEF IsHdr, Elem
<1>7. IsHdr(k.elem[a], n) /\ IsHdr(dummy, n)
  <2>1. "BUSY" \in {"FREE", "BUSY", "PAD"} /\ "PAD" \in {"FREE", "BUSY", "PAD"} /\ -1 \in Nat \cup {-1}
    OBVIOUS
  <2> QED BY <1>1, <1>2, <1>6, <2>1, ElemHdr, Zenon DEF dummy
<1>8. \A b \in DOMAIN k.elem : IsHdr(k.elem[b], n)
  BY <1>5, <1>7 DEF Typed
<1>9. CASE new = a
  <2>1. g = k /\ a \in DOMAIN h.elem
    BY <1>1, <1>4, <1>9
  <2>2. Typed(g, n)
    BY <1>3, <1>5, <1>8, <2>1 DEF Typed
  <2> QED BY <1>3, <1>5, <1>6, <1>9, <2>1, <2>2
<1>10. CASE new # a
  <2>1. /\ DOMAIN g = {"elem", "free_head", "dirty"} /\ g.free_head = h.free_head
        /\ g.dirty = h.dirty \cup {new} /\ g.elem = With(k.elem, new, dummy)
    <3>1. new - a # 0
      BY <1>1, <1>2, <1>10
    <3> QED BY <1>3, <1>4, <3>1
  <2>2. /\ DOMAIN g.elem = DOMAIN h.elem \cup {new} /\ g.elem[new] = dummy
        /\ \A b \in DOMAIN h.elem \ {new} : g.elem[b] = k.elem[b]
    BY <1>5, <2>1 DEF With
  <2>3. \A b \in DOMAIN g.elem : IsHdr(g.elem[b], n)
    BY <1>5, <1>7, <1>8, <2>2
  <2>4. DOMAIN g.elem \subseteq Nat /\ IsFiniteSet(DOMAIN g.elem)
    <3>1. DOMAIN h.elem \subseteq Nat /\ IsFiniteSet(DOMAIN h.elem)
      BY DEF Typed
    <3> QED BY <1>2, <2>2, <3>1, FS_AddElement
  <2>5. Typed(g, n)
    BY <2>1, <2>3, <2>4 DEF Typed
  <2> QED BY <1>5, <1>6, <1>10, <2>1, <2>2, <2>5 DEF dummy
<1> QED BY <1>9, <1>10

SetBusy(h, a) == [h EXCEPT !.elem[a].state = "BUSY"]
Write(h, S) == [h EXCEPT !.dirty = @ \cup S]

LEMMA BusyIs ==
  ASSUME NEW h, NEW n \in 0 .. Len(Segs), Typed(h, n), NEW a \in DOMAIN h.elem,
         NEW g, g = SetBusy(h, a)
  PROVE  /\ Typed(g, n) /\ g.free_head = h.free_head /\ g.dirty = h.dirty
         /\ DOMAIN g.elem = DOMAIN h.elem
         /\ g.elem[a] = Elem(h.elem[a].size, "BUSY", h.elem[a].pad, h.elem[a].prev, h.elem[a].ms)
         /\ \A b \in DOMAIN h.elem \ {a} : g.elem[b] = h.elem[b]
<1>1. /\ DOMAIN g = {"elem", "free_head", "dirty"} /\ g.free_head = h.free_head /\ g.dirty = h.dirty
      /\ g.elem = [h.elem EXCEPT ![a].state = "BUSY"]
  BY DEF Typed, SetBusy
<1>2. IsHdr(h.elem[a], n)
  BY Header
<1>3. /\ DOMAIN g.elem = DOMAIN h.elem /\ \A b \in DOMAIN h.elem \ {a} : g.elem[b] = h.elem[b]
      /\ g.elem[a] = [h.elem[a] EXCEPT !.state = "BUSY"]
  BY <1>1
<1>4. g.elem[a] = Elem(h.elem[a].size, "BUSY", h.elem[a].pad, h.elem[a].prev, h.elem[a].ms)
  BY <1>2, <1>3, HdrState
<1>5. IsHdr(g.elem[a], n)
  BY <1>4, ElemIs, Header
<1>6. \A b \in DOMAIN g.elem : IsHdr(g.elem[b], n)
  BY <1>3, <1>5 DEF Typed
<1>7. Typed(g, n)
  BY <1>1, <1>3, <1>6 DEF Typed
<1> QED BY <1>1, <1>3, <1>4, <1>7

LEMMA ZeroIs ==
  ASSUME NEW h, NEW n \in 0 .. Len(Segs), Typed(h, n), NEW p, NEW sz,
         NEW g, g = Zero(h, p, sz)
  PROVE  /\ Typed(g, n) /\ g.free_head = h.free_head /\ g.dirty = h.dirty \ Lines(p, sz)
         /\ DOMAIN g.elem = DOMAIN h.elem \ Lines(p, sz)
         /\ \A b \in DOMAIN h.elem \ Lines(p, sz) : g.elem[b] = h.elem[b]
<1>1. /\ DOMAIN g = {"elem", "free_head", "dirty"} /\ g.free_head = h.free_head
      /\ g.dirty = h.dirty \ Lines(p, sz) /\ g.elem = Without(h.elem, Lines(p, sz))
  BY DEF Typed, Zero
<1>2. /\ DOMAIN g.elem = DOMAIN h.elem \ Lines(p, sz)
      /\ \A b \in DOMAIN h.elem \ Lines(p, sz) : g.elem[b] = h.elem[b]
  BY <1>1 DEF Without
<1>3. \A b \in DOMAIN g.elem : IsHdr(g.elem[b], n)
  BY <1>2 DEF Typed
<1>4. DOMAIN g.elem \subseteq Nat /\ IsFiniteSet(DOMAIN g.elem)
  <2>1. DOMAIN h.elem \subseteq Nat /\ IsFiniteSet(DOMAIN h.elem)
    BY DEF Typed
  <2>2. DOMAIN g.elem \in SUBSET DOMAIN h.elem
    BY <1>2
  <2> QED BY <2>1, <2>2, FS_Subset
<1>5. Typed(g, n)
  BY <1>1, <1>3, <1>4 DEF Typed
<1> QED BY <1>1, <1>2, <1>5

-----------------------------------------------------------------------------
(* The elements tile the memsegs.                                          *)
LEMMA Links ==
  ASSUME NEW h, NEW n \in 0 .. Len(Segs), Tiled(h, n), NEW a \in ElemsOf(h) \ Ends(n)
  PROVE  /\ a \in DOMAIN h.elem /\ a \in Nat /\ After(h, a) \in Nat /\ a + 2 <= After(h, a)
         /\ h.elem[a].size = After(h, a) - a
         /\ After(h, a) \in ElemsOf(h) /\ After(h, a) \in DOMAIN h.elem
         /\ h.elem[After(h, a)].prev = a /\ h.elem[After(h, a)].ms = h.elem[a].ms
         /\ \A b \in ElemsOf(h) : b \in Nat /\ (b <= a \/ After(h, a) <= b)
<1>1. Typed(h, n) /\ Linked(h, n, a) /\ a \in DOMAIN h.elem /\ \A b \in ElemsOf(h) : b \in DOMAIN h.elem
  BY DEF Tiled, ElemsOf
<1>2. /\ h.elem[a].size >= 2 /\ After(h, a) \in ElemsOf(h) /\ h.elem[After(h, a)].prev = a
      /\ h.elem[After(h, a)].ms = h.elem[a].ms
      /\ \A b \in ElemsOf(h) : b <= a \/ After(h, a) <= b
  BY <1>1 DEF Linked
<1>3. a \in Nat /\ h.elem[a].size \in Nat /\ \A b \in ElemsOf(h) : b \in Nat
  BY <1>1, Header
<1>4. After(h, a) \in Nat /\ a + 2 <= After(h, a) /\ h.elem[a].size = After(h, a) - a
  BY <1>2, <1>3 DEF After
<1> QED BY <1>1, <1>2, <1>3, <1>4

LEMMA Inside ==
  ASSUME NEW h, NEW n \in 0 .. Len(Segs), Tiled(h, n), NEW a \in ElemsOf(h)
  PROVE  /\ a \in DOMAIN h.elem /\ a \in Nat /\ h.elem[a].ms \in 1 .. n /\ h.elem[a].ms \in 1 .. Len(Segs)
         /\ Segs[h.elem[a].ms].addr <= a /\ a <= EndElem(h.elem[a].ms)
         /\ h.elem[a].prev \in Nat \cup {-1}
         /\ h.elem[a].prev = -1 => a = Segs[h.elem[a].ms].addr
         /\ h.elem[a].prev # -1 =>
              h.elem[a].prev \in ElemsOf(h) \ Ends(n) /\ After(h, h.elem[a].prev) = a
<1>1. Typed(h, n) /\ Linked(h, n, a) /\ a \in DOMAIN h.elem
  BY DEF Tiled, ElemsOf
<1> QED BY <1>1, Header DEF Linked

LEMMA EndsAre ==
  ASSUME NEW h, NEW n \in 0 .. Len(Segs), Tiled(h, n)
  PROVE  /\ Ends(n) \subseteq ElemsOf(h)
         /\ \A a \in Ends(n) : h.elem[a].state = "BUSY"
         /\ FreeOf(h) \cap Ends(n) = {}
<1>1. Bordered(h, n)
  BY DEF Tiled
<1>2. \A a \in Ends(n) : a \in ElemsOf(h) /\ h.elem[a].state = "BUSY"
  BY <1>1 DEF Bordered, Ends
<1> QED BY <1>2 DEF FreeOf

(* What does not touch sizes and links does not touch the tiling.          *)
LEMMA TiledFrame ==
  ASSUME NEW h, NEW g, NEW n \in 0 .. Len(Segs), Tiled(h, n), Typed(g, n),
         ElemsOf(g) = ElemsOf(h),
         \A a \in ElemsOf(h) : /\ g.elem[a].size = h.elem[a].size /\ g.elem[a].prev = h.elem[a].prev
                               /\ g.elem[a].ms = h.elem[a].ms,
         \A a \in Ends(n) : g.elem[a].state = "BUSY"
  PROVE  Tiled(g, n)
<1>1. \A a \in ElemsOf(h) : After(g, a) = After(h, a)
  BY DEF After
<1>2. Bordered(g, n)
  <2>1. Bordered(h, n)
    BY DEF Tiled
  <2> QED BY <2>1 DEF Bordered, Ends
<1>3. ASSUME NEW a \in ElemsOf(g)
      PROVE  Linked(g, n, a)
  <2>1. Linked(h, n, a)
    BY DEF Tiled
  <2>2. a \in ElemsOf(h) /\ After(g, a) = After(h, a)
    BY <1>1
  <2>3. Segs[g.elem[a].ms].addr <= a /\ a <= EndElem(g.elem[a].ms)
    BY <2>1, <2>2 DEF Linked
  <2>4. ASSUME a \notin Ends(n)
        PROVE  /\ g.elem[a].size >= 2 /\ After(g, a) \in ElemsOf(g) /\ g.elem[After(g, a)].prev = a
               /\ g.elem[After(g, a)].ms = g.elem[a].ms
               /\ \A b \in ElemsOf(g) : b <= a \/ After(g, a) <= b
    BY <2>1, <2>2, <2>4 DEF Linked
  <2>5. IF g.elem[a].prev = -1 THEN a = Segs[g.elem[a].ms].addr
        ELSE g.elem[a].prev \in ElemsOf(g) \ Ends(n) /\ After(g, g.elem[a].prev) = a
    BY <1>1, <2>1, <2>2, Zenon DEF Linked
  <2> QED BY <2>3, <2>4, <2>5 DEF Linked
<1> QED BY <1>2, <1>3 DEF Tiled

LEMMA SplitTiled ==
  ASSUME NEW h, NEW n \in 0 .. Len(Segs), Tiled(h, n), NEW a \in ElemsOf(h) \ Ends(n),
         NEW at \in Nat, at \notin DOMAIN h.elem, a + 2 <= at, at + 2 <= After(h, a),
         NEW g, g = Split(h, a, at)
  PROVE  /\ Tiled(g, n) /\ ElemsOf(g) = ElemsOf(h) \cup {at} /\ at \notin Ends(n)
         /\ After(g, a) = at /\ After(g, at) = After(h, a)
         /\ \A b \in ElemsOf(h) \ {a} : After(g, b) = After(h, b)
         /\ DOMAIN g.elem = DOMAIN h.elem \cup {at}
         /\ g.free_head = h.free_head /\ g.dirty = h.dirty \cup {at}
         /\ g.elem[at].state = "FREE" /\ g.elem[at].pad = 0 /\ g.elem[at].ms = h.elem[a].ms
         /\ g.elem[a].prev = h.elem[a].prev
         /\ \A b \in DOMAIN h.elem : /\ g.elem[b].state = h.elem[b].state /\ g.elem[b].pad = h.elem[b].pad
                                     /\ g.elem[b].ms = h.elem[b].ms
                                     /\ b # a => g.elem[b].size = h.elem[b].size
                                     /\ b # After(h, a) => g.elem[b].prev = h.elem[b].prev
<1> DEFINE z == After(h, a)
<1>1. /\ a \in DOMAIN h.elem /\ a \in Nat /\ z \in Nat /\ z \in ElemsOf(h) /\ z \in DOMAIN h.elem
      /\ h.elem[z].prev = a /\ h.elem[z].ms = h.elem[a].ms
      /\ \A b \in ElemsOf(h) : b \in Nat /\ (b <= a \/ z <= b)
  BY Links
<1>2. a < at /\ at < z /\ Typed(h, n)
  BY <1>1 DEF Tiled
<1>3. /\ Typed(g, n) /\ g.free_head = h.free_head /\ g.dirty = h.dirty \cup {at}
      /\ DOMAIN g.elem = DOMAIN h.elem \cup {at}
      /\ g.elem[at] = Elem(z - at, "FREE", 0, a, h.elem[a].ms)
      /\ g.elem[a] = Elem(at - a, h.elem[a].state, h.elem[a].pad, h.elem[a].prev, h.elem[a].ms)
      /\ g.elem[z] = Elem(h.elem[z].size, h.elem[z].state, h.elem[z].pad, at, h.elem[z].ms)
      /\ \A b \in DOMAIN h.elem \ {a, z} : g.elem[b] = h.elem[b]
  BY <1>1, <1>2, SplitIs
<1>4. /\ g.elem[at].size = z - at /\ g.elem[at].state = "FREE" /\ g.elem[at].pad = 0
      /\ g.elem[at].prev = a /\ g.elem[at].ms = h.elem[a].ms
      /\ g.elem[a].size = at - a /\ g.elem[a].prev = h.elem[a].prev /\ g.elem[z].prev = at
  BY <1>3, ElemIs
<1>5. \A b \in DOMAIN h.elem : /\ g.elem[b].state = h.elem[b].state /\ g.elem[b].pad = h.elem[b].pad
                               /\ g.elem[b].ms = h.elem[b].ms
                               /\ b # a => g.elem[b].size = h.elem[b].size
                               /\ b # z => g.elem[b].prev = h.elem[b].prev
  <2>1. /\ g.elem[a].state = h.elem[a].state /\ g.elem[a].pad = h.elem[a].pad /\ g.elem[a].ms = h.elem[a].ms
        /\ g.elem[z].state = h.elem[z].state /\ g.elem[z].pad = h.elem[z].pad /\ g.elem[z].ms = h.elem[z].ms
        /\ g.elem[z].size = h.elem[z].size
    BY <1>3, ElemIs
  <2> QED BY <1>3, <1>4, <2>1
<1>6. ElemsOf(g) = ElemsOf(h) \cup {at}
  BY <1>3, <1>4, <1>5 DEF ElemsOf
<1>7. at \notin Ends(n)
  BY EndsAre DEF ElemsOf
<1>8. /\ After(g, a) = at /\ After(g, at) = z /\ \A b \in ElemsOf(h) \ {a} : After(g, b) = After(h, b)
  <2>1. a + (at - a) = at /\ at + (z - at) = z
    BY <1>1
  <2>2. After(g, a) = at /\ After(g, at) = z
    BY <1>4, <2>1 DEF After
  <2>3. ASSUME NEW b \in ElemsOf(h) \ {a}
        PROVE  After(g, b) = After(h, b)
    BY <1>5 DEF After, ElemsOf
  <2> QED BY <2>2, <2>3
<1>9. Bordered(g, n)
  <2>1. Bordered(h, n)
    BY DEF Tiled
  <2>2. \A s \in 1 .. n : Segs[s].addr # z
    <3>1. \A s \in 1 .. n : Segs[s].addr = z => h.elem[z].prev = -1
      BY <2>1 DEF Bordered
    <3> QED BY <1>1, <3>1
  <2>3. ASSUME NEW s \in 1 .. n, NEW x, x = Segs[s].addr, NEW y, y = EndElem(s)
        PROVE  /\ x \in ElemsOf(g) /\ g.elem[x].ms = s /\ g.elem[x].prev = -1
               /\ y \in ElemsOf(g) /\ g.elem[y].ms = s /\ g.elem[y].state = "BUSY"
    <3>1. /\ x \in ElemsOf(h) /\ h.elem[x].ms = s /\ h.elem[x].prev = -1 /\ x # z
          /\ y \in ElemsOf(h) /\ h.elem[y].ms = s /\ h.elem[y].state = "BUSY"
      BY <2>1, <2>2, <2>3 DEF Bordered
    <3>2. x \in DOMAIN h.elem /\ y \in DOMAIN h.elem
      BY <3>1 DEF ElemsOf
    <3> QED BY <1>5, <1>6, <3>1, <3>2
  <2> QED BY <2>3, Zenon DEF Bordered, NULL
<1>10. ASSUME NEW b \in ElemsOf(g)
       PROVE  Linked(g, n, b)
  <2>1. CASE b = at
    <3>1. Segs[h.elem[a].ms].addr <= at /\ at <= EndElem(h.elem[a].ms)
      <4>1. /\ h.elem[a].ms \in 1 .. Len(Segs) /\ Segs[h.elem[a].ms].addr <= a
            /\ z <= EndElem(h.elem[a].ms)
        BY <1>1, Inside
      <4>2. Segs[h.elem[a].ms].addr \in Nat /\ EndElem(h.elem[a].ms) \in Nat
        BY <4>1, SegFacts
      <4> DEFINE lo == Segs[h.elem[a].ms].addr
                 hi == EndElem(h.elem[a].ms)
      <4>3. lo \in Nat /\ hi \in Nat /\ lo <= a /\ z <= hi /\ a < at /\ at < z /\ z \in Nat /\ a \in Nat
        BY <1>1, <1>2, <4>1, <4>2
      <4> HIDE DEF lo, hi, z
      <4>4. lo <= at /\ at <= hi
        BY <4>3
      <4> QED BY <4>4 DEF lo, hi
    <3>2. \A c \in ElemsOf(g) : c <= at \/ z <= c
      BY <1>1, <1>2, <1>6
    <3>3. z \in ElemsOf(g) /\ g.elem[z].ms = g.elem[at].ms /\ z - at >= 2
      BY <1>1, <1>4, <1>5, <1>6
    <3>4. a \in ElemsOf(g) \ Ends(n) /\ a # -1
      BY <1>1, <1>6
    <3> QED BY <1>4, <1>8, <2>1, <3>1, <3>2, <3>3, <3>4 DEF Linked
  <2>2. CASE b = a
    <3>1. Linked(h, n, a)
      BY DEF Tiled
    <3>2. Segs[g.elem[a].ms].addr <= a /\ a <= EndElem(g.elem[a].ms)
      BY <1>1, <1>5, <3>1 DEF Linked
    <3>3. \A c \in ElemsOf(g) : c <= a \/ at <= c
      BY <1>1, <1>2, <1>6
    <3>4. at \in ElemsOf(g) /\ g.elem[at].ms = g.elem[a].ms /\ at - a >= 2
      BY <1>1, <1>4, <1>5, <1>6
    <3>5. IF g.elem[a].prev = -1 THEN a = Segs[g.elem[a].ms].addr
          ELSE g.elem[a].prev \in ElemsOf(g) \ Ends(n) /\ After(g, g.elem[a].prev) = a
      <4> DEFINE q == h.elem[a].prev
      <4>1. g.elem[a].prev = q /\ g.elem[a].ms = h.elem[a].ms
        BY <1>1, <1>4, <1>5
      <4>2. q = -1 => a = Segs[h.elem[a].ms].addr
        BY <3>1 DEF Linked
      <4>3. ASSUME q # -1
            PROVE  q \in ElemsOf(g) \ Ends(n) /\ After(g, q) = a
        <5>1. q \in ElemsOf(h) \ Ends(n) /\ After(h, q) = a
          BY <3>1, <4>3 DEF Linked
        <5> HIDE DEF q
        <5>2. q # a
          BY <1>1, <1>2, <5>1
        <5> QED BY <1>6, <1>8, <5>1, <5>2
      <4> HIDE DEF q
      <4> QED BY <4>1, <4>2, <4>3
    <3> QED BY <1>4, <1>8, <2>2, <3>2, <3>3, <3>4, <3>5 DEF Linked
  <2>3. CASE b # a /\ b # at
    <3>1. b \in ElemsOf(h) /\ b \in DOMAIN h.elem /\ Linked(h, n, b) /\ After(g, b) = After(h, b)
      BY <1>6, <1>8, <2>3 DEF Tiled, ElemsOf
    <3>2. Segs[g.elem[b].ms].addr <= b /\ b <= EndElem(g.elem[b].ms)
      BY <1>5, <3>1 DEF Linked
    <3>3. ASSUME b \notin Ends(n)
          PROVE  /\ g.elem[b].size >= 2 /\ After(g, b) \in ElemsOf(g) /\ g.elem[After(g, b)].prev = b
                 /\ g.elem[After(g, b)].ms = g.elem[b].ms
                 /\ \A c \in ElemsOf(g) : c <= b \/ After(g, b) <= c
      <4>1. /\ After(h, b) \in ElemsOf(h) /\ After(h, b) \in DOMAIN h.elem /\ h.elem[After(h, b)].prev = b
            /\ h.elem[After(h, b)].ms = h.elem[b].ms
            /\ \A c \in ElemsOf(h) : c <= b \/ After(h, b) <= c
            /\ After(h, b) \in Nat /\ b \in Nat
        BY <3>1, <3>3, Links
      <4>2. After(h, b) # z
        BY <1>1, <2>3, <4>1
      <4>3. g.elem[After(g, b)].prev = b /\ g.elem[After(g, b)].ms = g.elem[b].ms
        BY <1>5, <3>1, <4>1, <4>2
      <4>4. at <= b \/ After(h, b) <= at
        BY <1>1, <1>2, <2>3, <3>1, <4>1
      <4>5. g.elem[b].size >= 2
        BY <1>5, <2>3, <3>1, <3>3 DEF Linked
      <4> QED BY <1>6, <3>1, <4>1, <4>3, <4>4, <4>5
    <3>4. IF g.elem[b].prev = -1 THEN b = Segs[g.elem[b].ms].addr
          ELSE g.elem[b].prev \in ElemsOf(g) \ Ends(n) /\ After(g, g.elem[b].prev) = b
      <4>1. CASE b = z
        <5>1. g.elem[b].prev = at /\ at # -1 /\ at \in ElemsOf(g) \ Ends(n) /\ After(g, at) = b
          BY <1>4, <1>6, <1>7, <1>8, <4>1
        <5> QED BY <5>1
      <4>2. CASE b # z
        <5>1. g.elem[b].prev = h.elem[b].prev /\ g.elem[b].ms = h.elem[b].ms
          BY <1>5, <3>1, <4>2
        <5>2. h.elem[b].prev # a
          BY <3>1, <1>1, <4>2 DEF Linked
        <5> QED BY <1>6, <1>8, <3>1, <5>1, <5>2 DEF Linked
      <4> QED BY <4>1, <4>2
    <3> QED BY <3>2, <3>3, <3>4 DEF Linked
  <2> QED BY <2>1, <2>2, <2>3
<1>11. Tiled(g, n)
  BY <1>3, <1>9, <1>10 DEF Tiled
<1> QED BY <1>3, <1>4, <1>5, <1>6, <1>7, <1>8, <1>11

LEMMA JoinTiled ==
  ASSUME NEW h, NEW n \in 0 .. Len(Segs), Tiled(h, n), NEW a \in ElemsOf(h) \ Ends(n),
         NEW b \in ElemsOf(h) \ Ends(n), b = After(h, a),
         NEW g, g = Join(h, a, b)
  PROVE  /\ Tiled(g, n) /\ ElemsOf(g) = ElemsOf(h) \ {b}
         /\ After(g, a) = After(h, b)
         /\ \A c \in ElemsOf(h) \ {a, b} : After(g, c) = After(h, c)
         /\ DOMAIN g.elem = DOMAIN h.elem \ {b}
         /\ g.free_head = h.free_head /\ g.dirty = h.dirty
         /\ g.elem[a].prev = h.elem[a].prev
         /\ \A c \in DOMAIN h.elem \ {b} :
              /\ g.elem[c].state = h.elem[c].state /\ g.elem[c].pad = h.elem[c].pad
              /\ g.elem[c].ms = h.elem[c].ms
              /\ c # a => g.elem[c].size = h.elem[c].size
              /\ c # After(h, b) => g.elem[c].prev = h.elem[c].prev
<1> DEFINE z == After(h, b)
<1>1. /\ a \in DOMAIN h.elem /\ a \in Nat /\ b \in DOMAIN h.elem /\ b \in Nat /\ a + 2 <= b
      /\ h.elem[a].size = b - a /\ h.elem[b].prev = a /\ h.elem[b].ms = h.elem[a].ms
      /\ \A c \in ElemsOf(h) : c \in Nat /\ (c <= a \/ b <= c)
  BY Links
<1>2. /\ z \in Nat /\ z \in ElemsOf(h) /\ z \in DOMAIN h.elem /\ b + 2 <= z
      /\ h.elem[b].size = z - b /\ h.elem[z].prev = b /\ h.elem[z].ms = h.elem[b].ms
      /\ \A c \in ElemsOf(h) : c <= b \/ z <= c
  BY Links
<1>3. /\ Typed(g, n) /\ g.free_head = h.free_head /\ g.dirty = h.dirty
      /\ DOMAIN g.elem = DOMAIN h.elem \ {b}
      /\ g.elem[a] = Elem(h.elem[a].size + h.elem[b].size, h.elem[a].state, h.elem[a].pad,
                          h.elem[a].prev, h.elem[a].ms)
      /\ g.elem[z] = Elem(h.elem[z].size, h.elem[z].state, h.elem[z].pad, a, h.elem[z].ms)
      /\ \A x \in DOMAIN h.elem \ {a, b, z} : g.elem[x] = h.elem[x]
  <2>1. a < b /\ b < z /\ Typed(h, n)
    BY <1>1, <1>2 DEF Tiled
  <2> QED BY <1>1, <1>2, <2>1, JoinIs
<1>4. g.elem[a].size = h.elem[a].size + h.elem[b].size /\ g.elem[a].prev = h.elem[a].prev /\ g.elem[z].prev = a
  BY <1>3, ElemIs
<1>5. \A c \in DOMAIN h.elem \ {b} : /\ g.elem[c].state = h.elem[c].state /\ g.elem[c].pad = h.elem[c].pad
                                     /\ g.elem[c].ms = h.elem[c].ms
                                     /\ c # a => g.elem[c].size = h.elem[c].size
                                     /\ c # z => g.elem[c].prev = h.elem[c].prev
  <2>1. /\ g.elem[a].state = h.elem[a].state /\ g.elem[a].pad = h.elem[a].pad /\ g.elem[a].ms = h.elem[a].ms
        /\ g.elem[z].state = h.elem[z].state /\ g.elem[z].pad = h.elem[z].pad /\ g.elem[z].ms = h.elem[z].ms
        /\ g.elem[z].size = h.elem[z].size
    BY <1>3, ElemIs
  <2> QED BY <1>3, <1>4, <2>1
<1>6. ElemsOf(g) = ElemsOf(h) \ {b}
  BY <1>3, <1>5 DEF ElemsOf
<1>8. After(g, a) = z /\ \A c \in ElemsOf(h) \ {a, b} : After(g, c) = After(h, c)
  <2>1. a + ((b - a) + (z - b)) = z
    BY <1>1, <1>2
  <2>2. After(g, a) = z
    BY <1>1, <1>2, <1>4, <2>1, Zenon DEF After
  <2>3. ASSUME NEW c \in ElemsOf(h) \ {a, b}
        PROVE  After(g, c) = After(h, c)
    BY <1>5 DEF After, ElemsOf
  <2> QED BY <2>2, <2>3
<1>9. Bordered(g, n)
  <2>1. Bordered(h, n)
    BY DEF Tiled
  <2>2. \A s \in 1 .. n : Segs[s].addr # z /\ Segs[s].addr # b
    <3>1. \A s \in 1 .. n : h.elem[Segs[s].addr].prev = -1
      BY <2>1 DEF Bordered
    <3> QED BY <1>1, <1>2, <3>1
  <2>3. \A s \in 1 .. n : EndElem(s) # b
    BY DEF Ends
  <2> QED BY <1>5, <1>6, <2>1, <2>2, <2>3 DEF Bordered, ElemsOf
<1>10. ASSUME NEW c \in ElemsOf(g)
       PROVE  Linked(g, n, c)
  <2>1. c \in ElemsOf(h) /\ c \in DOMAIN h.elem /\ c # b /\ Linked(h, n, c) /\ c \in Nat
    BY <1>1, <1>6 DEF Tiled, ElemsOf
  <2>2. Segs[g.elem[c].ms].addr <= c /\ c <= EndElem(g.elem[c].ms)
    BY <1>5, <2>1 DEF Linked
  <2>3. ASSUME c \notin Ends(n)
        PROVE  /\ g.elem[c].size >= 2 /\ After(g, c) \in ElemsOf(g) /\ g.elem[After(g, c)].prev = c
               /\ g.elem[After(g, c)].ms = g.elem[c].ms
               /\ \A x \in ElemsOf(g) : x <= c \/ After(g, c) <= x
    <3>1. CASE c = a
      <4>1. g.elem[a].size >= 2
        BY <1>1, <1>2, <1>4
      <4>2. z # b /\ g.elem[z].ms = g.elem[a].ms
        <5>1. z # b /\ a # b
          BY <1>1, <1>2
        <5> QED BY <1>1, <1>2, <1>5, <5>1
      <4>3. \A x \in ElemsOf(g) : x <= a \/ z <= x
        BY <1>1, <1>2, <1>6
      <4> QED BY <1>2, <1>4, <1>6, <1>8, <3>1, <4>1, <4>2, <4>3
    <3>2. CASE c # a
      <4>1. /\ After(h, c) \in ElemsOf(h) /\ After(h, c) \in DOMAIN h.elem /\ h.elem[After(h, c)].prev = c
            /\ h.elem[After(h, c)].ms = h.elem[c].ms
            /\ \A x \in ElemsOf(h) : x <= c \/ After(h, c) <= x
        BY <2>1, <2>3, Links
      <4>2. After(h, c) # z /\ After(h, c) # b
        BY <1>1, <1>2, <2>1, <3>2, <4>1
      <4>3. After(g, c) = After(h, c) /\ g.elem[c].size >= 2
        BY <1>5, <1>8, <2>1, <2>3, <3>2 DEF Linked
      <4>4. g.elem[After(g, c)].prev = c /\ g.elem[After(g, c)].ms = g.elem[c].ms
        BY <1>5, <2>1, <4>1, <4>2, <4>3
      <4> QED BY <1>6, <4>1, <4>2, <4>3, <4>4
    <3> QED BY <3>1, <3>2
  <2>4. IF g.elem[c].prev = -1 THEN c = Segs[g.elem[c].ms].addr
        ELSE g.elem[c].prev \in ElemsOf(g) \ Ends(n) /\ After(g, g.elem[c].prev) = c
    <3>1. CASE c = z
      <4>1. g.elem[c].prev = a /\ a # -1 /\ a \in ElemsOf(g) \ Ends(n) /\ After(g, a) = c
        BY <1>1, <1>4, <1>6, <1>8, <3>1
      <4> QED BY <4>1
    <3>2. CASE c # z
      <4>1. g.elem[c].prev = h.elem[c].prev /\ g.elem[c].ms = h.elem[c].ms
        BY <1>5, <2>1, <3>2
      <4>2. h.elem[c].prev # b /\ h.elem[c].prev # a
        BY <1>1, <2>1, <3>2 DEF Linked
      <4> QED BY <1>6, <1>8, <2>1, <4>1, <4>2 DEF Linked
    <3> QED BY <3>1, <3>2
  <2> QED BY <2>2, <2>3, <2>4 DEF Linked
<1>11. Tiled(g, n)
  BY <1>3, <1>9, <1>10 DEF Tiled
<1> QED BY <1>3, <1>4, <1>5, <1>6, <1>8, <1>11

-----------------------------------------------------------------------------
(* The free lists.                                                         *)
LEMMA ListedFrame ==
  ASSUME NEW h, NEW g, NEW L, Listed(h, L), g.free_head = h.free_head, L \subseteq FreeOf(g),
         \A a \in L : g.elem[a].size = h.elem[a].size /\ g.elem[a].ms = h.elem[a].ms
  PROVE  Listed(g, L)
<1>1. \A a \in L : ListOf(g, a) = ListOf(h, a)
  BY DEF ListOf
<1>2. \A a \in L : \E i \in DOMAIN ListOf(g, a) : ListOf(g, a)[i] = a
  BY <1>1 DEF Listed
<1>3. \A sock, k, a : Belongs(h, L, sock, k, a) => Belongs(g, L, sock, k, a)
  BY DEF Belongs
<1> QED BY <1>2, <1>3 DEF Listed

LEMMA PushEntries ==
  ASSUME NEW old \in Seq(Nat), NEW a \in Nat, OnceEach(old), \A i \in DOMAIN old : old[i] # a,
         NEW new, new = Push(a, old)
  PROVE  /\ OnceEach(new)
         /\ \A i \in DOMAIN new : new[i] = a \/ \E x \in DOMAIN old : new[i] = old[x]
         /\ \E i \in DOMAIN new : new[i] = a
         /\ \A x \in DOMAIN old : \E i \in DOMAIN new : new[i] = old[x]
<1>1. Len(old) \in Nat /\ DOMAIN old = 1 .. Len(old)
  OBVIOUS
<1>2. /\ DOMAIN new = 1 .. Len(old) + 1 /\ new[1] = a
      /\ \A i \in 2 .. Len(old) + 1 : new[i] = old[i - 1] /\ i - 1 \in DOMAIN old
  BY <1>1 DEF Push
<1>3. \A i \in DOMAIN new : i = 1 \/ i \in 2 .. Len(old) + 1
  BY <1>1, <1>2
<1>4. OnceEach(new)
  <2> SUFFICES ASSUME NEW i \in DOMAIN new, NEW j \in DOMAIN new, new[i] = new[j]
               PROVE  i = j
    BY DEF OnceEach
  <2>1. CASE i = 1 \/ j = 1
    BY <1>2, <1>3, <2>1
  <2>2. CASE i \in 2 .. Len(old) + 1 /\ j \in 2 .. Len(old) + 1
    <3>1. i - 1 = j - 1
      BY <1>2, <2>2 DEF OnceEach
    <3> QED BY <1>1, <2>2, <3>1
  <2> QED BY <1>3, <2>1, <2>2
<1>5. ASSUME NEW x \in DOMAIN old
      PROVE  \E i \in DOMAIN new : new[i] = old[x]
  <2>1. x \in 1 .. Len(old)
    BY <1>1
  <2>2. x + 1 \in 2 .. Len(old) + 1 /\ (x + 1) - 1 = x /\ x + 1 \in 1 .. Len(old) + 1
    BY <1>1, <2>1
  <2> QED BY <1>2, <2>2
<1>6. 1 \in DOMAIN new
  BY <1>1, <1>2
<1> QED BY <1>2, <1>3, <1>4, <1>5, <1>6

LEMMA UnlinkEntries ==
  ASSUME NEW list \in Seq(Nat), NEW a, OnceEach(list), NEW new, new = Unlink(list, a)
  PROVE  /\ OnceEach(new)
         /\ \A i \in DOMAIN new : \E x \in DOMAIN list : new[i] = list[x] /\ new[i] # a
         /\ \A x \in DOMAIN list : list[x] # a => \E i \in DOMAIN new : new[i] = list[x]
<1>1. DOMAIN list = 1 .. Len(list) /\ Len(list) \in Nat
  OBVIOUS
<1>2. \A i \in DOMAIN list : \A j \in DOMAIN list : list[i] = list[j] => i = j
  BY DEF OnceEach
<1>3. CASE ~(\E i \in DOMAIN list : list[i] = a)
  <2>1. new = list
    BY <1>3, UnlinkIs
  <2> QED BY <1>2, <1>3, <2>1
<1>4. CASE \E i \in DOMAIN list : list[i] = a
  <2>0. PICK d \in DOMAIN list : list[d] = a /\ Dropped(list, d, new)
    BY <1>4, UnlinkIs
  <2>1. /\ list[d] = a /\ DOMAIN new = 1 .. Len(list) - 1 /\ d \in 1 .. Len(list)
        /\ \A i \in DOMAIN new : (i < d => new[i] = list[i]) /\ (i >= d => new[i] = list[i + 1])
    BY <1>1, <2>0 DEF Dropped
  <2> DEFINE f(i) == IF i < d THEN i ELSE i + 1
  <2>2. \A i \in DOMAIN new : new[i] = list[f(i)] /\ f(i) \in DOMAIN list /\ f(i) # d
    BY <1>1, <2>1
  <2>3. \A i \in DOMAIN new : \E x \in DOMAIN list : new[i] = list[x] /\ new[i] # a
    BY <1>2, <2>1, <2>2
  <2>4. OnceEach(new)
    <3> SUFFICES ASSUME NEW i \in DOMAIN new, NEW j \in DOMAIN new, new[i] = new[j]
                 PROVE  i = j
      BY DEF OnceEach
    <3>1. f(i) = f(j)
      <4> HIDE DEF f
      <4> QED BY <1>2, <2>2
    <3> QED BY <1>1, <2>1, <3>1
  <2>5. \A x \in DOMAIN list : list[x] # a => \E i \in DOMAIN new : new[i] = list[x]
    <3> SUFFICES ASSUME NEW x \in DOMAIN list, list[x] # a
                 PROVE  \E i \in DOMAIN new : new[i] = list[x]
      OBVIOUS
    <3>1. CASE x < d
      <4>1. x \in DOMAIN new /\ new[x] = list[x]
        BY <1>1, <2>1, <3>1
      <4> QED BY <4>1
    <3>2. CASE ~(x < d)
      <4>1. x # d
        BY <2>1
      <4>2. x - 1 \in DOMAIN new /\ x - 1 >= d /\ (x - 1) + 1 = x
        BY <1>1, <2>1, <3>2, <4>1
      <4>3. new[x - 1] = list[x]
        BY <2>1, <4>2
      <4> QED BY <4>2, <4>3
    <3> QED BY <3>1, <3>2
  <2> QED BY <2>3, <2>4, <2>5
<1> QED BY <1>3, <1>4

LEMMA ListedInsert ==
  ASSUME NEW h, NEW n \in 0 .. Len(Segs), Typed(h, n), NEW L, Listed(h, L),
         NEW a \in ElemsOf(h) \ L, NEW g, g = Insert(h, a)
  PROVE  Listed(g, L \cup {a})
<1> DEFINE S == Segs[h.elem[a].ms].socket_id
           K == FreeListIndex(h.elem[a].size - 1)
           old == h.free_head[S][K]
           new == g.free_head[S][K]
<1>1. a \in DOMAIN h.elem /\ a \in Nat /\ S \in Sockets /\ K \in Lists
  BY Header, SegFacts, IndexType, Zenon DEF ElemsOf
<1>2. S = Segs[h.elem[a].ms].socket_id /\ K = FreeListIndex(h.elem[a].size - HEADER_LEN)
  OBVIOUS
<1> HIDE DEF S, K
<1>3. /\ DOMAIN g.elem = DOMAIN h.elem
      /\ g.elem[a] = Elem(h.elem[a].size, "FREE", h.elem[a].pad, h.elem[a].prev, h.elem[a].ms)
      /\ \A b \in DOMAIN h.elem \ {a} : g.elem[b] = h.elem[b]
      /\ g.free_head[S][K] = Push(a, h.free_head[S][K])
      /\ \A sock \in Sockets, k \in Lists :
           ~(sock = S /\ k = K) => g.free_head[sock][k] = h.free_head[sock][k]
  <2>1. Typed(h, n) /\ n \in 0 .. Len(Segs) /\ K = FreeListIndex(h.elem[a].size - 1)
    BY <1>2
  <2>2. Typed(g, n) /\ Pushed(h, g, S, K, a) /\ DOMAIN g.elem = DOMAIN h.elem
        /\ g.elem[a] = Elem(h.elem[a].size, "FREE", h.elem[a].pad, h.elem[a].prev, h.elem[a].ms)
        /\ \A b \in DOMAIN h.elem \ {a} : g.elem[b] = h.elem[b]
    BY <1>1, <1>2, <2>1, InsertIs
  <2> QED BY <2>2, Zenon DEF Pushed
<1>4. /\ g.elem[a].size = h.elem[a].size /\ g.elem[a].ms = h.elem[a].ms /\ g.elem[a].state = "FREE"
  BY <1>3, ElemIs
<1>5. \A b \in DOMAIN h.elem : g.elem[b].size = h.elem[b].size /\ g.elem[b].ms = h.elem[b].ms
  BY <1>3, <1>4
<1>6. L \subseteq DOMAIN h.elem /\ L \cup {a} \subseteq FreeOf(g)
  <2>1. \A b \in L : b \in DOMAIN h.elem /\ b # a /\ h.elem[b].state = "FREE"
    BY DEF Listed, FreeOf, ElemsOf
  <2>2. \A b \in L \cup {a} : b \in DOMAIN g.elem /\ g.elem[b].state = "FREE"
    BY <1>1, <1>3, <1>4, <2>1
  <2> QED BY <2>1, <2>2 DEF FreeOf, ElemsOf
<1>7. \A sock, k, b : Belongs(h, L, sock, k, b) => b \in L /\ Belongs(g, L \cup {a}, sock, k, b)
  BY <1>5, <1>6 DEF Belongs
<1>8. Belongs(g, L \cup {a}, S, K, a)
  BY <1>2, <1>4 DEF Belongs
<1>9. old \in Seq(Nat) /\ OnceEach(old) /\ \A i \in DOMAIN old : Belongs(h, L, S, K, old[i])
  BY <1>1 DEF Typed, Listed
<1>10. \A i \in DOMAIN old : old[i] # a
  BY <1>7, <1>9
<1>11. /\ OnceEach(new)
       /\ \A i \in DOMAIN new : new[i] = a \/ \E x \in DOMAIN old : new[i] = old[x]
       /\ \E i \in DOMAIN new : new[i] = a
       /\ \A x \in DOMAIN old : \E i \in DOMAIN new : new[i] = old[x]
  <2>1. new = Push(a, old)
    BY <1>3
  <2>2. old \in Seq(Nat) /\ OnceEach(old) /\ a \in Nat
    BY <1>1, <1>9
  <2> HIDE DEF old, new
  <2> QED BY <1>10, <2>1, <2>2, PushEntries
<1>12. ASSUME NEW sock \in Sockets, NEW k \in Lists
       PROVE  /\ OnceEach(g.free_head[sock][k])
              /\ \A i \in DOMAIN g.free_head[sock][k] :
                   Belongs(g, L \cup {a}, sock, k, g.free_head[sock][k][i])
  <2>1. CASE sock = S /\ k = K
    <3>1. g.free_head[sock][k] = new /\ old \in Seq(Nat)
      BY <1>9, <2>1
    <3> HIDE DEF old, new
    <3>2. \A i \in DOMAIN new : Belongs(g, L \cup {a}, S, K, new[i])
      BY <1>7, <1>8, <1>9, <1>11
    <3> QED BY <1>11, <2>1, <3>1, <3>2
  <2>2. CASE ~(sock = S /\ k = K)
    <3>1. g.free_head[sock][k] = h.free_head[sock][k]
      BY <1>3, <2>2
    <3> QED BY <1>7, <3>1 DEF Listed
  <2> QED BY <2>1, <2>2
<1>13. ASSUME NEW b \in L \cup {a}
       PROVE  \E i \in DOMAIN ListOf(g, b) : ListOf(g, b)[i] = b
  <2>1. CASE b = a
    <3>1. ListOf(g, a) = new
      BY <1>2, <1>4 DEF ListOf
    <3> QED BY <1>11, <2>1, <3>1
  <2>2. CASE b # a
    <3> DEFINE sb == Segs[h.elem[b].ms].socket_id
               kb == FreeListIndex(h.elem[b].size - 1)
    <3>1. b \in DOMAIN h.elem /\ sb \in Sockets /\ kb \in Lists
      BY <1>6, <2>2, Header, SegFacts, IndexType, Zenon
    <3>2. ListOf(h, b) = h.free_head[sb][kb] /\ ListOf(g, b) = g.free_head[sb][kb]
      BY <1>5, <3>1 DEF ListOf
    <3>3. PICK i \in DOMAIN ListOf(h, b) : ListOf(h, b)[i] = b
      BY <2>2 DEF Listed
    <3> HIDE DEF sb, kb
    <3>4. CASE sb = S /\ kb = K
      <4>1. ListOf(h, b) = old /\ ListOf(g, b) = new
        BY <3>2, <3>4
      <4> QED BY <1>11, <3>3, <4>1
    <3>5. CASE ~(sb = S /\ kb = K)
      <4>1. ListOf(g, b) = ListOf(h, b)
        BY <1>3, <3>1, <3>2, <3>5
      <4> QED BY <3>3, <4>1
    <3> QED BY <3>4, <3>5
  <2> QED BY <2>1, <2>2
<1> QED BY <1>6, <1>12, <1>13 DEF Listed

LEMMA ListedRemove ==
  ASSUME NEW h, NEW n \in 0 .. Len(Segs), Typed(h, n), NEW L, Listed(h, L),
         NEW a, NEW g, g = Remove(h, a)
  PROVE  Listed(g, L \ {a})
<1>1. /\ g.elem = h.elem
      /\ \A sock \in Sockets, k \in Lists :
           /\ g.free_head[sock][k] = Unlink(h.free_head[sock][k], a)
           /\ h.free_head[sock][k] \in Seq(Nat)
  BY RemoveIs
<1>2. L \ {a} \subseteq FreeOf(g)
  BY <1>1 DEF Listed, FreeOf, ElemsOf
<1>3. ASSUME NEW sock \in Sockets, NEW k \in Lists
      PROVE  /\ OnceEach(g.free_head[sock][k])
             /\ \A i \in DOMAIN g.free_head[sock][k] : \E x \in DOMAIN h.free_head[sock][k] :
                  g.free_head[sock][k][i] = h.free_head[sock][k][x] /\ g.free_head[sock][k][i] # a
             /\ \A x \in DOMAIN h.free_head[sock][k] : h.free_head[sock][k][x] # a =>
                  \E i \in DOMAIN g.free_head[sock][k] : g.free_head[sock][k][i] = h.free_head[sock][k][x]
  <2> DEFINE list == h.free_head[sock][k]
             new == g.free_head[sock][k]
  <2>1. list \in Seq(Nat) /\ new = Unlink(list, a) /\ OnceEach(list)
    BY <1>1 DEF Listed
  <2> HIDE DEF list, new
  <2>2. /\ OnceEach(new)
        /\ \A i \in DOMAIN new : \E x \in DOMAIN list : new[i] = list[x] /\ new[i] # a
        /\ \A x \in DOMAIN list : list[x] # a => \E i \in DOMAIN new : new[i] = list[x]
    BY <2>1, UnlinkEntries
  <2> QED BY <2>2 DEF list, new
<1>4. ASSUME NEW sock \in Sockets, NEW k \in Lists, NEW i \in DOMAIN g.free_head[sock][k]
      PROVE  Belongs(g, L \ {a}, sock, k, g.free_head[sock][k][i])
  <2>1. PICK x \in DOMAIN h.free_head[sock][k] :
          g.free_head[sock][k][i] = h.free_head[sock][k][x] /\ g.free_head[sock][k][i] # a
    BY <1>3
  <2>2. Belongs(h, L, sock, k, h.free_head[sock][k][x])
    BY <2>1 DEF Listed
  <2> QED BY <1>1, <2>1, <2>2, Zenon DEF Belongs
<1>5. ASSUME NEW b \in L \ {a}
      PROVE  \E i \in DOMAIN ListOf(g, b) : ListOf(g, b)[i] = b
  <2> DEFINE sb == Segs[h.elem[b].ms].socket_id
             kb == FreeListIndex(h.elem[b].size - 1)
  <2>1. b \in DOMAIN h.elem /\ sb \in Sockets /\ kb \in Lists
    BY Header, SegFacts, IndexType DEF Listed, FreeOf, ElemsOf
  <2>2. ListOf(h, b) = h.free_head[sb][kb] /\ ListOf(g, b) = g.free_head[sb][kb]
    BY <1>1 DEF ListOf
  <2> HIDE DEF sb, kb
  <2>3. PICK i \in DOMAIN h.free_head[sb][kb] : h.free_head[sb][kb][i] = b
    BY <2>2 DEF Listed
  <2> QED BY <1>3, <2>1, <2>2, <2>3
<1> QED BY <1>2, <1>3, <1>4, <1>5 DEF Listed

-----------------------------------------------------------------------------
(* The heap in the middle of a call.                                       *)
LEMMA SpansApart ==
  ASSUME NEW h, NEW n \in 0 .. Len(Segs), Tiled(h, n),
         NEW a \in ElemsOf(h) \ Ends(n), NEW b \in ElemsOf(h), NEW x,
         x \in a .. After(h, a) - 1, b = x \/ (b \notin Ends(n) /\ x \in b .. After(h, b) - 1)
  PROVE  a = b
<1>1. a \in Nat /\ After(h, a) \in Nat /\ b \in Nat /\ (b <= a \/ After(h, a) <= b)
  BY Links
<1>2. CASE b = x
  BY <1>1, <1>2
<1>3. CASE b \notin Ends(n) /\ x \in b .. After(h, b) - 1
  <2>1. After(h, b) \in Nat /\ (a <= b \/ After(h, b) <= a)
    BY <1>3, Links
  <2> QED BY <1>1, <1>3, <2>1
<1> QED BY <1>2, <1>3

LEMMA SpanIs ==
  \A h, E, x : x \in Span(h, E) <=> \E a \in E : x \in a .. After(h, a) - 1
BY DEF Span

LEMMA SpanIn ==
  ASSUME NEW h, NEW n \in 0 .. Len(Segs), Tiled(h, n), NEW E, E \subseteq ElemsOf(h) \ Ends(n)
  PROVE  Span(h, E) \subseteq Memory(n)
<1> SUFFICES ASSUME NEW a \in E, NEW x \in a .. After(h, a) - 1
             PROVE  x \in Memory(n)
  BY DEF Span
<1> DEFINE s == h.elem[a].ms
<1>1. a \in ElemsOf(h) /\ s \in 1 .. n /\ s \in 1 .. Len(Segs) /\ Segs[s].addr <= a /\ a \in Nat
  BY Inside
<1>2. After(h, a) \in Nat /\ After(h, a) \in ElemsOf(h) /\ h.elem[After(h, a)].ms = s
  BY Links
<1>3. After(h, a) <= EndElem(s)
  BY <1>2, Inside
<1>4. Segs[s].addr \in Nat /\ Segs[s].len \in Nat /\ EndElem(s) = Segs[s].addr + Segs[s].len - 1
  BY <1>1, SegFacts
<1> HIDE DEF s
<1> DEFINE lo == Segs[s].addr
           len == Segs[s].len
           z == After(h, a)
<1>5. /\ x \in a .. z - 1 /\ lo <= a /\ a \in Nat /\ z \in Nat /\ z <= EndElem(s)
      /\ lo \in Nat /\ len \in Nat /\ EndElem(s) = lo + len - 1
  BY <1>1, <1>2, <1>3, <1>4
<1> HIDE DEF lo, len, z
<1>6. x \in lo .. lo + len - 1
  BY <1>5
<1> QED BY <1>1, <1>6 DEF Memory, Lines, lo, len

Same(h, g, x) ==
  /\ g.elem[x].size = h.elem[x].size /\ g.elem[x].state = h.elem[x].state
  /\ g.elem[x].pad = h.elem[x].pad /\ g.elem[x].ms = h.elem[x].ms
  /\ h.elem[x].state = "PAD" => g.elem[x].prev = h.elem[x].prev

(* A change within the lines of the elements that the call works on.       *)
LEMMA LocalChange ==
  ASSUME NEW h, NEW g, NEW n \in 0 .. Len(Segs), NEW B, NEW E, NEW M, NEW F, NEW N,
         HeapBut(h, n, B, E, M), Tiled(g, n), F \subseteq ElemsOf(g) \ Ends(n),
         Span(g, F) = Span(h, E), Listed(g, FreeOf(g) \ N),
         \A x : x \notin Span(h, E) => (x \in DOMAIN g.elem <=> x \in DOMAIN h.elem),
         \A x \in DOMAIN h.elem : x \notin Span(h, E) => Same(h, g, x),
         g.dirty \subseteq h.dirty \cup Span(h, E)
  PROVE  HeapBut(g, n, B, F, N) /\ Keeps(h, g, n, E, F)
<1>1. Tiled(h, n) /\ E \subseteq ElemsOf(h) \ Ends(n)
  BY DEF HeapBut
<1>2. ASSUME NEW k, Tiled(k, n), NEW G, G \subseteq ElemsOf(k) \ Ends(n), NEW b \in ElemsOf(k) \ G
      PROVE  b \notin Span(k, G) /\ (b \notin Ends(n) => \A x \in b .. After(k, b) - 1 : x \notin Span(k, G))
  <2>1. \A a \in G : b \notin a .. After(k, a) - 1
    BY <1>2, SpansApart
  <2>2. ASSUME b \notin Ends(n), NEW x \in b .. After(k, b) - 1
        PROVE  \A a \in G : x \notin a .. After(k, a) - 1
    BY <1>2, <2>2, SpansApart
  <2> QED BY <2>1, <2>2 DEF Span
<1>3. \A b \in E : b \in Span(h, E)
  <2>1. \A b \in E : b \in b .. After(h, b) - 1
    BY <1>1, Links
  <2> QED BY <2>1 DEF Span
<1>4. \A b \in F : b \in Span(h, E)
  <2>1. \A b \in F : b \in b .. After(g, b) - 1
    BY Links
  <2> QED BY <2>1 DEF Span
<1>5. /\ \A b \in ElemsOf(h) \ E : b \in ElemsOf(g) \ F /\ Same(h, g, b) /\ After(g, b) = After(h, b)
      /\ \A b \in ElemsOf(g) \ F : b \in ElemsOf(h) \ E
  <2>1. ASSUME NEW b \in ElemsOf(h) \ E
        PROVE  b \in ElemsOf(g) \ F /\ Same(h, g, b) /\ After(g, b) = After(h, b)
    <3>1. b \notin Span(h, E) /\ b \in DOMAIN h.elem /\ h.elem[b].state # "PAD"
      BY <1>1, <1>2 DEF ElemsOf
    <3>2. Same(h, g, b) /\ b \in DOMAIN g.elem
      BY <3>1
    <3> QED BY <1>4, <3>1, <3>2 DEF Same, After, ElemsOf
  <2>2. ASSUME NEW b \in ElemsOf(g) \ F
        PROVE  b \in ElemsOf(h) \ E
    <3>1. b \notin Span(h, E) /\ b \in DOMAIN g.elem /\ g.elem[b].state # "PAD"
      BY <1>2 DEF ElemsOf
    <3>2. Same(h, g, b) /\ b \in DOMAIN h.elem
      BY <3>1
    <3> QED BY <1>3, <3>1, <3>2 DEF Same, ElemsOf
  <2> QED BY <2>1, <2>2
<1>6. FreeOf(g) \ F = FreeOf(h) \ E
  BY <1>5 DEF FreeOf, Same
<1>7. BusyOf(g, n) \ F = BusyOf(h, n) \ E
  BY <1>5 DEF BusyOf, Same
<1>8. Keeps(h, g, n, E, F)
  <2>1. \A b \in BusyOf(h, n) \ E : Same(h, g, b)
    BY <1>5 DEF BusyOf
  <2> QED BY <1>7, <2>1 DEF Keeps, Same
<1>9. Padded(g, n, F)
  <2>1. ASSUME NEW x \in DOMAIN g.elem, g.elem[x].state = "PAD", x \notin Span(g, F)
        PROVE  /\ x - 1 \in BusyOf(g, n) \ F /\ g.elem[x - 1].pad = 1
               /\ g.elem[x].pad = 1 /\ g.elem[x].prev = -1
    <3>1. x \in DOMAIN h.elem /\ x \notin Span(h, E)
      BY <2>1
    <3>2. Same(h, g, x) /\ h.elem[x].state = "PAD"
      BY <2>1, <3>1 DEF Same
    <3>3. /\ x - 1 \in BusyOf(h, n) \ E /\ h.elem[x - 1].pad = 1
          /\ h.elem[x].pad = 1 /\ h.elem[x].prev = -1
      BY <3>1, <3>2 DEF HeapBut, Padded
    <3> QED BY <1>7, <1>8, <3>2, <3>3 DEF Keeps, Same
  <2>2. ASSUME NEW b \in BusyOf(g, n) \ F, g.elem[b].pad = 1
        PROVE  b + 1 \in DOMAIN g.elem /\ g.elem[b + 1].state = "PAD"
    <3>1. b \in BusyOf(h, n) \ E /\ h.elem[b].pad = 1
      BY <1>7, <1>8, <2>2 DEF Keeps
    <3>2. b + 1 \in DOMAIN h.elem /\ h.elem[b + 1].state = "PAD"
      BY <3>1 DEF HeapBut, Padded
    <3>3. b \in ElemsOf(h) \ E /\ b \notin Ends(n)
      BY <3>1 DEF BusyOf
    <3>4. b + 1 \in b .. After(h, b) - 1
      BY <1>1, <3>3, Links
    <3>5. b + 1 \notin Span(h, E)
      BY <1>1, <1>2, <3>3, <3>4
    <3> QED BY <3>2, <3>5 DEF Same
  <2> QED BY <2>1, <2>2 DEF Padded
<1>11. Clean(g, FreeOf(g) \ F)
  <2> SUFFICES ASSUME NEW b \in FreeOf(g) \ F, NEW x \in b + 1 .. After(g, b) - 1
               PROVE  x \notin g.dirty
    BY DEF Clean
  <2>1. b \in FreeOf(h) \ E /\ b \in ElemsOf(h) /\ b \notin Ends(n)
    BY <1>1, <1>6, EndsAre DEF FreeOf
  <2>2. After(g, b) = After(h, b) /\ b \in Nat /\ After(h, b) \in Nat
    BY <1>1, <1>5, <2>1, Links
  <2>3. x \notin h.dirty
    BY <2>1, <2>2 DEF HeapBut, Clean
  <2>4. x \in b .. After(h, b) - 1
    BY <2>2
  <2> QED BY <1>1, <1>2, <2>1, <2>3, <2>4
<1>12. Apart(g, F)
  <2>1. \A b \in FreeOf(h) \ E : After(g, b) = After(h, b)
    BY <1>5 DEF FreeOf
  <2> QED BY <1>6, <2>1 DEF HeapBut, Apart
<1>13. g.dirty \subseteq Memory(n)
  <2>1. Span(h, E) \subseteq Memory(n)
    BY <1>1, SpanIn
  <2> QED BY <2>1 DEF HeapBut
<1>14. Owned(g, n, B, F)
  <2>1. \A b \in BusyOf(h, n) \ E : After(g, b) = After(h, b) /\ g.elem[b].pad = h.elem[b].pad
    BY <1>8 DEF Keeps, After
  <2> QED BY <1>7, <2>1 DEF HeapBut, Owned
<1> QED BY <1>8, <1>9, <1>11, <1>12, <1>13, <1>14 DEF HeapBut

LEMMA PtrArith ==
  ASSUME NEW a \in Nat, NEW b \in Nat, NEW u \in Nat, NEW v \in Nat, NEW i \in 0 .. 1, NEW j \in 0 .. 1,
         a + 2 <= u, b + 2 <= v, a # b, b <= a \/ u <= b, a <= b \/ v <= a
  PROVE  a + i + 1 # b + j + 1
OBVIOUS

LEMMA PtrsApart ==
  ASSUME NEW h, NEW n \in 0 .. Len(Segs), Tiled(h, n), NEW a \in ElemsOf(h) \ Ends(n),
         NEW b \in ElemsOf(h) \ Ends(n), a # b
  PROVE  a + h.elem[a].pad + 1 # b + h.elem[b].pad + 1
<1>1. /\ a \in Nat /\ After(h, a) \in Nat /\ a + 2 <= After(h, a) /\ a \in DOMAIN h.elem
      /\ b \in Nat /\ After(h, b) \in Nat /\ b + 2 <= After(h, b) /\ b \in DOMAIN h.elem
      /\ (b <= a \/ After(h, a) <= b) /\ (a <= b \/ After(h, b) <= a)
  BY Links
<1>2. h.elem[a].pad \in 0 .. 1 /\ h.elem[b].pad \in 0 .. 1
  BY <1>1, Header DEF Tiled
<1> QED BY <1>1, <1>2, PtrArith

(* An element is taken out of the heap ...                                 *)
Plus(E, a) == E \cup {a}
Minus(E, a) == E \ {a}

(* a is on no free list, or not free outside E.                            *)
Loose(h, a, M) == a \notin FreeOf(h) \ M

(* No line of the data was used.                                           *)
Unused(h, a) ==
  \A x \in a + 1 .. After(h, a) - 1 : x \notin h.dirty /\ x \notin DOMAIN h.elem

(* The only header in the data is that of the padding, if there is any.    *)
Dummy(h, a) ==
  /\ \A x \in a + 1 .. After(h, a) - 1 : x \in DOMAIN h.elem =>
       /\ x = a + 1 /\ h.elem[a].pad = 1 /\ h.elem[x].pad = 1 /\ h.elem[x].prev = -1
  /\ h.elem[a].pad = 1 => a + 1 \in DOMAIN h.elem /\ h.elem[a + 1].state = "PAD"

LEMMA TakeFree ==
  ASSUME NEW h, NEW n \in 0 .. Len(Segs), NEW B, NEW E, NEW M, HeapBut(h, n, B, E, M),
         NEW a \in FreeOf(h)
  PROVE  HeapBut(h, n, B, Plus(E, a), M) /\ Keeps(h, h, n, E, Plus(E, a))
<1> USE DEF Plus
<1>1. Tiled(h, n) /\ a \in ElemsOf(h) /\ a \notin BusyOf(h, n)
  BY DEF HeapBut, FreeOf, BusyOf
<1>2. a \notin Ends(n)
  BY <1>1, EndsAre
<1>3. BusyOf(h, n) \ (E \cup {a}) = BusyOf(h, n) \ E
  BY <1>1
<1>4. Span(h, E) \subseteq Span(h, E \cup {a})
  BY DEF Span
<1>5. Padded(h, n, E \cup {a})
  BY <1>3, <1>4 DEF HeapBut, Padded
<1>6. Owned(h, n, B, E \cup {a})
  BY <1>3 DEF HeapBut, Owned
<1>7. Clean(h, FreeOf(h) \ (E \cup {a})) /\ Apart(h, E \cup {a})
  BY DEF HeapBut, Clean, Apart
<1> QED BY <1>1, <1>2, <1>3, <1>5, <1>6, <1>7 DEF HeapBut, Keeps

LEMMA TakeBusy ==
  ASSUME NEW h, NEW n \in 0 .. Len(Segs), NEW B, NEW E, NEW M, HeapBut(h, n, B, E, M),
         NEW a \in BusyOf(h, n) \ E, NEW p, p = a + h.elem[a].pad + 1
  PROVE  HeapBut(h, n, Without(B, {p}), Plus(E, a), M)
<1> USE DEF Plus
<1>1. Tiled(h, n) /\ a \in ElemsOf(h) \ Ends(n) /\ a \notin FreeOf(h)
  BY DEF HeapBut, FreeOf, BusyOf
<1>2. Span(h, E) \subseteq Span(h, E \cup {a})
  BY DEF Span
<1>3. a \in Nat /\ After(h, a) \in Nat /\ a + 2 <= After(h, a)
  BY <1>1, Links
<1>4. a + 1 \in Span(h, E \cup {a})
  <2>1. a + 1 \in a .. After(h, a) - 1
    BY <1>3
  <2> QED BY <2>1 DEF Span
<1>5. Padded(h, n, E \cup {a})
  <2>1. ASSUME NEW x \in DOMAIN h.elem, h.elem[x].state = "PAD", x \notin Span(h, E \cup {a})
        PROVE  /\ x - 1 \in BusyOf(h, n) \ (E \cup {a}) /\ h.elem[x - 1].pad = 1
               /\ h.elem[x].pad = 1 /\ h.elem[x].prev = -1
    <3>1. /\ x - 1 \in BusyOf(h, n) \ E /\ h.elem[x - 1].pad = 1
          /\ h.elem[x].pad = 1 /\ h.elem[x].prev = -1
      BY <1>2, <2>1 DEF HeapBut, Padded
    <3>2. x \in Nat
      BY DEF HeapBut, Tiled, Typed
    <3>3. x - 1 # a
      BY <1>3, <1>4, <2>1, <3>2
    <3> QED BY <3>1, <3>3
  <2>2. \A b \in BusyOf(h, n) \ (E \cup {a}) : h.elem[b].pad = 1 =>
          b + 1 \in DOMAIN h.elem /\ h.elem[b + 1].state = "PAD"
    BY DEF HeapBut, Padded
  <2> QED BY <2>1, <2>2 DEF Padded
<1>6. Clean(h, FreeOf(h) \ (E \cup {a})) /\ Apart(h, E \cup {a})
  BY DEF HeapBut, Clean, Apart
<1>7. Owned(h, n, Without(B, {p}), E \cup {a})
  <2>1. /\ DOMAIN Without(B, {p}) = DOMAIN B \ {p}
        /\ \A q \in DOMAIN B \ {p} : Without(B, {p})[q] = B[q]
    BY DEF Without
  <2>2. DOMAIN B \subseteq Nat /\ IsFiniteSet(DOMAIN B)
    BY DEF HeapBut, Owned
  <2>3. IsFiniteSet(DOMAIN B \ {p})
    BY <2>2, FS_RemoveElement, Zenon
  <2>4. ASSUME NEW q \in DOMAIN B \ {p}
        PROVE  B[q] \in Nat /\ \E b \in BusyOf(h, n) \ (E \cup {a}) : q = b + h.elem[b].pad + 1
    BY DEF HeapBut, Owned
  <2>5. ASSUME NEW b \in BusyOf(h, n) \ (E \cup {a}), NEW q, q = b + h.elem[b].pad + 1
        PROVE  q \in DOMAIN B \ {p} /\ q + B[q] <= After(h, b)
    <3>1. q \in DOMAIN B /\ q + B[q] <= After(h, b)
      BY <2>5 DEF HeapBut, Owned
    <3>2. q # p
      <4>1. b \in ElemsOf(h) \ Ends(n) /\ b # a
        BY DEF BusyOf
      <4> QED BY <1>1, <2>5, <4>1, PtrsApart
    <3> QED BY <3>1, <3>2
  <2> QED BY <2>1, <2>2, <2>3, <2>4, <2>5 DEF Owned
<1> QED BY <1>1, <1>5, <1>6, <1>7 DEF HeapBut

(* ... and put back.                                                       *)
LEMMA GiveFree ==
  ASSUME NEW h, NEW n \in 0 .. Len(Segs), NEW B, NEW a, NEW E, NEW M, HeapBut(h, n, B, E, M),
         a \in E, a \in FreeOf(h),
         Unused(h, a),
         Loose(h, After(h, a), E),
         h.elem[a].prev # -1 => Loose(h, h.elem[a].prev, E)
  PROVE  HeapBut(h, n, B, Minus(E, a), M) /\ Keeps(h, h, n, E, Minus(E, a))
<1> USE DEF Minus, Loose, Unused
<1>1. Tiled(h, n) /\ a \in ElemsOf(h) \ Ends(n) /\ a \notin BusyOf(h, n) /\ E \subseteq ElemsOf(h) \ Ends(n)
  BY DEF HeapBut, FreeOf, BusyOf
<1>2. BusyOf(h, n) \ (E \ {a}) = BusyOf(h, n) \ E
  BY <1>1
<1>3. a \in Nat /\ After(h, a) \in Nat /\ h.elem[After(h, a)].prev = a /\ a + 2 <= After(h, a)
  BY <1>1, Links
<1>4. Padded(h, n, E \ {a})
  <2>1. ASSUME NEW x \in DOMAIN h.elem, h.elem[x].state = "PAD", x \notin Span(h, E \ {a})
        PROVE  x \notin Span(h, E)
    <3>1. x # a
      BY <2>1 DEF FreeOf
    <3>2. x \notin a .. After(h, a) - 1
      BY <1>3, <3>1
    <3> QED BY <2>1, <3>2 DEF Span
  <2> QED BY <1>2, <2>1 DEF HeapBut, Padded
<1>5. Owned(h, n, B, E \ {a})
  BY <1>2 DEF HeapBut, Owned
<1>6. Clean(h, FreeOf(h) \ (E \ {a}))
  BY DEF HeapBut, Clean
<1>7. Apart(h, E \ {a})
  <2> SUFFICES ASSUME NEW b \in FreeOf(h) \ (E \ {a}), After(h, b) \in FreeOf(h) \ (E \ {a})
               PROVE  FALSE
    BY DEF Apart
  <2>1. b \in ElemsOf(h) \ Ends(n)
    BY <1>1, EndsAre DEF FreeOf
  <2>2. h.elem[After(h, b)].prev = b /\ b \in Nat /\ b + 2 <= After(h, b) /\ After(h, b) \in Nat
    BY <1>1, <2>1, Links
  <2>3. CASE b = a
    <3>1. After(h, b) # a
      BY <1>3, <2>3
    <3> QED BY <2>3, <3>1
  <2>4. CASE b # a
    <3>1. CASE After(h, b) = a
      BY <2>2, <2>4, <3>1
    <3>2. CASE After(h, b) # a
      BY <2>4, <3>2 DEF HeapBut, Apart
    <3> QED BY <3>1, <3>2
  <2> QED BY <2>3, <2>4
<1> QED BY <1>1, <1>2, <1>4, <1>5, <1>6, <1>7 DEF HeapBut, Keeps

Adds(C, B, p, sz) ==
  DOMAIN C = DOMAIN B \cup {p} /\ C[p] = sz /\ \A q \in DOMAIN B \ {p} : C[q] = B[q]

Room(h, a, p, sz) == p = a + h.elem[a].pad + 1 /\ sz \in Nat /\ p + sz <= After(h, a)

LEMMA GiveBusy ==
  ASSUME NEW h, NEW n \in 0 .. Len(Segs), NEW B, NEW a, NEW E, NEW M, HeapBut(h, n, B, E, M),
         a \in E, h.elem[a].state = "BUSY",
         Dummy(h, a),
         NEW p, NEW sz, Room(h, a, p, sz), NEW C, Adds(C, B, p, sz)
  PROVE  HeapBut(h, n, C, Minus(E, a), M) /\ p \notin DOMAIN B
<1> USE DEF Minus, Dummy, Adds, Room
<1>1. Tiled(h, n) /\ a \in ElemsOf(h) \ Ends(n) /\ a \notin FreeOf(h) /\ E \subseteq ElemsOf(h) \ Ends(n)
  BY DEF HeapBut, FreeOf
<1>2. BusyOf(h, n) \ (E \ {a}) = (BusyOf(h, n) \ E) \cup {a}
  BY <1>1 DEF BusyOf
<1>3. a \in Nat /\ After(h, a) \in Nat /\ h.elem[After(h, a)].prev = a /\ a + 2 <= After(h, a)
  BY <1>1, Links
<1>4. Padded(h, n, E \ {a})
  <2>1. ASSUME NEW x \in DOMAIN h.elem, h.elem[x].state = "PAD", x \notin Span(h, E \ {a}),
               x \in Span(h, E)
        PROVE  /\ x - 1 = a /\ h.elem[x - 1].pad = 1 /\ h.elem[x].pad = 1 /\ h.elem[x].prev = -1
    <3>1. x # a /\ x \in Nat
      BY <2>1 DEF HeapBut, Tiled, Typed
    <3>2. x \in a .. After(h, a) - 1
      BY <2>1 DEF Span
    <3>3. x \in a + 1 .. After(h, a) - 1
      BY <1>3, <3>1, <3>2
    <3>4. x = a + 1 /\ h.elem[a].pad = 1 /\ h.elem[x].pad = 1 /\ h.elem[x].prev = -1
      BY <3>3
    <3>5. x - 1 = a
      BY <1>3, <3>4
    <3> QED BY <3>4, <3>5
  <2>2. ASSUME NEW x \in DOMAIN h.elem, h.elem[x].state = "PAD", x \notin Span(h, E \ {a})
        PROVE  /\ x - 1 \in BusyOf(h, n) \ (E \ {a}) /\ h.elem[x - 1].pad = 1
               /\ h.elem[x].pad = 1 /\ h.elem[x].prev = -1
    BY <1>2, <2>1, <2>2 DEF HeapBut, Padded
  <2>3. \A b \in BusyOf(h, n) \ (E \ {a}) : h.elem[b].pad = 1 =>
          b + 1 \in DOMAIN h.elem /\ h.elem[b + 1].state = "PAD"
    BY <1>2 DEF HeapBut, Padded
  <2> QED BY <2>2, <2>3 DEF Padded
<1>5. FreeOf(h) \ (E \ {a}) = FreeOf(h) \ E
  BY <1>1
<1>6. Clean(h, FreeOf(h) \ (E \ {a})) /\ Apart(h, E \ {a})
  BY <1>5 DEF HeapBut, Apart
<1>7. h.elem[a].pad \in 0 .. 1
  BY <1>1, Header DEF Tiled, ElemsOf
<1>8. ASSUME NEW b \in BusyOf(h, n) \ E
      PROVE  b + h.elem[b].pad + 1 # p
  <2>1. b \in ElemsOf(h) \ Ends(n) /\ b # a
    BY DEF BusyOf
  <2> QED BY <1>1, <2>1, PtrsApart
<1>9. Owned(h, n, C, E \ {a})
  <2>1. DOMAIN B \subseteq Nat /\ IsFiniteSet(DOMAIN B) /\ p \in Nat
    <3>1. DOMAIN B \subseteq Nat /\ IsFiniteSet(DOMAIN B)
      BY DEF HeapBut, Owned
    <3> DEFINE k == h.elem[a].pad
    <3>2. a \in Nat /\ k \in 0 .. 1 /\ p = a + k + 1
      BY <1>3, <1>7
    <3> HIDE DEF k
    <3>3. p \in Nat
      BY <3>2
    <3> QED BY <3>1, <3>3
  <2>2. DOMAIN C \subseteq Nat /\ IsFiniteSet(DOMAIN C)
    <3>1. IsFiniteSet(DOMAIN B \cup {p})
      BY <2>1, FS_AddElement
    <3> QED BY <2>1, <3>1
  <2>3. ASSUME NEW q \in DOMAIN C
        PROVE  C[q] \in Nat /\ \E b \in BusyOf(h, n) \ (E \ {a}) : q = b + h.elem[b].pad + 1
    <3>1. CASE q = p
      BY <1>2, <3>1
    <3>2. CASE q # p
      <4>1. q \in DOMAIN B /\ C[q] = B[q]
        BY <3>2
      <4> QED BY <1>2, <4>1 DEF HeapBut, Owned
    <3> QED BY <3>1, <3>2
  <2>4. ASSUME NEW b \in BusyOf(h, n) \ (E \ {a}), NEW q, q = b + h.elem[b].pad + 1
        PROVE  q \in DOMAIN C /\ q + C[q] <= After(h, b)
    <3>1. CASE b = a
      BY <2>4, <3>1
    <3>2. CASE b # a
      <4>1. b \in BusyOf(h, n) \ E /\ q # p
        BY <1>2, <1>8, <2>4, <3>2
      <4>2. q \in DOMAIN B /\ q + B[q] <= After(h, b)
        BY <2>4, <4>1 DEF HeapBut, Owned
      <4> QED BY <4>1, <4>2
    <3> QED BY <3>1, <3>2
  <2> QED BY <2>2, <2>3, <2>4 DEF Owned
<1>10. p \notin DOMAIN B
  BY <1>8 DEF HeapBut, Owned
<1> QED BY <1>1, <1>2, <1>4, <1>6, <1>9, <1>10 DEF HeapBut

(* The steps of a call.                                                    *)
LEMMA RemoveHeap ==
  ASSUME NEW h, NEW n \in 0 .. Len(Segs), NEW B, NEW E, NEW M, HeapBut(h, n, B, E, M),
         NEW a, NEW g, g = Remove(h, a)
  PROVE  HeapBut(g, n, B, E, Plus(M, a)) /\ g.elem = h.elem /\ g.dirty = h.dirty
<1> USE DEF Plus
<1>1. Tiled(h, n) /\ Typed(h, n) /\ E \subseteq ElemsOf(h) \ Ends(n)
  BY DEF HeapBut, Tiled
<1>2. Typed(g, n) /\ g.dirty = h.dirty /\ g.elem = h.elem
  BY <1>1, RemoveIs
<1>3. /\ ElemsOf(g) = ElemsOf(h) /\ FreeOf(g) = FreeOf(h) /\ Span(g, E) = Span(h, E)
      /\ \A x : Same(h, g, x)
  BY <1>2 DEF ElemsOf, FreeOf, Span, After, Same
<1>4. Tiled(g, n)
  BY <1>1, <1>2, <1>3, EndsAre, TiledFrame
<1>5. Listed(g, FreeOf(g) \ (M \cup {a}))
  <2> DEFINE L == FreeOf(h) \ M
  <2>1. Listed(h, L) /\ L \ {a} = FreeOf(g) \ (M \cup {a})
    BY <1>3 DEF HeapBut
  <2> HIDE DEF L
  <2>2. Listed(g, L \ {a})
    BY <1>1, <2>1, ListedRemove
  <2> QED BY <2>1, <2>2
<1>6. HeapBut(g, n, B, E, M \cup {a})
  <2>1. g.dirty \subseteq h.dirty \cup Span(h, E)
    BY <1>2
  <2>2. \A x : x \notin Span(h, E) => (x \in DOMAIN g.elem <=> x \in DOMAIN h.elem)
    BY <1>2
  <2>3. \A x \in DOMAIN h.elem : x \notin Span(h, E) => Same(h, g, x)
    BY <1>3, Zenon
  <2> QED BY <1>1, <1>3, <1>4, <1>5, <2>1, <2>2, <2>3, LocalChange
<1> QED BY <1>2, <1>6

Inserted(h, g, a) ==
  /\ ElemsOf(g) = ElemsOf(h) /\ FreeOf(g) = FreeOf(h) \cup {a}
  /\ DOMAIN g.elem = DOMAIN h.elem /\ g.dirty = h.dirty
  /\ \A b \in DOMAIN h.elem \ {a} : g.elem[b] = h.elem[b]
  /\ g.elem[a].state = "FREE" /\ g.elem[a].pad = h.elem[a].pad
  /\ g.elem[a].ms = h.elem[a].ms /\ g.elem[a].prev = h.elem[a].prev
  /\ \A b \in DOMAIN h.elem : After(g, b) = After(h, b)

LEMMA InsertHeap ==
  ASSUME NEW h, NEW n \in 0 .. Len(Segs), NEW B, NEW E, NEW M, HeapBut(h, n, B, E, M),
         NEW a \in E, Loose(h, a, M), NEW g, g = Insert(h, a)
  PROVE  HeapBut(g, n, B, E, Minus(M, a)) /\ Keeps(h, g, n, E, E) /\ Inserted(h, g, a)
<1> USE DEF Minus, Loose, Inserted
<1>1. Tiled(h, n) /\ Typed(h, n) /\ E \subseteq ElemsOf(h) \ Ends(n)
  BY DEF HeapBut, Tiled
<1>2. a \in ElemsOf(h) /\ a \in DOMAIN h.elem /\ a \notin Ends(n)
  BY <1>1 DEF ElemsOf
<1>3. /\ Typed(g, n) /\ g.dirty = h.dirty /\ DOMAIN g.elem = DOMAIN h.elem
      /\ g.elem[a] = Elem(h.elem[a].size, "FREE", h.elem[a].pad, h.elem[a].prev, h.elem[a].ms)
      /\ \A b \in DOMAIN h.elem \ {a} : g.elem[b] = h.elem[b]
  BY <1>1, <1>2, InsertIs
<1>4. /\ g.elem[a].size = h.elem[a].size /\ g.elem[a].state = "FREE" /\ g.elem[a].pad = h.elem[a].pad
      /\ g.elem[a].prev = h.elem[a].prev /\ g.elem[a].ms = h.elem[a].ms
  BY <1>3, ElemIs
<1>5. \A b \in DOMAIN h.elem : After(g, b) = After(h, b)
  BY <1>3, <1>4 DEF After
<1>6. ElemsOf(g) = ElemsOf(h) /\ FreeOf(g) = FreeOf(h) \cup {a}
  BY <1>2, <1>3, <1>4 DEF ElemsOf, FreeOf
<1>7. Tiled(g, n)
  <2>1. \A b \in ElemsOf(h) : /\ g.elem[b].size = h.elem[b].size /\ g.elem[b].prev = h.elem[b].prev
                              /\ g.elem[b].ms = h.elem[b].ms
    BY <1>3, <1>4 DEF ElemsOf
  <2>2. \A b \in Ends(n) : g.elem[b].state = "BUSY"
    BY <1>1, <1>2, <1>3, EndsAre DEF ElemsOf
  <2> QED BY <1>1, <1>3, <1>6, <2>1, <2>2, TiledFrame
<1>8. Span(g, E) = Span(h, E) /\ a \in Span(h, E)
  <2>1. \A b \in E : After(g, b) = After(h, b)
    BY <1>1, <1>5 DEF ElemsOf
  <2>2. a \in a .. After(h, a) - 1
    BY <1>1, Links
  <2> QED BY <2>1, <2>2 DEF Span
<1>9. Listed(g, FreeOf(g) \ (M \ {a}))
  <2> DEFINE L == FreeOf(h) \ M
  <2>1. Listed(h, L) /\ L \cup {a} = FreeOf(g) \ (M \ {a}) /\ a \in ElemsOf(h) \ L
    BY <1>2, <1>6 DEF HeapBut
  <2> HIDE DEF L
  <2>2. Listed(g, L \cup {a})
    BY <1>1, <2>1, ListedInsert
  <2> QED BY <2>1, <2>2
<1>10. HeapBut(g, n, B, E, M \ {a}) /\ Keeps(h, g, n, E, E)
  <2>1. g.dirty \subseteq h.dirty \cup Span(h, E)
    BY <1>3
  <2>2. \A x : x \notin Span(h, E) => (x \in DOMAIN g.elem <=> x \in DOMAIN h.elem)
    BY <1>3
  <2>3. \A x \in DOMAIN h.elem : x \notin Span(h, E) => Same(h, g, x)
    BY <1>3, <1>8 DEF Same
  <2>4. E \subseteq ElemsOf(g) \ Ends(n)
    BY <1>1, <1>6
  <2> QED BY <1>7, <1>8, <1>9, <2>1, <2>2, <2>3, <2>4, LocalChange
<1> QED BY <1>3, <1>4, <1>5, <1>6, <1>10

LEMMA SplitHeap ==
  ASSUME NEW h, NEW n \in 0 .. Len(Segs), NEW B, NEW E, NEW M, HeapBut(h, n, B, E, M),
         NEW a \in E, Loose(h, a, M),
         NEW at \in Nat, at \notin DOMAIN h.elem, a + 2 <= at, at + 2 <= After(h, a),
         NEW g, g = Split(h, a, at)
  PROVE  /\ HeapBut(g, n, B, Plus(E, at), Plus(M, at)) /\ Keeps(h, g, n, E, Plus(E, at))
         /\ FreeOf(g) = FreeOf(h) \cup {at}
<1> USE DEF Plus, Loose
<1>1. Tiled(h, n) /\ Typed(h, n) /\ E \subseteq ElemsOf(h) \ Ends(n) /\ a \in ElemsOf(h) \ Ends(n)
  BY DEF HeapBut, Tiled
<1> DEFINE z == After(h, a)
<1>2. /\ Tiled(g, n) /\ ElemsOf(g) = ElemsOf(h) \cup {at} /\ at \notin Ends(n)
      /\ After(g, a) = at /\ After(g, at) = z
      /\ \A b \in ElemsOf(h) \ {a} : After(g, b) = After(h, b)
      /\ DOMAIN g.elem = DOMAIN h.elem \cup {at}
      /\ g.free_head = h.free_head /\ g.dirty = h.dirty \cup {at}
      /\ g.elem[at].state = "FREE"
      /\ \A b \in DOMAIN h.elem : /\ g.elem[b].state = h.elem[b].state /\ g.elem[b].pad = h.elem[b].pad
                                  /\ g.elem[b].ms = h.elem[b].ms
                                  /\ b # a => g.elem[b].size = h.elem[b].size
                                  /\ b # z => g.elem[b].prev = h.elem[b].prev
  BY <1>1, SplitTiled
<1>3. a \in Nat /\ z \in Nat /\ z \in ElemsOf(h) /\ a + 2 <= z
  BY <1>1, Links
<1> HIDE DEF z
<1>4. /\ a .. z - 1 = (a .. at - 1) \cup (at .. z - 1) /\ a \in a .. z - 1 /\ at \in a .. z - 1
      /\ After(h, a) = z
  BY <1>3 DEF z
<1>5. Span(g, E \cup {at}) = Span(h, E) /\ a \in Span(h, E) /\ at \in Span(h, E)
  <2>1. \A b \in E \ {a} : After(g, b) = After(h, b) /\ b # at
    BY <1>1, <1>2 DEF ElemsOf
  <2>2. ASSUME NEW x \in Span(g, E \cup {at})
        PROVE  x \in Span(h, E)
    <3>1. PICK b \in E \cup {at} : x \in b .. After(g, b) - 1
      BY SpanIs
    <3>2. CASE b \in {a, at}
      BY <1>2, <1>4, <3>1, <3>2, SpanIs
    <3>3. CASE b \notin {a, at}
      BY <2>1, <3>1, <3>3, SpanIs
    <3> QED BY <3>2, <3>3
  <2>3. ASSUME NEW x \in Span(h, E)
        PROVE  x \in Span(g, E \cup {at})
    <3>1. PICK b \in E : x \in b .. After(h, b) - 1
      BY SpanIs
    <3>2. CASE b = a
      <4>1. x \in a .. After(g, a) - 1 \/ x \in at .. After(g, at) - 1
        BY <1>2, <1>4, <3>1, <3>2
      <4> QED BY <4>1, SpanIs
    <3>3. CASE b # a
      BY <2>1, <3>1, <3>3, SpanIs
    <3> QED BY <3>2, <3>3
  <2>4. a \in Span(h, E) /\ at \in Span(h, E)
    BY <1>4, SpanIs
  <2> QED BY <2>2, <2>3, <2>4
<1>6. FreeOf(g) = FreeOf(h) \cup {at} /\ at \notin FreeOf(h)
  BY <1>2 DEF FreeOf, ElemsOf
<1>7. Listed(g, FreeOf(g) \ (M \cup {at}))
  <2> DEFINE L == FreeOf(h) \ M
  <2>1. Listed(h, L) /\ L = FreeOf(g) \ (M \cup {at}) /\ L \subseteq FreeOf(g)
    BY <1>6 DEF HeapBut
  <2>2. \A b \in L : g.elem[b].size = h.elem[b].size /\ g.elem[b].ms = h.elem[b].ms
    BY <1>2 DEF FreeOf, ElemsOf
  <2> HIDE DEF L
  <2>3. Listed(g, L)
    BY <1>2, <2>1, <2>2, ListedFrame
  <2> QED BY <2>1, <2>3
<1>8. g.dirty \subseteq h.dirty \cup Span(h, E)
  BY <1>2, <1>5
<1>9. \A x : x \notin Span(h, E) => (x \in DOMAIN g.elem <=> x \in DOMAIN h.elem)
  BY <1>2, <1>5
<1>10. \A x \in DOMAIN h.elem : x \notin Span(h, E) => Same(h, g, x)
  <2>1. h.elem[z].state # "PAD"
    BY <1>3 DEF ElemsOf
  <2> QED BY <1>2, <1>5, <2>1 DEF Same
<1>11. E \cup {at} \subseteq ElemsOf(g) \ Ends(n)
  BY <1>1, <1>2
<1>12. HeapBut(g, n, B, E \cup {at}, M \cup {at}) /\ Keeps(h, g, n, E, E \cup {at})
  <2>1. Tiled(g, n) /\ Span(g, E \cup {at}) = Span(h, E)
    BY <1>2, <1>5
  <2> QED BY <1>7, <1>8, <1>9, <1>10, <1>11, <2>1, LocalChange
<1> QED BY <1>6, <1>12

Follows(h, a, b) == b = After(h, a)

LEMMA JoinHeap ==
  ASSUME NEW h, NEW n \in 0 .. Len(Segs), NEW B, NEW E, NEW M, HeapBut(h, n, B, E, M),
         NEW a \in E, Loose(h, a, M), NEW b \in E, Loose(h, b, M), Follows(h, a, b),
         NEW g, g = Join(h, a, b)
  PROVE  /\ HeapBut(g, n, B, Minus(E, b), Minus(M, b)) /\ Keeps(h, g, n, E, Minus(E, b))
         /\ FreeOf(g) = Minus(FreeOf(h), b)
<1> USE DEF Minus, Loose, Follows
<1>1. /\ Tiled(h, n) /\ Typed(h, n) /\ E \subseteq ElemsOf(h) \ Ends(n) /\ a \in ElemsOf(h) \ Ends(n)
      /\ b \in ElemsOf(h) \ Ends(n)
  BY DEF HeapBut, Tiled
<1> DEFINE z == After(h, b)
<1>2. /\ Tiled(g, n) /\ ElemsOf(g) = ElemsOf(h) \ {b} /\ After(g, a) = z
      /\ \A c \in ElemsOf(h) \ {a, b} : After(g, c) = After(h, c)
      /\ DOMAIN g.elem = DOMAIN h.elem \ {b}
      /\ g.free_head = h.free_head /\ g.dirty = h.dirty
      /\ \A c \in DOMAIN h.elem \ {b} :
           /\ g.elem[c].state = h.elem[c].state /\ g.elem[c].pad = h.elem[c].pad
           /\ g.elem[c].ms = h.elem[c].ms
           /\ c # a => g.elem[c].size = h.elem[c].size
           /\ c # z => g.elem[c].prev = h.elem[c].prev
  BY <1>1, JoinTiled
<1>3. a \in Nat /\ b \in Nat /\ z \in Nat /\ z \in ElemsOf(h) /\ a + 2 <= b /\ b + 2 <= z
  BY <1>1, Links
<1> HIDE DEF z
<1>4. /\ a .. z - 1 = (a .. b - 1) \cup (b .. z - 1) /\ a \in a .. z - 1 /\ b \in b .. z - 1
      /\ After(h, b) = z /\ a # b
  BY <1>3 DEF z
<1>5. Span(g, E \ {b}) = Span(h, E) /\ a \in Span(h, E) /\ b \in Span(h, E)
  <2>1. \A c \in E \ {a, b} : After(g, c) = After(h, c)
    BY <1>1, <1>2
  <2>2. ASSUME NEW x \in Span(g, E \ {b})
        PROVE  x \in Span(h, E)
    <3>1. PICK c \in E \ {b} : x \in c .. After(g, c) - 1
      BY SpanIs
    <3>2. CASE c = a
      <4>1. x \in a .. After(h, a) - 1 \/ x \in b .. After(h, b) - 1
        BY <1>2, <1>4, <3>1, <3>2
      <4> QED BY <4>1, SpanIs
    <3>3. CASE c # a
      BY <2>1, <3>1, <3>3, SpanIs
    <3> QED BY <3>2, <3>3
  <2>3. ASSUME NEW x \in Span(h, E)
        PROVE  x \in Span(g, E \ {b})
    <3>1. PICK c \in E : x \in c .. After(h, c) - 1
      BY SpanIs
    <3>2. CASE c \in {a, b}
      <4>1. x \in a .. After(g, a) - 1
        BY <1>2, <1>4, <3>1, <3>2
      <4> QED BY <1>4, <4>1, SpanIs
    <3>3. CASE c \notin {a, b}
      BY <2>1, <3>1, <3>3, SpanIs
    <3> QED BY <3>2, <3>3
  <2>4. a \in Span(h, E) /\ b \in Span(h, E)
    <3>1. a \in a .. After(h, a) - 1
      BY <1>3
    <3> QED BY <1>4, <3>1, SpanIs
  <2> QED BY <2>2, <2>3, <2>4
<1>6. FreeOf(g) = FreeOf(h) \ {b}
  BY <1>2 DEF FreeOf, ElemsOf
<1>7. Listed(g, FreeOf(g) \ (M \ {b}))
  <2> DEFINE L == FreeOf(h) \ M
  <2>1. Listed(h, L) /\ L = FreeOf(g) \ (M \ {b}) /\ L \subseteq FreeOf(g)
    BY <1>6 DEF HeapBut
  <2>2. \A c \in L : g.elem[c].size = h.elem[c].size /\ g.elem[c].ms = h.elem[c].ms
    BY <1>2 DEF FreeOf, ElemsOf
  <2> HIDE DEF L
  <2>3. Listed(g, L)
    BY <1>2, <2>1, <2>2, ListedFrame
  <2> QED BY <2>1, <2>3
<1>8. g.dirty \subseteq h.dirty \cup Span(h, E)
  BY <1>2
<1>9. \A x : x \notin Span(h, E) => (x \in DOMAIN g.elem <=> x \in DOMAIN h.elem)
  BY <1>2, <1>5
<1>10. \A x \in DOMAIN h.elem : x \notin Span(h, E) => Same(h, g, x)
  <2>1. h.elem[z].state # "PAD"
    BY <1>3 DEF ElemsOf
  <2> QED BY <1>2, <1>5, <2>1 DEF Same
<1>11. E \ {b} \subseteq ElemsOf(g) \ Ends(n)
  BY <1>1, <1>2
<1>12. HeapBut(g, n, B, E \ {b}, M \ {b}) /\ Keeps(h, g, n, E, E \ {b})
  <2>1. Tiled(g, n) /\ Span(g, E \ {b}) = Span(h, E)
    BY <1>2, <1>5
  <2> QED BY <1>7, <1>8, <1>9, <1>10, <1>11, <2>1, LocalChange
<1> QED BY <1>6, <1>12

LEMMA OffSpan ==
  ASSUME NEW h, NEW n \in 0 .. Len(Segs), Tiled(h, n), NEW E, E \subseteq ElemsOf(h) \ Ends(n),
         NEW b \in ElemsOf(h) \ E
  PROVE  b \notin Span(h, E)
<1>1. \A a \in E : b \notin a .. After(h, a) - 1
  BY SpansApart
<1> QED BY <1>1, SpanIs

(* A change that touches no size and no link.                              *)
LEMMA InPlaceChange ==
  ASSUME NEW h, NEW g, NEW n \in 0 .. Len(Segs), NEW B, NEW E, NEW M,
         HeapBut(h, n, B, E, M), Typed(g, n), ElemsOf(g) = ElemsOf(h), g.free_head = h.free_head,
         \A a \in ElemsOf(h) : /\ g.elem[a].size = h.elem[a].size /\ g.elem[a].prev = h.elem[a].prev
                               /\ g.elem[a].ms = h.elem[a].ms,
         \A x : x \notin Span(h, E) => (x \in DOMAIN g.elem <=> x \in DOMAIN h.elem),
         \A x \in DOMAIN h.elem : x \notin Span(h, E) => Same(h, g, x),
         g.dirty \subseteq h.dirty \cup Span(h, E),
         FreeOf(g) \ M = FreeOf(h) \ M
  PROVE  /\ HeapBut(g, n, B, E, M) /\ Keeps(h, g, n, E, E)
         /\ \A a \in ElemsOf(h) : After(g, a) = After(h, a)
<1>1. Tiled(h, n) /\ E \subseteq ElemsOf(h) \ Ends(n) /\ Listed(h, FreeOf(h) \ M)
  BY DEF HeapBut
<1>2. \A a \in ElemsOf(h) : After(g, a) = After(h, a)
  BY DEF After
<1>3. Tiled(g, n)
  <2>1. ASSUME NEW b \in Ends(n)
        PROVE  g.elem[b].state = "BUSY"
    <3>1. b \in ElemsOf(h) \ E /\ h.elem[b].state = "BUSY"
      BY <1>1, EndsAre
    <3>2. b \notin Span(h, E) /\ b \in DOMAIN h.elem
      BY <1>1, <3>1, OffSpan DEF ElemsOf
    <3> QED BY <3>1, <3>2 DEF Same
  <2> QED BY <1>1, <2>1, TiledFrame
<1>4. Span(g, E) = Span(h, E)
  <2>1. \A a \in E : After(g, a) = After(h, a)
    BY <1>1, <1>2
  <2>2. \A x : x \in Span(g, E) <=> x \in Span(h, E)
    BY <2>1, SpanIs
  <2> QED BY <2>2
<1>5. Listed(g, FreeOf(g) \ M)
  <2> DEFINE L == FreeOf(h) \ M
  <2>1. /\ Listed(h, L) /\ L \subseteq FreeOf(g) /\ L = FreeOf(g) \ M
        /\ \A b \in L : g.elem[b].size = h.elem[b].size /\ g.elem[b].ms = h.elem[b].ms
    BY <1>1 DEF FreeOf
  <2> HIDE DEF L
  <2>2. Listed(g, L)
    BY <2>1, ListedFrame
  <2> QED BY <2>1, <2>2
<1> QED BY <1>1, <1>2, <1>3, <1>4, <1>5, LocalChange

PadAt(h, a, new) == new \in {a, a + 1} /\ a + 1 \notin DOMAIN h.elem

BusyPad(h, g, a, new) ==
  /\ ElemsOf(g) = ElemsOf(h) /\ \A b \in ElemsOf(h) : After(g, b) = After(h, b)
  /\ DOMAIN g.elem = DOMAIN h.elem \cup {new}
  /\ g.elem[a].state = "BUSY" /\ g.elem[a].pad = new - a /\ g.elem[a].ms = h.elem[a].ms
  /\ new # a => /\ g.elem[new].state = "PAD" /\ g.elem[new].pad = 1
                /\ g.elem[new].prev = -1 /\ g.elem[new].ms = h.elem[a].ms

LEMMA PadHeap ==
  ASSUME NEW h, NEW n \in 0 .. Len(Segs), NEW B, NEW E, NEW M, HeapBut(h, n, B, E, M),
         NEW a \in E, Loose(h, a, M), NEW new, PadAt(h, a, new),
         NEW g, g = Pad(h, a, new)
  PROVE  HeapBut(g, n, B, E, M) /\ Keeps(h, g, n, E, E) /\ BusyPad(h, g, a, new)
<1> USE DEF Loose, BusyPad, PadAt
<1>1. Tiled(h, n) /\ Typed(h, n) /\ E \subseteq ElemsOf(h) \ Ends(n) /\ a \in ElemsOf(h) \ Ends(n)
  BY DEF HeapBut, Tiled
<1>2. /\ a \in DOMAIN h.elem /\ a \in Nat /\ After(h, a) \in Nat /\ a + 2 <= After(h, a)
      /\ h.elem[a].size = After(h, a) - a
  BY <1>1, Links
<1>3. h.elem[a].size >= 2
  BY <1>2
<1>4. /\ Typed(g, n) /\ g.free_head = h.free_head
      /\ DOMAIN g.elem = DOMAIN h.elem \cup {new} /\ h.dirty \cup {new} = g.dirty \cup {new}
      /\ g.elem[a] = Elem(h.elem[a].size, "BUSY", new - a, h.elem[a].prev, h.elem[a].ms)
      /\ new # a =>
           g.elem[new] = Elem(h.elem[a].size - (new - a), "PAD", new - a, -1, h.elem[a].ms)
      /\ \A b \in DOMAIN h.elem \ {a, new} : g.elem[b] = h.elem[b]
  BY <1>1, <1>2, <1>3, PadIs
<1>5. /\ g.elem[a].size = h.elem[a].size /\ g.elem[a].state = "BUSY" /\ g.elem[a].pad = new - a
      /\ g.elem[a].prev = h.elem[a].prev /\ g.elem[a].ms = h.elem[a].ms
  BY <1>4, ElemIs
<1>6. new # a => /\ g.elem[new].state = "PAD" /\ g.elem[new].pad = 1
                 /\ g.elem[new].prev = -1 /\ g.elem[new].ms = h.elem[a].ms
  <2>1. new # a => new = a + 1 /\ new - a = 1
    BY <1>2
  <2> QED BY <1>4, <2>1, ElemIs
<1>7. new = a \/ new \notin DOMAIN h.elem
  OBVIOUS
<1>8. ElemsOf(g) = ElemsOf(h) /\ FreeOf(g) \ M = FreeOf(h) \ M
  <2>1. ElemsOf(g) = ElemsOf(h)
    BY <1>1, <1>2, <1>4, <1>5, <1>6, <1>7 DEF ElemsOf
  <2>2. \A b \in ElemsOf(h) \ {a} : g.elem[b] = h.elem[b]
    BY <1>4, <1>7 DEF ElemsOf
  <2> QED BY <1>5, <2>1, <2>2 DEF FreeOf
<1>9. a \in Span(h, E) /\ new \in Span(h, E)
  <2>1. a \in a .. After(h, a) - 1 /\ new \in a .. After(h, a) - 1
    BY <1>2
  <2> QED BY <2>1, SpanIs
<1>10. \A b \in ElemsOf(h) : /\ g.elem[b].size = h.elem[b].size /\ g.elem[b].prev = h.elem[b].prev
                             /\ g.elem[b].ms = h.elem[b].ms
  BY <1>4, <1>5, <1>7 DEF ElemsOf
<1>11. \A x : x \notin Span(h, E) => (x \in DOMAIN g.elem <=> x \in DOMAIN h.elem)
  BY <1>4, <1>9
<1>12. \A x \in DOMAIN h.elem : x \notin Span(h, E) => Same(h, g, x)
  BY <1>4, <1>9 DEF Same
<1>13. g.dirty \subseteq h.dirty \cup Span(h, E)
  BY <1>4, <1>9
<1>14. /\ HeapBut(g, n, B, E, M) /\ Keeps(h, g, n, E, E)
       /\ \A b \in ElemsOf(h) : After(g, b) = After(h, b)
  <2>1. Typed(g, n) /\ g.free_head = h.free_head
    BY <1>4
  <2> QED BY <1>8, <1>10, <1>11, <1>12, <1>13, <2>1, InPlaceChange
<1> QED BY <1>4, <1>5, <1>6, <1>8, <1>14

MadeBusy(h, g, a) ==
  /\ ElemsOf(g) = ElemsOf(h) /\ FreeOf(g) = FreeOf(h) \ {a}
  /\ \A b \in ElemsOf(h) : After(g, b) = After(h, b)
  /\ DOMAIN g.elem = DOMAIN h.elem /\ g.dirty = h.dirty
  /\ g.elem[a].state = "BUSY" /\ g.elem[a].pad = h.elem[a].pad /\ g.elem[a].ms = h.elem[a].ms
  /\ \A b \in DOMAIN h.elem \ {a} : g.elem[b] = h.elem[b]

LEMMA BusyHeap ==
  ASSUME NEW h, NEW n \in 0 .. Len(Segs), NEW B, NEW E, NEW M, HeapBut(h, n, B, E, M),
         NEW a \in E, Loose(h, a, M), NEW g, g = SetBusy(h, a)
  PROVE  HeapBut(g, n, B, E, M) /\ Keeps(h, g, n, E, E) /\ MadeBusy(h, g, a)
<1> USE DEF Loose, MadeBusy
<1>1. Tiled(h, n) /\ Typed(h, n) /\ E \subseteq ElemsOf(h) \ Ends(n) /\ a \in ElemsOf(h) \ Ends(n)
  BY DEF HeapBut, Tiled
<1>2. a \in DOMAIN h.elem /\ a \in Nat /\ After(h, a) \in Nat /\ a + 2 <= After(h, a)
  BY <1>1, Links
<1>3. /\ Typed(g, n) /\ g.free_head = h.free_head /\ g.dirty = h.dirty
      /\ DOMAIN g.elem = DOMAIN h.elem
      /\ g.elem[a] = Elem(h.elem[a].size, "BUSY", h.elem[a].pad, h.elem[a].prev, h.elem[a].ms)
      /\ \A b \in DOMAIN h.elem \ {a} : g.elem[b] = h.elem[b]
  BY <1>1, <1>2, BusyIs
<1>4. /\ g.elem[a].size = h.elem[a].size /\ g.elem[a].state = "BUSY" /\ g.elem[a].pad = h.elem[a].pad
      /\ g.elem[a].prev = h.elem[a].prev /\ g.elem[a].ms = h.elem[a].ms
  BY <1>3, ElemIs
<1>5. ElemsOf(g) = ElemsOf(h) /\ FreeOf(g) = FreeOf(h) \ {a}
  BY <1>1, <1>2, <1>3, <1>4 DEF ElemsOf, FreeOf
<1>6. a \in Span(h, E)
  <2>1. a \in a .. After(h, a) - 1
    BY <1>2
  <2> QED BY <2>1, SpanIs
<1>7. \A b \in ElemsOf(h) : /\ g.elem[b].size = h.elem[b].size /\ g.elem[b].prev = h.elem[b].prev
                            /\ g.elem[b].ms = h.elem[b].ms
  BY <1>3, <1>4 DEF ElemsOf
<1>8. \A x \in DOMAIN h.elem : x \notin Span(h, E) => Same(h, g, x)
  BY <1>3, <1>6 DEF Same
<1>9. /\ HeapBut(g, n, B, E, M) /\ Keeps(h, g, n, E, E)
      /\ \A b \in ElemsOf(h) : After(g, b) = After(h, b)
  <2>1. Typed(g, n) /\ g.free_head = h.free_head /\ g.dirty \subseteq h.dirty \cup Span(h, E)
    BY <1>3
  <2>2. \A x : x \notin Span(h, E) => (x \in DOMAIN g.elem <=> x \in DOMAIN h.elem)
    BY <1>3
  <2>3. FreeOf(g) \ M = FreeOf(h) \ M
    BY <1>5
  <2> QED BY <1>5, <1>7, <1>8, <2>1, <2>2, <2>3, InPlaceChange
<1> QED BY <1>3, <1>4, <1>5, <1>9

DataOf(h, a, S) == \A x \in S : x \in a + 1 .. After(h, a) - 1

Zeroed(h, g, S) ==
  /\ ElemsOf(g) = ElemsOf(h) /\ FreeOf(g) = FreeOf(h)
  /\ \A b \in ElemsOf(h) : After(g, b) = After(h, b) /\ g.elem[b] = h.elem[b]
  /\ DOMAIN g.elem = DOMAIN h.elem \ S /\ g.dirty = h.dirty \ S

LEMMA ZeroHeap ==
  ASSUME NEW h, NEW n \in 0 .. Len(Segs), NEW B, NEW E, NEW M, HeapBut(h, n, B, E, M),
         NEW a \in E, NEW p, NEW sz, DataOf(h, a, Lines(p, sz)),
         NEW g, g = Zero(h, p, sz)
  PROVE  HeapBut(g, n, B, E, M) /\ Keeps(h, g, n, E, E) /\ Zeroed(h, g, Lines(p, sz))
<1> USE DEF DataOf, Zeroed
<1>1. Tiled(h, n) /\ Typed(h, n) /\ E \subseteq ElemsOf(h) \ Ends(n) /\ a \in ElemsOf(h) \ Ends(n)
  BY DEF HeapBut, Tiled
<1>2. a \in Nat /\ After(h, a) \in Nat /\ \A b \in ElemsOf(h) : b \in Nat /\ (b <= a \/ After(h, a) <= b)
  BY <1>1, Links
<1>3. /\ Typed(g, n) /\ g.free_head = h.free_head /\ g.dirty = h.dirty \ Lines(p, sz)
      /\ DOMAIN g.elem = DOMAIN h.elem \ Lines(p, sz)
      /\ \A b \in DOMAIN h.elem \ Lines(p, sz) : g.elem[b] = h.elem[b]
  BY <1>1, ZeroIs
<1>4. \A b \in ElemsOf(h) : b \notin Lines(p, sz)
  BY <1>2
<1>5. \A x \in Lines(p, sz) : x \in Span(h, E)
  <2>1. \A x \in Lines(p, sz) : x \in a .. After(h, a) - 1
    BY <1>2
  <2> QED BY <2>1, SpanIs
<1>6. \A b \in ElemsOf(h) : b \in DOMAIN g.elem /\ g.elem[b] = h.elem[b]
  BY <1>3, <1>4 DEF ElemsOf
<1>7. ElemsOf(g) = ElemsOf(h) /\ FreeOf(g) = FreeOf(h)
  <2>1. ElemsOf(g) = ElemsOf(h)
    BY <1>3, <1>6 DEF ElemsOf
  <2> QED BY <1>6, <2>1 DEF FreeOf
<1>8. \A x \in DOMAIN h.elem : x \notin Span(h, E) => Same(h, g, x)
  BY <1>3, <1>5 DEF Same
<1>9. /\ HeapBut(g, n, B, E, M) /\ Keeps(h, g, n, E, E)
      /\ \A b \in ElemsOf(h) : After(g, b) = After(h, b)
  <2>1. Typed(g, n) /\ g.free_head = h.free_head /\ g.dirty \subseteq h.dirty \cup Span(h, E)
    BY <1>3
  <2>2. \A x : x \notin Span(h, E) => (x \in DOMAIN g.elem <=> x \in DOMAIN h.elem)
    BY <1>3, <1>5
  <2>3. FreeOf(g) \ M = FreeOf(h) \ M
    BY <1>7
  <2>4. \A b \in ElemsOf(h) : /\ g.elem[b].size = h.elem[b].size /\ g.elem[b].prev = h.elem[b].prev
                              /\ g.elem[b].ms = h.elem[b].ms
    BY <1>6
  <2> QED BY <1>7, <1>8, <2>1, <2>2, <2>3, <2>4, InPlaceChange
<1> QED BY <1>3, <1>6, <1>7, <1>9

(* The caller writes to its block.                                         *)
LEMMA WriteHeap ==
  ASSUME NEW h, NEW n \in 0 .. Len(Segs), NEW B, NEW E, NEW M, HeapBut(h, n, B, E, M),
         NEW a \in E, NEW S, DataOf(h, a, S),
         NEW g, g = Write(h, S)
  PROVE  /\ HeapBut(g, n, B, E, M) /\ Keeps(h, g, n, E, E) /\ g.elem = h.elem
         /\ ElemsOf(g) = ElemsOf(h) /\ After(g, a) = After(h, a)
<1> USE DEF DataOf
<1>1. Tiled(h, n) /\ Typed(h, n) /\ E \subseteq ElemsOf(h) \ Ends(n) /\ a \in ElemsOf(h) \ Ends(n)
  BY DEF HeapBut, Tiled
<1>2. /\ DOMAIN g = {"elem", "free_head", "dirty"} /\ g.free_head = h.free_head /\ g.elem = h.elem
      /\ g.dirty = h.dirty \cup S
  BY <1>1 DEF Typed, Write
<1>3. Typed(g, n)
  BY <1>1, <1>2 DEF Typed
<1>4. ElemsOf(g) = ElemsOf(h) /\ FreeOf(g) = FreeOf(h) /\ \A x : Same(h, g, x)
  BY <1>2 DEF ElemsOf, FreeOf, Same
<1>5. g.dirty \subseteq h.dirty \cup Span(h, E)
  <2>1. a \in Nat /\ After(h, a) \in Nat
    BY <1>1, Links
  <2>2. \A x \in S : x \in a .. After(h, a) - 1
    BY <2>1
  <2> QED BY <1>2, <2>2, SpanIs
<1>6. /\ HeapBut(g, n, B, E, M) /\ Keeps(h, g, n, E, E)
      /\ \A b \in ElemsOf(h) : After(g, b) = After(h, b)
  BY <1>2, <1>3, <1>4, <1>5, InPlaceChange
<1> QED BY <1>1, <1>2, <1>4, <1>6

-----------------------------------------------------------------------------
(* malloc_elem_alloc.                                                      *)
LEMMA DivMonotone ==
  ASSUME NEW x \in Int, NEW y \in Int, NEW d \in Nat \ {0}, x <= y
  PROVE  x \div d <= y \div d /\ x \div d \in Int /\ y \div d \in Int
<1> DEFINE p == x \div d
           q == y \div d
<1>1. p \in Int /\ x % d \in 0 .. d - 1 /\ x = d * p + (x % d)
  OBVIOUS
<1>2. q \in Int /\ y % d \in 0 .. d - 1 /\ y = d * q + (y % d)
  OBVIOUS
<1> HIDE DEF p, q
<1>3. ASSUME q < p
      PROVE  FALSE
  <2>1. q + 1 <= p
    BY <1>1, <1>2, <1>3
  <2>2. d * (q + 1) <= d * p
    BY <1>1, <1>2, <2>1
  <2>3. d * (q + 1) = d * q + d
    BY <1>2
  <2> QED BY <1>1, <1>2, <2>2, <2>3
<1>4. p <= q
  BY <1>1, <1>2, <1>3
<1> QED BY <1>1, <1>2, <1>4 DEF p, q

LEMMA StartPtIs ==
  ASSUME NEW h, NEW a \in Nat, After(h, a) \in Nat, NEW r, Requested(r),
         NEW new, new = StartPt(h, a, r), new # -1
  PROVE  /\ new \in Nat /\ a <= new /\ new + 1 + r.size <= After(h, a)
         /\ (new + 1) % r.align = 0
         /\ SameBound(new + 1, new + 1 + r.size - 1, r.bound)
<1> DEFINE end == After(h, a)
           atEnd == AlignFloor(end - r.size, r.align)
           below == AlignFloor(AlignFloor(end, r.bound) - r.size, r.align)
           crosses == ~SameBound(atEnd, end - 1, r.bound)
           data == IF crosses THEN below ELSE atEnd
<1>1. r.size \in Nat /\ r.size > 0 /\ r.align \in Nat \ {0} /\ r.bound \in Nat
  BY DEF Requested
<1>2. /\ new = data - 1 /\ ~(data - 1 < a)
      /\ crosses => SameBound(below + r.size - 1, below, r.bound)
  BY DEF StartPt, After
<1>0. end \in Int /\ end - r.size \in Int
  BY <1>1
<1>3. /\ atEnd \in Int /\ atEnd <= end - r.size /\ atEnd % r.align = 0
  <2> HIDE DEF end
  <2> QED BY <1>0, <1>1, FloorBelow
<1>4. ASSUME crosses
      PROVE  below \in Int /\ below + r.size <= end /\ below % r.align = 0
  <2>1. r.bound \in Nat \ {0}
    BY <1>1, <1>4 DEF SameBound
  <2>2. AlignFloor(end, r.bound) \in Int /\ AlignFloor(end, r.bound) <= end
    <3> HIDE DEF end
    <3> QED BY <1>0, <2>1, FloorBelow
  <2>3. AlignFloor(end, r.bound) - r.size \in Int
    BY <1>1, <2>2
  <2>4. /\ below \in Int /\ below <= AlignFloor(end, r.bound) - r.size /\ below % r.align = 0
    BY <1>1, <2>3, FloorBelow
  <2> HIDE DEF below
  <2> QED BY <1>1, <2>2, <2>4
<1>5. SameBound(data, data + r.size - 1, r.bound)
  <2>1. CASE crosses
    BY <1>2, <2>1 DEF SameBound
  <2>2. CASE ~crosses /\ r.bound = 0
    BY <2>2 DEF SameBound
  <2>3. CASE ~crosses /\ r.bound # 0
    <3>1. atEnd \div r.bound = (end - 1) \div r.bound
      BY <2>3 DEF SameBound
    <3>2. atEnd + r.size - 1 \in Int /\ end - 1 \in Int /\ atEnd <= atEnd + r.size - 1 /\ atEnd + r.size - 1 <= end - 1
      BY <1>1, <1>3
    <3> HIDE DEF atEnd
    <3>3. /\ atEnd \div r.bound <= (atEnd + r.size - 1) \div r.bound
          /\ (atEnd + r.size - 1) \div r.bound <= (end - 1) \div r.bound
          /\ atEnd \div r.bound \in Int /\ (atEnd + r.size - 1) \div r.bound \in Int
      BY <1>1, <1>3, <2>3, <3>2, DivMonotone
    <3>4. atEnd \div r.bound = (atEnd + r.size - 1) \div r.bound
      BY <3>1, <3>3
    <3> QED BY <2>3, <3>4 DEF SameBound
  <2> QED BY <2>1, <2>2, <2>3
<1> HIDE DEF atEnd, below, crosses
<1>6. data \in Int /\ data + r.size <= end /\ data % r.align = 0
  BY <1>1, <1>3, <1>4
<1> HIDE DEF data
<1>7. new \in Nat /\ a <= new /\ new + 1 = data
  BY <1>2, <1>6
<1> QED BY <1>1, <1>5, <1>6, <1>7

(* A free element taken off its list, of which no line was used.           *)
Open(h, n, B, a) ==
  /\ HeapBut(h, n, B, {a}, {a}) /\ a \in FreeOf(h)
  /\ Unused(h, a)
  /\ h.elem[a].prev # -1 => h.elem[a].prev \notin FreeOf(h)

LEMMA Blank ==
  ASSUME NEW h, NEW n \in 0 .. Len(Segs), NEW B, NEW E, NEW M, HeapBut(h, n, B, E, M),
         NEW a \in FreeOf(h) \ E, E \subseteq ElemsOf(h) \ Ends(n)
  PROVE  Unused(h, a)
<1>1. Tiled(h, n) /\ Typed(h, n) /\ a \in ElemsOf(h) /\ h.elem[a].state = "FREE" /\ DOMAIN h.elem \subseteq Nat
  BY DEF HeapBut, Tiled, Typed, FreeOf
<1>2. a \in ElemsOf(h) \ Ends(n)
  BY <1>1, EndsAre
<1>3. a \in Nat /\ After(h, a) \in Nat /\ \A b \in ElemsOf(h) : b \in Nat /\ (b <= a \/ After(h, a) <= b)
  BY <1>1, <1>2, Links
<1> SUFFICES ASSUME NEW x \in a + 1 .. After(h, a) - 1
             PROVE  x \notin h.dirty /\ x \notin DOMAIN h.elem
  BY DEF Unused
<1>4. x \notin h.dirty
  BY DEF HeapBut, Clean
<1>5. ASSUME x \in DOMAIN h.elem
      PROVE  FALSE
  <2>1. x \notin ElemsOf(h)
    BY <1>3
  <2>2. h.elem[x].state = "PAD"
    BY <1>5, <2>1 DEF ElemsOf
  <2>3. x \notin Span(h, E)
    <3>1. x \in a .. After(h, a) - 1
      BY <1>3
    <3>2. \A b \in E : x \notin b .. After(h, b) - 1
      BY <1>1, <1>2, <3>1, SpansApart
    <3> QED BY <3>2, SpanIs
  <2>4. x - 1 \in BusyOf(h, n)
    BY <1>5, <2>2, <2>3 DEF HeapBut, Padded
  <2>5. x - 1 \in ElemsOf(h) /\ h.elem[x - 1].state = "BUSY"
    BY <2>4 DEF BusyOf
  <2>6. x - 1 # a
    BY <1>1, <2>5
  <2> QED BY <1>3, <2>5, <2>6
<1> QED BY <1>4, <1>5

LEMMA TakeOff ==
  ASSUME NEW h, NEW n \in 0 .. Len(Segs), NEW B, HeapOf(h, n, B), NEW a \in FreeOf(h),
         NEW g, g = Remove(h, a)
  PROVE  /\ Open(g, n, B, a) /\ g.elem = h.elem /\ After(g, a) \notin FreeOf(g)
         /\ BusyOf(g, n) = BusyOf(h, n)
<1>1. HeapBut(h, n, B, {}, {})
  BY DEF HeapOf
<1>2. HeapBut(h, n, B, {a}, {})
  <2>1. HeapBut(h, n, B, Plus({}, a), {})
    BY <1>1, TakeFree
  <2>2. Plus({}, a) = {a}
    BY DEF Plus
  <2> QED BY <2>1, <2>2
<1>3. HeapBut(g, n, B, {a}, {a}) /\ g.elem = h.elem /\ g.dirty = h.dirty
  <2>1. HeapBut(g, n, B, {a}, Plus({}, a)) /\ g.elem = h.elem /\ g.dirty = h.dirty
    BY <1>2, RemoveHeap
  <2>2. Plus({}, a) = {a}
    BY DEF Plus
  <2> QED BY <2>1, <2>2
<1>4. /\ ElemsOf(g) = ElemsOf(h) /\ FreeOf(g) = FreeOf(h) /\ BusyOf(g, n) = BusyOf(h, n)
      /\ After(g, a) = After(h, a)
  BY <1>3 DEF ElemsOf, FreeOf, BusyOf, After
<1>5. Unused(g, a)
  <2>1. a \in FreeOf(h) \ {} /\ {} \subseteq ElemsOf(h) \ Ends(n)
    OBVIOUS
  <2> QED BY <1>1, <1>3, <1>4, <2>1, Blank DEF Unused
<1>6. After(h, a) \notin FreeOf(h)
  BY <1>1 DEF HeapBut, Apart
<1>7. ASSUME h.elem[a].prev # -1, h.elem[a].prev \in FreeOf(h)
      PROVE  FALSE
  <2>1. Tiled(h, n) /\ a \in ElemsOf(h)
    BY <1>1 DEF HeapBut, FreeOf
  <2>2. After(h, h.elem[a].prev) = a
    BY <1>7, <2>1, Inside
  <2> QED BY <1>1, <1>7, <2>2 DEF HeapBut, Apart
<1> QED BY <1>3, <1>4, <1>5, <1>6, <1>7 DEF Open

LEMMA KeepsTrans ==
  ASSUME NEW h, NEW g, NEW k, NEW n, NEW E, NEW F, NEW G, Keeps(h, g, n, E, F), Keeps(g, k, n, F, G)
  PROVE  Keeps(h, k, n, E, G)
BY DEF Keeps

CutAt(h, a, at) == at \in Nat /\ a + 2 <= at /\ at + 2 <= After(h, a) /\ After(h, a) \notin FreeOf(h)

CutOff(h, g, n, B, a, at) ==
  /\ Open(g, n, B, a) /\ After(g, a) = at /\ g.elem[a].ms = h.elem[a].ms
  /\ Keeps(h, g, n, {}, {})

(* What is left behind the data goes back to the lists.                    *)
LEMMA CutTail ==
  ASSUME NEW h, NEW n \in 0 .. Len(Segs), NEW B, NEW a, Open(h, n, B, a),
         NEW at, CutAt(h, a, at), NEW g, g = Insert(Split(h, a, at), at)
  PROVE  CutOff(h, g, n, B, a, at)
<1> USE DEF CutAt
<1> DEFINE s == Split(h, a, at)
           z == After(h, a)
           E == {a}
           F == {a, at}
<1>1. /\ HeapBut(h, n, B, E, E) /\ Tiled(h, n) /\ a \in ElemsOf(h) \ Ends(n) /\ a \in FreeOf(h)
      /\ \A x \in a + 1 .. z - 1 : x \notin h.dirty /\ x \notin DOMAIN h.elem
      /\ h.elem[a].prev # -1 => h.elem[a].prev \notin FreeOf(h)
  BY DEF Open, HeapBut, Unused
<1>2. /\ a \in Nat /\ z \in Nat /\ z \in ElemsOf(h) /\ a \in DOMAIN h.elem /\ z \in DOMAIN h.elem
  BY <1>1, Links
<1>3. at \in a + 1 .. z - 1 /\ at # a /\ z # a /\ z # at
  BY <1>2
<1>4. at \notin DOMAIN h.elem
  BY <1>1, <1>3
<1>5. /\ Tiled(s, n) /\ ElemsOf(s) = ElemsOf(h) \cup {at} /\ at \notin Ends(n)
      /\ After(s, a) = at /\ After(s, at) = z
      /\ DOMAIN s.elem = DOMAIN h.elem \cup {at} /\ s.dirty = h.dirty \cup {at}
      /\ s.elem[at].state = "FREE" /\ s.elem[a].prev = h.elem[a].prev
      /\ s.elem[a].state = h.elem[a].state /\ s.elem[a].ms = h.elem[a].ms
  BY <1>1, <1>2, <1>4, SplitTiled
<1>a. /\ a \in E /\ Loose(h, a, E) /\ Plus(E, at) = F /\ at \in F /\ \A k : Loose(k, at, F)
      /\ Minus(F, at) = E /\ s = Split(h, a, at) /\ g = Insert(s, at)
  BY <1>3 DEF Loose, Plus, Minus
<1>b. \A k, x : x \notin FreeOf(k) => Loose(k, x, F)
  BY DEF Loose
<1>c. \A k : Loose(k, a, F)
  BY DEF Loose
<1> HIDE DEF s, E, F
<1>6. /\ HeapBut(s, n, B, F, F) /\ Keeps(h, s, n, E, F)
      /\ FreeOf(s) = FreeOf(h) \cup {at}
  <2>1. /\ HeapBut(s, n, B, Plus(E, at), Plus(E, at)) /\ Keeps(h, s, n, E, Plus(E, at))
        /\ FreeOf(s) = FreeOf(h) \cup {at}
    BY <1>1, <1>4, <1>a, SplitHeap
  <2> QED BY <1>a, <2>1
<1>7. /\ HeapBut(g, n, B, F, E) /\ Keeps(s, g, n, F, F)
      /\ ElemsOf(g) = ElemsOf(s) /\ FreeOf(g) = FreeOf(h) \cup {at}
      /\ DOMAIN g.elem = DOMAIN s.elem /\ g.dirty = s.dirty
      /\ g.elem[a] = s.elem[a]
      /\ \A b \in DOMAIN s.elem : After(g, b) = After(s, b)
  <2>2. HeapBut(g, n, B, F, Minus(F, at)) /\ Keeps(s, g, n, F, F) /\ Inserted(s, g, at)
    BY <1>6, <1>a, InsertHeap
  <2> QED BY <1>2, <1>3, <1>5, <1>6, <1>a, <2>2 DEF Inserted
<1>8. After(g, a) = at /\ After(g, at) = z /\ Tiled(g, n)
  BY <1>2, <1>5, <1>7 DEF HeapBut
<1>9. g.elem[at].prev = a
  <2>1. a \in ElemsOf(g) \ Ends(n)
    BY <1>1, <1>5, <1>7
  <2> QED BY <1>8, <2>1, Links
<1>10. Unused(g, at)
  <2>1. \A x \in at + 1 .. z - 1 : x \in a + 1 .. z - 1 /\ x # at
    BY <1>2
  <2> QED BY <1>1, <1>5, <1>7, <1>8, <2>1 DEF Unused
<1>11. HeapBut(g, n, B, E, E) /\ Keeps(g, g, n, F, E)
  <2>1. at \in FreeOf(g) /\ Loose(g, After(g, at), F) /\ Loose(g, g.elem[at].prev, F)
    BY <1>3, <1>7, <1>8, <1>9, <1>b, <1>c
  <2>2. HeapBut(g, n, B, Minus(F, at), E) /\ Keeps(g, g, n, F, Minus(F, at))
    BY <1>7, <1>10, <1>a, <2>1, GiveFree
  <2> QED BY <1>a, <2>2
<1>12. Unused(g, a)
  <2>1. \A x \in a + 1 .. at - 1 : x \in a + 1 .. z - 1 /\ x # at
    BY <1>2
  <2> QED BY <1>1, <1>5, <1>7, <1>8, <2>1 DEF Unused
<1>13. g.elem[a].prev # -1 => g.elem[a].prev \notin FreeOf(g)
  <2>1. g.elem[a].prev = h.elem[a].prev
    BY <1>5, <1>7
  <2>2. h.elem[a].prev # -1 => h.elem[a].prev \in DOMAIN h.elem
    BY <1>1, Inside DEF ElemsOf
  <2> QED BY <1>1, <1>4, <1>7, <2>1, <2>2
<1>14. Keeps(h, g, n, E, E)
  BY <1>6, <1>7, <1>11, KeepsTrans
<1>15. Open(g, n, B, a)
  BY <1>1, <1>7, <1>11, <1>12, <1>13 DEF Open, E
<1>16. Keeps(h, g, n, {}, {})
  <2>1. a \notin BusyOf(h, n) /\ a \notin BusyOf(g, n)
    BY <1>1, <1>15 DEF Open, BusyOf, FreeOf
  <2> QED BY <1>14, <2>1 DEF Keeps, E
<1> QED BY <1>5, <1>7, <1>8, <1>15, <1>16 DEF CutOff

(* The block of a call: a new busy element e, where new leads to it.       *)
Filled(h, g, n, B, a, new, size) ==
  /\ HeapOf(g, n, With(B, new + 1, size)) /\ new + 1 \notin DOMAIN B
  /\ new \in DOMAIN g.elem /\ g.elem[new].ms = h.elem[a].ms
  /\ \E e \in BusyOf(g, n) \ BusyOf(h, n) :
       /\ Keeps(h, g, n, {}, {e})
       /\ new = e + g.elem[e].pad /\ g.elem[e].ms = h.elem[a].ms

LEMMA WithAdds ==
  ASSUME NEW B, NEW p, NEW sz
  PROVE  Adds(With(B, p, sz), B, p, sz)
BY DEF With, Adds

(* The element under way is a busy one with its block: the call is over.   *)
LEMMA Finish ==
  ASSUME NEW h, NEW g, NEW n \in 0 .. Len(Segs), NEW B, NEW a, NEW e, NEW new \in Nat, NEW size \in Nat,
         HeapBut(g, n, B, {e}, {e}), Keeps(h, g, n, {}, {e}), e \notin BusyOf(h, n),
         g.elem[e].state = "BUSY", Dummy(g, e), new = e + g.elem[e].pad, new + 1 + size <= After(g, e),
         new \in DOMAIN g.elem, g.elem[new].ms = h.elem[a].ms, g.elem[e].ms = h.elem[a].ms
  PROVE  Filled(h, g, n, B, a, new, size)
<1> DEFINE C == With(B, new + 1, size)
           p == new + 1
           E == {e}
<1>1. Tiled(g, n) /\ e \in ElemsOf(g) \ Ends(n)
  BY DEF HeapBut
<1>2. e \in Nat /\ g.elem[e].pad \in 0 .. 1
  BY <1>1, Header DEF Tiled, ElemsOf
<1>3. /\ Adds(C, B, p, size) /\ e \in E /\ Room(g, e, p, size)
      /\ HeapBut(g, n, B, E, E) /\ Minus(E, e) = {}
  BY <1>2, WithAdds DEF Minus, Room
<1> HIDE DEF C, p, E
<1>4. HeapBut(g, n, C, Minus(E, e), E) /\ p \notin DOMAIN B
  BY <1>3, GiveBusy
<1>5. HeapOf(g, n, C)
  <2>1. FreeOf(g) \ E = FreeOf(g) \ {}
    BY DEF FreeOf, E
  <2> QED BY <1>3, <1>4, <2>1 DEF HeapOf, HeapBut
<1>6. e \in BusyOf(g, n) \ BusyOf(h, n)
  BY <1>1, Zenon DEF BusyOf
<1> QED BY <1>4, <1>5, <1>6 DEF Filled, C, p

LEMMA FillPad ==
  ASSUME NEW h, NEW n \in 0 .. Len(Segs), NEW B, NEW a, Open(h, n, B, a),
         NEW new \in {a, a + 1}, NEW size \in Nat \ {0}, new + 1 + size <= After(h, a),
         NEW g, g = Write(Pad(h, a, new), Lines(new + 1, size))
  PROVE  Filled(h, g, n, B, a, new, size)
<1> DEFINE s == Pad(h, a, new)
           E == {a}
           S == Lines(new + 1, size)
<1>1. /\ HeapBut(h, n, B, E, E) /\ Tiled(h, n) /\ a \in ElemsOf(h) \ Ends(n) /\ a \in FreeOf(h)
      /\ \A x \in a + 1 .. After(h, a) - 1 : x \notin DOMAIN h.elem
  BY DEF Open, HeapBut, Unused
<1>2. a \in Nat /\ After(h, a) \in Nat /\ a \in DOMAIN h.elem /\ a + 2 <= After(h, a)
  BY <1>1, Links
<1>3. a + 1 \notin DOMAIN h.elem
  BY <1>1, <1>2
<1>a. a \in E /\ Loose(h, a, E) /\ PadAt(h, a, new) /\ s = Pad(h, a, new) /\ g = Write(s, S)
  BY <1>3 DEF Loose, PadAt
<1>b. \A x \in S : x \in a + 1 .. After(h, a) - 1
  BY <1>2 DEF Lines
<1> HIDE DEF s, E, S
<1>4. HeapBut(s, n, B, E, E) /\ Keeps(h, s, n, E, E) /\ BusyPad(h, s, a, new)
  BY <1>1, <1>3, <1>a, PadHeap
<1>5. /\ ElemsOf(s) = ElemsOf(h) /\ After(s, a) = After(h, a)
      /\ DOMAIN s.elem = DOMAIN h.elem \cup {new}
      /\ s.elem[a].state = "BUSY" /\ s.elem[a].pad = new - a /\ s.elem[a].ms = h.elem[a].ms
      /\ new # a => /\ s.elem[new].state = "PAD" /\ s.elem[new].pad = 1
                    /\ s.elem[new].prev = -1 /\ s.elem[new].ms = h.elem[a].ms
  BY <1>1, <1>4 DEF BusyPad
<1>6. /\ HeapBut(g, n, B, E, E) /\ Keeps(s, g, n, E, E) /\ g.elem = s.elem
      /\ After(g, a) = After(h, a)
  <2>1. DataOf(s, a, S)
    BY <1>5, <1>b DEF DataOf
  <2>3. /\ HeapBut(g, n, B, E, E) /\ Keeps(s, g, n, E, E) /\ g.elem = s.elem
        /\ After(g, a) = After(s, a)
    BY <1>4, <1>a, <2>1, WriteHeap
  <2> QED BY <1>5, <2>3
<1>7. Dummy(g, a)
  <2>1. ASSUME NEW x \in a + 1 .. After(g, a) - 1, x \in DOMAIN g.elem
        PROVE  x = a + 1 /\ g.elem[a].pad = 1 /\ g.elem[x].pad = 1 /\ g.elem[x].prev = -1
    <3>1. x = new
      BY <1>1, <1>5, <1>6, <2>1
    <3>2. new # a /\ new = a + 1 /\ new - a = 1
      BY <1>2, <3>1
    <3> QED BY <1>5, <1>6, <3>1, <3>2
  <2>2. ASSUME g.elem[a].pad = 1
        PROVE  a + 1 \in DOMAIN g.elem /\ g.elem[a + 1].state = "PAD"
    <3>1. new = a + 1 /\ new # a
      BY <1>2, <1>5, <1>6, <2>2
    <3> QED BY <1>5, <1>6, <3>1
  <2> QED BY <2>1, <2>2 DEF Dummy
<1>8. Keeps(h, g, n, {}, E)
  <2>1. Keeps(h, g, n, E, E)
    BY <1>4, <1>6, KeepsTrans
  <2>2. BusyOf(h, n) \ E = BusyOf(h, n) \ {}
    BY <1>1 DEF BusyOf, FreeOf, E
  <2> QED BY <2>1, <2>2 DEF Keeps
<1>9. new \in Nat /\ new = a + g.elem[a].pad /\ new + 1 + size <= After(g, a)
  <2>1. g.elem[a].pad = new - a /\ After(g, a) = After(h, a)
    BY <1>5, <1>6
  <2> QED BY <1>2, <2>1
<1>10. a \notin BusyOf(h, n)
  BY <1>1 DEF BusyOf, FreeOf
<1>11. /\ new \in DOMAIN g.elem /\ g.elem[new].ms = h.elem[a].ms /\ g.elem[a].ms = h.elem[a].ms
       /\ g.elem[a].state = "BUSY"
  BY <1>5, <1>6
<1> QED BY <1>6, <1>7, <1>8, <1>9, <1>10, <1>11, Finish, Zenon DEF E

(* The block begins further up: what is before it goes back to the lists.  *)
LEMMA FillSplit ==
  ASSUME NEW h, NEW n \in 0 .. Len(Segs), NEW B, NEW a, Open(h, n, B, a), 
         NEW new \in Nat, a + 2 <= new, NEW size \in Nat \ {0}, new + 1 + size <= After(h, a),
         NEW g, g = Write(Insert(SetBusy(Split(h, a, new), new), a), Lines(new + 1, size))
  PROVE  Filled(h, g, n, B, a, new, size)
<1> DEFINE s == Split(h, a, new)
           k == SetBusy(s, new)
           i == Insert(k, a)
           z == After(h, a)
           S == Lines(new + 1, size)
           E == {a}
           F == {a, new}
           G == {new}
<1>1. /\ HeapBut(h, n, B, E, E) /\ Tiled(h, n) /\ a \in ElemsOf(h) \ Ends(n) /\ a \in FreeOf(h)
      /\ \A x \in a + 1 .. z - 1 : x \notin h.dirty /\ x \notin DOMAIN h.elem
      /\ h.elem[a].prev # -1 => h.elem[a].prev \notin FreeOf(h)
  BY DEF Open, HeapBut, Unused
<1>2. /\ a \in Nat /\ z \in Nat /\ z \in ElemsOf(h) /\ a \in DOMAIN h.elem /\ z \in DOMAIN h.elem
  BY <1>1, Links
<1>3. new \in a + 1 .. z - 1 /\ new # a /\ z # a /\ z # new /\ new + 2 <= z
  BY <1>2
<1>4. new \notin DOMAIN h.elem
  BY <1>1, <1>3
<1>5. /\ Tiled(s, n) /\ ElemsOf(s) = ElemsOf(h) \cup {new} /\ new \notin Ends(n)
      /\ After(s, a) = new /\ After(s, new) = z
      /\ DOMAIN s.elem = DOMAIN h.elem \cup {new} /\ s.dirty = h.dirty \cup {new}
      /\ s.elem[new].pad = 0 /\ s.elem[new].ms = h.elem[a].ms /\ s.elem[a].prev = h.elem[a].prev
  BY <1>1, <1>2, <1>3, <1>4, SplitTiled
<1>a. /\ a \in E /\ Loose(h, a, E) /\ Plus(E, new) = F /\ new \in F /\ a \in F
      /\ Minus(F, a) = G /\ new \in G
      /\ s = Split(h, a, new) /\ k = SetBusy(s, new) /\ i = Insert(k, a) /\ g = Write(i, S)
  BY <1>3 DEF Loose, Plus, Minus
<1>b. \A m, x : (x \notin FreeOf(m) \/ x \in F) => Loose(m, x, F)
  BY DEF Loose
<1>c. \A x \in S : x \in new + 1 .. z - 1
  BY <1>2 DEF Lines
<1> HIDE DEF s, k, i, S, E, F, G, z
<1>6. HeapBut(s, n, B, F, F) /\ Keeps(h, s, n, E, F) /\ FreeOf(s) = FreeOf(h) \cup {new}
  <2>1. /\ HeapBut(s, n, B, Plus(E, new), Plus(E, new)) /\ Keeps(h, s, n, E, Plus(E, new))
        /\ FreeOf(s) = FreeOf(h) \cup {new}
    BY <1>1, <1>3, <1>4, <1>a, SplitHeap DEF z
  <2> QED BY <1>a, <2>1
<1>7. HeapBut(k, n, B, F, F) /\ Keeps(s, k, n, F, F) /\ MadeBusy(s, k, new)
  BY <1>6, <1>a, <1>b, BusyHeap
<1>8. /\ ElemsOf(k) = ElemsOf(s) /\ FreeOf(k) = FreeOf(s) \ {new}
      /\ After(k, a) = new /\ After(k, new) = z
      /\ DOMAIN k.elem = DOMAIN s.elem /\ k.dirty = s.dirty
      /\ k.elem[new].state = "BUSY" /\ k.elem[new].pad = 0 /\ k.elem[new].ms = h.elem[a].ms
      /\ k.elem[a] = s.elem[a]
  BY <1>1, <1>2, <1>3, <1>5, <1>7 DEF MadeBusy
<1>9. HeapBut(i, n, B, F, G) /\ Keeps(k, i, n, F, F) /\ Inserted(k, i, a)
  <2>1. HeapBut(i, n, B, F, Minus(F, a)) /\ Keeps(k, i, n, F, F) /\ Inserted(k, i, a)
    BY <1>7, <1>a, <1>b, InsertHeap
  <2> QED BY <1>a, <2>1
<1>10. /\ ElemsOf(i) = ElemsOf(h) \cup {new} /\ FreeOf(i) = FreeOf(h)
       /\ After(i, a) = new /\ After(i, new) = z
       /\ DOMAIN i.elem = DOMAIN h.elem \cup {new} /\ i.dirty = h.dirty \cup {new}
       /\ i.elem[new] = k.elem[new] /\ i.elem[a].prev = h.elem[a].prev
  <2>1. /\ ElemsOf(i) = ElemsOf(k) /\ FreeOf(i) = FreeOf(k) \cup {a}
        /\ DOMAIN i.elem = DOMAIN k.elem /\ i.dirty = k.dirty
        /\ i.elem[a].prev = k.elem[a].prev
    BY <1>9 DEF Inserted
  <2>2. new \notin FreeOf(h)
    BY <1>4 DEF FreeOf, ElemsOf
  <2>3. /\ i.elem[new] = k.elem[new] /\ After(i, a) = After(k, a) /\ After(i, new) = After(k, new)
    BY <1>2, <1>3, <1>5, <1>8, <1>9 DEF Inserted
  <2>4. FreeOf(i) = FreeOf(h)
    BY <1>1, <1>6, <1>8, <2>1, <2>2
  <2> QED BY <1>5, <1>8, <2>1, <2>3, <2>4
<1>11. Unused(i, a)
  <2>1. \A x \in a + 1 .. new - 1 : x \in a + 1 .. z - 1 /\ x # new
    BY <1>2, <1>3
  <2> QED BY <1>1, <1>10, <2>1 DEF Unused, z
<1>12. HeapBut(i, n, B, G, G) /\ Keeps(i, i, n, F, G)
  <2>1. a \in FreeOf(i) /\ Loose(i, After(i, a), F) /\ (i.elem[a].prev # -1 => Loose(i, i.elem[a].prev, F))
    BY <1>1, <1>10, <1>a, <1>b
  <2>2. HeapBut(i, n, B, Minus(F, a), G) /\ Keeps(i, i, n, F, Minus(F, a))
    BY <1>9, <1>11, <1>a, <2>1, GiveFree
  <2> QED BY <1>a, <2>2
<1>13. /\ HeapBut(g, n, B, G, G) /\ Keeps(i, g, n, G, G) /\ g.elem = i.elem /\ After(g, new) = z
  <2>1. DataOf(i, new, S)
    BY <1>10, <1>c DEF DataOf
  <2>3. /\ HeapBut(g, n, B, G, G) /\ Keeps(i, g, n, G, G) /\ g.elem = i.elem
        /\ After(g, new) = After(i, new)
    BY <1>12, <1>a, <2>1, WriteHeap
  <2> QED BY <1>10, <2>3
<1>14. Keeps(h, g, n, {}, G)
  <2>1. Keeps(h, k, n, E, F)
    BY <1>6, <1>7, KeepsTrans
  <2>2. Keeps(h, i, n, E, G)
    BY <1>9, <1>12, <2>1, KeepsTrans
  <2>3. Keeps(h, g, n, E, G)
    BY <1>13, <2>2, KeepsTrans
  <2>4. BusyOf(h, n) \ E = BusyOf(h, n) \ {}
    BY <1>1 DEF BusyOf, FreeOf, E
  <2> QED BY <2>3, <2>4 DEF Keeps
<1>15. Dummy(g, new)
  <2>1. \A x \in new + 1 .. z - 1 : x \in a + 1 .. z - 1 /\ x # new
    BY <1>2, <1>3
  <2>2. g.elem[new].pad = 0
    BY <1>8, <1>10, <1>13
  <2> QED BY <1>1, <1>10, <1>13, <2>1, <2>2 DEF Dummy, z
<1>16. /\ new \in DOMAIN g.elem /\ g.elem[new].ms = h.elem[a].ms /\ g.elem[new].state = "BUSY"
       /\ g.elem[new].pad = 0 /\ new + 1 + size <= After(g, new)
  BY <1>8, <1>10, <1>13 DEF z
<1>17. new = new + g.elem[new].pad
  BY <1>16
<1>18. new \notin BusyOf(h, n)
  BY <1>4 DEF BusyOf, ElemsOf
<1> QED BY <1>13, <1>14, <1>15, <1>16, <1>17, <1>18, Finish DEF G

LEMMA FilledFrom ==
  ASSUME NEW h, NEW c, NEW g, NEW n, NEW B, NEW a, NEW new, NEW size,
         Keeps(h, c, n, {}, {}), c.elem[a].ms = h.elem[a].ms, Filled(c, g, n, B, a, new, size)
  PROVE  Filled(h, g, n, B, a, new, size)
<1>1. PICK e \in BusyOf(g, n) \ BusyOf(c, n) :
        /\ Keeps(c, g, n, {}, {e}) /\ new = e + g.elem[e].pad /\ g.elem[e].ms = c.elem[a].ms
  BY DEF Filled
<1>2. Keeps(h, g, n, {}, {e})
  BY <1>1, KeepsTrans
<1>3. BusyOf(h, n) = BusyOf(c, n)
  BY DEF Keeps
<1> QED BY <1>1, <1>2, <1>3 DEF Filled

Carved(a, z, new, size, at) ==
  /\ at \in Nat /\ a + 2 <= at /\ new + 1 + size = at
  /\ (z - a) - (new - a) - size - 1 = z - at
  /\ z - at > 2 => at + 2 <= z
  /\ \A x \in Lines(new + 1, size) : x \in a + 1 .. z - 1

LEMMA Carve ==
  ASSUME NEW a \in Nat, NEW z \in Nat, NEW new \in Nat, NEW size \in Nat, size # 0,
         a <= new, new + 1 + size <= z, NEW at, at = new + size + 1
  PROVE  Carved(a, z, new, size, at)
BY DEF Lines, Carved

(* malloc_elem_alloc, and the caller that writes the block.                *)
LEMMA AllocHeap ==
  ASSUME NEW h, NEW n \in 0 .. Len(Segs), NEW B, HeapOf(h, n, B), NEW a \in FreeOf(h),
         NEW r, Requested(r), NEW new, new = StartPt(h, a, r), new # -1,
         NEW g, g = Write(ElemAlloc(h, a, r), Lines(new + 1, r.size))
  PROVE  /\ Filled(h, g, n, B, a, new, r.size)
         /\ \A x \in Lines(new + 1, r.size) : x \notin h.dirty
<1> DEFINE m == Remove(h, a)
           z == After(h, a)
           size == r.size
           at == new + size + 1
           c == IF z - at > 2 THEN Insert(Split(m, a, at), at) ELSE m
           L == Lines(new + 1, size)
<1>1. HeapBut(h, n, B, {}, {}) /\ Tiled(h, n) /\ a \in ElemsOf(h) \ Ends(n)
  BY EndsAre DEF HeapOf, HeapBut, FreeOf
<1>2. a \in Nat /\ z \in Nat /\ h.elem[a].size = z - a /\ size \in Nat /\ size # 0
  BY <1>1, Links DEF Requested
<1>3. new \in Nat /\ a <= new /\ new + 1 + size <= z
  BY <1>2, StartPtIs, Zenon
<1>d. /\ at \in Nat /\ a + 2 <= at /\ new + 1 + size = at /\ (z - at > 2 => at + 2 <= z)
      /\ (z - a) - (new - a) - size - 1 = z - at /\ \A x \in L : x \in a + 1 .. z - 1
  <2>1. at = new + size + 1 /\ L = Lines(new + 1, size)
    OBVIOUS
  <2> HIDE DEF z, size, at, L
  <2>2. /\ a \in Nat /\ z \in Nat /\ new \in Nat /\ size \in Nat /\ size # 0
        /\ a <= new /\ new + 1 + size <= z
    BY <1>2, <1>3, Zenon
  <2>3. Carved(a, z, new, size, at)
    BY <2>1, <2>2, Carve
  <2> QED BY <2>1, <2>3, Zenon DEF Carved
<1>4. g = Write(IF new - a < 2 THEN Pad(c, a, new) ELSE Insert(SetBusy(Split(c, a, new), new), a), L)
  <2> DEFINE t == h.elem[a].size - (new - a) - r.size - 1
             b == new + r.size + 1
             d == IF t > 2 THEN Insert(Split(Remove(h, a), a, b), b) ELSE Remove(h, a)
  <2>1. t = z - at /\ b = at
    <3>1. t = (z - a) - (new - a) - size - 1
      BY <1>2
    <3> QED BY <1>d, <3>1, Zenon
  <2>2. ElemAlloc(h, a, r)
          = IF new - a < 2 THEN Pad(d, a, new) ELSE Insert(SetBusy(Split(d, a, new), new), a)
    BY DEF ElemAlloc, SetBusy
  <2>3. d = c
    <3> HIDE DEF b, t
    <3> QED BY <2>1
  <2> HIDE DEF c, d
  <2> QED BY <2>2, <2>3
<1>5. ASSUME NEW x \in L
      PROVE  x \notin h.dirty
  <2>1. x \in a + 1 .. z - 1
    BY <1>d, Zenon
  <2>2. Unused(h, a)
    <3>1. a \in FreeOf(h) \ {} /\ {} \subseteq ElemsOf(h) \ Ends(n)
      OBVIOUS
    <3> QED BY <1>1, <3>1, Blank
  <2> QED BY <2>1, <2>2 DEF Unused
<1> HIDE DEF L, size
<1>6. /\ Open(m, n, B, a) /\ m.elem = h.elem /\ After(m, a) \notin FreeOf(m)
      /\ BusyOf(m, n) = BusyOf(h, n)
  BY TakeOff
<1>7. After(m, a) = z /\ Keeps(h, m, n, {}, {})
  BY <1>6 DEF After, Keeps
<1> HIDE DEF m, z
<1>8. /\ Open(c, n, B, a) /\ c.elem[a].ms = h.elem[a].ms /\ Keeps(h, c, n, {}, {})
      /\ new + 1 + size <= After(c, a)
  <2>1. CASE ~(z - at > 2)
    BY <1>3, <1>6, <1>7, <2>1
  <2>2. CASE z - at > 2
    <3>1. at \in Nat /\ a + 2 <= at /\ at + 2 <= z /\ new + 1 + size = at
      BY <1>d, <2>2, Zenon
    <3>2. c = Insert(Split(m, a, at), at)
      BY <2>2
    <3> HIDE DEF c, at
    <3>3. /\ Open(c, n, B, a) /\ After(c, a) = at /\ c.elem[a].ms = m.elem[a].ms
          /\ Keeps(m, c, n, {}, {})
      <4>1. CutAt(m, a, at)
        BY <1>6, <1>7, <3>1 DEF CutAt
      <4>2. CutOff(m, c, n, B, a, at)
        BY <1>6, <3>2, <4>1, CutTail
      <4> QED BY <4>2 DEF CutOff
    <3>4. Keeps(h, c, n, {}, {})
      BY <1>7, <3>3, KeepsTrans
    <3>5. After(c, a) = at /\ at <= After(c, a)
      BY <3>1, <3>3
    <3> QED BY <1>6, <3>1, <3>3, <3>4, <3>5
  <2> QED BY <2>1, <2>2
<1> HIDE DEF c
<1>9. Filled(c, g, n, B, a, new, size)
  <2>1. CASE new - a < 2
    <3>1. new \in {a, a + 1} /\ size \in Nat \ {0}
      <4>1. a \in Nat /\ new \in Nat /\ a <= new /\ new - a < 2 /\ size \in Nat /\ size # 0
        BY <1>2, <1>3, <2>1
      <4> QED BY <4>1
    <3>2. g = Write(Pad(c, a, new), L)
      BY <1>4, <2>1
    <3> QED BY <1>8, <3>1, <3>2, FillPad DEF L
  <2>2. CASE ~(new - a < 2)
    <3>1. a + 2 <= new /\ size \in Nat \ {0}
      BY <1>2, <1>3, <2>2
    <3>2. g = Write(Insert(SetBusy(Split(c, a, new), new), a), L)
      BY <1>4, <2>2
    <3> QED BY <1>3, <1>8, <3>1, <3>2, FillSplit DEF L
  <2> QED BY <2>1, <2>2
<1>10. Filled(h, g, n, B, a, new, size)
  BY <1>8, <1>9, FilledFrom
<1> QED BY <1>5, <1>10 DEF L, size

(* The busy element a takes in the free one behind it.                     *)
Heading(h, g, x) ==
  g.elem[x].state = h.elem[x].state /\ g.elem[x].pad = h.elem[x].pad /\ g.elem[x].ms = h.elem[x].ms

NextMerged(h, g, n, C, a, z) ==
  /\ HeapBut(g, n, C, {a}, {}) /\ Keeps(h, g, n, {a}, {a})
  /\ After(g, a) = After(h, z) /\ After(h, z) \notin FreeOf(h) /\ FreeOf(g) = FreeOf(h) \ {z}
  /\ DOMAIN g.elem = DOMAIN h.elem \ {z} /\ g.dirty = h.dirty /\ Unused(h, z)
  /\ g.elem[a].prev = h.elem[a].prev /\ g.elem[a].state = h.elem[a].state
  /\ g.elem[a].pad = h.elem[a].pad /\ g.elem[a].ms = h.elem[a].ms
  /\ \A x \in DOMAIN h.elem \ {z} :
       Heading(h, g, x) /\ (x # After(h, z) => g.elem[x].prev = h.elem[x].prev)

LEMMA MergeNext ==
  ASSUME NEW h, NEW n \in 0 .. Len(Segs), NEW C, NEW a, HeapBut(h, n, C, {a}, {}), a \notin FreeOf(h),
         NEW z, z = After(h, a), z \in FreeOf(h), NEW g, g = Join(Remove(h, z), a, z)
  PROVE  NextMerged(h, g, n, C, a, z)
<1> DEFINE m == Remove(h, z)
           E == {a}
           F == {a, z}
           G == {z}
<1>1. /\ Tiled(h, n) /\ a \in ElemsOf(h) \ Ends(n) /\ z \in ElemsOf(h) \ Ends(n)
      /\ a \in DOMAIN h.elem /\ z # a
  BY EndsAre DEF HeapBut, FreeOf, ElemsOf
<1>a. /\ Plus(E, z) = F /\ Plus({}, z) = G /\ Minus(F, z) = E /\ Minus(G, z) = {}
      /\ a \in F /\ z \in F /\ g = Join(m, a, z) /\ m = Remove(h, z)
      /\ HeapBut(h, n, C, E, {}) /\ E \subseteq ElemsOf(h) \ Ends(n)
  BY <1>1 DEF Plus, Minus
<1>b. \A k : Loose(k, z, G) /\ (a \notin FreeOf(k) => Loose(k, a, G))
  BY DEF Loose
<1>2. Unused(h, z)
  <2>1. z \in FreeOf(h) \ E
    BY <1>1
  <2> HIDE DEF E
  <2> QED BY <1>a, <2>1, Blank
<1>3. After(h, z) \notin FreeOf(h)
  <2>1. After(h, z) # a
    BY <1>1, Links
  <2> QED BY <1>1, <2>1 DEF HeapBut, Apart
<1> HIDE DEF m, E, F, G
<1>4. HeapBut(h, n, C, F, {}) /\ Keeps(h, h, n, E, F)
  <2>1. HeapBut(h, n, C, Plus(E, z), {}) /\ Keeps(h, h, n, E, Plus(E, z))
    BY <1>a, TakeFree
  <2> QED BY <1>a, <2>1
<1>5. HeapBut(m, n, C, F, G) /\ m.elem = h.elem /\ m.dirty = h.dirty
  <2>1. HeapBut(m, n, C, F, Plus({}, z)) /\ m.elem = h.elem /\ m.dirty = h.dirty
    BY <1>4, <1>a, RemoveHeap
  <2> QED BY <1>a, <2>1
<1>6. /\ ElemsOf(m) = ElemsOf(h) /\ FreeOf(m) = FreeOf(h) /\ \A b : After(m, b) = After(h, b)
      /\ Keeps(h, m, n, F, F) /\ Tiled(m, n)
  BY <1>5 DEF ElemsOf, FreeOf, After, Keeps, BusyOf, HeapBut
<1>7. /\ HeapBut(g, n, C, Minus(F, z), Minus(G, z)) /\ Keeps(m, g, n, F, Minus(F, z))
      /\ FreeOf(g) = Minus(FreeOf(m), z)
  <2>1. Loose(m, a, G) /\ Loose(m, z, G) /\ Follows(m, a, z)
    BY <1>6, <1>b DEF Follows
  <2>2. HeapBut(m, n, C, F, G) /\ a \in F /\ z \in F /\ g = Join(m, a, z)
    BY <1>5, <1>a
  <2> QED BY <2>1, <2>2, JoinHeap
<1>8. HeapBut(g, n, C, E, {}) /\ Keeps(h, g, n, E, E) /\ FreeOf(g) = FreeOf(h) \ {z}
  <2>1. HeapBut(g, n, C, E, {}) /\ Keeps(m, g, n, F, E) /\ FreeOf(g) = FreeOf(h) \ {z}
    BY <1>6, <1>7, <1>a DEF Minus
  <2>2. Keeps(h, m, n, E, F)
    BY <1>4, <1>6, KeepsTrans
  <2> QED BY <2>1, <2>2, KeepsTrans
<1>9. /\ After(g, a) = After(h, z) /\ DOMAIN g.elem = DOMAIN h.elem \ {z} /\ g.dirty = h.dirty
      /\ g.elem[a].prev = h.elem[a].prev
      /\ \A c \in DOMAIN h.elem \ {z} :
           /\ g.elem[c].state = h.elem[c].state /\ g.elem[c].pad = h.elem[c].pad
           /\ g.elem[c].ms = h.elem[c].ms /\ (c # After(h, z) => g.elem[c].prev = h.elem[c].prev)
  <2>1. /\ After(g, a) = After(m, z) /\ DOMAIN g.elem = DOMAIN m.elem \ {z} /\ g.dirty = m.dirty
        /\ g.elem[a].prev = m.elem[a].prev
        /\ \A c \in DOMAIN m.elem \ {z} :
             /\ g.elem[c].state = m.elem[c].state /\ g.elem[c].pad = m.elem[c].pad
             /\ g.elem[c].ms = m.elem[c].ms /\ (c # After(m, z) => g.elem[c].prev = m.elem[c].prev)
    <3>1. a \in ElemsOf(m) \ Ends(n) /\ z \in ElemsOf(m) \ Ends(n) /\ z = After(m, a) /\ g = Join(m, a, z)
      BY <1>1, <1>6, <1>a
    <3> QED BY <1>6, <3>1, JoinTiled
  <2> QED BY <1>5, <1>6, <2>1
<1> QED BY <1>1, <1>2, <1>3, <1>8, <1>9 DEF NextMerged, Heading, E

(* ... and the free one before a takes in a.                               *)
PrevMerged(h, g, n, C, a, b) ==
  /\ HeapBut(g, n, C, {b}, {b}) /\ Keeps(h, g, n, {a}, {b}) /\ b \in FreeOf(g)
  /\ After(g, b) = After(h, a) /\ After(h, b) = a /\ FreeOf(g) = FreeOf(h)
  /\ DOMAIN g.elem = DOMAIN h.elem \ {a} /\ g.dirty = h.dirty /\ Unused(h, b)
  /\ g.elem[b].prev = h.elem[b].prev /\ (h.elem[b].prev # -1 => h.elem[b].prev \notin FreeOf(h))

Precedes(h, b, a) == b = h.elem[a].prev /\ b # -1

LEMMA MergePrev ==
  ASSUME NEW h, NEW n \in 0 .. Len(Segs), NEW C, NEW a, HeapBut(h, n, C, {a}, {}), a \notin FreeOf(h),
         NEW b, Precedes(h, b, a), b \in FreeOf(h), NEW g, g = Join(Remove(h, b), b, a)
  PROVE  PrevMerged(h, g, n, C, a, b)
<1> DEFINE m == Remove(h, b)
           E == {a}
           F == {a, b}
           G == {b}
<1>1. /\ Tiled(h, n) /\ a \in ElemsOf(h) \ Ends(n) /\ b \in ElemsOf(h) \ Ends(n)
      /\ a \in DOMAIN h.elem /\ b # a
  BY EndsAre DEF HeapBut, FreeOf, ElemsOf
<1>2. After(h, b) = a
  BY <1>1, Inside DEF Precedes
<1>a. /\ Plus(E, b) = F /\ Plus({}, b) = G /\ Minus(F, a) = G /\ Minus(G, a) = G
      /\ a \in F /\ b \in F /\ g = Join(m, b, a) /\ m = Remove(h, b)
      /\ HeapBut(h, n, C, E, {}) /\ E \subseteq ElemsOf(h) \ Ends(n)
  BY <1>1 DEF Plus, Minus
<1>b. \A k : Loose(k, b, G) /\ (a \notin FreeOf(k) => Loose(k, a, G))
  BY DEF Loose
<1>3. Unused(h, b)
  <2>1. b \in FreeOf(h) \ E
    BY <1>1
  <2> HIDE DEF E
  <2> QED BY <1>a, <2>1, Blank
<1>4. ASSUME h.elem[b].prev # -1, h.elem[b].prev \in FreeOf(h)
      PROVE  FALSE
  <2>1. After(h, h.elem[b].prev) = b
    BY <1>1, <1>4, Inside
  <2> QED BY <1>1, <1>4, <2>1 DEF HeapBut, Apart
<1> HIDE DEF m, E, F, G
<1>5. HeapBut(h, n, C, F, {}) /\ Keeps(h, h, n, E, F)
  <2>1. HeapBut(h, n, C, Plus(E, b), {}) /\ Keeps(h, h, n, E, Plus(E, b))
    BY <1>a, TakeFree
  <2> QED BY <1>a, <2>1
<1>6. HeapBut(m, n, C, F, G) /\ m.elem = h.elem /\ m.dirty = h.dirty
  <2>1. HeapBut(m, n, C, F, Plus({}, b)) /\ m.elem = h.elem /\ m.dirty = h.dirty
    BY <1>5, <1>a, RemoveHeap
  <2> QED BY <1>a, <2>1
<1>7. /\ ElemsOf(m) = ElemsOf(h) /\ FreeOf(m) = FreeOf(h) /\ \A x : After(m, x) = After(h, x)
      /\ Keeps(h, m, n, F, F) /\ Tiled(m, n)
  BY <1>6 DEF ElemsOf, FreeOf, After, Keeps, BusyOf, HeapBut
<1>8. /\ HeapBut(g, n, C, Minus(F, a), Minus(G, a)) /\ Keeps(m, g, n, F, Minus(F, a))
      /\ FreeOf(g) = Minus(FreeOf(m), a)
  <2>1. Loose(m, a, G) /\ Loose(m, b, G) /\ Follows(m, b, a)
    BY <1>2, <1>7, <1>b DEF Follows
  <2>2. HeapBut(m, n, C, F, G) /\ a \in F /\ b \in F /\ g = Join(m, b, a)
    BY <1>6, <1>a
  <2> QED BY <2>1, <2>2, JoinHeap
<1>9. HeapBut(g, n, C, G, G) /\ Keeps(h, g, n, E, G) /\ FreeOf(g) = FreeOf(h)
  <2>1. HeapBut(g, n, C, G, G) /\ Keeps(m, g, n, F, G)
    BY <1>8, <1>a
  <2>2. Keeps(h, m, n, E, F)
    BY <1>5, <1>7, KeepsTrans
  <2>3. FreeOf(g) = FreeOf(h)
    BY <1>7, <1>8 DEF Minus
  <2> QED BY <2>1, <2>2, <2>3, KeepsTrans
<1>10. /\ After(g, b) = After(h, a) /\ DOMAIN g.elem = DOMAIN h.elem \ {a} /\ g.dirty = h.dirty
       /\ g.elem[b].prev = h.elem[b].prev
  <2>1. /\ After(g, b) = After(m, a) /\ DOMAIN g.elem = DOMAIN m.elem \ {a} /\ g.dirty = m.dirty
        /\ g.elem[b].prev = m.elem[b].prev
    <3>1. a \in ElemsOf(m) \ Ends(n) /\ b \in ElemsOf(m) \ Ends(n) /\ a = After(m, b) /\ g = Join(m, b, a)
      BY <1>1, <1>2, <1>7, <1>a
    <3>2. Tiled(m, n)
      BY <1>7
    <3> QED BY <3>1, <3>2, JoinTiled
  <2> QED BY <1>6, <1>7, <2>1
<1> QED BY <1>2, <1>3, <1>4, <1>9, <1>10 DEF PrevMerged, E, G

(* Lines from first to last, as memset gets them.                          *)
LEMMA LinesAre ==
  ASSUME NEW p \in Int, NEW sz \in Int
  PROVE  \A x : x \in Lines(p, sz) <=> x \in Int /\ p <= x /\ x < p + sz
BY DEF Lines

(* The merged element e, of which all that was used is zeroed, is free.    *)
Covered(h, e, S) ==
  /\ DataOf(h, e, S)
  /\ \A x \in e + 1 .. After(h, e) - 1 : x \in S \/ (x \notin h.dirty /\ x \notin DOMAIN h.elem)
Freed(h, e, S) ==
  /\ Covered(h, e, S)
  /\ After(h, e) \notin FreeOf(h) /\ (h.elem[e].prev # -1 => h.elem[e].prev \notin FreeOf(h))

LEMMA FreeUp ==
  ASSUME NEW h, NEW n \in 0 .. Len(Segs), NEW C, NEW e, NEW M, HeapBut(h, n, C, {e}, M),
         Loose(h, e, M), Minus(M, e) = {},
         NEW p, NEW sz, Freed(h, e, Lines(p, sz)), NEW g, g = Zero(Insert(h, e), p, sz)
  PROVE  HeapOf(g, n, C) /\ Keeps(h, g, n, {e}, {})
<1> DEFINE i == Insert(h, e)
           E == {e}
           S == Lines(p, sz)
<1>1. Tiled(h, n) /\ e \in ElemsOf(h) \ Ends(n)
  BY DEF HeapBut
<1>2. e \in Nat /\ After(h, e) \in Nat /\ After(h, e) # e /\ h.elem[e].prev # e /\ e \in DOMAIN h.elem
  <2>1. e \in Nat /\ After(h, e) \in Nat /\ e + 2 <= After(h, e) /\ e \in DOMAIN h.elem
    BY <1>1, Links
  <2>2. h.elem[e].prev # -1 => After(h, h.elem[e].prev) = e
    BY <1>1, Inside
  <2> QED BY <2>1, <2>2
<1>a. /\ Minus(M, e) = {} /\ Minus(E, e) = {} /\ e \in E /\ i = Insert(h, e) /\ g = Zero(i, p, sz)
      /\ HeapBut(h, n, C, E, M)
  BY DEF Minus
<1>b. \A k, x : x \notin FreeOf(k) => Loose(k, x, E)
  BY DEF Loose
<1> HIDE DEF i, E, S
<1>3. HeapBut(i, n, C, E, {}) /\ Keeps(h, i, n, E, E) /\ Inserted(h, i, e)
  <2>1. HeapBut(i, n, C, E, Minus(M, e)) /\ Keeps(h, i, n, E, E) /\ Inserted(h, i, e)
    BY <1>a, InsertHeap
  <2> QED BY <1>a, <2>1
<1>4. /\ ElemsOf(i) = ElemsOf(h) /\ FreeOf(i) = FreeOf(h) \cup {e} /\ After(i, e) = After(h, e)
      /\ DOMAIN i.elem = DOMAIN h.elem /\ i.dirty = h.dirty /\ i.elem[e].prev = h.elem[e].prev
  BY <1>2, <1>3 DEF Inserted
<1>5. HeapBut(g, n, C, E, {}) /\ Keeps(i, g, n, E, E) /\ Zeroed(i, g, S)
  <2>1. DataOf(i, e, S)
    BY <1>4 DEF Freed, Covered, DataOf, S
  <2> QED BY <1>3, <1>a, <2>1, ZeroHeap DEF S
<1>6. /\ FreeOf(g) = FreeOf(h) \cup {e} /\ After(g, e) = After(h, e)
      /\ DOMAIN g.elem = DOMAIN h.elem \ S /\ g.dirty = h.dirty \ S /\ g.elem[e].prev = h.elem[e].prev
  BY <1>1, <1>4, <1>5 DEF Zeroed
<1>7. Unused(g, e)
  BY <1>6 DEF Unused, Freed, Covered, S
<1>8. e \in FreeOf(g) /\ Loose(g, After(g, e), E) /\ (g.elem[e].prev # -1 => Loose(g, g.elem[e].prev, E))
  BY <1>2, <1>6, <1>b DEF Freed
<1>9. HeapBut(g, n, C, Minus(E, e), {}) /\ Keeps(g, g, n, E, Minus(E, e))
  BY <1>5, <1>7, <1>8, <1>a, GiveFree
<1>10. Keeps(h, g, n, E, {})
  <2>1. Keeps(h, g, n, E, E) /\ Keeps(g, g, n, E, {})
    BY <1>3, <1>5, <1>9, <1>a, KeepsTrans
  <2> QED BY <2>1, KeepsTrans
<1> QED BY <1>9, <1>10, <1>a DEF HeapOf, E

(* The first half of malloc_elem_free.                                     *)
FirstHalf(h, g, n, C, a, sz) ==
  /\ HeapBut(g, n, C, {a}, {}) /\ Keeps(h, g, n, {a}, {a})
  /\ a \notin FreeOf(g) /\ g.elem[a].prev = h.elem[a].prev
  /\ Covered(g, a, Lines(a + 1, sz)) /\ sz \in Nat /\ After(g, a) \notin FreeOf(g)
  /\ LET b == h.elem[a].prev IN b # -1 => (b \in FreeOf(g) <=> h.elem[b].state = "FREE")

LEMMA FreeNext ==
  ASSUME NEW h, NEW n \in 0 .. Len(Segs), NEW C, NEW a, HeapBut(h, n, C, {a}, {}), a \notin FreeOf(h),
         NEW z, z = After(h, a), NEW g, NEW sz,
         h.elem[z].state = "FREE" => g = Join(Remove(h, z), a, z) /\ sz = h.elem[a].size,
         h.elem[z].state # "FREE" => g = h /\ sz = h.elem[a].size - 1
  PROVE  FirstHalf(h, g, n, C, a, sz)
<1> DEFINE b == h.elem[a].prev
<1>1. Tiled(h, n) /\ a \in ElemsOf(h) \ Ends(n)
  BY DEF HeapBut
<1>2. /\ a \in Nat /\ z \in Nat /\ a + 2 <= z /\ z \in ElemsOf(h) /\ h.elem[a].size = z - a
  BY <1>1, Links
<1>3. b # -1 => b \in ElemsOf(h) /\ b # z
  <2>1. b # -1 => b \in ElemsOf(h) \ Ends(n) /\ After(h, b) = a
    BY <1>1, Inside
  <2>2. b # -1 => b \in Nat /\ b + 2 <= After(h, b)
    BY <1>1, <2>1, Links
  <2> QED BY <1>2, <2>1, <2>2
<1>4. b # -1 => (b \in FreeOf(h) <=> h.elem[b].state = "FREE")
  BY <1>3 DEF FreeOf
<1>5. CASE h.elem[z].state # "FREE"
  <2>1. z \notin FreeOf(h)
    BY <1>5 DEF FreeOf
  <2>2. sz \in Nat /\ \A x : x \in Lines(a + 1, sz) <=> x \in a + 1 .. z - 1
    BY <1>2, <1>5 DEF Lines
  <2>3. Covered(g, a, Lines(a + 1, sz))
    BY <1>5, <2>2 DEF Covered, DataOf
  <2> QED BY <1>4, <1>5, <2>1, <2>2, <2>3 DEF FirstHalf, Keeps
<1>6. CASE h.elem[z].state = "FREE"
  <2>1. z \in FreeOf(h)
    BY <1>2, <1>6 DEF FreeOf
  <2>2. NextMerged(h, g, n, C, a, z)
    BY <1>6, <2>1, MergeNext
  <2>3. /\ HeapBut(g, n, C, {a}, {}) /\ Keeps(h, g, n, {a}, {a})
        /\ After(g, a) = After(h, z) /\ After(h, z) \notin FreeOf(h) /\ FreeOf(g) = FreeOf(h) \ {z}
        /\ DOMAIN g.elem = DOMAIN h.elem \ {z} /\ g.dirty = h.dirty /\ Unused(h, z)
        /\ g.elem[a].prev = b
    BY <2>2 DEF NextMerged
  <2>4. z \in ElemsOf(h) \ Ends(n)
    BY <1>1, <2>1, EndsAre DEF FreeOf
  <2>5. After(h, z) \in Nat /\ z + 2 <= After(h, z)
    BY <1>1, <2>4, Links
  <2>6. sz \in Nat /\ \A x : x \in Lines(a + 1, sz) <=> x \in a + 1 .. z
    BY <1>2, <1>6 DEF Lines
  <2>7. Covered(g, a, Lines(a + 1, sz))
    <3>1. \A x \in a + 1 .. After(g, a) - 1 : x \in a + 1 .. z \/ x \in z + 1 .. After(h, z) - 1
      BY <1>2, <2>3, <2>5
    <3>2. \A x \in a + 1 .. z : x \in a + 1 .. After(g, a) - 1
      BY <1>2, <2>3, <2>5
    <3> QED BY <2>3, <2>6, <3>1, <3>2 DEF Covered, DataOf, Unused
  <2>8. b # -1 => (b \in FreeOf(g) <=> h.elem[b].state = "FREE")
    BY <1>3, <1>4, <2>3
  <2> QED BY <2>3, <2>6, <2>7, <2>8 DEF FirstHalf
<1> QED BY <1>5, <1>6

LEMMA FreePrev ==
  ASSUME NEW h, NEW n \in 0 .. Len(Segs), NEW C, NEW a, HeapBut(h, n, C, {a}, {}), a \notin FreeOf(h),
         NEW sz \in Nat, Covered(h, a, Lines(a + 1, sz)), After(h, a) \notin FreeOf(h),
         NEW b, Precedes(h, b, a), b \in FreeOf(h), NEW g, g = Join(Remove(h, b), b, a)
  PROVE  /\ HeapBut(g, n, C, {b}, {b}) /\ Keeps(h, g, n, {a}, {b})
         /\ Loose(g, b, {b}) /\ Freed(g, b, Lines(a, sz + 1))
<1>1. PrevMerged(h, g, n, C, a, b)
  BY MergePrev
<1>2. /\ HeapBut(g, n, C, {b}, {b}) /\ Keeps(h, g, n, {a}, {b})
      /\ After(g, b) = After(h, a) /\ After(h, b) = a /\ FreeOf(g) = FreeOf(h)
      /\ DOMAIN g.elem = DOMAIN h.elem \ {a} /\ g.dirty = h.dirty /\ Unused(h, b)
      /\ g.elem[b].prev = h.elem[b].prev /\ (h.elem[b].prev # -1 => h.elem[b].prev \notin FreeOf(h))
  BY <1>1 DEF PrevMerged
<1>3. /\ Tiled(h, n) /\ a \in ElemsOf(h) \ Ends(n) /\ b \in ElemsOf(h) \ Ends(n)
  BY EndsAre DEF HeapBut, FreeOf
<1>4. a \in Nat /\ b \in Nat /\ After(h, a) \in Nat /\ b + 2 <= a /\ a + 2 <= After(h, a)
  BY <1>2, <1>3, Links
<1>5. \A x : x \in Lines(a, sz + 1) <=> x = a \/ x \in Lines(a + 1, sz)
  BY <1>4 DEF Lines
<1>6. DataOf(g, b, Lines(a, sz + 1))
  <2>1. \A x \in a + 1 .. After(h, a) - 1 : x \in b + 1 .. After(g, b) - 1
    BY <1>2, <1>4
  <2>2. a \in b + 1 .. After(g, b) - 1
    BY <1>2, <1>4
  <2> QED BY <1>5, <2>1, <2>2 DEF DataOf, Covered
<1>7. ASSUME NEW x \in b + 1 .. After(g, b) - 1
      PROVE  x \in Lines(a, sz + 1) \/ (x \notin g.dirty /\ x \notin DOMAIN g.elem)
  <2>1. x \in b + 1 .. After(h, b) - 1 \/ x = a \/ x \in a + 1 .. After(h, a) - 1
    BY <1>2, <1>4
  <2> QED BY <1>2, <1>5, <2>1 DEF Unused, Covered
<1> QED BY <1>2, <1>6, <1>7 DEF Freed, Covered, Loose

(* malloc_elem_free: the block p of the element a is no longer.            *)
LEMMA FreeHeap ==
  ASSUME NEW h, NEW n \in 0 .. Len(Segs), NEW B, HeapOf(h, n, B), NEW a \in BusyOf(h, n),
         NEW p, p = a + h.elem[a].pad + 1, NEW g, g = ElemFree(h, a)
  PROVE  HeapOf(g, n, Without(B, {p})) /\ Keeps(h, g, n, {a}, {})
<1> DEFINE C == Without(B, {p})
           z == After(h, a)
           b == h.elem[a].prev
           jn == h.elem[z].state = "FREE"
           jp == b # -1 /\ h.elem[b].state = "FREE"
           k == IF jn THEN Join(Remove(h, z), a, z) ELSE h
           sz == IF jn THEN h.elem[a].size ELSE h.elem[a].size - 1
           m == Join(Remove(k, b), b, a)
<1>1. Tiled(h, n) /\ a \in ElemsOf(h) \ Ends(n) /\ a \notin FreeOf(h) /\ a \in Nat /\ h.elem[a].size \in Nat
  BY Header DEF HeapOf, HeapBut, Tiled, BusyOf, FreeOf, ElemsOf
<1>2. HeapBut(h, n, C, {a}, {})
  <2>1. HeapBut(h, n, C, Plus({}, a), {})
    <3>1. HeapBut(h, n, B, {}, {}) /\ a \in BusyOf(h, n) \ {}
      BY DEF HeapOf
    <3> HIDE DEF C
    <3> QED BY <3>1, TakeBusy DEF C
  <2>2. Plus({}, a) = {a}
    BY DEF Plus
  <2> QED BY <2>1, <2>2
<1>3. FirstHalf(h, k, n, C, a, sz)
  <2>1. /\ h.elem[z].state = "FREE" => k = Join(Remove(h, z), a, z) /\ sz = h.elem[a].size
        /\ h.elem[z].state # "FREE" => k = h /\ sz = h.elem[a].size - 1
    BY Zenon
  <2> HIDE DEF k, sz, C
  <2> QED BY <1>1, <1>2, <2>1, FreeNext
<1>4. /\ jp => g = Zero(Insert(m, b), a, sz + 1)
      /\ ~jp => g = Zero(Insert(k, a), a + 1, sz)
  <2>1. /\ h.elem[a].size - 1 + (IF jn THEN 1 ELSE 0) + 1 = sz + 1
        /\ h.elem[a].size - 1 + (IF jn THEN 1 ELSE 0) + 0 = sz
    BY <1>1
  <2> QED BY <2>1, Zenon DEF ElemFree, After
<1>5. /\ HeapBut(k, n, C, {a}, {}) /\ Keeps(h, k, n, {a}, {a}) /\ a \notin FreeOf(k)
      /\ k.elem[a].prev = b /\ Covered(k, a, Lines(a + 1, sz)) /\ sz \in Nat /\ After(k, a) \notin FreeOf(k)
      /\ b # -1 => (b \in FreeOf(k) <=> h.elem[b].state = "FREE")
  BY <1>3 DEF FirstHalf
<1> HIDE DEF C, k, sz
<1>6. CASE ~jp
  <2>1. Freed(k, a, Lines(a + 1, sz))
    BY <1>5, <1>6 DEF Freed
  <2>2. Loose(k, a, {}) /\ Minus({}, a) = {}
    BY <1>5 DEF Loose, Minus
  <2>3. HeapOf(g, n, C) /\ Keeps(k, g, n, {a}, {})
    <3>1. HeapBut(k, n, C, {a}, {}) /\ g = Zero(Insert(k, a), a + 1, sz)
      BY <1>4, <1>5, <1>6
    <3> QED BY <2>1, <2>2, <3>1, FreeUp
  <2>4. Keeps(h, g, n, {a}, {})
    BY <1>5, <2>3, KeepsTrans
  <2> QED BY <2>3, <2>4 DEF C
<1>7. CASE jp
  <2>1. Precedes(k, b, a) /\ b \in FreeOf(k)
    BY <1>5, <1>7 DEF Precedes
  <2>2. g = Zero(Insert(m, b), a, sz + 1) /\ m = Join(Remove(k, b), b, a)
    BY <1>4, <1>7
  <2> HIDE DEF m, b
  <2>3. /\ HeapBut(m, n, C, {b}, {b}) /\ Keeps(k, m, n, {a}, {b})
        /\ Loose(m, b, {b}) /\ Freed(m, b, Lines(a, sz + 1))
    BY <1>5, <2>1, <2>2, FreePrev
  <2>4. HeapOf(g, n, C) /\ Keeps(m, g, n, {b}, {})
    <3>1. Minus({b}, b) = {}
      BY DEF Minus
    <3> QED BY <2>2, <2>3, <3>1, FreeUp
  <2>5. Keeps(h, m, n, {a}, {b})
    BY <1>5, <2>3, KeepsTrans
  <2>6. Keeps(h, g, n, {a}, {})
    BY <2>4, <2>5, KeepsTrans
  <2> QED BY <2>4, <2>6 DEF C
<1> QED BY <1>6, <1>7

LEMMA DummyOf ==
  ASSUME NEW h, NEW n \in 0 .. Len(Segs), NEW B, HeapOf(h, n, B), NEW a \in BusyOf(h, n)
  PROVE  Dummy(h, a)
<1>1. /\ HeapBut(h, n, B, {}, {}) /\ Tiled(h, n) /\ Typed(h, n) /\ a \in ElemsOf(h) \ Ends(n)
      /\ Padded(h, n, {})
  BY DEF HeapOf, HeapBut, BusyOf, Tiled
<1>2. a \in Nat /\ After(h, a) \in Nat /\ \A b \in ElemsOf(h) : b \in Nat /\ (b <= a \/ After(h, a) <= b)
  BY <1>1, Links
<1>3. \A x : x \notin Span(h, {})
  BY SpanIs
<1>4. ASSUME NEW x \in a + 1 .. After(h, a) - 1, x \in DOMAIN h.elem
      PROVE  x = a + 1 /\ h.elem[a].pad = 1 /\ h.elem[x].pad = 1 /\ h.elem[x].prev = -1
  <2>1. h.elem[x].state = "PAD"
    <3>1. x \notin ElemsOf(h)
      BY <1>2
    <3> QED BY <1>4, <3>1 DEF ElemsOf
  <2>2. x - 1 \in BusyOf(h, n) /\ h.elem[x - 1].pad = 1 /\ h.elem[x].pad = 1 /\ h.elem[x].prev = -1
    BY <1>1, <1>3, <1>4, <2>1 DEF Padded
  <2>3. x - 1 \in ElemsOf(h)
    BY <2>2 DEF BusyOf
  <2>4. x - 1 = a
    BY <1>2, <2>3
  <2> QED BY <1>2, <2>2, <2>4
<1>5. h.elem[a].pad = 1 => a + 1 \in DOMAIN h.elem /\ h.elem[a + 1].state = "PAD"
  BY <1>1 DEF Padded
<1> QED BY <1>4, <1>5 DEF Dummy

(* What is left behind an element that has grown goes back to the lists.   *)
Shortened(h, g, n, D, a, at) ==
  /\ HeapBut(g, n, D, {a}, {}) /\ Keeps(h, g, n, {a}, {a}) /\ After(g, a) = at
  /\ DOMAIN g.elem = DOMAIN h.elem \cup {at}
  /\ \A x \in DOMAIN h.elem :
       Heading(h, g, x) /\ (x # After(h, a) => g.elem[x].prev = h.elem[x].prev)

LEMMA GrowTail ==
  ASSUME NEW h, NEW n \in 0 .. Len(Segs), NEW D, NEW a, HeapBut(h, n, D, {a}, {}), a \notin FreeOf(h),
         NEW at, CutAt(h, a, at),
         \A x \in at .. After(h, a) - 1 : x \notin h.dirty /\ x \notin DOMAIN h.elem,
         NEW g, g = Insert(Split(h, a, at), at)
  PROVE  Shortened(h, g, n, D, a, at)
<1> USE DEF CutAt
<1> DEFINE s == Split(h, a, at)
           z == After(h, a)
           E == {a}
           F == {a, at}
           G == {at}
<1>1. HeapBut(h, n, D, E, {}) /\ Tiled(h, n) /\ a \in ElemsOf(h) \ Ends(n)
  BY DEF HeapBut
<1>2. /\ a \in Nat /\ z \in Nat /\ z \in ElemsOf(h) /\ a \in DOMAIN h.elem /\ z \in DOMAIN h.elem
  BY <1>1, Links
<1>3. at \in at .. z - 1 /\ at # a /\ z # a /\ z # at
  BY <1>2
<1>4. at \notin DOMAIN h.elem
  BY <1>3
<1>5. /\ Tiled(s, n) /\ ElemsOf(s) = ElemsOf(h) \cup {at} /\ at \notin Ends(n)
      /\ After(s, a) = at /\ After(s, at) = z
      /\ DOMAIN s.elem = DOMAIN h.elem \cup {at} /\ s.dirty = h.dirty \cup {at}
      /\ s.elem[at].state = "FREE" /\ s.elem[a].prev = h.elem[a].prev
      /\ \A b \in DOMAIN h.elem : /\ s.elem[b].state = h.elem[b].state /\ s.elem[b].pad = h.elem[b].pad
                                  /\ s.elem[b].ms = h.elem[b].ms
                                  /\ b # z => s.elem[b].prev = h.elem[b].prev
  BY <1>1, <1>2, <1>4, SplitTiled
<1>a. /\ a \in E /\ Loose(h, a, {}) /\ Plus(E, at) = F /\ Plus({}, at) = G /\ at \in F /\ \A k : Loose(k, at, G)
      /\ Minus(F, at) = E /\ Minus(G, at) = {} /\ s = Split(h, a, at) /\ g = Insert(s, at)
  BY <1>3 DEF Loose, Plus, Minus
<1>b. \A k, x : (x \notin FreeOf(k) \/ x \in F) => Loose(k, x, F)
  BY DEF Loose
<1>c. a \in F
  OBVIOUS
<1> HIDE DEF s, E, F, G
<1>6. /\ HeapBut(s, n, D, F, G) /\ Keeps(h, s, n, E, F)
      /\ FreeOf(s) = FreeOf(h) \cup {at}
  <2>1. /\ HeapBut(s, n, D, Plus(E, at), Plus({}, at)) /\ Keeps(h, s, n, E, Plus(E, at))
        /\ FreeOf(s) = FreeOf(h) \cup {at}
    BY <1>1, <1>4, <1>a, SplitHeap
  <2> QED BY <1>a, <2>1
<1>7. HeapBut(g, n, D, F, {}) /\ Keeps(s, g, n, F, F) /\ Inserted(s, g, at)
  <2>1. HeapBut(g, n, D, F, Minus(G, at)) /\ Keeps(s, g, n, F, F) /\ Inserted(s, g, at)
    BY <1>6, <1>a, InsertHeap
  <2> QED BY <1>a, <2>1
<1>8. /\ ElemsOf(g) = ElemsOf(s) /\ FreeOf(g) = FreeOf(h) \cup {at}
      /\ DOMAIN g.elem = DOMAIN s.elem /\ g.dirty = s.dirty
      /\ \A b \in DOMAIN s.elem \ {at} : g.elem[b] = s.elem[b]
      /\ \A b \in DOMAIN s.elem : After(g, b) = After(s, b)
      /\ g.elem[at].prev = s.elem[at].prev
  BY <1>6, <1>7 DEF Inserted
<1>9. After(g, a) = at /\ After(g, at) = z /\ Tiled(g, n)
  BY <1>2, <1>5, <1>7, <1>8 DEF HeapBut
<1>10. g.elem[at].prev = a
  <2>1. a \in ElemsOf(g) \ Ends(n)
    BY <1>1, <1>5, <1>8
  <2> QED BY <1>9, <2>1, Links
<1>11. Unused(g, at)
  <2>1. \A x \in at + 1 .. z - 1 : x \in at .. z - 1 /\ x # at
    BY <1>2
  <2> QED BY <1>5, <1>8, <1>9, <2>1 DEF Unused
<1>12. HeapBut(g, n, D, E, {}) /\ Keeps(g, g, n, F, E)
  <2>1. at \in FreeOf(g) /\ Loose(g, After(g, at), F) /\ Loose(g, g.elem[at].prev, F)
    BY <1>3, <1>8, <1>9, <1>10, <1>b, <1>c
  <2>2. HeapBut(g, n, D, Minus(F, at), {}) /\ Keeps(g, g, n, F, Minus(F, at))
    BY <1>7, <1>11, <1>a, <2>1, GiveFree
  <2> QED BY <1>a, <2>2
<1>13. Keeps(h, g, n, E, E)
  BY <1>6, <1>7, <1>12, KeepsTrans
<1>14. \A x \in DOMAIN h.elem : Heading(h, g, x) /\ (x # z => g.elem[x].prev = h.elem[x].prev)
  <2>1. \A x \in DOMAIN h.elem : g.elem[x] = s.elem[x]
    BY <1>4, <1>5, <1>8
  <2> QED BY <1>5, <2>1 DEF Heading
<1> QED BY <1>5, <1>8, <1>9, <1>12, <1>13, <1>14 DEF Shortened, E

(* The caller of rte_realloc writes the block, which is that of a again.   *)
Resized(h, g, n, C, a) ==
  /\ HeapOf(g, n, C) /\ Keeps(h, g, n, {a}, {a}) /\ a \in BusyOf(g, n)
  /\ g.elem[a].pad = h.elem[a].pad /\ g.elem[a].ms = h.elem[a].ms

LEMMA ResizeIs ==
  ASSUME NEW h, NEW a, NEW size, ~LargeEnough(h, a, size),
         NEW k, k = Join(Remove(h, After(h, a)), a, After(h, a)),
         NEW at, at = a + NewSize(h, a, size)
  PROVE  Resize(h, a, size)
           = IF k.elem[a].size - NewSize(h, a, size) >= 2 THEN Insert(Split(k, a, at), at) ELSE k
BY DEF Resize, After

LEMMA Rewrite ==
  ASSUME NEW h, NEW n \in 0 .. Len(Segs), NEW D, NEW a, NEW k, HeapBut(k, n, D, {a}, {}),
         Keeps(h, k, n, {a}, {a}), k.elem[a].state = "BUSY", Heading(h, k, a), Dummy(k, a),
         NEW p, NEW size, Room(k, a, p, size), NEW C, Adds(C, D, p, size),
         NEW g, g = Write(k, Lines(p, size))
  PROVE  Resized(h, g, n, C, a)
<1> DEFINE E == {a}
           S == Lines(p, size)
<1>1. /\ Tiled(k, n) /\ a \in ElemsOf(k) \ Ends(n) /\ a \in E /\ Minus(E, a) = {}
      /\ HeapBut(k, n, D, E, {}) /\ g = Write(k, S) /\ Keeps(h, k, n, E, E)
  BY DEF HeapBut, Minus
<1>2. a \in Nat /\ After(k, a) \in Nat /\ k.elem[a].pad \in 0 .. 1
  BY <1>1, Links, Header DEF Tiled
<1>3. DataOf(k, a, S)
  <2> DEFINE e == After(k, a)
             pad == k.elem[a].pad
  <2>1. /\ p = a + pad + 1 /\ size \in Nat /\ p + size <= e
        /\ a \in Nat /\ e \in Nat /\ pad \in 0 .. 1
    BY <1>2 DEF Room
  <2> HIDE DEF e, pad
  <2>2. \A x \in p .. p + size - 1 : x \in a + 1 .. e - 1
    BY <2>1
  <2> QED BY <2>2 DEF DataOf, Lines, e
<1> HIDE DEF E, S
<1>4. /\ HeapBut(g, n, D, E, {}) /\ Keeps(k, g, n, E, E) /\ g.elem = k.elem
      /\ ElemsOf(g) = ElemsOf(k) /\ After(g, a) = After(k, a)
  BY <1>1, <1>3, WriteHeap
<1>5. g.elem[a].state = "BUSY" /\ Dummy(g, a) /\ Room(g, a, p, size)
  BY <1>4, Zenon DEF Dummy, Room
<1>6. HeapBut(g, n, C, Minus(E, a), {}) /\ p \notin DOMAIN D
  BY <1>1, <1>4, <1>5, GiveBusy
<1>7. Keeps(h, g, n, E, E)
  BY <1>1, <1>4, KeepsTrans
<1>8. a \in BusyOf(g, n)
  BY <1>1, <1>4, <1>5 DEF BusyOf
<1> QED BY <1>1, <1>4, <1>6, <1>7, <1>8 DEF Resized, HeapOf, Heading, E

LEMMA BlockAgain ==
  ASSUME NEW B, NEW p \in DOMAIN B, NEW size
  PROVE  Adds([B EXCEPT ![p] = size], Without(B, {p}), p, size)
BY DEF Adds, Without

(* malloc_elem_resize, and the caller that writes the block.               *)
LEMMA ResizeHeap ==
  ASSUME NEW h, NEW n \in 0 .. Len(Segs), NEW B, HeapOf(h, n, B), NEW a \in BusyOf(h, n),
         NEW p, p = a + h.elem[a].pad + 1, NEW size \in Nat, CanResize(h, a, size),
         NEW g, g = Write(Resize(h, a, size), Lines(p, size))
  PROVE  Resized(h, g, n, [B EXCEPT ![p] = size], a)
<1> DEFINE C == [B EXCEPT ![p] = size]
           D == Without(B, {p})
           z == After(h, a)
           new == size + h.elem[a].pad + 1
           at == a + new
           k == Join(Remove(h, z), a, z)
<1>1. /\ Tiled(h, n) /\ a \in ElemsOf(h) \ Ends(n) /\ a \notin FreeOf(h) /\ h.elem[a].state = "BUSY"
  BY DEF HeapOf, HeapBut, BusyOf, FreeOf
<1>2. /\ a \in Nat /\ z \in Nat /\ a + 2 <= z /\ h.elem[a].size = z - a /\ h.elem[a].pad \in 0 .. 1
      /\ z \in ElemsOf(h)
  <2>1. a \in DOMAIN h.elem /\ Typed(h, n)
    BY <1>1 DEF Tiled, ElemsOf
  <2> QED BY <1>1, <2>1, Links, Header
<1>3. HeapBut(h, n, D, {a}, {})
  <2>1. HeapBut(h, n, D, Plus({}, a), {})
    <3>1. HeapBut(h, n, B, {}, {}) /\ a \in BusyOf(h, n) \ {}
      BY DEF HeapOf
    <3> HIDE DEF D
    <3> QED BY <3>1, TakeBusy DEF D
  <2>2. Plus({}, a) = {a}
    BY DEF Plus
  <2> QED BY <2>1, <2>2
<1>4. Adds(C, D, p, size)
  <2>1. p \in DOMAIN B
    BY DEF HeapOf, HeapBut, Owned
  <2> QED BY <2>1, BlockAgain
<1>5. Dummy(h, a)
  BY DummyOf
<1>6. NewSize(h, a, size) = new /\ new \in Nat /\ at \in Nat /\ p + size = at /\ at = a + new
  <2> DEFINE pad == h.elem[a].pad
  <2>1. NewSize(h, a, size) = new /\ pad \in 0 .. 1 /\ p = a + pad + 1 /\ new = size + pad + 1
    BY <1>2 DEF NewSize
  <2> HIDE DEF pad, new
  <2> QED BY <1>2, <2>1
<1> HIDE DEF C, D, new, at, z
<1>7. CASE LargeEnough(h, a, size)
  <2>1. Room(h, a, p, size)
    <3>1. new <= h.elem[a].size
      BY <1>2, <1>6, <1>7 DEF LargeEnough
    <3>2. at <= z
      BY <1>2, <1>6, <3>1
    <3> QED BY <1>6, <3>2 DEF Room, z
  <2>2. g = Write(h, Lines(p, size))
    BY <1>7 DEF Resize
  <2>3. Keeps(h, h, n, {a}, {a}) /\ Heading(h, h, a)
    BY DEF Keeps, Heading
  <2> QED BY <1>1, <1>3, <1>4, <1>5, <2>1, <2>2, <2>3, Rewrite DEF C
<1>8. CASE ~LargeEnough(h, a, size)
  <2>1. h.elem[z].state = "FREE" /\ h.elem[a].size + h.elem[z].size >= new
    BY <1>6, <1>8 DEF CanResize, CanGrow, After, z
  <2>2. z \in FreeOf(h)
    BY <1>2, <2>1 DEF FreeOf
  <2>3. z \in ElemsOf(h) \ Ends(n)
    BY <1>1, <2>2, EndsAre DEF FreeOf
  <2>4. /\ After(h, z) \in Nat /\ z + 2 <= After(h, z) /\ h.elem[z].size = After(h, z) - z
    BY <1>1, <2>3, Links
  <2>5. at <= After(h, z) /\ z < at
    <3>1. h.elem[a].size < new
      BY <1>2, <1>6, <1>8 DEF LargeEnough
    <3> DEFINE s == h.elem[a].size
               y == h.elem[z].size
               e == After(h, z)
    <3>2. s = z - a /\ y = e - z /\ s + y >= new /\ s < new /\ e \in Nat
      BY <1>2, <2>1, <2>4, <3>1
    <3> HIDE DEF s, y, e
    <3>3. at = a + new /\ new \in Nat /\ a \in Nat /\ z \in Nat
      BY <1>2, <1>6
    <3>4. (z - a) + (e - z) >= new /\ z - a < new
      BY <3>2
    <3>5. at <= e /\ z < at
      BY <3>2, <3>3, <3>4
    <3> QED BY <3>5 DEF e
  <2>6. NextMerged(h, k, n, D, a, z)
    BY <1>1, <1>3, <2>2, MergeNext DEF z
  <2>7. /\ HeapBut(k, n, D, {a}, {}) /\ Keeps(h, k, n, {a}, {a})
        /\ After(k, a) = After(h, z) /\ After(h, z) \notin FreeOf(h) /\ FreeOf(k) = FreeOf(h) \ {z}
        /\ DOMAIN k.elem = DOMAIN h.elem \ {z} /\ k.dirty = h.dirty /\ Unused(h, z)
        /\ \A x \in DOMAIN h.elem \ {z} :
             Heading(h, k, x) /\ (x # After(h, z) => k.elem[x].prev = h.elem[x].prev)
    BY <2>6 DEF NextMerged
  <2>8. Heading(h, k, a) /\ k.elem[a].state = "BUSY" /\ a \in DOMAIN k.elem
    <3>1. a \in DOMAIN h.elem \ {z}
      BY <1>1, <1>2 DEF ElemsOf
    <3>2. Heading(h, k, a)
      BY <2>7, <3>1
    <3> QED BY <1>1, <2>7, <3>1, <3>2 DEF Heading
  <2>9. k.elem[a].size = After(k, a) - a
    <3>1. Tiled(k, n) /\ a \in ElemsOf(k) \ Ends(n)
      BY <2>7 DEF HeapBut
    <3> QED BY <3>1, Links
  <2>10. Dummy(k, a)
    <3>1. ASSUME NEW x \in a + 1 .. After(k, a) - 1, x \in DOMAIN k.elem
          PROVE  x = a + 1 /\ k.elem[a].pad = 1 /\ k.elem[x].pad = 1 /\ k.elem[x].prev = -1
      <4>1. x \in a + 1 .. z - 1 \/ x = z \/ x \in z + 1 .. After(h, z) - 1
        <5> DEFINE e == After(h, z)
        <5>1. e = After(k, a) /\ e \in Nat /\ z \in Nat /\ a \in Nat /\ x \in a + 1 .. e - 1
          BY <1>2, <2>4, <2>7
        <5> HIDE DEF e, k
        <5>2. x \in a + 1 .. z - 1 \/ x = z \/ x \in z + 1 .. e - 1
          BY <5>1
        <5> QED BY <5>2 DEF e
      <4>2. x \in a + 1 .. z - 1
        BY <2>7, <3>1, <4>1 DEF Unused
      <4>3. x \in DOMAIN h.elem \ {z} /\ x # After(h, z)
        BY <1>2, <2>4, <2>7, <3>1, <4>2
      <4>4. x = a + 1 /\ h.elem[a].pad = 1 /\ h.elem[x].pad = 1 /\ h.elem[x].prev = -1
        BY <1>5, <4>2, <4>3 DEF Dummy, z
      <4> QED BY <2>7, <2>8, <4>3, <4>4 DEF Heading
    <3>2. ASSUME k.elem[a].pad = 1
          PROVE  a + 1 \in DOMAIN k.elem /\ k.elem[a + 1].state = "PAD"
      <4>1. a + 1 \in DOMAIN h.elem /\ h.elem[a + 1].state = "PAD"
        BY <1>5, <2>8, <3>2 DEF Dummy, Heading
      <4>2. a + 1 # z
        BY <1>2
      <4> QED BY <2>7, <4>1, <4>2 DEF Heading
    <3> QED BY <3>1, <3>2 DEF Dummy
  <2>11. k.elem[a].size - new = After(h, z) - at
    <3> DEFINE s == k.elem[a].size
               e == After(h, z)
    <3>1. s = e - a /\ e \in Nat
      BY <2>4, <2>7, <2>9
    <3> HIDE DEF s, e
    <3>2. s - new = e - at
      BY <1>2, <1>6, <3>1
    <3> QED BY <3>2 DEF s, e
  <2>12. CASE After(h, z) - at < 2
    <3>1. g = Write(k, Lines(p, size))
      <4>1. ~(k.elem[a].size - NewSize(h, a, size) >= 2)
        BY <1>6, <2>4, <2>11, <2>12
      <4>2. k = Join(Remove(h, z), a, z)
        OBVIOUS
      <4> HIDE DEF k
      <4>3. Resize(h, a, size) = k
        BY <1>8, <4>1, <4>2, ResizeIs DEF z
      <4> QED BY <4>3
    <3>2. Room(k, a, p, size)
      <4>1. k.elem[a].pad = h.elem[a].pad
        BY <2>8 DEF Heading
      <4> QED BY <1>6, <2>5, <2>7, <4>1 DEF Room
    <3> HIDE DEF k
    <3> QED BY <1>4, <2>7, <2>8, <2>10, <3>1, <3>2, Rewrite, Zenon DEF C
  <2>13. CASE ~(After(h, z) - at < 2)
    <3> DEFINE s == Insert(Split(k, a, at), at)
    <3>1. g = Write(s, Lines(p, size))
      <4>1. k.elem[a].size - NewSize(h, a, size) >= 2
        BY <1>6, <2>4, <2>11, <2>13
      <4>2. at = a + NewSize(h, a, size) /\ k = Join(Remove(h, z), a, z)
        BY <1>6
      <4> HIDE DEF k
      <4>3. Resize(h, a, size) = Insert(Split(k, a, at), at)
        BY <1>8, <4>1, <4>2, ResizeIs DEF z
      <4> QED BY <4>3
    <3>2. CutAt(k, a, at)
      <4>1. After(k, a) \notin FreeOf(k)
        BY <2>7
      <4>2. at \in Nat /\ a + 2 <= at /\ at + 2 <= After(k, a)
        <5> DEFINE e == After(h, z)
        <5>1. e = After(k, a) /\ e \in Nat /\ ~(e - at < 2) /\ z < at
          BY <2>4, <2>5, <2>7, <2>13
        <5> HIDE DEF e
        <5>2. a + 2 <= at /\ at + 2 <= e
          <6>1. a \in Nat /\ z \in Nat /\ a + 2 <= z /\ at \in Nat
            BY <1>2, <1>6
          <6> HIDE DEF k
          <6> QED BY <5>1, <6>1
        <5> QED BY <1>6, <5>1, <5>2
      <4> QED BY <4>1, <4>2 DEF CutAt
    <3>3. \A x \in at .. After(k, a) - 1 : x \notin k.dirty /\ x \notin DOMAIN k.elem
      <4>1. \A x \in at .. After(k, a) - 1 : x \in z + 1 .. After(h, z) - 1
        <5> DEFINE e == After(h, z)
        <5>1. e = After(k, a) /\ e \in Nat /\ z < at
          BY <2>4, <2>5, <2>7
        <5> HIDE DEF e
        <5>2. \A x \in at .. e - 1 : x \in z + 1 .. e - 1
          BY <1>2, <1>6, <5>1
        <5> QED BY <5>1, <5>2 DEF e
      <4> QED BY <2>7, <4>1 DEF Unused
    <3>4. a \notin FreeOf(k)
      BY <1>1, <2>7
    <3> HIDE DEF k
    <3>5. Shortened(k, s, n, D, a, at)
      BY <2>7, <3>2, <3>3, <3>4, GrowTail
    <3> HIDE DEF s
    <3>6. /\ HeapBut(s, n, D, {a}, {}) /\ Keeps(k, s, n, {a}, {a}) /\ After(s, a) = at
          /\ DOMAIN s.elem = DOMAIN k.elem \cup {at}
          /\ \A x \in DOMAIN k.elem :
               Heading(k, s, x) /\ (x # After(k, a) => s.elem[x].prev = k.elem[x].prev)
      BY <3>5 DEF Shortened
    <3>7. Keeps(h, s, n, {a}, {a}) /\ Heading(h, s, a) /\ s.elem[a].state = "BUSY"
      <4>1. Keeps(h, s, n, {a}, {a})
        BY <2>7, <3>6, KeepsTrans
      <4> QED BY <2>8, <3>6, <4>1 DEF Heading
    <3>8. Dummy(s, a)
      <4>1. ASSUME NEW x \in a + 1 .. After(s, a) - 1, x \in DOMAIN s.elem
            PROVE  x = a + 1 /\ s.elem[a].pad = 1 /\ s.elem[x].pad = 1 /\ s.elem[x].prev = -1
        <5>1. x \in a + 1 .. After(k, a) - 1 /\ x # at /\ x # After(k, a)
          <6> DEFINE e == After(h, z)
          <6>1. e = After(k, a) /\ e \in Nat /\ at <= e /\ x \in a + 1 .. at - 1
            BY <2>4, <2>5, <2>7, <3>6
          <6> HIDE DEF e
          <6>2. a \in Nat /\ at \in Nat
            BY <1>2, <1>6
          <6>3. x \in a + 1 .. e - 1 /\ x # at /\ x # e
            BY <6>1, <6>2
          <6> QED BY <6>1, <6>3
        <5>2. x \in DOMAIN k.elem
          BY <3>6, <4>1, <5>1
        <5>3. x = a + 1 /\ k.elem[a].pad = 1 /\ k.elem[x].pad = 1 /\ k.elem[x].prev = -1
          BY <2>10, <5>1, <5>2 DEF Dummy
        <5> QED BY <2>8, <3>6, <5>1, <5>2, <5>3 DEF Heading
      <4>2. ASSUME s.elem[a].pad = 1
            PROVE  a + 1 \in DOMAIN s.elem /\ s.elem[a + 1].state = "PAD"
        BY <2>8, <2>10, <3>6, <4>2 DEF Dummy, Heading
      <4> QED BY <4>1, <4>2 DEF Dummy
    <3>9. Room(s, a, p, size)
      <4>1. s.elem[a].pad = h.elem[a].pad
        BY <3>7 DEF Heading
      <4>2. p + size <= After(s, a)
        BY <1>6, <3>6
      <4> QED BY <4>1, <4>2 DEF Room
    <3> QED BY <1>4, <3>1, <3>6, <3>7, <3>8, <3>9, Rewrite, Zenon DEF C
  <2> QED BY <2>12, <2>13
<1> QED BY <1>7, <1>8

-----------------------------------------------------------------------------
(* malloc_heap_add_memseg.                                                 *)
Seeded(h, g, ms) ==
  LET start == Segs[ms].addr
      end == EndElem(ms)
  IN /\ DOMAIN g = {"elem", "free_head", "dirty"}
     /\ DOMAIN g.elem = DOMAIN h.elem \cup {start, end}
     /\ g.elem[start] = Elem(end - start, "FREE", 0, -1, ms)
     /\ g.elem[end] = Elem(0, "BUSY", 0, start, ms)
     /\ \A a \in DOMAIN h.elem \ {start, end} : g.elem[a] = h.elem[a]
     /\ g.free_head = h.free_head /\ g.dirty = h.dirty \cup {start, end}

LEMMA WithIs ==
  ASSUME NEW f, NEW a, NEW e, NEW g, g = With(f, a, e)
  PROVE  Adds(g, f, a, e)
BY Zenon DEF With, Adds

LEMMA SeedIs ==
  ASSUME NEW h, NEW n \in 0 .. Len(Segs), Typed(h, n), NEW ms \in 1 .. Len(Segs),
         NEW h1, h1 = InitElem(h, Segs[ms].addr, ms, EndElem(ms) - Segs[ms].addr),
         NEW h2, h2 = InitElem(h1, EndElem(ms), ms, 0),
         NEW g, g = [h2 EXCEPT !.elem[EndElem(ms)].prev = Segs[ms].addr, !.elem[EndElem(ms)].state = "BUSY"]
  PROVE  Seeded(h, g, ms)
<1> DEFINE start == Segs[ms].addr
           end == EndElem(ms)
           e1 == Elem(end - start, "FREE", 0, -1, ms)
           e2 == Elem(0, "FREE", 0, -1, ms)
<1>1. start # end
  BY SegFacts
<1>2. /\ DOMAIN h1 = {"elem", "free_head", "dirty"} /\ h1.elem = With(h.elem, start, e1)
      /\ h1.free_head = h.free_head /\ h1.dirty = h.dirty \cup {start}
  BY DEF InitElem, Typed
<1>3. /\ DOMAIN h2 = {"elem", "free_head", "dirty"} /\ h2.elem = With(h1.elem, end, e2)
      /\ h2.free_head = h.free_head /\ h2.dirty = h.dirty \cup {start, end}
  BY <1>2, Zenon DEF InitElem
<1> HIDE DEF start, end
<1>4. /\ DOMAIN h2.elem = DOMAIN h.elem \cup {start, end} /\ h2.elem[start] = e1 /\ h2.elem[end] = e2
      /\ \A a \in DOMAIN h.elem \ {start, end} : h2.elem[a] = h.elem[a]
  <2> HIDE DEF e1, e2
  <2>1. /\ DOMAIN h1.elem = DOMAIN h.elem \cup {start} /\ h1.elem[start] = e1
        /\ \A a \in DOMAIN h.elem \ {start} : h1.elem[a] = h.elem[a]
    <3>1. Adds(h1.elem, h.elem, start, e1)
      BY <1>2, WithIs, Zenon
    <3> QED BY <3>1 DEF Adds
  <2>2. /\ DOMAIN h2.elem = DOMAIN h1.elem \cup {end} /\ h2.elem[end] = e2
        /\ \A a \in DOMAIN h1.elem \ {end} : h2.elem[a] = h1.elem[a]
    <3>1. Adds(h2.elem, h1.elem, end, e2)
      BY <1>3, WithIs
    <3> QED BY <3>1, Zenon DEF Adds
  <2> QED BY <1>1, <2>1, <2>2, Zenon
<1>5. g = [h2 EXCEPT !.elem[end].prev = start, !.elem[end].state = "BUSY"]
  BY Zenon DEF start, end
<1>6. /\ DOMAIN g = {"elem", "free_head", "dirty"} /\ g.free_head = h2.free_head /\ g.dirty = h2.dirty
      /\ DOMAIN g.elem = DOMAIN h2.elem /\ \A a \in DOMAIN h2.elem \ {end} : g.elem[a] = h2.elem[a]
      /\ g.elem[end] = [h2.elem[end] EXCEPT !.prev = start, !.state = "BUSY"]
  <2> DEFINE m == h2.elem
             k == [m EXCEPT ![end].prev = start, ![end].state = "BUSY"]
  <2>1. /\ DOMAIN g = {"elem", "free_head", "dirty"} /\ g.free_head = h2.free_head /\ g.dirty = h2.dirty
        /\ g.elem = k
    BY <1>3, <1>5, Zenon
  <2>2. end \in DOMAIN m
    BY <1>4
  <2> HIDE DEF m
  <2>3. /\ DOMAIN k = DOMAIN m /\ \A a \in DOMAIN m \ {end} : k[a] = m[a]
        /\ k[end] = [m[end] EXCEPT !.prev = start, !.state = "BUSY"]
    BY <2>2, Zenon
  <2>4. /\ DOMAIN g.elem = DOMAIN m /\ \A a \in DOMAIN m \ {end} : g.elem[a] = m[a]
        /\ g.elem[end] = [m[end] EXCEPT !.prev = start, !.state = "BUSY"]
    <3>1. g.elem = k
      BY <2>1, Zenon
    <3> HIDE DEF k
    <3> QED BY <2>3, <3>1, Zenon
  <2> QED BY <2>1, <2>4, Zenon DEF m
<1>7. g.elem[end] = Elem(0, "BUSY", 0, start, ms)
  <2>1. [e2 EXCEPT !.prev = start, !.state = "BUSY"] = Elem(0, "BUSY", 0, start, ms)
    <3>1. [e2 EXCEPT !.prev = start] = Elem(0, "FREE", 0, start, ms)
      BY DEF Elem
    <3>2. [Elem(0, "FREE", 0, start, ms) EXCEPT !.state = "BUSY"] = Elem(0, "BUSY", 0, start, ms)
      BY DEF Elem
    <3>3. [e2 EXCEPT !.prev = start, !.state = "BUSY"] = [[e2 EXCEPT !.prev = start] EXCEPT !.state = "BUSY"]
      OBVIOUS
    <3> QED BY <3>1, <3>2, <3>3
  <2> HIDE DEF e1, e2
  <2> QED BY <1>4, <1>6, <2>1, Zenon
<1> QED BY <1>1, <1>3, <1>4, <1>6, <1>7, Zenon DEF Seeded, start, end

LEMMA SegFree ==
  ASSUME NEW h, NEW n \in 0 .. Len(Segs), NEW B, HeapOf(h, n, B), NEW ms \in 1 .. Len(Segs), n < ms,
         NEW x \in DOMAIN h.elem
  PROVE  x \in Nat /\ (x < Segs[ms].addr \/ EndElem(ms) < x)
<1>1. Tiled(h, n) /\ Typed(h, n) /\ Padded(h, n, {}) /\ x \in Nat
  BY DEF HeapOf, HeapBut, Tiled, Typed
<1>2. /\ Segs[ms].addr \in Nat /\ EndElem(ms) \in Nat /\ Segs[ms].addr <= EndElem(ms)
  <2>1. Segs[ms].addr \in Nat /\ EndElem(ms) \in Nat /\ Segs[ms].addr + 3 <= EndElem(ms)
    BY SegFacts
  <2> QED BY <2>1
<1>3. ASSUME NEW a \in ElemsOf(h)
      PROVE  \E s \in 1 .. n : /\ s # ms /\ a \in Nat /\ Segs[s].addr <= a /\ a <= EndElem(s)
                               /\ (a \notin Ends(n) => After(h, a) \in Nat /\ a + 2 <= After(h, a) /\ After(h, a) <= EndElem(s))
                               /\ s \in 1 .. Len(Segs)
  <2> DEFINE s == h.elem[a].ms
  <2>1. s \in 1 .. n /\ s \in 1 .. Len(Segs) /\ a \in Nat /\ Segs[s].addr <= a /\ a <= EndElem(s)
    BY <1>1, Inside
  <2>2. ASSUME a \notin Ends(n)
        PROVE  After(h, a) \in Nat /\ a + 2 <= After(h, a) /\ After(h, a) <= EndElem(s)
    <3>1. After(h, a) \in Nat /\ a + 2 <= After(h, a) /\ After(h, a) \in ElemsOf(h) /\ h.elem[After(h, a)].ms = s
      BY <1>1, <2>2, Links
    <3>2. After(h, a) <= EndElem(s)
      BY <1>1, <3>1, Inside
    <3> QED BY <3>1, <3>2
  <2>3. s # ms
    BY <2>1
  <2> HIDE DEF s
  <2> QED BY <2>1, <2>2, <2>3
<1>4. ASSUME NEW a \in ElemsOf(h), x = a \/ (a \notin Ends(n) /\ x = a + 1)
      PROVE  x < Segs[ms].addr \/ EndElem(ms) < x
  <2>1. PICK s \in 1 .. n : /\ s # ms /\ a \in Nat /\ Segs[s].addr <= a /\ a <= EndElem(s)
                            /\ (a \notin Ends(n) => After(h, a) \in Nat /\ a + 2 <= After(h, a) /\ After(h, a) <= EndElem(s))
                            /\ s \in 1 .. Len(Segs)
    BY <1>3
  <2>2. EndElem(s) < Segs[ms].addr \/ EndElem(ms) < Segs[s].addr
    BY <2>1, SegsApart
  <2>3. Segs[s].addr \in Nat /\ EndElem(s) \in Nat
    BY <2>1, SegFacts
  <2>4. Segs[s].addr <= x /\ x <= EndElem(s)
    BY <1>4, <2>1, <2>3
  <2> QED BY <1>1, <1>2, <2>2, <2>3, <2>4
<1>5. CASE x \in ElemsOf(h)
  BY <1>1, <1>4, <1>5
<1>6. CASE x \notin ElemsOf(h)
  <2>1. h.elem[x].state = "PAD" /\ x \notin Span(h, {})
    BY <1>6, SpanIs DEF ElemsOf
  <2>2. x - 1 \in BusyOf(h, n)
    BY <1>1, <2>1 DEF Padded
  <2>3. x - 1 \in ElemsOf(h) /\ x - 1 \notin Ends(n) /\ x = (x - 1) + 1
    BY <1>1, <2>2 DEF BusyOf
  <2> QED BY <1>1, <1>4, <2>3
<1> QED BY <1>5, <1>6

OneMore(h, g, n, ms, start, end) ==
  /\ Tiled(g, ms) /\ ElemsOf(g) = ElemsOf(h) \cup {start, end}
  /\ FreeOf(g) = FreeOf(h) \cup {start} /\ BusyOf(g, ms) = BusyOf(h, n)
  /\ \A a \in DOMAIN h.elem : g.elem[a] = h.elem[a] /\ a # start /\ a # end
  /\ After(g, start) = end /\ g.elem[start].prev = -1 /\ start \notin Ends(ms)
  /\ start \in Nat /\ end \in Nat

LEMMA SeedTiled ==
  ASSUME NEW h, NEW n \in 0 .. Len(Segs), NEW B, HeapOf(h, n, B),
         NEW ms \in 1 .. Len(Segs), ms = n + 1, NEW g, Seeded(h, g, ms),
         NEW start, start = Segs[ms].addr, NEW end, end = EndElem(ms)
  PROVE  OneMore(h, g, n, ms, start, end)
<1>1. /\ Tiled(h, n) /\ Typed(h, n) /\ Bordered(h, n)
      /\ DOMAIN h.elem \subseteq Nat /\ IsFiniteSet(DOMAIN h.elem)
      /\ h.free_head \in [Sockets -> [Lists -> Seq(Nat)]]
  BY DEF HeapOf, HeapBut, Tiled, Typed
<1>2. /\ start \in Nat /\ end \in Nat /\ start + 3 <= end
  BY SegFacts
<1>3. \A a \in DOMAIN h.elem : a \in Nat /\ (a < start \/ end < a)
  <2>1. n < ms
    OBVIOUS
  <2> QED BY <2>1, SegFree
<1>4. /\ DOMAIN g = {"elem", "free_head", "dirty"}
      /\ DOMAIN g.elem = DOMAIN h.elem \cup {start, end}
      /\ g.elem[start] = Elem(end - start, "FREE", 0, -1, ms)
      /\ g.elem[end] = Elem(0, "BUSY", 0, start, ms)
      /\ g.free_head = h.free_head
      /\ \A a \in DOMAIN h.elem \ {start, end} : g.elem[a] = h.elem[a]
  BY DEF Seeded
<1>5. \A a \in DOMAIN h.elem : g.elem[a] = h.elem[a] /\ a # start /\ a # end
  <2>1. ASSUME NEW a \in DOMAIN h.elem
        PROVE  a # start /\ a # end
    <3>1. a \in Nat /\ (a < start \/ end < a)
      BY <1>3
    <3> QED BY <1>2, <3>1
  <2> QED BY <1>4, <2>1, Zenon
<1>6. /\ g.elem[start].size = end - start /\ g.elem[start].state = "FREE"
      /\ g.elem[start].prev = -1 /\ g.elem[start].ms = ms
      /\ g.elem[end].size = 0 /\ g.elem[end].state = "BUSY"
      /\ g.elem[end].prev = start /\ g.elem[end].ms = ms
      /\ IsHdr(g.elem[start], ms) /\ IsHdr(g.elem[end], ms)
  <2>1. end - start \in Nat /\ 0 \in Nat /\ 0 \in 0 .. 1 /\ ms \in 1 .. ms /\ start \in Nat \cup {-1}
        /\ -1 \in Nat \cup {-1}
    BY <1>2
  <2> HIDE DEF NULL
  <2> QED BY <1>4, <2>1, ElemIs
<1>7. Typed(g, ms)
  <2>1. \A a \in DOMAIN h.elem : IsHdr(h.elem[a], ms)
    <3>1. \A a \in DOMAIN h.elem : IsHdr(h.elem[a], n)
      BY <1>1 DEF Typed
    <3>2. \A x \in 1 .. n : x \in 1 .. ms
      OBVIOUS
    <3> QED BY <3>1, <3>2 DEF IsHdr
  <2>2. \A a \in DOMAIN g.elem : IsHdr(g.elem[a], ms)
    BY <1>4, <1>5, <1>6, <2>1
  <2>3. DOMAIN g.elem \subseteq Nat
    BY <1>1, <1>2, <1>4
  <2>4. IsFiniteSet(DOMAIN g.elem)
    <3>1. IsFiniteSet(DOMAIN h.elem \cup {start})
      BY <1>1, FS_AddElement
    <3>2. IsFiniteSet((DOMAIN h.elem \cup {start}) \cup {end})
      BY <3>1, FS_AddElement
    <3>3. (DOMAIN h.elem \cup {start}) \cup {end} = DOMAIN g.elem
      BY <1>4
    <3> QED BY <3>2, <3>3
  <2> QED BY <1>1, <1>4, <2>2, <2>3, <2>4 DEF Typed
<1>8. /\ ElemsOf(g) = ElemsOf(h) \cup {start, end} /\ FreeOf(g) = FreeOf(h) \cup {start}
      /\ ElemsOf(h) \subseteq DOMAIN h.elem
  BY <1>4, <1>5, <1>6 DEF ElemsOf, FreeOf
<1>9. Ends(ms) = Ends(n) \cup {end} /\ start \notin Ends(ms) /\ Ends(n) \subseteq ElemsOf(h)
  <2>1. \A s : s \in 1 .. ms <=> s \in 1 .. n \/ s = ms
    OBVIOUS
  <2>2. Ends(ms) = Ends(n) \cup {end}
    BY <2>1 DEF Ends
  <2>3. Ends(n) \subseteq ElemsOf(h)
    BY <1>1, EndsAre
  <2> QED BY <1>2, <1>5, <1>8, <2>2, <2>3
<1>10. BusyOf(g, ms) = BusyOf(h, n)
  BY <1>5, <1>6, <1>8, <1>9 DEF BusyOf
<1>11. After(g, start) = end /\ \A a \in DOMAIN h.elem : After(g, a) = After(h, a)
  BY <1>2, <1>5, <1>6 DEF After
<1>12. Bordered(g, ms)
  <2> SUFFICES ASSUME NEW s \in 1 .. ms
               PROVE  /\ Segs[s].addr \in ElemsOf(g) /\ g.elem[Segs[s].addr].ms = s
                      /\ g.elem[Segs[s].addr].prev = -1
                      /\ EndElem(s) \in ElemsOf(g) /\ g.elem[EndElem(s)].ms = s
                      /\ g.elem[EndElem(s)].state = "BUSY"
    BY DEF Bordered
  <2>1. CASE s = ms
    BY <1>6, <1>8, <2>1
  <2>2. CASE s # ms
    <3>1. s \in 1 .. n
      BY <2>2
    <3> QED BY <1>1, <1>5, <1>8, <3>1, Zenon DEF Bordered
  <2> QED BY <2>1, <2>2
<1>13. \A a \in ElemsOf(g) : Linked(g, ms, a)
  <2>1. Linked(g, ms, start)
    <3>1. \A b \in ElemsOf(g) : b <= start \/ end <= b
      BY <1>2, <1>3, <1>8
    <3> QED BY <1>2, <1>6, <1>8, <1>9, <1>11, <3>1 DEF Linked
  <2>2. Linked(g, ms, end)
    <3>1. end \in Ends(ms) /\ start # -1
      BY <1>2, <1>9
    <3> QED BY <1>2, <1>6, <1>8, <1>9, <1>11, <3>1 DEF Linked
  <2>3. ASSUME NEW a \in ElemsOf(h)
        PROVE  Linked(g, ms, a)
    <3>1. Linked(h, n, a) /\ a \in DOMAIN h.elem /\ g.elem[a] = h.elem[a] /\ After(g, a) = After(h, a)
      BY <1>1, <1>5, <1>8, <1>11 DEF Tiled
    <3>2. a # end /\ (a \in Ends(ms) <=> a \in Ends(n))
      BY <1>5, <1>9, <3>1
    <3>3. ASSUME a \notin Ends(n)
          PROVE  /\ After(h, a) \in ElemsOf(g) /\ g.elem[After(h, a)] = h.elem[After(h, a)]
                 /\ \A b \in ElemsOf(g) : b <= a \/ After(h, a) <= b
      <4>1. /\ After(h, a) \in ElemsOf(h) /\ After(h, a) \in DOMAIN h.elem /\ After(h, a) \in Nat /\ a \in Nat
            /\ h.elem[After(h, a)].ms = h.elem[a].ms /\ \A b \in ElemsOf(h) : b <= a \/ After(h, a) <= b
        BY <1>1, <3>3, Links
      <4> DEFINE z == After(h, a)
                 s == h.elem[a].ms
      <4>2. /\ s \in 1 .. n /\ s \in 1 .. Len(Segs) /\ Segs[s].addr <= a /\ z <= EndElem(s)
        BY <1>1, <4>1, Inside
      <4> HIDE DEF z, s
      <4>3. EndElem(s) < start \/ end < Segs[s].addr
        BY <4>2, SegsApart
      <4>4. Segs[s].addr \in Nat /\ EndElem(s) \in Nat /\ z \in Nat
        BY <4>1, <4>2, SegFacts DEF z
      <4>5. (start <= a \/ z <= start) /\ (end <= a \/ z <= end)
        <5> DEFINE lo == Segs[s].addr
                   hi == EndElem(s)
        <5>1. lo \in Nat /\ hi \in Nat /\ lo <= a /\ z <= hi /\ (hi < start \/ end < lo) /\ a \in Nat /\ z \in Nat
          BY <4>1, <4>2, <4>3, <4>4
        <5>2. start \in Nat /\ end \in Nat /\ start + 3 <= end
          BY <1>2
        <5> HIDE DEF lo, hi
        <5>3. hi < start => z <= start /\ z <= end
          BY <5>1, <5>2
        <5>4. end < lo => start <= a /\ end <= a
          BY <5>1, <5>2
        <5> QED BY <5>1, <5>3, <5>4
      <4> QED BY <1>5, <1>8, <4>1, <4>5 DEF z
    <3>4. LET b == h.elem[a].prev
          IN b # -1 => b \in ElemsOf(h) \ Ends(n) /\ b \in ElemsOf(g) \ Ends(ms) /\ After(g, b) = a
      <4>1. h.elem[a].prev # -1 => /\ h.elem[a].prev \in ElemsOf(h) \ Ends(n) /\ After(h, h.elem[a].prev) = a
        BY <1>1, Inside
      <4> QED BY <1>5, <1>8, <1>9, <1>11, <4>1
    <3> QED BY <3>1, <3>2, <3>3, <3>4 DEF Linked
  <2> QED BY <1>8, <2>1, <2>2, <2>3
<1>14. Tiled(g, ms)
  BY <1>7, <1>12, <1>13 DEF Tiled
<1> QED BY <1>2, <1>5, <1>6, <1>8, <1>9, <1>10, <1>11, <1>14 DEF OneMore

LEMMA AddHeap ==
  ASSUME NEW h, NEW n \in 0 .. Len(Segs), NEW B, HeapOf(h, n, B),
         NEW ms \in 1 .. Len(Segs), ms = n + 1, NEW k, Seeded(h, k, ms),
         NEW g, g = Insert(k, Segs[ms].addr)
  PROVE  /\ HeapOf(g, ms, B) /\ BusyOf(g, ms) = BusyOf(h, n)
         /\ \A a \in BusyOf(h, n) : g.elem[a] = h.elem[a]
<1> DEFINE start == Segs[ms].addr
           end == EndElem(ms)
           E == {start}
<1>1. /\ HeapBut(h, n, B, {}, {}) /\ Padded(h, n, {}) /\ Listed(h, FreeOf(h) \ {}) /\ Clean(h, FreeOf(h) \ {})
      /\ Apart(h, {}) /\ h.dirty \subseteq Memory(n) /\ Owned(h, n, B, {}) /\ Tiled(h, n)
  BY DEF HeapOf, HeapBut
<1>2. /\ Tiled(k, ms) /\ ElemsOf(k) = ElemsOf(h) \cup {start, end}
      /\ FreeOf(k) = FreeOf(h) \cup {start} /\ BusyOf(k, ms) = BusyOf(h, n)
      /\ \A a \in DOMAIN h.elem : k.elem[a] = h.elem[a] /\ a # start /\ a # end
      /\ After(k, start) = end /\ k.elem[start].prev = -1 /\ start \notin Ends(ms)
      /\ start \in Nat /\ end \in Nat
  <2>1. OneMore(h, k, n, ms, start, end)
    BY SeedTiled
  <2> QED BY <2>1 DEF OneMore
<1>3. /\ DOMAIN k.elem = DOMAIN h.elem \cup {start, end}
      /\ k.elem[start] = Elem(end - start, "FREE", 0, -1, ms)
      /\ k.elem[end] = Elem(0, "BUSY", 0, start, ms)
      /\ k.free_head = h.free_head /\ k.dirty = h.dirty \cup {start, end}
  BY DEF Seeded
<1>4. k.elem[start].state = "FREE" /\ k.elem[end].state = "BUSY"
  BY <1>3, ElemIs
<1>5. start + 3 <= end /\ end = start + Segs[ms].len - 1 /\ Segs[ms].len \in Nat /\ ms \in Nat
  BY SegFacts
<1>6. /\ FreeOf(h) \subseteq DOMAIN h.elem /\ BusyOf(h, n) \subseteq DOMAIN h.elem
      /\ \A a \in DOMAIN h.elem : After(k, a) = After(h, a)
  BY <1>2 DEF FreeOf, BusyOf, ElemsOf, After
<1> HIDE DEF start, end
<1>7. FreeOf(k) \ {start} = FreeOf(h) /\ start \notin FreeOf(h)
  BY <1>2, <1>6
<1>8. HeapBut(k, ms, B, {start}, {start})
  <2>1. Padded(k, ms, {start})
    <3>1. ASSUME NEW x \in DOMAIN k.elem, k.elem[x].state = "PAD"
          PROVE  /\ x - 1 \in BusyOf(k, ms) \ {start} /\ k.elem[x - 1].pad = 1
                 /\ k.elem[x].pad = 1 /\ k.elem[x].prev = -1
      <4>1. x \in DOMAIN h.elem
        BY <1>3, <1>4, <3>1
      <4>2. h.elem[x].state = "PAD" /\ x \notin Span(h, {})
        BY <1>2, <3>1, <4>1, SpanIs
      <4>3. /\ x - 1 \in BusyOf(h, n) /\ h.elem[x - 1].pad = 1 /\ h.elem[x].pad = 1 /\ h.elem[x].prev = -1
        BY <1>1, <4>1, <4>2 DEF Padded
      <4> QED BY <1>2, <1>6, <4>1, <4>3
    <3>2. ASSUME NEW a \in BusyOf(k, ms) \ {start}, k.elem[a].pad = 1
          PROVE  a + 1 \in DOMAIN k.elem /\ k.elem[a + 1].state = "PAD"
      <4>1. a \in BusyOf(h, n) /\ h.elem[a].pad = 1
        BY <1>2, <1>6, <3>2
      <4>2. a + 1 \in DOMAIN h.elem /\ h.elem[a + 1].state = "PAD"
        BY <1>1, <4>1 DEF Padded
      <4> QED BY <1>2, <1>3, <4>2
    <3> QED BY <3>1, <3>2 DEF Padded
  <2>2. Listed(k, FreeOf(k) \ {start})
    <3> DEFINE L == FreeOf(h)
    <3>1. /\ Listed(h, L) /\ L \subseteq FreeOf(k) /\ FreeOf(k) \ {start} = L
          /\ \A a \in L : k.elem[a].size = h.elem[a].size /\ k.elem[a].ms = h.elem[a].ms
      <4>1. L \ {} = L
        OBVIOUS
      <4> QED BY <1>1, <1>2, <1>6, <1>7, <4>1
    <3> HIDE DEF L
    <3>2. Listed(k, L)
      BY <1>3, <3>1, ListedFrame
    <3> QED BY <3>1, <3>2
  <2>3. Clean(k, FreeOf(k) \ {start})
    <3> SUFFICES ASSUME NEW a \in FreeOf(h), NEW x \in a + 1 .. After(k, a) - 1
                 PROVE  x \notin k.dirty
      BY <1>7 DEF Clean
    <3>1. x \notin h.dirty
      BY <1>1, <1>6 DEF Clean
    <3>2. a \in ElemsOf(k) \ Ends(ms)
      BY <1>2, EndsAre DEF FreeOf
    <3>3. a \in Nat /\ After(k, a) \in Nat /\ \A b \in ElemsOf(k) : b <= a \/ After(k, a) <= b
      BY <1>2, <3>2, Links
    <3>4. x # start /\ x # end
      <4>1. (start <= a \/ After(k, a) <= start) /\ (end <= a \/ After(k, a) <= end)
        BY <1>2, <3>3
      <4> QED BY <1>2, <3>3, <4>1
    <3> QED BY <1>3, <3>1, <3>4
  <2>4. Apart(k, {start})
    BY <1>1, <1>6, <1>7 DEF Apart
  <2>5. k.dirty \subseteq Memory(ms)
    <3>1. \A s \in 1 .. n : s \in 1 .. ms
      OBVIOUS
    <3>2. Memory(n) \subseteq Memory(ms)
      BY <3>1 DEF Memory
    <3>3. start \in Lines(Segs[ms].addr, Segs[ms].len) /\ end \in Lines(Segs[ms].addr, Segs[ms].len)
      BY <1>2, <1>5 DEF Lines, start
    <3>4. start \in Memory(ms) /\ end \in Memory(ms)
      BY <1>5, <3>3 DEF Memory
    <3> QED BY <1>1, <1>3, <3>2, <3>4
  <2>6. Owned(k, ms, B, {start})
    <3>1. BusyOf(k, ms) \ {start} = BusyOf(h, n) \ {}
      BY <1>2, <1>6
    <3>2. \A a \in BusyOf(h, n) : k.elem[a] = h.elem[a] /\ After(k, a) = After(h, a)
      BY <1>2, <1>6
    <3> QED BY <1>1, <3>1, <3>2 DEF Owned
  <2>7. {start} \subseteq ElemsOf(k) \ Ends(ms)
    BY <1>2
  <2> QED BY <1>2, <2>1, <2>2, <2>3, <2>4, <2>5, <2>6, <2>7 DEF HeapBut
<1>a. /\ start \in E /\ Loose(k, start, E) /\ Minus(E, start) = {} /\ HeapBut(k, ms, B, E, E)
      /\ g = Insert(k, start) /\ ms \in 0 .. Len(Segs)
  BY <1>8 DEF Loose, Minus, start
<1> HIDE DEF E
<1>9. HeapBut(g, ms, B, E, {}) /\ Keeps(k, g, ms, E, E) /\ Inserted(k, g, start)
  <2>1. HeapBut(g, ms, B, E, Minus(E, start)) /\ Keeps(k, g, ms, E, E) /\ Inserted(k, g, start)
    BY <1>a, InsertHeap
  <2> QED BY <1>a, <2>1
<1>10. /\ ElemsOf(g) = ElemsOf(k) /\ FreeOf(g) = FreeOf(k) \cup {start}
       /\ DOMAIN g.elem = DOMAIN k.elem /\ g.dirty = k.dirty
       /\ \A b \in DOMAIN k.elem \ {start} : g.elem[b] = k.elem[b]
       /\ g.elem[start].state = "FREE" /\ g.elem[start].prev = -1
       /\ \A b \in DOMAIN k.elem : After(g, b) = After(k, b)
  BY <1>2, <1>9 DEF Inserted
<1>11. Unused(g, start)
  <2>1. ASSUME NEW x \in start + 1 .. end - 1
        PROVE  x \notin g.dirty /\ x \notin DOMAIN g.elem
    <3>1. x \in Nat /\ x # start /\ x # end /\ start <= x /\ x <= end
      BY <1>2
    <3>2. x \notin DOMAIN h.elem
      <4>1. n < ms
        OBVIOUS
      <4>2. x \in DOMAIN h.elem => x < start \/ end < x
        BY <4>1, SegFree DEF start, end
      <4> QED BY <1>2, <3>1, <4>2
    <3>3. x \notin h.dirty
      <4>1. ASSUME NEW s \in 1 .. n, x \in Lines(Segs[s].addr, Segs[s].len)
            PROVE  FALSE
        <5>1. s \in 1 .. Len(Segs) /\ s # ms
          OBVIOUS
        <5>2. EndElem(s) < start \/ end < Segs[s].addr
          BY <5>1, SegsApart DEF start, end
        <5>3. /\ Segs[s].addr \in Nat /\ EndElem(s) \in Nat /\ Segs[s].len \in Nat
              /\ EndElem(s) = Segs[s].addr + Segs[s].len - 1
          BY <5>1, SegFacts
        <5>4. Segs[s].addr <= x /\ x <= EndElem(s)
          BY <3>1, <4>1, <5>3 DEF Lines
        <5> QED BY <1>2, <3>1, <5>2, <5>3, <5>4
      <4> QED BY <1>1, <4>1 DEF Memory
    <3> QED BY <1>3, <1>10, <3>1, <3>2, <3>3
  <2>2. After(g, start) = end
    BY <1>2, <1>3, <1>10
  <2> QED BY <2>1, <2>2 DEF Unused
<1>12. start \in FreeOf(g) /\ Loose(g, After(g, start), E) /\ (g.elem[start].prev # -1 => Loose(g, g.elem[start].prev, E))
  <2>1. end \notin FreeOf(k) \cup {start}
    BY <1>2, <1>4, <1>5 DEF FreeOf
  <2> QED BY <1>2, <1>3, <1>10, <2>1 DEF Loose
<1>13. HeapBut(g, ms, B, {}, {})
  <2>1. HeapBut(g, ms, B, Minus(E, start), {}) /\ Keeps(g, g, ms, E, Minus(E, start))
    BY <1>9, <1>11, <1>12, <1>a, GiveFree
  <2> QED BY <1>a, <2>1
<1>14. \A a \in BusyOf(h, n) : g.elem[a] = h.elem[a]
  BY <1>2, <1>3, <1>6, <1>10
<1>15. BusyOf(g, ms) = BusyOf(h, n)
  <2>1. BusyOf(g, ms) \ E = BusyOf(k, ms) \ E
    BY <1>9 DEF Keeps
  <2>2. start \notin BusyOf(g, ms) /\ start \notin BusyOf(k, ms)
    BY <1>4, <1>10 DEF BusyOf
  <2>3. ASSUME NEW x
        PROVE  x \in BusyOf(g, ms) <=> x \in BusyOf(k, ms)
    BY <2>1, <2>2, Zenon DEF E
  <2>4. BusyOf(g, ms) = BusyOf(k, ms)
    BY <2>3, Zenon
  <2> QED BY <1>2, <2>4
<1> QED BY <1>13, <1>14, <1>15 DEF HeapOf

-----------------------------------------------------------------------------
(* Blocks and the elements they are in (malloc_elem_from_data).            *)
PtrOf(h, a) == a + h.elem[a].pad + 1

LEMMA ElemOfPtr ==
  ASSUME NEW h, NEW n \in 0 .. Len(Segs), NEW B, HeapOf(h, n, B), NEW a \in BusyOf(h, n)
  PROVE  /\ FromData(h, PtrOf(h, a)) = a /\ PtrOf(h, a) - 1 \in DOMAIN h.elem
         /\ PtrOf(h, a) \in DOMAIN B /\ PtrOf(h, a) + B[PtrOf(h, a)] <= After(h, a)
         /\ h.elem[PtrOf(h, a) - 1].ms \in 1 .. n
<1>1. /\ Tiled(h, n) /\ Typed(h, n) /\ a \in ElemsOf(h) \ Ends(n) /\ h.elem[a].state = "BUSY"
      /\ a \in DOMAIN h.elem /\ Owned(h, n, B, {}) /\ a \in BusyOf(h, n) \ {}
  BY DEF HeapOf, HeapBut, BusyOf, ElemsOf, Tiled
<1>2. a \in Nat /\ After(h, a) \in Nat /\ a + 2 <= After(h, a)
  BY <1>1, Links
<1>3. h.elem[a].pad \in 0 .. 1 /\ h.elem[a].ms \in 1 .. n
  BY <1>1, Header
<1>4. PtrOf(h, a) \in DOMAIN B /\ PtrOf(h, a) + B[PtrOf(h, a)] <= After(h, a)
  BY <1>1 DEF Owned, PtrOf
<1>5. CASE h.elem[a].pad = 0
  <2>1. PtrOf(h, a) - 1 = a
    BY <1>2, <1>5 DEF PtrOf
  <2> QED BY <1>1, <1>3, <1>4, <2>1 DEF FromData
<1>6. CASE h.elem[a].pad = 1
  <2>1. PtrOf(h, a) - 1 = a + 1 /\ a + 1 - 1 = a /\ a + 1 \in Nat
    BY <1>2, <1>6 DEF PtrOf
  <2>2. Dummy(h, a)
    BY DummyOf
  <2>3. a + 1 \in DOMAIN h.elem /\ h.elem[a + 1].state = "PAD"
    BY <1>6, <2>2 DEF Dummy
  <2>4. h.elem[a + 1].pad = 1
    <3>1. a + 1 \in a + 1 .. After(h, a) - 1
      BY <1>2
    <3> QED BY <2>2, <2>3, <3>1 DEF Dummy
  <2>5. h.elem[a + 1].ms \in 1 .. n
    BY <1>1, <2>3, Header
  <2>6. FromData(h, PtrOf(h, a)) = a + 1 - 1
    <3> DEFINE p == PtrOf(h, a)
    <3>1. p - 1 = a + 1 /\ h.elem[p - 1].state = "PAD" /\ h.elem[p - 1].pad = 1
      BY <2>1, <2>3, <2>4
    <3>4. p = a + 2
      BY <1>2, <1>6 DEF PtrOf
    <3> HIDE DEF p
    <3>2. FromData(h, p) = p - 1 - h.elem[p - 1].pad
      BY <3>1 DEF FromData
    <3>3. FromData(h, p) = a + 1 - 1
      BY <1>2, <3>1, <3>2, <3>4
    <3> QED BY <3>3 DEF p
  <2> QED BY <1>4, <2>1, <2>3, <2>5, <2>6
<1> QED BY <1>3, <1>5, <1>6

LEMMA ElemOf ==
  ASSUME NEW h, NEW n \in 0 .. Len(Segs), NEW B, HeapOf(h, n, B), NEW p \in DOMAIN B,
         NEW a, a = FromData(h, p)
  PROVE  /\ a \in BusyOf(h, n) /\ p = PtrOf(h, a) /\ p - 1 \in DOMAIN h.elem
         /\ B[p] \in Nat /\ p + B[p] <= After(h, a) /\ p \in Nat
<1>1. Owned(h, n, B, {})
  BY DEF HeapOf, HeapBut
<1>2. B[p] \in Nat /\ p \in Nat /\ \E b \in BusyOf(h, n) \ {} : p = PtrOf(h, b)
  BY <1>1 DEF Owned, PtrOf
<1>3. PICK b \in BusyOf(h, n) : p = PtrOf(h, b)
  BY <1>2
<1>4. FromData(h, p) = b /\ p - 1 \in DOMAIN h.elem /\ p + B[p] <= After(h, b)
  BY <1>3, ElemOfPtr
<1> QED BY <1>2, <1>3, <1>4

(* A block whose element is busy still, with its padding, is in the same   *)
(* element.                                                                *)
LEMMA ElemStays ==
  ASSUME NEW h, NEW n \in 0 .. Len(Segs), NEW B, HeapOf(h, n, B), NEW p \in DOMAIN B,
         NEW g, NEW m \in 0 .. Len(Segs), NEW C, HeapOf(g, m, C), NEW a, a = FromData(h, p),
         a \in BusyOf(g, m), g.elem[a].pad = h.elem[a].pad
  PROVE  FromData(g, p) = a
<1>1. p = PtrOf(h, FromData(h, p))
  BY ElemOf
<1>2. PtrOf(h, a) = PtrOf(g, a)
  BY DEF PtrOf
<1> QED BY <1>1, <1>2, ElemOfPtr

SocketOf(h, p) == Segs[h.elem[FromData(h, p)].ms].socket_id

(* The counts of the sockets after a block is allocated ...                *)
LEMMA CountAdd ==
  ASSUME NEW h, NEW B, IsFiniteSet(DOMAIN B), NEW g, NEW p, p \notin DOMAIN B, NEW sz,
         \A q \in DOMAIN B : SocketOf(g, q) = SocketOf(h, q), NEW sock
  PROVE  /\ SocketOf(g, p) = sock =>
              Cardinality(OnSocket(g, With(B, p, sz), sock)) = Cardinality(OnSocket(h, B, sock)) + 1
         /\ SocketOf(g, p) # sock =>
              Cardinality(OnSocket(g, With(B, p, sz), sock)) = Cardinality(OnSocket(h, B, sock))
<1> DEFINE S == OnSocket(h, B, sock)
           T == OnSocket(g, With(B, p, sz), sock)
<1>1. S = {q \in DOMAIN B : SocketOf(h, q) = sock}
  BY DEF OnSocket, SocketOf
<1>2. T = {q \in DOMAIN B \cup {p} : SocketOf(g, q) = sock}
  BY DEF OnSocket, SocketOf, With
<1>3. IsFiniteSet(S) /\ p \notin S
  <2>1. S \in SUBSET DOMAIN B
    BY <1>1
  <2> QED BY <2>1, FS_Subset
<1>4. T = IF SocketOf(g, p) = sock THEN S \cup {p} ELSE S
  BY <1>1, <1>2
<1> HIDE DEF S, T
<1>5. Cardinality(S \cup {p}) = Cardinality(S) + 1
  BY <1>3, FS_AddElement
<1> QED BY <1>4, <1>5 DEF S, T

(* ... or freed ...                                                        *)
LEMMA CountDrop ==
  ASSUME NEW h, NEW B, IsFiniteSet(DOMAIN B), NEW g, NEW p \in DOMAIN B,
         \A q \in DOMAIN B \ {p} : SocketOf(g, q) = SocketOf(h, q), NEW sock
  PROVE  /\ SocketOf(h, p) = sock =>
              Cardinality(OnSocket(g, Without(B, {p}), sock)) = Cardinality(OnSocket(h, B, sock)) - 1
         /\ SocketOf(h, p) # sock =>
              Cardinality(OnSocket(g, Without(B, {p}), sock)) = Cardinality(OnSocket(h, B, sock))
<1> DEFINE S == OnSocket(h, B, sock)
           T == OnSocket(g, Without(B, {p}), sock)
<1>1. S = {q \in DOMAIN B : SocketOf(h, q) = sock}
  BY DEF OnSocket, SocketOf
<1>2. T = {q \in DOMAIN B \ {p} : SocketOf(g, q) = sock}
  BY DEF OnSocket, SocketOf, Without
<1>3. IsFiniteSet(S) /\ (p \in S <=> SocketOf(h, p) = sock)
  <2>1. S \in SUBSET DOMAIN B
    BY <1>1
  <2> QED BY <1>1, <2>1, FS_Subset
<1>4. T = S \ {p}
  BY <1>1, <1>2
<1> HIDE DEF S, T
<1>5. Cardinality(S \ {p}) = IF p \in S THEN Cardinality(S) - 1 ELSE Cardinality(S)
  BY <1>3, FS_RemoveElement
<1> QED BY <1>3, <1>4, <1>5 DEF S, T

(* ... or neither.                                                         *)
LEMMA CountSame ==
  ASSUME NEW h, NEW B, NEW g, NEW C, DOMAIN C = DOMAIN B,
         \A q \in DOMAIN B : SocketOf(g, q) = SocketOf(h, q), NEW sock
  PROVE  OnSocket(g, C, sock) = OnSocket(h, B, sock)
<1>1. OnSocket(h, B, sock) = {q \in DOMAIN B : SocketOf(h, q) = sock}
  BY DEF OnSocket, SocketOf
<1>2. OnSocket(g, C, sock) = {q \in DOMAIN C : SocketOf(g, q) = sock}
  BY DEF OnSocket, SocketOf
<1> QED BY <1>1, <1>2

(* The block is in the same element, whose header has not changed but for  *)
(* the way back.                                                           *)
Steady(h, g, m, q) ==
  LET a == FromData(h, q)
  IN /\ FromData(g, q) = a /\ a \in BusyOf(g, m)
     /\ g.elem[a].size = h.elem[a].size /\ g.elem[a].pad = h.elem[a].pad
     /\ g.elem[a].ms = h.elem[a].ms

LEMMA SteadySocket ==
  ASSUME NEW h, NEW g, NEW m, NEW q, Steady(h, g, m, q)
  PROVE  SocketOf(g, q) = SocketOf(h, q)
BY DEF Steady, SocketOf

LEMMA KeepsSteady ==
  ASSUME NEW h, NEW n \in 0 .. Len(Segs), NEW B, HeapOf(h, n, B), NEW g, NEW C, HeapOf(g, n, C),
         NEW E, NEW F, Keeps(h, g, n, E, F), NEW q \in DOMAIN B, FromData(h, q) \notin E
  PROVE  Steady(h, g, n, q)
<1> DEFINE a == FromData(h, q)
<1>1. a \in BusyOf(h, n)
  BY ElemOf
<1> HIDE DEF a
<1>2. a \in BusyOf(h, n) \ E
  BY <1>1 DEF a
<1>3. a \in BusyOf(g, n) \ F
  BY <1>2 DEF Keeps
<1>4. /\ g.elem[a].size = h.elem[a].size /\ g.elem[a].pad = h.elem[a].pad
      /\ g.elem[a].ms = h.elem[a].ms /\ a \in BusyOf(g, n)
  BY <1>2, <1>3 DEF Keeps
<1>5. FromData(g, q) = a
  BY <1>4, ElemStays DEF a
<1> QED BY <1>4, <1>5 DEF Steady, a

Allocated(h, g, n, B, p, sz, ms) ==
  /\ HeapOf(g, n, With(B, p, sz)) /\ p \notin DOMAIN B
  /\ \A q \in DOMAIN B : Steady(h, g, n, q)
  /\ FromData(g, p) \in BusyOf(g, n) /\ g.elem[FromData(g, p)].ms = ms
  /\ g.elem[p - 1].ms = ms

LEMMA AllocBlocks ==
  ASSUME NEW h, NEW n \in 0 .. Len(Segs), NEW B, HeapOf(h, n, B), NEW g, NEW a, NEW new \in Nat,
         NEW sz, Filled(h, g, n, B, a, new, sz)
  PROVE  Allocated(h, g, n, B, new + 1, sz, h.elem[a].ms)
<1> DEFINE p == new + 1
           C == With(B, p, sz)
           ms == h.elem[a].ms
<1>1. HeapOf(g, n, C) /\ p \notin DOMAIN B /\ new \in DOMAIN g.elem /\ g.elem[new].ms = ms
  BY DEF Filled
<1>2. PICK e \in BusyOf(g, n) \ BusyOf(h, n) :
        Keeps(h, g, n, {}, {e}) /\ new = e + g.elem[e].pad /\ g.elem[e].ms = ms
  BY DEF Filled
<1> HIDE DEF C, ms
<1>3. \A q \in DOMAIN B : Steady(h, g, n, q)
  <2>1. SUFFICES ASSUME NEW q \in DOMAIN B PROVE Steady(h, g, n, q)
    OBVIOUS
  <2>2. FromData(h, q) \notin {}
    OBVIOUS
  <2> QED BY <1>1, <1>2, <2>2, KeepsSteady
<1>4. FromData(g, p) = e
  <2>1. p = PtrOf(g, e)
    BY <1>2 DEF PtrOf
  <2>2. FromData(g, PtrOf(g, e)) = e
    BY <1>1, <1>2, ElemOfPtr
  <2> QED BY <2>1, <2>2
<1>5. p - 1 = new
  OBVIOUS
<1> QED BY <1>1, <1>2, <1>3, <1>4, <1>5 DEF Allocated, C, ms

LEMMA FreeBlocks ==
  ASSUME NEW h, NEW n \in 0 .. Len(Segs), NEW B, HeapOf(h, n, B), NEW p \in DOMAIN B,
         NEW g, g = ElemFree(h, FromData(h, p))
  PROVE  HeapOf(g, n, Without(B, {p})) /\ \A q \in DOMAIN B \ {p} : Steady(h, g, n, q)
<1> DEFINE a == FromData(h, p)
           C == Without(B, {p})
<1>1. a \in BusyOf(h, n) /\ p = PtrOf(h, a)
  BY ElemOf
<1> HIDE DEF a
<1>2. p = a + h.elem[a].pad + 1 /\ g = ElemFree(h, a)
  BY <1>1 DEF PtrOf, a
<1>3. HeapOf(g, n, C) /\ Keeps(h, g, n, {a}, {})
  BY <1>1, <1>2, FreeHeap
<1> HIDE DEF C
<1>4. ASSUME NEW q \in DOMAIN B \ {p}
      PROVE  Steady(h, g, n, q)
  <2>1. q = PtrOf(h, FromData(h, q))
    BY ElemOf
  <2>2. FromData(h, q) \notin {a}
    BY <1>1, <2>1
  <2> QED BY <1>3, <2>2, KeepsSteady
<1> QED BY <1>3, <1>4 DEF C

ResizedTo(h, g, B, C, p, size) ==
  /\ size \in Nat /\ CanResize(h, FromData(h, p), size) /\ C = [B EXCEPT ![p] = size]
  /\ g = Write(Resize(h, FromData(h, p), size), Lines(p, size))

StillOwned(h, g, n, B, C, p) ==
  /\ HeapOf(g, n, C) /\ \A q \in DOMAIN B \ {p} : Steady(h, g, n, q)
  /\ SocketOf(g, p) = SocketOf(h, p)

LEMMA ResizeBlocks ==
  ASSUME NEW h, NEW n \in 0 .. Len(Segs), NEW B, HeapOf(h, n, B), NEW p \in DOMAIN B,
         NEW size, NEW g, NEW C, ResizedTo(h, g, B, C, p, size)
  PROVE  StillOwned(h, g, n, B, C, p)
<1> DEFINE a == FromData(h, p)
<1>1. a \in BusyOf(h, n) /\ p = PtrOf(h, a)
  BY ElemOf
<1> HIDE DEF a
<1>2. p = a + h.elem[a].pad + 1 /\ g = Write(Resize(h, a, size), Lines(p, size)) /\ CanResize(h, a, size)
      /\ size \in Nat
  BY <1>1 DEF PtrOf, ResizedTo, a
<1>3. Resized(h, g, n, C, a)
  BY <1>1, <1>2, ResizeHeap DEF ResizedTo
<1>4. /\ HeapOf(g, n, C) /\ Keeps(h, g, n, {a}, {a}) /\ a \in BusyOf(g, n)
      /\ g.elem[a].pad = h.elem[a].pad /\ g.elem[a].ms = h.elem[a].ms
  BY <1>3 DEF Resized
<1>5. ASSUME NEW q \in DOMAIN B \ {p}
      PROVE  Steady(h, g, n, q)
  <2>1. q = PtrOf(h, FromData(h, q))
    BY ElemOf
  <2>2. FromData(h, q) \notin {a}
    BY <1>1, <2>1
  <2> QED BY <1>4, <2>2, KeepsSteady
<1>6. FromData(g, p) = a
  BY <1>4, ElemStays DEF a
<1> QED BY <1>4, <1>5, <1>6 DEF SocketOf, StillOwned, a

LEMMA AddBlocks ==
  ASSUME NEW h, NEW n \in 0 .. Len(Segs), NEW B, HeapOf(h, n, B),
         NEW ms \in 1 .. Len(Segs), ms = n + 1, NEW k, Seeded(h, k, ms),
         NEW g, g = Insert(k, Segs[ms].addr)
  PROVE  HeapOf(g, ms, B) /\ \A q \in DOMAIN B : Steady(h, g, ms, q)
<1>1. /\ HeapOf(g, ms, B) /\ BusyOf(g, ms) = BusyOf(h, n)
      /\ \A a \in BusyOf(h, n) : g.elem[a] = h.elem[a]
  BY AddHeap
<1>2. ASSUME NEW q \in DOMAIN B
      PROVE  Steady(h, g, ms, q)
  <2> DEFINE a == FromData(h, q)
  <2>1. a \in BusyOf(h, n)
    BY ElemOf
  <2>2. a \in BusyOf(g, ms) /\ g.elem[a] = h.elem[a] /\ ms \in 0 .. Len(Segs)
    BY <1>1, <2>1
  <2>4. /\ HeapOf(g, ms, B) /\ FromData(h, q) \in BusyOf(g, ms) /\ ms \in 0 .. Len(Segs)
        /\ g.elem[FromData(h, q)].pad = h.elem[FromData(h, q)].pad
    BY <1>1, <2>2
  <2>3. FromData(g, q) = a
    BY <2>4, ElemStays
  <2> QED BY <2>2, <2>3 DEF Steady
<1> QED BY <1>1, <1>2

LEMMA CountedAdd ==
  ASSUME NEW h, NEW n, NEW B, IsFiniteSet(DOMAIN B), NEW g, NEW p, NEW sz, NEW ms,
         Allocated(h, g, n, B, p, sz, ms), NEW count, Counted(h, B, count),
         NEW sock \in Sockets, Segs[ms].socket_id = sock
  PROVE  Counted(g, With(B, p, sz), [count EXCEPT ![sock] = @ + 1])
<1>1. p \notin DOMAIN B /\ \A q \in DOMAIN B : SocketOf(g, q) = SocketOf(h, q)
  BY SteadySocket DEF Allocated
<1>2. SocketOf(g, p) = sock
  BY DEF SocketOf, Allocated
<1>3. ASSUME NEW s \in Sockets
      PROVE  [count EXCEPT ![sock] = @ + 1][s] = Cardinality(OnSocket(g, With(B, p, sz), s))
  <2>1. count[s] = Cardinality(OnSocket(h, B, s)) /\ s \in DOMAIN count
    BY DEF Counted
  <2>2. /\ SocketOf(g, p) = s =>
             Cardinality(OnSocket(g, With(B, p, sz), s)) = Cardinality(OnSocket(h, B, s)) + 1
        /\ SocketOf(g, p) # s =>
             Cardinality(OnSocket(g, With(B, p, sz), s)) = Cardinality(OnSocket(h, B, s))
    BY <1>1, CountAdd
  <2> QED BY <1>2, <2>1, <2>2
<1> QED BY <1>3 DEF Counted

LEMMA CountedDrop ==
  ASSUME NEW h, NEW n, NEW B, IsFiniteSet(DOMAIN B), NEW g, NEW p \in DOMAIN B,
         \A q \in DOMAIN B \ {p} : Steady(h, g, n, q), NEW count, Counted(h, B, count),
         NEW sock, SocketOf(h, p) = sock
  PROVE  Counted(g, Without(B, {p}), [count EXCEPT ![sock] = @ - 1])
<1>1. \A q \in DOMAIN B \ {p} : SocketOf(g, q) = SocketOf(h, q)
  BY SteadySocket
<1>2. ASSUME NEW s \in Sockets
      PROVE  [count EXCEPT ![sock] = @ - 1][s] = Cardinality(OnSocket(g, Without(B, {p}), s))
  <2>1. count[s] = Cardinality(OnSocket(h, B, s)) /\ s \in DOMAIN count
    BY DEF Counted
  <2>2. /\ SocketOf(h, p) = s =>
             Cardinality(OnSocket(g, Without(B, {p}), s)) = Cardinality(OnSocket(h, B, s)) - 1
        /\ SocketOf(h, p) # s =>
             Cardinality(OnSocket(g, Without(B, {p}), s)) = Cardinality(OnSocket(h, B, s))
    BY <1>1, CountDrop
  <2> QED BY <2>1, <2>2
<1> QED BY <1>2 DEF Counted

LEMMA CountedSame ==
  ASSUME NEW h, NEW B, NEW g, NEW C, DOMAIN C = DOMAIN B, NEW count, Counted(h, B, count),
         \A q \in DOMAIN B : SocketOf(g, q) = SocketOf(h, q)
  PROVE  Counted(g, C, count)
<1>1. \A s \in Sockets : OnSocket(g, C, s) = OnSocket(h, B, s)
  BY CountSame
<1> QED BY <1>1 DEF Counted

-----------------------------------------------------------------------------
(* find_suitable_element.                                                  *)
LEMMA LeastNat ==
  ASSUME NEW S \in SUBSET Nat, S # {}
  PROVE  \E x \in S : \A y \in S : x <= y
<1> DEFINE R == OpToRel(<, Nat)
<1>1. IsWellFoundedOn(R, Nat)
  BY NatLessThanWellFounded, Zenon
<1>2. R = {ss \in Nat \X Nat : ss[1] < ss[2]}
  BY DEF OpToRel
<1> HIDE DEF R
<1>3. \E x \in S : \A y \in S : ~(<<y, x>> \in R)
  BY <1>1, WFMin
<1>4. PICK x \in S : \A y \in S : ~(<<y, x>> \in R)
  BY <1>3
<1>5. ASSUME NEW y \in S PROVE x <= y
  <2>1. x \in Nat /\ y \in Nat /\ <<y, x>> \in Nat \X Nat
    OBVIOUS
  <2>2. ~(y < x)
    BY <1>2, <1>4, <2>1
  <2> QED BY <2>1, <2>2
<1> QED BY <1>5

LEMMA FirstIs ==
  ASSUME NEW S, S \subseteq Nat \X Nat, S # {}
  PROVE  First(S) \in S
<1> DEFINE A == {p[1] : p \in S}
<1>1. A \in SUBSET Nat /\ A # {}
  OBVIOUS
<1>2. PICK x \in A : \A y \in A : x <= y
  <2> HIDE DEF A
  <2> QED BY <1>1, LeastNat
<1> DEFINE T == {p \in S : p[1] = x}
           D == {p[2] : p \in T}
<1>3. D \in SUBSET Nat /\ D # {}
  OBVIOUS
<1>4. PICK z \in D : \A y \in D : z <= y
  <2> HIDE DEF D
  <2> QED BY <1>3, LeastNat
<1>5. PICK p \in T : p[2] = z
  OBVIOUS
<1>6. \A q \in S : Before(p, q)
  <2>1. SUFFICES ASSUME NEW q \in S PROVE Before(p, q)
    OBVIOUS
  <2>2. p[1] = x /\ x \in Nat /\ q[1] \in Nat /\ x <= q[1]
    BY <1>1, <1>2, <1>5
  <2>3. q[1] = x => p[2] <= q[2]
    BY <1>4, <1>5
  <2> QED BY <2>2, <2>3 DEF Before
<1>7. p \in S
  BY <1>5, Zenon
<1> HIDE DEF T, D, A
<1> QED BY <1>6, <1>7 DEF First

(* What is on the lists of a socket.                                       *)
LEMMA OnList ==
  ASSUME NEW h, NEW n \in 0 .. Len(Segs), NEW B, HeapOf(h, n, B), NEW sock \in Sockets,
         NEW k \in Lists, NEW i \in 1 .. Len(h.free_head[sock][k])
  PROVE  /\ h.free_head[sock][k][i] \in FreeOf(h)
         /\ sock = Segs[h.elem[h.free_head[sock][k][i]].ms].socket_id
         /\ k = FreeListIndex(h.elem[h.free_head[sock][k][i]].size - HEADER_LEN)
<1>1. Listed(h, FreeOf(h) \ {}) /\ Typed(h, n)
  BY DEF HeapOf, HeapBut, Tiled
<1>2. h.free_head[sock][k] \in Seq(Nat)
  BY <1>1 DEF Typed
<1>3. i \in DOMAIN h.free_head[sock][k]
  BY <1>2
<1>4. Belongs(h, FreeOf(h) \ {}, sock, k, h.free_head[sock][k][i])
  BY <1>1, <1>3, Zenon DEF Listed
<1> QED BY <1>4, Zenon DEF Belongs

Suits(h, sock, r, a) ==
  /\ a \in FreeOf(h) /\ CanHold(h, a, r) /\ Segs[h.elem[a].ms].socket_id = sock

LEMMA SeenIs ==
  ASSUME NEW h, NEW n \in 0 .. Len(Segs), NEW B, HeapOf(h, n, B), NEW sock \in Sockets,
         NEW r, NEW p \in Seen(h, sock, r)
  PROVE  p \in Nat \X Nat /\ Suits(h, sock, r, At(h, sock, p))
<1> DEFINE lo == FreeListIndex(r.size)
           len == Cardinality(DOMAIN h.elem)
<1>1. lo \in Nat /\ NumLists \in Nat /\ len \in Nat
  <2>1. lo \in Lists /\ NumLists \in Nat
    BY IndexType, MallocAssumption
  <2>2. IsFiniteSet(DOMAIN h.elem)
    BY DEF HeapOf, HeapBut, Tiled, Typed
  <2> QED BY <2>1, <2>2, FS_CardinalityType DEF Lists
<1>2. /\ p \in (lo .. NumLists - 1) \X (1 .. len)
      /\ p[2] <= Len(h.free_head[sock][p[1]]) /\ CanHold(h, At(h, sock, p), r)
  BY DEF Seen
<1> HIDE DEF lo, len
<1>3. p \in Nat \X Nat /\ p[1] \in Lists /\ p[2] \in Nat /\ p[2] >= 1
  BY <1>1, <1>2 DEF Lists
<1>4. h.free_head[sock][p[1]] \in Seq(Nat)
  BY <1>3 DEF HeapOf, HeapBut, Tiled, Typed
<1>5. p[2] \in 1 .. Len(h.free_head[sock][p[1]])
  BY <1>2, <1>3, <1>4
<1>6. /\ h.free_head[sock][p[1]][p[2]] \in FreeOf(h)
      /\ sock = Segs[h.elem[h.free_head[sock][p[1]][p[2]]].ms].socket_id
  <2> DEFINE k == p[1]
             i == p[2]
  <2>1. k \in Lists /\ i \in 1 .. Len(h.free_head[sock][k])
    BY <1>3, <1>5
  <2> HIDE DEF k, i
  <2>2. Listed(h, FreeOf(h) \ {}) /\ h.free_head[sock][k] \in Seq(Nat)
    BY <2>1 DEF HeapOf, HeapBut, Tiled, Typed
  <2>3. i \in DOMAIN h.free_head[sock][k]
    BY <2>1, <2>2
  <2>4. Belongs(h, FreeOf(h) \ {}, sock, k, h.free_head[sock][k][i])
    BY <2>1, <2>2, <2>3 DEF Listed
  <2> QED BY <2>4, Zenon DEF Belongs, k, i
<1> QED BY <1>2, <1>3, <1>6, Zenon DEF Suits, At

LEMMA FoundIs ==
  ASSUME NEW h, NEW n \in 0 .. Len(Segs), NEW B, HeapOf(h, n, B), NEW sock \in Sockets,
         NEW r, NEW a, a = FindSuitable(h, sock, r), a # NULL
  PROVE  Suits(h, sock, r, a) /\ (r.flags.hint \/ PageFits(r, h.elem[a].ms))
<1> DEFINE holds == Seen(h, sock, r)
           right == {p \in holds : PageFits(r, h.elem[At(h, sock, p)].ms)}
<1>1. a = IF right # {} THEN At(h, sock, First(right))
          ELSE IF r.flags.hint /\ holds # {} THEN At(h, sock, First(holds))
          ELSE NULL
  BY DEF FindSuitable
<1>2. holds \subseteq Nat \X Nat /\ \A p \in holds : Suits(h, sock, r, At(h, sock, p))
  BY SeenIs
<1>3. right \subseteq holds /\ \A p \in right : PageFits(r, h.elem[At(h, sock, p)].ms)
  OBVIOUS
<1> HIDE DEF holds, right
<1>4. CASE right # {}
  <2>1. First(right) \in right
    BY <1>2, <1>3, <1>4, FirstIs
  <2> QED BY <1>1, <1>2, <1>3, <1>4, <2>1
<1>5. CASE right = {} /\ r.flags.hint /\ holds # {}
  <2>1. First(holds) \in holds
    BY <1>2, <1>5, FirstIs
  <2> QED BY <1>1, <1>2, <1>5, <2>1
<1> QED BY <1>1, <1>4, <1>5

-----------------------------------------------------------------------------
(* The calls of the threads.                                               *)
LEMMA CallsFrame ==
  ASSUME NEW C, NEW B, CallsOf(C, B), NEW D,
         \A t \in Threads : C[t] # Idle /\ C[t].from \in DOMAIN B => C[t].from \in DOMAIN D
  PROVE  CallsOf(C, D)
<1>1. ASSUME NEW t \in Threads PROVE CallOf(C[t], D)
  <2>1. CallOf(C[t], B)
    BY DEF CallsOf
  <2> QED BY <2>1 DEF CallOf
<1> QED BY <1>1 DEF CallsOf

LEMMA CallsSet ==
  ASSUME NEW C, NEW B, CallsOf(C, B), NEW t \in Threads, NEW c, CallOf(c, B),
         c # Idle /\ c.from # NULL => \A u \in Threads \ {t} : C[u] # Idle => C[u].from # c.from
  PROVE  CallsOf([C EXCEPT ![t] = c], B)
<1> DEFINE D == [C EXCEPT ![t] = c]
<1>1. DOMAIN D = Threads /\ D[t] = c /\ \A u \in Threads \ {t} : D[u] = C[u]
  BY DEF CallsOf
<1> HIDE DEF D
<1>2. \A u \in Threads : CallOf(D[u], B)
  BY <1>1 DEF CallsOf
<1>3. ASSUME NEW u \in Threads, NEW v \in Threads, D[u] # Idle, D[v] # Idle, u # v
      PROVE  D[u].from # D[v].from \/ D[u].from = NULL
  <2>1. CASE u = t
    BY <1>1, <1>3, <2>1
  <2>2. CASE v = t
    BY <1>1, <1>3, <2>2
  <2>3. CASE u # t /\ v # t
    BY <1>1, <1>3, <2>3 DEF CallsOf
  <2> QED BY <2>1, <2>2, <2>3
<1>4. CallsOf(D, B)
  BY <1>1, <1>2, <1>3 DEF CallsOf
<1> QED BY <1>4 DEF D

(* A call that keeps what it moves is as good as before.                   *)
LEMMA CallsKeep ==
  ASSUME NEW C, NEW B, CallsOf(C, B), NEW t \in Threads, NEW c, CallOf(c, B),
         c # Idle => C[t] # Idle /\ c.from = C[t].from
  PROVE  CallsOf([C EXCEPT ![t] = c], B)
<1>1. ASSUME c # Idle /\ c.from # NULL, NEW u \in Threads \ {t}, C[u] # Idle
      PROVE  C[u].from # c.from
  BY <1>1 DEF CallsOf
<1> QED BY <1>1, CallsSet

LEMMA OrdersAre ==
  ASSUME NEW socks \in Orders \cup {<<s>> : s \in Sockets}
  PROVE  socks \in Seq(Sockets) /\ socks # <<>>
<1>1. Len(Segs) \in Nat /\ Len(Segs) > 0 /\ DOMAIN Segs = 1 .. Len(Segs)
  BY MallocAssumption
<1> DEFINE f == [s \in DOMAIN Segs |-> Segs[s].socket_id]
<1>2. f \in Surjection(DOMAIN Segs, Sockets)
  BY DEF Surjection, Sockets
<1>3. IsFiniteSet(DOMAIN Segs)
  BY <1>1, FS_Interval
<1>4. IsFiniteSet(Sockets)
  <2> HIDE DEF f
  <2> QED BY <1>2, <1>3, FS_Surjection
<1>5. Sockets # {}
  <2>1. 1 \in DOMAIN Segs
    BY <1>1
  <2> QED BY <2>1 DEF Sockets
<1>6. Cardinality(Sockets) \in Nat /\ Cardinality(Sockets) # 0
  BY <1>4, <1>5, FS_CardinalityType, FS_EmptySet
<1>7. CASE socks \in Orders
  <2> DEFINE k == Cardinality(Sockets)
  <2>1. socks \in [1 .. k -> Sockets] /\ k \in Nat /\ k # 0
    BY <1>6, <1>7 DEF Orders
  <2> HIDE DEF k
  <2>2. socks \in Seq(Sockets) /\ Len(socks) = k
    BY <2>1
  <2> QED BY <2>1, <2>2
<1>8. CASE socks \in {<<s>> : s \in Sockets}
  <2>1. PICK s \in Sockets : socks = <<s>>
    BY <1>8
  <2>2. socks \in Seq(Sockets)
    BY <2>1
  <2>3. socks # <<>>
    BY <2>1
  <2> QED BY <2>2, <2>3
<1> QED BY <1>7, <1>8

-----------------------------------------------------------------------------
(* The steps.  Each keeps the invariant, and says what becomes of the      *)
(* blocks.                                                                 *)
LEMMA MemFacts ==
  ASSUME MemInv
  PROVE  /\ segs \in 0 .. Len(Segs) /\ HeapOf(mem, segs, block) /\ Typed(mem, segs)
         /\ Counted(mem, block, alloc_count) /\ IsFiniteSet(DOMAIN block) /\ DOMAIN block \subseteq Nat
         /\ Len(Segs) \in Nat /\ segs \in Nat
<1>1. segs \in 0 .. Len(Segs) /\ HeapOf(mem, segs, block) /\ Counted(mem, block, alloc_count)
  BY DEF MemInv
<1>2. Typed(mem, segs) /\ Owned(mem, segs, block, {})
  BY <1>1 DEF HeapOf, HeapBut, Tiled
<1> QED BY <1>1, <1>2, MallocAssumption DEF Owned

LEMMA AddStep ==
  ASSUME MemInv, AddMemseg
  PROVE  MemInv' /\ \A q \in DOMAIN block : Steady(mem, mem', segs', q)
<1> DEFINE ms == segs + 1
           h1 == InitElem(mem, Segs[ms].addr, ms, EndElem(ms) - Segs[ms].addr)
           h2 == InitElem(h1, EndElem(ms), ms, 0)
           h3 == [h2 EXCEPT !.elem[EndElem(ms)].prev = Segs[ms].addr, !.elem[EndElem(ms)].state = "BUSY"]
<1>1. /\ segs < Len(Segs) /\ mem' = Insert(h3, Segs[ms].addr) /\ segs' = ms
      /\ alloc_count' = alloc_count /\ block' = block
  BY DEF AddMemseg
<1>2. ms \in 1 .. Len(Segs) /\ ms \in 0 .. Len(Segs)
  BY <1>1, MemFacts
<1>3. Seeded(mem, h3, ms)
  <2> HIDE DEF ms
  <2> QED BY <1>2, SeedIs, MemFacts, Zenon
<1> HIDE DEF h3
<1>4. HeapOf(mem', ms, block) /\ \A q \in DOMAIN block : Steady(mem, mem', ms, q)
  BY <1>1, <1>2, <1>3, AddBlocks, MemFacts
<1>5. \A q \in DOMAIN block : SocketOf(mem', q) = SocketOf(mem, q)
  BY <1>4, SteadySocket
<1>6. Counted(mem', block, alloc_count)
  BY <1>5, CountedSame, MemFacts
<1> QED BY <1>1, <1>2, <1>4, <1>6 DEF MemInv

(* The block that malloc_heap_alloc makes.                                 *)
Served(h, g, n, B, r, sock, p) ==
  /\ \E ms : /\ Allocated(h, g, n, B, p, r.size, ms) /\ Segs[ms].socket_id = sock
             /\ r.flags.hint \/ PageFits(r, ms)
  /\ \A x \in Lines(p, r.size) : x \notin h.dirty
  /\ p % r.align = 0 /\ SameBound(p, p + r.size - 1, r.bound)

LEMMA AllocStep ==
  ASSUME MemInv, NEW t \in Threads, CallOf(call[t], block), call[t] # Idle, HeapAlloc(t)
  PROVE  /\ MemInv'
         /\ \E p : /\ Served(mem, mem', segs, block, call[t].req, Head(call[t].socks), p)
                   /\ block' = With(block, p, call[t].req.size)
<1> DEFINE r == call[t].req
           sock == Head(call[t].socks)
           a == FindSuitable(mem, sock, r)
           new == StartPt(mem, a, r)
           p == new + 1
<1>1. /\ call[t].op = "malloc" /\ a # NULL /\ segs' = segs
      /\ mem' = Write(ElemAlloc(mem, a, r), Lines(p, r.size))
      /\ alloc_count' = [alloc_count EXCEPT ![sock] = @ + 1]
      /\ block' = With(block, p, r.size)
  BY DEF HeapAlloc, Write
<1>2. Requested(r) /\ sock \in Sockets
  <2>1. Requested(r) /\ call[t].socks \in Seq(Sockets) /\ call[t].socks # <<>>
    BY <1>1 DEF CallOf
  <2> QED BY <2>1
<1> HIDE DEF r, sock, a
<1>3. Suits(mem, sock, r, a) /\ (r.flags.hint \/ PageFits(r, mem.elem[a].ms))
  BY <1>1, <1>2, FoundIs, MemFacts DEF a
<1>4. a \in FreeOf(mem) /\ new # -1 /\ Segs[mem.elem[a].ms].socket_id = sock
  BY <1>3 DEF Suits, CanHold
<1>5. a \in Nat /\ After(mem, a) \in Nat
  <2>1. a \in DOMAIN mem.elem
    BY <1>4 DEF FreeOf, ElemsOf
  <2> QED BY <2>1, Header, MemFacts
<1>6. new \in Nat /\ p % r.align = 0 /\ SameBound(p, p + r.size - 1, r.bound)
  BY <1>2, <1>4, <1>5, StartPtIs
<1>7. /\ Filled(mem, mem', segs, block, a, new, r.size)
      /\ \A x \in Lines(p, r.size) : x \notin mem.dirty
  BY <1>1, <1>2, <1>4, AllocHeap, MemFacts
<1> HIDE DEF new
<1>8. Allocated(mem, mem', segs, block, p, r.size, mem.elem[a].ms)
  BY <1>6, <1>7, AllocBlocks, MemFacts
<1> HIDE DEF p
<1>9. Counted(mem', block', alloc_count')
  BY <1>1, <1>2, <1>4, <1>8, CountedAdd, MemFacts
<1>10. MemInv'
  <2>1. HeapOf(mem', segs, With(block, p, r.size))
    BY <1>8 DEF Allocated
  <2> QED BY <1>1, <1>9, <2>1, MemFacts DEF MemInv
<1>11. Served(mem, mem', segs, block, r, sock, p)
  BY <1>3, <1>4, <1>6, <1>7, <1>8 DEF Served
<1> QED BY <1>1, <1>10, <1>11 DEF r, sock

LEMMA FreeStep ==
  ASSUME MemInv, NEW p \in DOMAIN block, FreeBlock(p), segs' = segs
  PROVE  /\ MemInv' /\ block' = Without(block, {p})
         /\ \A q \in DOMAIN block \ {p} : Steady(mem, mem', segs, q)
<1> DEFINE sock == SocketOf(mem, p)
<1>1. /\ mem' = ElemFree(mem, FromData(mem, p)) /\ block' = Without(block, {p})
      /\ alloc_count' = [alloc_count EXCEPT ![sock] = @ - 1]
  BY DEF FreeBlock, SocketOf
<1>2. /\ HeapOf(mem', segs, Without(block, {p}))
      /\ \A q \in DOMAIN block \ {p} : Steady(mem, mem', segs, q)
  BY <1>1, FreeBlocks, MemFacts
<1>3. Counted(mem', block', alloc_count')
  BY <1>1, <1>2, CountedDrop, MemFacts
<1> QED BY <1>1, <1>2, <1>3, MemFacts DEF MemInv

LEMMA ReallocStep ==
  ASSUME MemInv, NEW t \in Threads, NEW p \in DOMAIN block, NEW z \in Resizes, Realloc(t, p, z)
  PROVE  /\ MemInv' /\ block' = [block EXCEPT ![p] = z.size] /\ segs' = segs
         /\ \A q \in DOMAIN block \ {p} : Steady(mem, mem', segs, q)
         /\ SocketOf(mem', p) = SocketOf(mem, p)
<1>1. /\ mem' = Write(Resize(mem, FromData(mem, p), z.size), Lines(p, z.size))
      /\ block' = [block EXCEPT ![p] = z.size] /\ segs' = segs /\ alloc_count' = alloc_count
      /\ CanResize(mem, FromData(mem, p), z.size)
  BY DEF Realloc, InPlace, Write
<1>2. z.size \in Nat
  BY MallocAssumption
<1>3. /\ HeapOf(mem', segs, [block EXCEPT ![p] = z.size])
      /\ \A q \in DOMAIN block \ {p} : Steady(mem, mem', segs, q)
      /\ SocketOf(mem', p) = SocketOf(mem, p)
  <2> DEFINE size == z.size
             C == [block EXCEPT ![p] = size]
  <2>1. ResizedTo(mem, mem', block, C, p, size)
    BY <1>1, <1>2 DEF ResizedTo
  <2> HIDE DEF size, C
  <2>2. segs \in 0 .. Len(Segs) /\ HeapOf(mem, segs, block)
    BY MemFacts
  <2>3. StillOwned(mem, mem', segs, block, C, p)
    BY <2>1, <2>2, ResizeBlocks
  <2> QED BY <2>3 DEF size, C, StillOwned
<1>4. \A q \in DOMAIN block : SocketOf(mem', q) = SocketOf(mem, q)
  BY <1>3, SteadySocket
<1>5. Counted(mem', block', alloc_count')
  <2>1. DOMAIN block' = DOMAIN block
    BY <1>1
  <2> QED BY <1>1, <1>4, <2>1, CountedSame, MemFacts
<1> QED BY <1>1, <1>3, <1>5, MemFacts DEF MemInv

LEMMA InitInv ==
  ASSUME Init
  PROVE  HeapInv
<1>1. /\ mem = [elem |-> [a \in {} |-> Idle],
                free_head |-> [s \in Sockets |-> [k \in Lists |-> <<>>]], dirty |-> {}]
      /\ segs = 0 /\ alloc_count = [s \in Sockets |-> 0] /\ block = [a \in {} |-> 0]
      /\ call = [t \in Threads |-> Idle]
  BY DEF Init
<1>2. /\ DOMAIN mem = {"elem", "free_head", "dirty"} /\ DOMAIN mem.elem = {} /\ mem.dirty = {}
      /\ mem.free_head = [s \in Sockets |-> [k \in Lists |-> <<>>]] /\ DOMAIN block = {}
  BY <1>1
<1>3. segs = 0 /\ segs \in 0 .. Len(Segs) /\ \A s : s \notin 1 .. segs
  BY <1>1, MallocAssumption
<1>4. mem.free_head \in [Sockets -> [Lists -> Seq(Nat)]]
  BY <1>2
<1>5. IsFiniteSet({})
  BY FS_EmptySet
<1>6. ElemsOf(mem) = {} /\ FreeOf(mem) = {} /\ BusyOf(mem, segs) = {}
  BY <1>2 DEF ElemsOf, FreeOf, BusyOf
<1>7. Tiled(mem, segs)
  <2>1. Typed(mem, segs)
    BY <1>2, <1>4, <1>5 DEF Typed
  <2>2. Bordered(mem, segs)
    BY <1>3 DEF Bordered
  <2> QED BY <1>6, <2>1, <2>2 DEF Tiled
<1>8. Listed(mem, FreeOf(mem) \ {})
  <2>1. \A sock \in Sockets, k \in Lists : mem.free_head[sock][k] = <<>>
    BY <1>2
  <2>2. \A i : i \notin DOMAIN <<>>
    OBVIOUS
  <2> QED BY <1>6, <2>1, <2>2 DEF Listed, OnceEach
<1>9. Padded(mem, segs, {}) /\ Clean(mem, FreeOf(mem) \ {}) /\ Apart(mem, {})
  BY <1>2, <1>6 DEF Padded, Clean, Apart
<1>10. Owned(mem, segs, block, {})
  BY <1>2, <1>5, <1>6 DEF Owned
<1>11. HeapOf(mem, segs, block)
  BY <1>2, <1>6, <1>7, <1>8, <1>9, <1>10 DEF HeapOf, HeapBut
<1>12. Counted(mem, block, alloc_count)
  <2>1. \A sock : OnSocket(mem, block, sock) = {}
    BY <1>2 DEF OnSocket
  <2>2. Cardinality({}) = 0
    BY FS_EmptySet
  <2> QED BY <1>1, <2>1, <2>2 DEF Counted
<1>13. CallsOf(call, block)
  BY <1>1 DEF CallsOf, CallOf
<1> QED BY <1>3, <1>11, <1>12, <1>13 DEF HeapInv, MemInv

LEMMA NotIdle ==
  ASSUME NEW c, c.op # "idle"
  PROVE  c # Idle
BY DEF Idle

LEMMA Moved ==
  ASSUME NEW p \in Usable, NEW u \in Threads, call[u] # Idle
  PROVE  call[u].from # p
BY DEF Usable

LEMMA MallocCalls ==
  ASSUME HeapInv, NEW t \in Threads, NEW r, Requested(r), NEW socks \in Seq(Sockets), socks # <<>>,
         NEW c, c = [op |-> "malloc", req |-> r, socks |-> socks, from |-> NULL],
         call' = [call EXCEPT ![t] = c]
  PROVE  CallsOf(call', block)
<1>1. c.op = "malloc" /\ c.req = r /\ c.socks = socks /\ c.from = NULL
  OBVIOUS
<1>2. c # Idle
  BY <1>1, NotIdle
<1>3. CallOf(c, block)
  BY <1>1, <1>2 DEF CallOf
<1> QED BY <1>1, <1>3, CallsSet DEF HeapInv

LEMMA AllocCalls ==
  ASSUME HeapInv, NEW t \in Threads, call[t] # Idle, HeapAlloc(t)
  PROVE  CallsOf(call', block')
<1> DEFINE c == IF call[t].from = NULL THEN Idle ELSE [op |-> "free", from |-> call[t].from]
           p == StartPt(mem, FindSuitable(mem, Head(call[t].socks), call[t].req), call[t].req) + HEADER_LEN
<1>1. CallsOf(call, block) /\ CallOf(call[t], block) /\ t \in DOMAIN call
  BY DEF HeapInv, CallsOf
<1>2. /\ call[t].op = "malloc" /\ call' = [call EXCEPT ![t] = c]
      /\ block' = With(block, p, call[t].req.size)
  BY <1>1 DEF HeapAlloc
<1> HIDE DEF p
<1>3. call[t].from \in DOMAIN block \cup {NULL}
  BY <1>1, <1>2 DEF CallOf
<1>4. c # Idle => c.op = "free" /\ c.from = call[t].from /\ c.from \in DOMAIN block
  BY <1>3
<1> HIDE DEF c
<1>5. CallOf(c, block)
  BY <1>4 DEF CallOf
<1>6. CallsOf(call', block)
  BY <1>1, <1>2, <1>4, <1>5, CallsKeep
<1>7. DOMAIN block \subseteq DOMAIN block'
  BY <1>2 DEF With
<1> QED BY <1>6, <1>7, CallsFrame

LEMMA FullCalls ==
  ASSUME HeapInv, NEW t \in Threads, call[t] # Idle, HeapFull(t)
  PROVE  CallsOf(call', block)
<1> DEFINE d == [op |-> "malloc", req |-> call[t].req, socks |-> Tail(call[t].socks), from |-> call[t].from]
           c == IF Len(call[t].socks) = 1 THEN Idle ELSE d
<1>1. CallsOf(call, block) /\ CallOf(call[t], block) /\ t \in DOMAIN call
  BY DEF HeapInv, CallsOf
<1>2. call[t].op = "malloc" /\ call' = [call EXCEPT ![t] = c]
  BY <1>1 DEF HeapFull
<1>3. /\ call[t].from \in DOMAIN block \cup {NULL} /\ Requested(call[t].req)
      /\ call[t].socks \in Seq(Sockets) /\ call[t].socks # <<>>
  BY <1>1, <1>2 DEF CallOf
<1>4. /\ d.op = "malloc" /\ d.req = call[t].req /\ d.socks = Tail(call[t].socks) /\ d.from = call[t].from
  OBVIOUS
<1> HIDE DEF d
<1>5. c = Idle \/ (c = d /\ Len(call[t].socks) # 1)
  OBVIOUS
<1> HIDE DEF c
<1>6. CallOf(c, block)
  <2>1. CASE c = Idle
    BY <2>1 DEF CallOf
  <2>2. CASE c = d /\ Len(call[t].socks) # 1
    <3> DEFINE s == call[t].socks
    <3>1. s \in Seq(Sockets) /\ s # <<>> /\ Len(s) # 1
      BY <1>3, <2>2
    <3> HIDE DEF s
    <3>2. Tail(s) \in Seq(Sockets) /\ Len(s) \in Nat /\ Len(s) # 0 /\ Len(Tail(s)) = Len(s) - 1
      BY <3>1
    <3>3. Tail(s) # <<>>
      <4>1. Len(Tail(s)) # 0
        BY <3>1, <3>2
      <4>2. Len(<<>>) = 0
        OBVIOUS
      <4> QED BY <4>1, <4>2, Zenon
    <3>4. d # Idle
      BY <1>4, NotIdle
    <3> QED BY <1>3, <1>4, <2>2, <3>2, <3>3, <3>4 DEF CallOf, s
  <2> QED BY <1>5, <2>1, <2>2
<1> QED BY <1>1, <1>2, <1>4, <1>5, <1>6, CallsKeep

LEMMA FreeCalls ==
  ASSUME NEW C, CallsOf(C, block), NEW p, block' = Without(block, {p}),
         \A u \in Threads : C[u] # Idle => C[u].from # p
  PROVE  CallsOf(C, block')
<1>1. DOMAIN block' = DOMAIN block \ {p}
  BY DEF Without
<1> QED BY <1>1, CallsFrame

LEMMA MoveCalls ==
  ASSUME HeapInv, NEW t \in Threads, NEW p \in Usable, NEW z \in Resizes, NEW socks \in Orders,
         ReallocMove(t, p, z, socks)
  PROVE  CallsOf(call', block)
<1> DEFINE r == [size |-> z.size, align |-> IF z.align = 0 THEN 1 ELSE z.align,
                 bound |-> 0, flags |-> [page |-> AnySize, hint |-> FALSE]]
           c == [op |-> "malloc", socks |-> socks, from |-> p, req |-> r]
<1>1. call' = [call EXCEPT ![t] = c] /\ z.size > 0
  BY DEF ReallocMove
<1>2. Requested(r)
  <2>1. z.size \in Nat /\ z.align \in Nat
    BY MallocAssumption
  <2>2. r.size = z.size /\ r.align = (IF z.align = 0 THEN 1 ELSE z.align) /\ r.bound = 0
    OBVIOUS
  <2> HIDE DEF r
  <2> QED BY <1>1, <2>1, <2>2 DEF Requested
<1> HIDE DEF r
<1>3. c.op = "malloc" /\ c.socks = socks /\ c.from = p /\ c.req = r
  OBVIOUS
<1> HIDE DEF c
<1>4. c # Idle
  BY <1>3, NotIdle
<1>5. socks \in Seq(Sockets) /\ socks # <<>>
  BY OrdersAre
<1>6. p \in DOMAIN block
  BY DEF Usable
<1>7. CallOf(c, block)
  BY <1>2, <1>3, <1>4, <1>5, <1>6 DEF CallOf
<1>8. \A u \in Threads \ {t} : call[u] # Idle => call[u].from # c.from
  BY <1>3, Moved
<1> QED BY <1>1, <1>7, <1>8, CallsSet DEF HeapInv

(* One step of the heap's own callers.                                     *)
LEMMA StepInv ==
  ASSUME HeapInv, [Next]_vars
  PROVE  HeapInv'
<1>1. MemInv /\ CallsOf(call, block) /\ \A t \in Threads : CallOf(call[t], block)
  BY DEF HeapInv, CallsOf
<1>2. ASSUME mem' = mem, segs' = segs, alloc_count' = alloc_count, block' = block
      PROVE  MemInv'
  BY <1>1, <1>2 DEF MemInv
<1>3. CASE UNCHANGED vars
  BY <1>1, <1>2, <1>3 DEF HeapInv, vars
<1>4. CASE AddMemseg
  <2>1. MemInv'
    BY <1>1, <1>4, AddStep
  <2>2. call' = call /\ block' = block
    BY <1>4 DEF AddMemseg
  <2> QED BY <1>1, <2>1, <2>2 DEF HeapInv
<1>5. ASSUME NEW t \in Threads, NEW r \in Requests,
             NEW socks \in Orders \cup {<<s>> : s \in Sockets}, Malloc(t, r, socks)
      PROVE  HeapInv'
  <2>1. /\ mem' = mem /\ segs' = segs /\ alloc_count' = alloc_count /\ block' = block
        /\ call' = [call EXCEPT ![t] = [op |-> "malloc", req |-> r, socks |-> socks, from |-> NULL]]
    BY <1>5 DEF Malloc
  <2>2. socks \in Seq(Sockets) /\ socks # <<>> /\ Requested(r)
    BY OrdersAre, MallocAssumption DEF Requested
  <2>3. CallsOf(call', block)
    BY <2>1, <2>2, MallocCalls
  <2> QED BY <1>2, <2>1, <2>3 DEF HeapInv
<1>6. ASSUME NEW t \in Threads, HeapAlloc(t)
      PROVE  HeapInv'
  <2>1. call[t] # Idle
    BY <1>6, NotIdle DEF HeapAlloc
  <2>2. CallsOf(call', block')
    BY <1>6, <2>1, AllocCalls
  <2>3. MemInv'
    BY <1>1, <1>6, <2>1, AllocStep
  <2> QED BY <2>2, <2>3 DEF HeapInv
<1>7. ASSUME NEW t \in Threads, HeapFull(t)
      PROVE  HeapInv'
  <2>1. call[t] # Idle
    BY <1>7, NotIdle DEF HeapFull
  <2>2. CallsOf(call', block)
    BY <1>7, <2>1, FullCalls
  <2>3. mem' = mem /\ segs' = segs /\ alloc_count' = alloc_count /\ block' = block
    BY <1>7 DEF HeapFull
  <2> QED BY <1>2, <2>2, <2>3 DEF HeapInv
<1>8. ASSUME NEW t \in Threads, NEW p \in Usable, Free(t, p)
      PROVE  HeapInv'
  <2>1. p \in DOMAIN block /\ FreeBlock(p) /\ segs' = segs /\ call' = call
    BY <1>8 DEF Free, Usable
  <2>2. MemInv' /\ block' = Without(block, {p})
    BY <1>1, <2>1, FreeStep
  <2>3. CallsOf(call, block')
    BY <1>1, <2>2, Moved, FreeCalls
  <2> QED BY <2>1, <2>2, <2>3 DEF HeapInv
<1>9. ASSUME NEW t \in Threads, NEW p \in Usable, NEW z \in Resizes, Realloc(t, p, z)
      PROVE  HeapInv'
  <2>1. p \in DOMAIN block /\ call' = call
    BY <1>9 DEF Usable, Realloc
  <2>2. MemInv' /\ block' = [block EXCEPT ![p] = z.size]
    BY <1>1, <1>9, <2>1, ReallocStep
  <2>3. DOMAIN block' = DOMAIN block
    BY <2>2
  <2>4. CallsOf(call, block')
    BY <1>1, <2>3, CallsFrame
  <2> QED BY <2>1, <2>2, <2>4 DEF HeapInv
<1>10. ASSUME NEW t \in Threads, NEW p \in Usable, NEW z \in Resizes, NEW socks \in Orders,
              ReallocMove(t, p, z, socks)
       PROVE  HeapInv'
  <2>1. CallsOf(call', block)
    BY <1>10, MoveCalls
  <2>2. mem' = mem /\ segs' = segs /\ alloc_count' = alloc_count /\ block' = block
    BY <1>10 DEF ReallocMove
  <2> QED BY <1>2, <2>1, <2>2 DEF HeapInv
<1>11. ASSUME NEW t \in Threads, ReallocFree(t)
       PROVE  HeapInv'
  <2> DEFINE p == call[t].from
  <2>1. /\ call[t].op = "free" /\ FreeBlock(p) /\ segs' = segs
        /\ call' = [call EXCEPT ![t] = Idle] /\ call[t] # Idle
    BY <1>11, NotIdle DEF ReallocFree
  <2>2. p \in DOMAIN block
    BY <1>1, <2>1 DEF CallOf
  <2>3. MemInv' /\ block' = Without(block, {p})
    BY <1>1, <2>1, <2>2, FreeStep
  <2>4. CallsOf(call', block)
    <3>1. CallOf(Idle, block)
      BY DEF CallOf
    <3> QED BY <1>1, <2>1, <3>1, CallsSet
  <2>5. \A u \in Threads : call'[u] # Idle => call'[u].from # p
    <3>1. p # NULL
      BY <1>1, <2>2, MemFacts
    <3>2. \A u \in Threads : call'[u] # Idle => u # t /\ call'[u] = call[u]
      BY <1>1, <2>1 DEF CallsOf
    <3> QED BY <1>1, <2>1, <3>1, <3>2 DEF CallsOf
  <2> HIDE DEF p
  <2>6. CallsOf(call', block')
    BY <2>3, <2>4, <2>5, FreeCalls
  <2> QED BY <2>3, <2>6 DEF HeapInv
<1> QED BY <1>3, <1>4, <1>5, <1>6, <1>7, <1>8, <1>9, <1>10, <1>11 DEF Next

(* The heap's invariant holds throughout, for every number of threads,     *)
(* memsegs, sockets and requests: malloc_elem.c and malloc_heap.c keep the *)
(* elements, the free lists, the zeroed lines and the counts in order, and *)
(* rte_realloc the blocks that it moves apart.                             *)
THEOREM HeapInvariant == Spec => []HeapInv
<1>1. Init => HeapInv
  BY InitInv
<1>2. HeapInv /\ [Next]_vars => HeapInv'
  BY StepInv
<1> QED BY <1>1, <1>2, PTL DEF Spec

-----------------------------------------------------------------------------
(* The invariants that the runs check.                                     *)
LEMMA SameNames ==
  /\ Elems = ElemsOf(mem) /\ EndMarkers = Ends(segs) /\ FreeElems = FreeOf(mem)
  /\ BusyElems = BusyOf(mem, segs) /\ \A a : NextOf(a) = After(mem, a)
BY DEF Elems, ElemsOf, EndMarkers, Ends, FreeElems, FreeOf, BusyElems, BusyOf, NextOf, After

LEMMA TypeHolds ==
  ASSUME MemInv
  PROVE  TypeOK
<1>1. /\ Tiled(mem, segs) /\ Typed(mem, segs) /\ Padded(mem, segs, {}) /\ mem.dirty \subseteq Memory(segs)
  BY DEF MemInv, HeapOf, HeapBut, Tiled
<1>2. DOMAIN mem.elem \subseteq Nat
  BY <1>1 DEF Typed
<1>3. ASSUME NEW a \in DOMAIN mem.elem
      PROVE  /\ mem.elem[a].state \in {"FREE", "BUSY", "PAD"} /\ mem.elem[a].ms \in 1 .. segs
             /\ mem.elem[a].pad \in 0 .. 1 /\ mem.elem[a].prev \in DOMAIN mem.elem \cup {NULL}
  <2>1. /\ mem.elem[a].state \in {"FREE", "BUSY", "PAD"} /\ mem.elem[a].ms \in 1 .. segs
        /\ mem.elem[a].pad \in 0 .. 1
    BY <1>1, Header, MemFacts
  <2>2. CASE a \in ElemsOf(mem)
    <3>1. mem.elem[a].prev # -1 => mem.elem[a].prev \in ElemsOf(mem) \ Ends(segs)
      BY <1>1, <2>2, Inside, MemFacts
    <3>2. \A b \in ElemsOf(mem) : b \in DOMAIN mem.elem
      BY DEF ElemsOf
    <3> QED BY <2>1, <3>1, <3>2
  <2>3. CASE a \notin ElemsOf(mem)
    <3>1. mem.elem[a].state = "PAD" /\ a \notin Span(mem, {})
      BY <2>3, SpanIs DEF ElemsOf
    <3>2. mem.elem[a].prev = NULL
      BY <1>1, <3>1 DEF Padded
    <3> QED BY <2>1, <3>2
  <2> QED BY <2>2, <2>3
<1> QED BY <1>1, <1>2, <1>3, MemFacts DEF TypeOK, Memory

LEMMA TilesHold ==
  ASSUME MemInv
  PROVE  HeapTiles
<1>1. Tiled(mem, segs) /\ Bordered(mem, segs)
  BY DEF MemInv, HeapOf, HeapBut, Tiled
<1>2. SUFFICES ASSUME NEW s \in 1 .. segs,
                      NEW here, here = {a \in Elems : mem.elem[a].ms = s}
               PROVE  /\ Segs[s].addr \in here /\ EndElem(s) \in here
                      /\ mem.elem[Segs[s].addr].prev = NULL
                      /\ \A a \in here \ {EndElem(s)} :
                           /\ mem.elem[a].size > OVERHEAD
                           /\ NextOf(a) \in here /\ mem.elem[NextOf(a)].prev = a
                           /\ Data(a) \cap Elems = {}
  BY DEF HeapTiles
<1>3. here = {a \in ElemsOf(mem) : mem.elem[a].ms = s}
  BY <1>2, SameNames
<1>4. /\ Segs[s].addr \in here /\ EndElem(s) \in here /\ mem.elem[Segs[s].addr].prev = NULL
  BY <1>1, <1>3 DEF Bordered
<1>5. ASSUME NEW a \in here \ {EndElem(s)}
      PROVE  /\ mem.elem[a].size > OVERHEAD
             /\ NextOf(a) \in here /\ mem.elem[NextOf(a)].prev = a
             /\ Data(a) \cap Elems = {}
  <2>1. a \in ElemsOf(mem) \ Ends(segs)
    <3>1. \A z \in 1 .. segs : mem.elem[EndElem(z)].ms = z
      BY <1>1 DEF Bordered
    <3> QED BY <1>3, <3>1 DEF Ends
  <2>2. /\ a \in Nat /\ After(mem, a) \in Nat /\ a + 2 <= After(mem, a)
        /\ mem.elem[a].size = After(mem, a) - a
        /\ After(mem, a) \in ElemsOf(mem) /\ mem.elem[After(mem, a)].prev = a
        /\ mem.elem[After(mem, a)].ms = mem.elem[a].ms
        /\ \A b \in ElemsOf(mem) : b \in Nat /\ (b <= a \/ After(mem, a) <= b)
    BY <1>1, <2>1, Links, MemFacts
  <2>3. Data(a) \cap Elems = {}
    <3>1. Data(a) = a + 1 .. After(mem, a) - 1
      BY <2>2 DEF Data, Lines
    <3>2. \A x \in Data(a) : x \notin ElemsOf(mem)
      BY <2>2, <3>1
    <3> QED BY <3>2, SameNames
  <2>4. NextOf(a) = After(mem, a)
    BY SameNames
  <2> QED BY <1>3, <2>2, <2>3, <2>4
<1> QED BY <1>4, <1>5

(* No list is longer than there are headers.                               *)
LEMMA ListLen ==
  ASSUME NEW h, NEW n \in 0 .. Len(Segs), NEW B, HeapOf(h, n, B), NEW sock \in Sockets, NEW k \in Lists
  PROVE  Len(h.free_head[sock][k]) <= Cardinality(DOMAIN h.elem)
<1> DEFINE f == h.free_head[sock][k]
           S == 1 .. Len(f)
<1>1. Typed(h, n) /\ Listed(h, FreeOf(h) \ {}) /\ IsFiniteSet(DOMAIN h.elem)
  BY DEF HeapOf, HeapBut, Tiled, Typed
<1>2. f \in Seq(Nat) /\ OnceEach(f)
  BY <1>1 DEF Typed, Listed
<1>3. \A i \in S : f[i] \in DOMAIN h.elem
  <2>1. \A i \in S : f[i] \in FreeOf(h)
    BY OnList, Zenon
  <2> QED BY <2>1, Zenon DEF FreeOf, ElemsOf
<1> HIDE DEF f
<1>4. Len(f) \in Nat /\ DOMAIN f = S
  BY <1>2
<1>5. [i \in S |-> f[i]] \in Injection(S, DOMAIN h.elem)
  BY <1>2, <1>3, <1>4 DEF Injection, OnceEach, IsInjective
<1>6. Cardinality(S) <= Cardinality(DOMAIN h.elem)
  BY <1>1, <1>5, FS_Injection
<1>7. Cardinality(S) = Len(f)
  <2>1. 1 \in Int /\ Len(f) \in Int
    BY <1>4
  <2>2. Cardinality(1 .. Len(f)) = IF 1 > Len(f) THEN 0 ELSE Len(f) - 1 + 1
    BY <2>1, FS_Interval
  <2> QED BY <1>4, <2>2
<1> QED BY <1>6, <1>7 DEF f

LEMMA ListsHold ==
  ASSUME MemInv
  PROVE  FreeListsExact
<1> DEFINE at == [q \in OnLists |-> At(mem, q[1], <<q[2], q[3]>>)]
           len == Cardinality(DOMAIN mem.elem)
<1>1. /\ Typed(mem, segs) /\ Listed(mem, FreeOf(mem) \ {}) /\ Apart(mem, {})
      /\ IsFiniteSet(DOMAIN mem.elem) /\ len \in Nat
  <2>1. /\ Typed(mem, segs) /\ Listed(mem, FreeOf(mem) \ {}) /\ Apart(mem, {})
        /\ IsFiniteSet(DOMAIN mem.elem)
    BY DEF MemInv, HeapOf, HeapBut, Tiled, Typed
  <2> QED BY <2>1, FS_CardinalityType
<1>2. ASSUME NEW q \in OnLists
      PROVE  /\ q[1] \in Sockets /\ q[2] \in Lists /\ q = <<q[1], q[2], q[3]>>
             /\ mem.free_head[q[1]][q[2]] \in Seq(Nat)
             /\ q[3] \in 1 .. Len(mem.free_head[q[1]][q[2]])
             /\ at[q] = mem.free_head[q[1]][q[2]][q[3]]
  <2>1. /\ q \in Sockets \X Lists \X (1 .. len) /\ q[3] <= Len(mem.free_head[q[1]][q[2]])
    BY DEF OnLists
  <2> HIDE DEF len
  <2>2. /\ q[1] \in Sockets /\ q[2] \in Lists /\ q[3] \in 1 .. len /\ q = <<q[1], q[2], q[3]>>
    BY <2>1
  <2>3. mem.free_head[q[1]][q[2]] \in Seq(Nat)
    BY <1>1, <2>2 DEF Typed
  <2>4. q[3] \in 1 .. Len(mem.free_head[q[1]][q[2]])
    BY <1>1, <2>1, <2>2, <2>3
  <2>5. at[q] = mem.free_head[q[1]][q[2]][q[3]]
    BY DEF At
  <2> QED BY <2>2, <2>3, <2>4, <2>5
<1>3. ASSUME NEW q \in OnLists
      PROVE  /\ at[q] \in FreeOf(mem) /\ q[1] = Segs[mem.elem[at[q]].ms].socket_id
             /\ q[2] = FreeListIndex(mem.elem[at[q]].size - HEADER_LEN)
  <2> DEFINE sock == q[1]
             k == q[2]
             i == q[3]
  <2>1. /\ sock \in Sockets /\ k \in Lists /\ i \in 1 .. Len(mem.free_head[sock][k])
        /\ at[q] = mem.free_head[sock][k][i]
    BY <1>2
  <2> HIDE DEF sock, k, i, at
  <2>2. i \in DOMAIN mem.free_head[sock][k]
    BY <1>1, <2>1 DEF Typed
  <2>3. Belongs(mem, FreeOf(mem) \ {}, sock, k, at[q])
    BY <1>1, <2>1, <2>2 DEF Listed
  <2> QED BY <2>3 DEF Belongs, sock, k
<1>4. ASSUME NEW q \in OnLists, NEW w \in OnLists, at[q] = at[w]
      PROVE  q = w
  <2>1. q[1] = w[1] /\ q[2] = w[2]
    BY <1>3, <1>4
  <2>2. q[3] = w[3]
    <3> DEFINE list == mem.free_head[q[1]][q[2]]
    <3>1. OnceEach(list)
      BY <1>1, <1>2 DEF Listed
    <3>2. list \in Seq(Nat) /\ q[3] \in 1 .. Len(list) /\ w[3] \in 1 .. Len(list) /\ list[q[3]] = list[w[3]]
      BY <1>2, <1>4, <2>1
    <3> HIDE DEF list
    <3> QED BY <3>1, <3>2 DEF OnceEach
  <2> QED BY <1>2, <2>1, <2>2
<1>5. ASSUME NEW a \in FreeOf(mem)
      PROVE  \E q \in OnLists : at[q] = a
  <2> DEFINE sock == Segs[mem.elem[a].ms].socket_id
             k == FreeListIndex(mem.elem[a].size - HEADER_LEN)
  <2>1. sock \in Sockets /\ k \in Lists
    <3>1. a \in DOMAIN mem.elem
      BY DEF FreeOf, ElemsOf
    <3> QED BY <1>1, <3>1, Header, SegFacts, IndexType, MemFacts
  <2>2. PICK i \in DOMAIN mem.free_head[sock][k] : mem.free_head[sock][k][i] = a
    BY <1>1, Zenon DEF Listed, ListOf
  <2> HIDE DEF sock, k
  <2>3. mem.free_head[sock][k] \in Seq(Nat) /\ Len(mem.free_head[sock][k]) <= len
    BY <1>1, <2>1, ListLen, MemFacts DEF Typed
  <2>4. i \in 1 .. len /\ i <= Len(mem.free_head[sock][k])
    BY <1>1, <2>2, <2>3
  <2>5. <<sock, k, i>> \in OnLists
    BY <2>1, <2>4 DEF OnLists
  <2>6. at[<<sock, k, i>>] = a
    BY <1>2, <2>2, <2>5
  <2> QED BY <2>5, <2>6
<1>6. {At(mem, q[1], <<q[2], q[3]>>) : q \in OnLists} = FreeElems
  <2>1. \A q \in OnLists : at[q] = At(mem, q[1], <<q[2], q[3]>>)
    OBVIOUS
  <2> HIDE DEF at
  <2>2. \A q \in OnLists : At(mem, q[1], <<q[2], q[3]>>) \in FreeOf(mem)
    BY <1>3, <2>1, Zenon
  <2>3. \A a \in FreeOf(mem) : \E q \in OnLists : At(mem, q[1], <<q[2], q[3]>>) = a
    BY <1>5, <2>1
  <2> QED BY <2>2, <2>3, SameNames
<1>7. Cardinality(OnLists) = Cardinality(FreeElems)
  <2>1. DOMAIN at = OnLists
    OBVIOUS
  <2>2. at \in Bijection(OnLists, FreeOf(mem))
    <3>1. at \in [OnLists -> FreeOf(mem)]
      BY <1>3
    <3> HIDE DEF at
    <3>2. at \in Injection(OnLists, FreeOf(mem))
      BY <1>4, <2>1, <3>1 DEF Injection, IsInjective
    <3>3. at \in Surjection(OnLists, FreeOf(mem))
      BY <1>5, <3>1 DEF Surjection
    <3> QED BY <3>2, <3>3 DEF Bijection
  <2>3. IsFiniteSet(FreeOf(mem))
    <3>1. FreeOf(mem) \in SUBSET DOMAIN mem.elem
      BY DEF FreeOf, ElemsOf
    <3> QED BY <1>1, <3>1, FS_Subset
  <2> HIDE DEF at
  <2>4. at \in Injection(OnLists, FreeOf(mem)) /\ at \in Surjection(OnLists, FreeOf(mem))
    BY <2>2 DEF Bijection
  <2>5. Cardinality(OnLists) = Cardinality(FreeOf(mem))
    BY <2>3, <2>4, FS_Injection
  <2> QED BY <2>5, SameNames
<1>8. \A q \in OnLists :
        LET e == mem.elem[At(mem, q[1], <<q[2], q[3]>>)]
        IN q[1] = Segs[e.ms].socket_id /\ q[2] = FreeListIndex(e.size - HEADER_LEN)
  <2>1. \A q \in OnLists : at[q] = At(mem, q[1], <<q[2], q[3]>>)
    OBVIOUS
  <2> HIDE DEF at
  <2> QED BY <1>3, <2>1, Zenon
<1>9. \A a \in FreeElems : NextOf(a) \notin FreeElems
  BY <1>1, SameNames DEF Apart
<1> HIDE DEF at
<1> QED BY <1>6, <1>7, <1>8, <1>9 DEF FreeListsExact

LEMMA BlocksHold ==
  ASSUME MemInv
  PROVE  BlocksOwned
<1>1. ASSUME NEW p \in DOMAIN block
      PROVE  /\ p - HEADER_LEN \in DOMAIN mem.elem /\ FromData(mem, p) \in BusyElems
             /\ p = FromData(mem, p) + mem.elem[FromData(mem, p)].pad + HEADER_LEN
             /\ p + block[p] <= NextOf(FromData(mem, p))
  <2> DEFINE a == FromData(mem, p)
  <2>1. /\ a \in BusyOf(mem, segs) /\ p = PtrOf(mem, a) /\ p - 1 \in DOMAIN mem.elem
        /\ p + block[p] <= After(mem, a)
    BY ElemOf, MemFacts
  <2> QED BY <2>1, SameNames DEF PtrOf
<1>2. \A a \in BusyElems : PtrOf(mem, a) \in DOMAIN block /\ FromData(mem, PtrOf(mem, a)) = a
  BY ElemOfPtr, MemFacts, SameNames
<1>3. {FromData(mem, p) : p \in DOMAIN block} = BusyElems
  BY <1>1, <1>2
<1>4. \A s \in Sockets :
        alloc_count[s] =
          Cardinality({p \in DOMAIN block : Segs[mem.elem[FromData(mem, p)].ms].socket_id = s})
  BY MemFacts DEF Counted, OnSocket
<1> QED BY <1>1, <1>3, <1>4 DEF BlocksOwned

(* The elements tile the memsegs, the free lists have exactly the free     *)
(* elements, no two neighbours are free, every busy element is the block   *)
(* of one caller and the counts agree, after every call of rte_malloc,     *)
(* rte_free and rte_realloc in any order by any number of threads.         *)
THEOREM HeapIsSound == Spec => []HeapSound
<1>1. HeapInv => HeapSound
  BY TypeHolds, TilesHold, ListsHold, BlocksHold DEF HeapInv, HeapSound
<1> QED BY <1>1, HeapInvariant, PTL

-----------------------------------------------------------------------------
(* What the actions may do.  A step of whoever uses the heap is one of the *)
(* following.                                                              *)
AllocatingStep(t) ==
  /\ call[t] # Idle /\ HeapAlloc(t)
  /\ \A u \in Threads \ {t} : call'[u] = call[u]

RefusingStep(t) ==
  /\ call[t] # Idle /\ HeapFull(t)
  /\ \A u \in Threads \ {t} : call'[u] = call[u]

FreeingStep(p) ==
  /\ FreeBlock(p) /\ segs' = segs
  /\ \A t \in Threads : call[t] # Idle /\ call[t].op = "malloc" => call'[t] = call[t]

CallingStep ==
  /\ UNCHANGED <<mem, segs, alloc_count, block>>
  /\ \A t \in Threads : call[t] # Idle => call'[t] = call[t]

HeapStep ==
  \/ AddMemseg
  \/ CallingStep
  \/ \E t \in Threads : AllocatingStep(t) \/ RefusingStep(t)
  \/ \E p \in DOMAIN block : FreeingStep(p)
  \/ \E t \in Threads, p \in DOMAIN block, z \in Resizes : Realloc(t, p, z)

LEMMA CallSet ==
  ASSUME HeapInv, NEW t \in Threads, NEW c, call' = [call EXCEPT ![t] = c]
  PROVE  call'[t] = c /\ \A u \in Threads \ {t} : call'[u] = call[u]
BY DEF HeapInv, CallsOf

LEMMA AllocatingIs ==
  ASSUME HeapInv, NEW t \in Threads, HeapAlloc(t)
  PROVE  AllocatingStep(t)
<1>1. call[t] # Idle
  BY NotIdle DEF HeapAlloc
<1>2. \E c : call' = [call EXCEPT ![t] = c]
  BY DEF HeapAlloc
<1> QED BY <1>1, <1>2, CallSet DEF AllocatingStep

LEMMA RefusingIs ==
  ASSUME HeapInv, NEW t \in Threads, HeapFull(t)
  PROVE  RefusingStep(t)
<1>1. call[t] # Idle
  BY NotIdle DEF HeapFull
<1>2. \E c : call' = [call EXCEPT ![t] = c]
  BY DEF HeapFull
<1> QED BY <1>1, <1>2, CallSet DEF RefusingStep

LEMMA CallingIs ==
  ASSUME HeapInv, NEW t \in Threads, call[t] = Idle, NEW c, call' = [call EXCEPT ![t] = c],
         UNCHANGED <<mem, segs, alloc_count, block>>
  PROVE  CallingStep
BY CallSet DEF CallingStep

LEMMA HeapCalls ==
  ASSUME HeapInv, [Next]_vars
  PROVE  HeapStep
<1>1. CASE UNCHANGED vars
  BY <1>1 DEF HeapStep, CallingStep, vars
<1>2. CASE AddMemseg
  BY <1>2 DEF HeapStep
<1>3. ASSUME NEW t \in Threads, NEW r \in Requests,
             NEW socks \in Orders \cup {<<s>> : s \in Sockets}, Malloc(t, r, socks)
      PROVE  HeapStep
  <2>1. CallingStep
    BY <1>3, CallingIs DEF Malloc, Ready
  <2> QED BY <2>1 DEF HeapStep
<1>4. ASSUME NEW t \in Threads, HeapAlloc(t)
      PROVE  HeapStep
  BY <1>4, AllocatingIs DEF HeapStep
<1>5. ASSUME NEW t \in Threads, HeapFull(t)
      PROVE  HeapStep
  BY <1>5, RefusingIs DEF HeapStep
<1>6. ASSUME NEW t \in Threads, NEW p \in Usable, Free(t, p)
      PROVE  HeapStep
  <2>1. p \in DOMAIN block /\ FreeingStep(p)
    BY <1>6 DEF Free, Usable, FreeingStep
  <2> QED BY <2>1 DEF HeapStep
<1>7. ASSUME NEW t \in Threads, NEW p \in Usable, NEW z \in Resizes, Realloc(t, p, z)
      PROVE  HeapStep
  BY <1>7 DEF HeapStep, Usable
<1>8. ASSUME NEW t \in Threads, NEW p \in Usable, NEW z \in Resizes, NEW socks \in Orders,
             ReallocMove(t, p, z, socks)
      PROVE  HeapStep
  <2>1. \E c : call' = [call EXCEPT ![t] = c]
    BY <1>8 DEF ReallocMove
  <2>2. call[t] = Idle /\ UNCHANGED <<mem, segs, alloc_count, block>>
    BY <1>8 DEF ReallocMove, Ready
  <2>3. CallingStep
    BY <2>1, <2>2, CallingIs
  <2> QED BY <2>3 DEF HeapStep
<1>9. ASSUME NEW t \in Threads, ReallocFree(t)
      PROVE  HeapStep
  <2>1. /\ call[t].op = "free" /\ FreeBlock(call[t].from) /\ segs' = segs
        /\ call' = [call EXCEPT ![t] = Idle] /\ call[t] # Idle
    BY <1>9, NotIdle DEF ReallocFree
  <2>2. call[t].from \in DOMAIN block
    BY <2>1 DEF HeapInv, CallsOf, CallOf
  <2>3. FreeingStep(call[t].from)
    BY <2>1, CallSet DEF FreeingStep
  <2> QED BY <2>2, <2>3 DEF HeapStep
<1> QED BY <1>1, <1>2, <1>3, <1>4, <1>5, <1>6, <1>7, <1>8, <1>9 DEF Next

(* A new block comes from malloc_heap_alloc.                               *)
LEMMA NewBlock ==
  ASSUME HeapInv, HeapStep, NEW p \in DOMAIN block' \ DOMAIN block
  PROVE  \E t \in Threads :
           /\ AllocatingStep(t) /\ block'[p] = call[t].req.size
           /\ Served(mem, mem', segs, block, call[t].req, Head(call[t].socks), p)
<1>1. ~AddMemseg
  BY DEF AddMemseg
<1>2. ~CallingStep
  BY DEF CallingStep
<1>3. ASSUME NEW t \in Threads, RefusingStep(t) PROVE FALSE
  BY <1>3 DEF RefusingStep, HeapFull
<1>4. ASSUME NEW q \in DOMAIN block, FreeingStep(q) PROVE FALSE
  <2>1. block' = Without(block, {q})
    BY <1>4 DEF FreeingStep, FreeBlock
  <2> QED BY <2>1 DEF Without
<1>5. ASSUME NEW t \in Threads, NEW q \in DOMAIN block, NEW z \in Resizes, Realloc(t, q, z)
      PROVE FALSE
  <2>1. block' = [block EXCEPT ![q] = z.size]
    BY <1>5 DEF Realloc
  <2> QED BY <2>1
<1>6. PICK t \in Threads : AllocatingStep(t)
  BY <1>1, <1>2, <1>3, <1>4, <1>5 DEF HeapStep
<1>7. PICK q : /\ Served(mem, mem', segs, block, call[t].req, Head(call[t].socks), q)
               /\ block' = With(block, q, call[t].req.size)
  <2>1. MemInv /\ CallOf(call[t], block) /\ call[t] # Idle /\ HeapAlloc(t)
    BY <1>6 DEF HeapInv, CallsOf, AllocatingStep
  <2> QED BY <2>1, AllocStep
<1>8. DOMAIN block' = DOMAIN block \cup {q} /\ block'[q] = call[t].req.size
  BY <1>7 DEF With
<1>9. p = q
  BY <1>8
<1> QED BY <1>6, <1>7, <1>8, <1>9

(* What AllocSound asks of a step.                                         *)
LEMMA ServedStep ==
  ASSUME HeapInv, HeapStep, NEW p \in DOMAIN block' \ DOMAIN block
  PROVE  /\ Lines(p, block'[p]) \cap mem.dirty = {}
         /\ \A t \in Threads : call'[t] # call[t] =>
              /\ p % call[t].req.align = 0
              /\ SameBound(p, p + call[t].req.size - 1, call[t].req.bound)
              /\ call[t].req.flags.hint \/ PageFits(call[t].req, mem'.elem[p - HEADER_LEN].ms)
<1>1. PICK t \in Threads :
        /\ AllocatingStep(t) /\ block'[p] = call[t].req.size
        /\ Served(mem, mem', segs, block, call[t].req, Head(call[t].socks), p)
  BY NewBlock
<1> DEFINE r == call[t].req
<1>2. /\ \A x \in Lines(p, r.size) : x \notin mem.dirty
      /\ p % r.align = 0 /\ SameBound(p, p + r.size - 1, r.bound)
  BY <1>1 DEF Served
<1>3. r.flags.hint \/ PageFits(r, mem'.elem[p - HEADER_LEN].ms)
  <2>1. PICK ms : Allocated(mem, mem', segs, block, p, r.size, ms) /\ (r.flags.hint \/ PageFits(r, ms))
    BY <1>1 DEF Served
  <2>2. mem'.elem[p - 1].ms = ms
    BY <2>1 DEF Allocated
  <2> QED BY <2>1, <2>2
<1>4. \A u \in Threads : call'[u] # call[u] => u = t
  BY <1>1 DEF AllocatingStep
<1> HIDE DEF r
<1>5. Lines(p, block'[p]) \cap mem.dirty = {}
  BY <1>1, <1>2 DEF r
<1> QED BY <1>2, <1>3, <1>4, <1>5 DEF r

(* What rte_zmalloc gives is all zeros, aligned, within its boundary and   *)
(* on the right pages: rte_free has cleared all that it leaves behind, and *)
(* elem_start_pt finds the place.                                          *)
THEOREM AllocIsSound == Spec => AllocSound
<1>1. HeapInv /\ [Next]_vars =>
        [\A p \in DOMAIN block' \ DOMAIN block : Lines(p, block'[p]) \cap mem.dirty = {}]_vars
  BY HeapCalls, ServedStep
<1>2. HeapInv /\ [Next]_vars =>
        [\A t \in Threads :
           call[t] # Idle /\ call[t].op = "malloc" /\ mem' # mem =>
             \A p \in DOMAIN block' \ DOMAIN block :
               LET r == call[t].req
               IN call'[t] # call[t] =>
                    /\ p % r.align = 0
                    /\ SameBound(p, p + r.size - 1, r.bound)
                    /\ r.flags.hint \/ PageFits(r, mem'.elem[p - HEADER_LEN].ms)]_vars
  BY HeapCalls, ServedStep
<1> QED BY <1>1, <1>2, HeapInvariant, PTL DEF AllocSound, AllocZeroed, AllocAsAsked, Spec

(* The header of a steady block.                                           *)
SameHeader(h, g, p) ==
  LET a == FromData(h, p)
      e == h.elem[a]
  IN a \in DOMAIN g.elem /\ [g.elem[a] EXCEPT !.prev = e.prev] = e

LEMMA SteadyHeader ==
  ASSUME NEW h, NEW n \in 0 .. Len(Segs), NEW B, HeapOf(h, n, B), NEW p \in DOMAIN B,
         NEW g, NEW m \in 0 .. Len(Segs), NEW C, HeapOf(g, m, C), Steady(h, g, m, p)
  PROVE  SameHeader(h, g, p)
<1> DEFINE a == FromData(h, p)
<1>1. a \in BusyOf(h, n)
  BY ElemOf
<1>2. /\ a \in BusyOf(g, m) /\ g.elem[a].size = h.elem[a].size /\ g.elem[a].pad = h.elem[a].pad
      /\ g.elem[a].ms = h.elem[a].ms
  BY DEF Steady
<1> HIDE DEF a
<1>3. /\ a \in DOMAIN h.elem /\ h.elem[a].state = "BUSY" /\ a \in DOMAIN g.elem /\ g.elem[a].state = "BUSY"
  BY <1>1, <1>2 DEF BusyOf, ElemsOf
<1>4. Typed(h, n) /\ Typed(g, m)
  BY DEF HeapOf, HeapBut, Tiled
<1>5. IsHdr(h.elem[a], n) /\ IsHdr(g.elem[a], m) /\ h.elem[a].prev \in Nat \cup {-1}
  BY <1>3, <1>4, Header
<1>6. [g.elem[a] EXCEPT !.prev = h.elem[a].prev]
        = Elem(g.elem[a].size, g.elem[a].state, g.elem[a].pad, h.elem[a].prev, g.elem[a].ms)
  BY <1>5, HdrPrev
<1>7. h.elem[a] = Elem(h.elem[a].size, h.elem[a].state, h.elem[a].pad, h.elem[a].prev, h.elem[a].ms)
  BY <1>5 DEF IsHdr
<1>8. [g.elem[a] EXCEPT !.prev = h.elem[a].prev] = h.elem[a]
  BY <1>2, <1>3, <1>6, <1>7
<1> QED BY <1>3, <1>8 DEF SameHeader, a

(* A resize to the size that the block has leaves the header as it is.     *)
LEMMA ResizeToSame ==
  ASSUME MemInv, NEW p \in DOMAIN block, NEW g,
         g = Write(Resize(mem, FromData(mem, p), block[p]), Lines(p, block[p]))
  PROVE  SameHeader(mem, g, p)
<1> DEFINE a == FromData(mem, p)
           size == block[p]
<1>1. /\ a \in BusyOf(mem, segs) /\ p = PtrOf(mem, a) /\ size \in Nat /\ p + size <= After(mem, a)
  BY ElemOf, MemFacts
<1> HIDE DEF a, size
<1>2. a \in DOMAIN mem.elem /\ a \in Nat /\ mem.elem[a].size \in Nat /\ mem.elem[a].pad \in 0 .. 1
      /\ IsHdr(mem.elem[a], segs) /\ mem.elem[a].prev \in Nat \cup {-1}
  BY <1>1, Header, MemFacts DEF BusyOf, ElemsOf
<1>3. LargeEnough(mem, a, size)
  BY <1>1, <1>2 DEF LargeEnough, NewSize, PtrOf, After
<1>4. g = Write(mem, Lines(p, size))
  BY <1>3 DEF Resize, a, size
<1>5. g.elem = mem.elem
  BY <1>4, MemFacts DEF Write, Typed
<1>6. [mem.elem[a] EXCEPT !.prev = mem.elem[a].prev]
        = Elem(mem.elem[a].size, mem.elem[a].state, mem.elem[a].pad, mem.elem[a].prev, mem.elem[a].ms)
  BY <1>2, HdrPrev
<1>7. [mem.elem[a] EXCEPT !.prev = mem.elem[a].prev] = mem.elem[a]
  BY <1>2, <1>6 DEF IsHdr
<1> QED BY <1>2, <1>5, <1>7 DEF SameHeader, a

LEMMA StableStep ==
  ASSUME HeapInv, HeapStep, NEW p \in DOMAIN block, p \in DOMAIN block', block'[p] = block[p]
  PROVE  SameHeader(mem, mem', p)
<1>1. MemInv
  BY DEF HeapInv
<1>2. ASSUME MemInv', segs' = segs, Steady(mem, mem', segs, p)
      PROVE  SameHeader(mem, mem', p)
  <2>1. segs \in 0 .. Len(Segs) /\ HeapOf(mem, segs, block) /\ HeapOf(mem', segs, block')
    BY <1>1, <1>2 DEF MemInv
  <2> QED BY <1>2, <2>1, SteadyHeader
<1>3. ASSUME mem' = mem
      PROVE  SameHeader(mem, mem', p)
  <2> DEFINE a == FromData(mem, p)
  <2>1. a \in BusyOf(mem, segs)
    BY <1>1, ElemOf, MemFacts
  <2> HIDE DEF a
  <2>2. a \in DOMAIN mem.elem
    BY <2>1 DEF BusyOf, ElemsOf
  <2>3. IsHdr(mem.elem[a], segs) /\ mem.elem[a].prev \in Nat \cup {-1}
    BY <1>1, <2>2, Header, MemFacts
  <2>4. [mem.elem[a] EXCEPT !.prev = mem.elem[a].prev]
          = Elem(mem.elem[a].size, mem.elem[a].state, mem.elem[a].pad, mem.elem[a].prev, mem.elem[a].ms)
    BY <2>3, HdrPrev
  <2>5. [mem.elem[a] EXCEPT !.prev = mem.elem[a].prev] = mem.elem[a]
    BY <2>3, <2>4 DEF IsHdr
  <2> QED BY <1>3, <2>2, <2>5 DEF SameHeader, a
<1>4. CASE AddMemseg
  <2>1. MemInv' /\ Steady(mem, mem', segs', p)
    BY <1>1, <1>4, AddStep
  <2>2. /\ segs \in 0 .. Len(Segs) /\ HeapOf(mem, segs, block)
        /\ segs' \in 0 .. Len(Segs) /\ HeapOf(mem', segs', block')
    BY <1>1, <2>1 DEF MemInv
  <2> QED BY <2>1, <2>2, SteadyHeader
<1>5. CASE CallingStep
  BY <1>3, <1>5 DEF CallingStep
<1>6. ASSUME NEW t \in Threads, AllocatingStep(t)
      PROVE  SameHeader(mem, mem', p)
  <2>1. CallOf(call[t], block) /\ call[t] # Idle /\ HeapAlloc(t)
    BY <1>6 DEF HeapInv, CallsOf, AllocatingStep
  <2>2. MemInv' /\ \E q : Served(mem, mem', segs, block, call[t].req, Head(call[t].socks), q)
    BY <1>1, <2>1, AllocStep
  <2>3. segs' = segs
    BY <2>1 DEF HeapAlloc
  <2>4. Steady(mem, mem', segs, p)
    BY <2>2 DEF Served, Allocated
  <2> QED BY <1>2, <2>2, <2>3, <2>4
<1>7. ASSUME NEW t \in Threads, RefusingStep(t)
      PROVE  SameHeader(mem, mem', p)
  BY <1>3, <1>7 DEF RefusingStep, HeapFull
<1>8. ASSUME NEW q \in DOMAIN block, FreeingStep(q)
      PROVE  SameHeader(mem, mem', p)
  <2>1. FreeBlock(q) /\ segs' = segs
    BY <1>8 DEF FreeingStep
  <2>2. /\ MemInv' /\ block' = Without(block, {q})
        /\ \A x \in DOMAIN block \ {q} : Steady(mem, mem', segs, x)
    BY <1>1, <2>1, FreeStep
  <2>3. p # q
    BY <2>2 DEF Without
  <2> QED BY <1>2, <2>1, <2>2, <2>3
<1>9. ASSUME NEW t \in Threads, NEW q \in DOMAIN block, NEW z \in Resizes, Realloc(t, q, z)
      PROVE  SameHeader(mem, mem', p)
  <2>1. /\ MemInv' /\ block' = [block EXCEPT ![q] = z.size] /\ segs' = segs
        /\ \A x \in DOMAIN block \ {q} : Steady(mem, mem', segs, x)
    BY <1>1, <1>9, ReallocStep
  <2>2. CASE p # q
    BY <1>2, <2>1, <2>2
  <2>3. CASE p = q
    <3>1. block[p] = z.size
      BY <2>1, <2>3
    <3>2. mem' = Write(Resize(mem, FromData(mem, q), z.size), Lines(q, z.size))
      BY <1>9 DEF Realloc, Write
    <3> QED BY <1>1, <2>3, <3>1, <3>2, ResizeToSame
  <2> QED BY <2>2, <2>3
<1> QED BY <1>4, <1>5, <1>6, <1>7, <1>8, <1>9 DEF HeapStep

(* find_suitable_element misses none: an element that holds the data is on *)
(* a list for its size, which is not below that of the data.               *)
LEMMA NoneMissed ==
  ASSUME NEW h, NEW n \in 0 .. Len(Segs), NEW B, HeapOf(h, n, B), NEW sock \in Sockets,
         NEW r, Requested(r), NEW a, Suits(h, sock, r, a)
  PROVE  \E p \in Seen(h, sock, r) : At(h, sock, p) = a
<1> DEFINE k == FreeListIndex(h.elem[a].size - HEADER_LEN)
           len == Cardinality(DOMAIN h.elem)
           list == h.free_head[sock][k]
<1>1. Listed(h, FreeOf(h) \ {}) /\ Typed(h, n) /\ Tiled(h, n)
  BY DEF HeapOf, HeapBut, Tiled
<1>2. a \in FreeOf(h) /\ CanHold(h, a, r) /\ Segs[h.elem[a].ms].socket_id = sock
  BY DEF Suits
<1>3. a \in DOMAIN h.elem /\ a \in Nat /\ h.elem[a].size \in Nat /\ After(h, a) \in Nat
  BY <1>1, <1>2, Header DEF FreeOf, ElemsOf
<1>4. k \in Lists /\ NumLists \in Nat /\ FreeListIndex(r.size) \in Lists
  BY IndexType, MallocAssumption
<1>5. FreeListIndex(r.size) <= k
  <2> DEFINE new == StartPt(h, a, r)
             size == h.elem[a].size
  <2>1. new # -1
    BY <1>2 DEF CanHold
  <2>2. new \in Nat /\ a <= new /\ new + 1 + r.size <= After(h, a)
    <3> HIDE DEF new
    <3>1. new = StartPt(h, a, r)
      BY DEF new
    <3> QED BY <1>3, <2>1, <3>1, StartPtIs
  <2>3. r.size \in Nat /\ After(h, a) = a + size
    BY DEF Requested, After
  <2>4. size \in Nat
    BY <1>3
  <2> HIDE DEF new, size
  <2>5. r.size \in Int /\ size - 1 \in Int /\ r.size <= size - 1
    BY <1>3, <2>2, <2>3, <2>4
  <2>6. FreeListIndex(r.size) <= FreeListIndex(size - 1)
    BY <2>5, IndexMonotone
  <2> QED BY <2>6 DEF size
<1>6. PICK i \in DOMAIN list : list[i] = a
  BY <1>1, <1>2, Zenon DEF Listed, ListOf
<1>7. list \in Seq(Nat) /\ Len(list) <= len
  BY <1>1, <1>4, ListLen DEF Typed
<1>8. len \in Nat
  <2>1. IsFiniteSet(DOMAIN h.elem)
    BY <1>1 DEF Typed
  <2> QED BY <2>1, FS_CardinalityType
<1>9. At(h, sock, <<k, i>>) = a
  BY <1>6 DEF At
<1> HIDE DEF k, len
<1>10. i \in 1 .. len /\ i <= Len(list)
  BY <1>6, <1>7, <1>8
<1>11. k \in FreeListIndex(r.size) .. NumLists - 1
  BY <1>4, <1>5 DEF Lists
<1>12. <<k, i>> \in Seen(h, sock, r)
  <2>1. <<k, i>> \in (FreeListIndex(r.size) .. NumLists - 1) \X (1 .. len)
    BY <1>10, <1>11
  <2> QED BY <1>2, <1>9, <1>10, <2>1 DEF Seen, len
<1> QED BY <1>9, <1>12

LEMMA NoneFits ==
  ASSUME NEW h, NEW n \in 0 .. Len(Segs), NEW B, HeapOf(h, n, B), NEW sock \in Sockets,
         NEW r, Requested(r), FindSuitable(h, sock, r) = NULL,
         NEW a, Suits(h, sock, r, a), r.flags.hint \/ PageFits(r, h.elem[a].ms)
  PROVE  FALSE
<1> DEFINE holds == Seen(h, sock, r)
           right == {p \in holds : PageFits(r, h.elem[At(h, sock, p)].ms)}
<1>1. NULL = IF right # {} THEN At(h, sock, First(right))
             ELSE IF r.flags.hint /\ holds # {} THEN At(h, sock, First(holds))
             ELSE NULL
  BY DEF FindSuitable
<1>2. holds \subseteq Nat \X Nat /\ \A p \in holds : At(h, sock, p) # NULL
  <2>1. SUFFICES ASSUME NEW p \in holds PROVE p \in Nat \X Nat /\ At(h, sock, p) # NULL
    OBVIOUS
  <2>2. p \in Nat \X Nat /\ Suits(h, sock, r, At(h, sock, p))
    BY SeenIs
  <2>3. At(h, sock, p) \in DOMAIN h.elem
    BY <2>2 DEF Suits, FreeOf, ElemsOf
  <2>4. DOMAIN h.elem \subseteq Nat
    BY DEF HeapOf, HeapBut, Tiled, Typed
  <2> QED BY <2>2, <2>3, <2>4
<1>3. PICK p \in holds : At(h, sock, p) = a
  BY NoneMissed
<1>4. PageFits(r, h.elem[a].ms) => p \in right
  BY <1>3
<1>5. right \subseteq holds
  OBVIOUS
<1> HIDE DEF holds, right
<1>6. CASE right # {}
  <2>1. First(right) \in right
    BY <1>2, <1>5, <1>6, FirstIs
  <2> QED BY <1>1, <1>2, <1>5, <1>6, <2>1
<1>7. CASE right = {}
  <2>1. r.flags.hint /\ holds # {}
    BY <1>3, <1>4, <1>7
  <2>2. First(holds) \in holds
    BY <1>2, <2>1, FirstIs
  <2> QED BY <1>1, <1>2, <1>7, <2>1, <2>2
<1> QED BY <1>6, <1>7

(* malloc_heap_alloc changes the heap.                                     *)
LEMMA AllocChanges ==
  ASSUME HeapInv, NEW t \in Threads, AllocatingStep(t)
  PROVE  mem' # mem
<1>1. MemInv /\ CallOf(call[t], block) /\ call[t] # Idle /\ HeapAlloc(t)
  BY DEF HeapInv, CallsOf, AllocatingStep
<1>2. PICK p : Served(mem, mem', segs, block, call[t].req, Head(call[t].socks), p)
  BY <1>1, AllocStep
<1> DEFINE C == With(block, p, call[t].req.size)
<1>3. HeapOf(mem', segs, C) /\ p \notin DOMAIN block
  BY <1>2 DEF Served, Allocated
<1>4. p \in DOMAIN C
  BY DEF With
<1> HIDE DEF C
<1>5. SUFFICES ASSUME mem' = mem PROVE FALSE
  OBVIOUS
<1>6. segs \in 0 .. Len(Segs) /\ HeapOf(mem, segs, block) /\ HeapOf(mem, segs, C)
  BY <1>1, <1>3, <1>5, MemFacts
<1> DEFINE a == FromData(mem, p)
<1>7. a \in BusyOf(mem, segs) /\ p = PtrOf(mem, a)
  BY <1>4, <1>6, ElemOf
<1>8. PtrOf(mem, a) \in DOMAIN block
  BY <1>6, <1>7, ElemOfPtr
<1> QED BY <1>3, <1>7, <1>8

LEMMA FullStep ==
  ASSUME HeapInv, HeapStep, NEW t \in Threads, call[t] # Idle, call[t].op = "malloc",
         call'[t] # call[t], mem' = mem,
         NEW a \in FreeElems, Segs[mem.elem[a].ms].socket_id = Head(call[t].socks),
         CanHold(mem, a, call[t].req), call[t].req.flags.hint \/ PageFits(call[t].req, mem.elem[a].ms)
  PROVE  FALSE
<1>1. RefusingStep(t)
  <2>1. ~AddMemseg /\ ~CallingStep
    BY DEF AddMemseg, CallingStep
  <2>2. \A u \in Threads : ~AllocatingStep(u)
    BY AllocChanges
  <2>3. \A p \in DOMAIN block : ~FreeingStep(p)
    BY DEF FreeingStep
  <2>4. \A u \in Threads, p \in DOMAIN block, z \in Resizes : ~Realloc(u, p, z)
    BY DEF Realloc
  <2>5. PICK u \in Threads : RefusingStep(u)
    BY <2>1, <2>2, <2>3, <2>4 DEF HeapStep
  <2>6. u = t
    BY <2>5 DEF RefusingStep
  <2> QED BY <2>5, <2>6
<1> DEFINE r == call[t].req
           sock == Head(call[t].socks)
<1>2. FindSuitable(mem, sock, r) = NULL
  BY <1>1 DEF RefusingStep, HeapFull
<1>3. Requested(r) /\ sock \in Sockets
  <2>1. CallOf(call[t], block)
    BY DEF HeapInv, CallsOf
  <2>2. Requested(r) /\ call[t].socks \in Seq(Sockets) /\ call[t].socks # <<>>
    BY <2>1 DEF CallOf
  <2> QED BY <2>2
<1>4. Suits(mem, sock, r, a)
  BY SameNames DEF Suits
<1>5. r.flags.hint \/ PageFits(r, mem.elem[a].ms)
  OBVIOUS
<1>6. MemInv
  BY DEF HeapInv
<1> HIDE DEF r, sock
<1> QED BY <1>2, <1>3, <1>4, <1>5, <1>6, NoneFits, MemFacts

(* The same for the heap's own callers: a header that may be read before   *)
(* the heap is locked stays what it is, and a heap that says no has        *)
(* nothing to give.                                                        *)
THEOREM HeapCallsSafe == Spec => HeaderStable /\ FullOnlyWhenNoneFits
<1>1. HeapInv /\ [Next]_vars =>
        [\A p \in DOMAIN block :
           LET a == FromData(mem, p)
               e == mem.elem[a]
           IN p \in DOMAIN block' /\ block'[p] = block[p] =>
                /\ a \in DOMAIN mem'.elem
                /\ [mem'.elem[a] EXCEPT !.prev = e.prev] = e]_vars
  BY HeapCalls, StableStep DEF SameHeader
<1>2. HeapInv /\ [Next]_vars =>
        [\A t \in Threads :
           LET c == call[t]
           IN c # Idle /\ c.op = "malloc" /\ call'[t] # c /\ mem' = mem =>
                ~\E a \in FreeElems :
                   /\ Segs[mem.elem[a].ms].socket_id = Head(c.socks)
                   /\ CanHold(mem, a, c.req)
                   /\ c.req.flags.hint \/ PageFits(c.req, mem.elem[a].ms)]_vars
  BY HeapCalls, FullStep
<1> QED BY <1>1, <1>2, HeapInvariant, PTL DEF HeaderStable, FullOnlyWhenNoneFits, Spec
=============================================================================
