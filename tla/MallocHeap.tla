----------------------------- MODULE MallocHeap -----------------------------
(***************************************************************************)
(* The heap of huge-page memory (malloc_elem.c, malloc_heap.c,             *)
(* rte_malloc.c): elements with a header in front of the data, free lists  *)
(* by size, one heap per NUMA socket under a spinlock of its own.          *)
(*                                                                         *)
(* The unit is the cache line: every size and alignment is rounded up to   *)
(* it, a header takes one line and, without RTE_MALLOC_DEBUG, there is no  *)
(* trailer.  What happens under a heap's lock is one step; the heaps are   *)
(* locked one after the other.                                             *)
(***************************************************************************)
EXTENDS Integers, Sequences, FiniteSets

CONSTANTS
  Threads,
  Segs,       \* memseg[]: a sequence of [addr, len, socket_id, hugepage_sz]
  Requests,   \* what callers ask of malloc_heap_alloc: [size, align, bound, flags]
  Resizes,    \* what callers ask of rte_realloc: [size, align]
  NumLists,   \* RTE_HEAP_NUM_FREELISTS
  MinSize     \* 2^MALLOC_MINSIZE_LOG2: the largest size on the first list

Sockets == {Segs[s].socket_id : s \in DOMAIN Segs}
Lists == 0 .. NumLists - 1
NULL == -1
AnySize == "any"      \* flags without a page size
HEADER_LEN == 1
OVERHEAD == HEADER_LEN
MIN_DATA_SIZE == 1

(* ms->addr + ms->len - MALLOC_ELEM_OVERHEAD, the place of the end marker. *)
EndElem(s) == Segs[s].addr + Segs[s].len - OVERHEAD

ASSUME MallocAssumption ==
  /\ Len(Segs) \in Nat \ {0} /\ DOMAIN Segs = 1 .. Len(Segs)
  /\ \A s \in DOMAIN Segs :
       /\ Segs[s].addr \in Nat \ {0} /\ Segs[s].len \in Nat /\ Segs[s].socket_id \in Nat
       /\ Segs[s].len > OVERHEAD + HEADER_LEN + MIN_DATA_SIZE
  /\ \A s, z \in DOMAIN Segs :
       s # z => Segs[s].addr + Segs[s].len <= Segs[z].addr
                  \/ Segs[z].addr + Segs[z].len <= Segs[s].addr
  /\ NumLists \in Nat \ {0} /\ MinSize \in Nat \ {0} /\ \A k \in Lists : 4 ^ k \in Nat
  /\ \A r \in Requests : r.size \in Nat \ {0} /\ r.align \in Nat \ {0} /\ r.bound \in Nat
  /\ \A z \in Resizes : z.size \in Nat /\ z.align \in Nat

VARIABLES
  mem,          \* [elem, free_head, dirty]: the headers by address, the free
                \* lists of each socket, and the lines that are not all zeros
  segs,         \* how many memsegs have been added
  alloc_count,  \* heap->alloc_count of each socket
  block,        \* the blocks callers own: their size, by address
  call          \* the call each thread is in

vars == <<mem, segs, alloc_count, block, call>>

Elem(size, state, pad, prev, ms) ==
  [size |-> size, state |-> state, pad |-> pad, prev |-> prev, ms |-> ms]
With(f, a, e) == [b \in DOMAIN f \cup {a} |-> IF b = a THEN e ELSE f[b]]
Without(f, S) == [b \in DOMAIN f \ S |-> f[b]]
Lines(a, k) == a .. a + k - 1

-----------------------------------------------------------------------------
(* malloc_elem.c.  Each operator returns the memory after the call.        *)

(* malloc_elem_init                                                        *)
InitElem(h, a, ms, size) ==
  [h EXCEPT !.elem = With(@, a, Elem(size, "FREE", 0, NULL, ms)),
            !.dirty = @ \cup {a}]

AlignFloor(x, a) == (x \div a) * a

(* The two addresses are on one side of every multiple of bound.           *)
SameBound(x, y, bound) == bound = 0 \/ x \div bound = y \div bound

(* elem_start_pt: the header of the data that would end where the element  *)
(* ends, or at the last multiple of bound in it; NULL when it does not fit.*)
StartPt(h, a, r) ==
  LET end == a + h.elem[a].size
      atEnd == AlignFloor(end - r.size, r.align)
      below == AlignFloor(AlignFloor(end, r.bound) - r.size, r.align)
      crosses == ~SameBound(atEnd, end - 1, r.bound)
      data == IF crosses THEN below ELSE atEnd
  IN IF (crosses /\ ~SameBound(below + r.size - 1, below, r.bound))
          \/ data - HEADER_LEN < a
       THEN NULL
       ELSE data - HEADER_LEN

(* malloc_elem_can_hold                                                    *)
CanHold(h, a, r) == StartPt(h, a, r) # NULL

(* split_elem                                                              *)
Split(h, a, at) ==
  LET e == h.elem[a]
      new == InitElem(h, at, e.ms, e.size - (at - a))
  IN [new EXCEPT !.elem[at].prev = a,
                 !.elem[a + e.size].prev = at,
                 !.elem[a].size = at - a]

(* malloc_elem_free_list_index: list k > 0 is for sizes above              *)
(* MinSize * 4^(k-1), the last one for all that are larger.                *)
FreeListIndex(size) ==
  Cardinality({k \in 0 .. NumLists - 2 : size > MinSize * 4 ^ k})

(* malloc_elem_free_list_insert                                            *)
Insert(h, a) ==
  LET sock == Segs[h.elem[a].ms].socket_id
      idx == FreeListIndex(h.elem[a].size - HEADER_LEN)
  IN [h EXCEPT !.elem[a].state = "FREE",
               !.free_head[sock][idx] = <<a>> \o @]

(* LIST_REMOVE                                                             *)
Unlink(list, a) ==
  LET j == CHOOSE j \in DOMAIN list : list[j] = a
  IN IF \E i \in DOMAIN list : list[i] = a
       THEN [i \in 1 .. Len(list) - 1 |-> IF i < j THEN list[i] ELSE list[i + 1]]
       ELSE list

(* elem_free_list_remove: from the list that it is on.                     *)
Remove(h, a) ==
  [h EXCEPT !.free_head =
     [sock \in Sockets |-> [k \in Lists |-> Unlink(@[sock][k], a)]]]

(* join_elem: the second header is no element any more; its line stays as  *)
(* it is.                                                                  *)
Join(h, a, b) ==
  LET next == b + h.elem[b].size
  IN [h EXCEPT !.elem =
        Without([h.elem EXCEPT ![a].size = h.elem[a].size + h.elem[b].size,
                               ![next].prev = a], {b})]

(* The busy element a, its data from new on, with a dummy header there     *)
(* when that is not where a begins.                                        *)
Pad(h, a, new) ==
  LET pad == new - a
      busy == [h EXCEPT !.elem[a].state = "BUSY", !.elem[a].pad = pad]
      dummy == Elem(h.elem[a].size - pad, "PAD", pad, NULL, h.elem[a].ms)
  IN IF pad = 0 THEN busy
     ELSE [busy EXCEPT !.elem = With(@, new, dummy), !.dirty = @ \cup {new}]

(* malloc_elem_alloc                                                       *)
ElemAlloc(h, a, r) ==
  LET new == StartPt(h, a, r)
      old_elem_size == new - a
      trailer_size == h.elem[a].size - old_elem_size - r.size - OVERHEAD
      after == new + r.size + OVERHEAD
      removed == Remove(h, a)
      cut == IF trailer_size > OVERHEAD + MIN_DATA_SIZE
               THEN Insert(Split(removed, a, after), after)
               ELSE removed
  IN IF old_elem_size < OVERHEAD + MIN_DATA_SIZE
       THEN Pad(cut, a, new)
       ELSE Insert([Split(cut, a, new) EXCEPT !.elem[new].state = "BUSY"], a)

(* memset(ptr, 0, sz): headers in these lines are gone.                    *)
Zero(h, ptr, sz) ==
  [h EXCEPT !.elem = Without(@, Lines(ptr, sz)), !.dirty = @ \ Lines(ptr, sz)]

(* Mutant: the header that a join leaves inside the element is not zeroed. *)
ElemFreeDirty(h, a) ==
  LET next == a + h.elem[a].size
      prev == h.elem[a].prev
      joinNext == h.elem[next].state = "FREE"
      joinPrev == prev # NULL /\ h.elem[prev].state = "FREE"
      h1 == IF joinNext THEN Join(Remove(h, next), a, next) ELSE h
      h2 == IF joinPrev THEN Join(Remove(h1, prev), prev, a) ELSE h1
  IN Zero(Insert(h2, IF joinPrev THEN prev ELSE a),
          a + HEADER_LEN, h.elem[a].size - OVERHEAD)

(* malloc_elem_free: joined with its free neighbours, put on a list and    *)
(* zeroed, the headers that the joins left inside included.                *)
ElemFree(h, a) ==
  LET next == a + h.elem[a].size
      prev == h.elem[a].prev
      joinNext == h.elem[next].state = "FREE"
      joinPrev == prev # NULL /\ h.elem[prev].state = "FREE"
      h1 == IF joinNext THEN Join(Remove(h, next), a, next) ELSE h
      h2 == IF joinPrev THEN Join(Remove(h1, prev), prev, a) ELSE h1
      ptr == IF joinPrev THEN a ELSE a + HEADER_LEN
      sz == h.elem[a].size - OVERHEAD
              + (IF joinNext THEN OVERHEAD ELSE 0)
              + (IF joinPrev THEN OVERHEAD ELSE 0)
  IN Zero(Insert(h2, IF joinPrev THEN prev ELSE a), ptr, sz)

(* malloc_elem_resize: whether it returns 0, and the memory then.          *)
NewSize(h, a, size) == size + h.elem[a].pad + OVERHEAD
LargeEnough(h, a, size) == h.elem[a].size >= NewSize(h, a, size)

(* Mutant: the element behind is taken whether it is free or not.          *)
CanGrowOverBusy(h, a, size) ==
  LET next == h.elem[a + h.elem[a].size]
  IN next.size > 0 /\ h.elem[a].size + next.size >= NewSize(h, a, size)

CanGrow(h, a, size) ==
  LET next == h.elem[a + h.elem[a].size]
  IN next.state = "FREE" /\ h.elem[a].size + next.size >= NewSize(h, a, size)
CanResize(h, a, size) == LargeEnough(h, a, size) \/ CanGrow(h, a, size)

Resize(h, a, size) ==
  LET next == a + h.elem[a].size
      at == a + NewSize(h, a, size)
      joined == Join(Remove(h, next), a, next)
  IN IF LargeEnough(h, a, size) THEN h
     ELSE IF joined.elem[a].size - NewSize(h, a, size) >= MIN_DATA_SIZE + OVERHEAD
       THEN Insert(Split(joined, a, at), at)
       ELSE joined

-----------------------------------------------------------------------------
(* malloc_heap.c                                                           *)

(* check_hugepage_sz                                                       *)
PageFits(r, ms) == r.flags.page = AnySize \/ r.flags.page = Segs[ms].hugepage_sz

At(h, sock, p) == h.free_head[sock][p[1]][p[2]]

(* Mutant: the search starts one list too high.                            *)
SeenAbove(h, sock, r) ==
  {p \in (FreeListIndex(r.size) + 1 .. NumLists - 1) \X (1 .. Cardinality(DOMAIN h.elem)) :
     p[2] <= Len(h.free_head[sock][p[1]]) /\ CanHold(h, At(h, sock, p), r)}

(* The free elements of the heap that find_suitable_element looks at, in   *)
(* its order: <<list, position>>.                                          *)
Seen(h, sock, r) ==
  {p \in (FreeListIndex(r.size) .. NumLists - 1) \X (1 .. Cardinality(DOMAIN h.elem)) :
     p[2] <= Len(h.free_head[sock][p[1]]) /\ CanHold(h, At(h, sock, p), r)}
Before(p, q) == p[1] < q[1] \/ (p[1] = q[1] /\ p[2] <= q[2])
First(S) == CHOOSE p \in S : \A q \in S : Before(p, q)

(* find_suitable_element: the first that holds the data and has the right  *)
(* pages; with the hint flag, else the first that holds the data.          *)
FindSuitable(h, sock, r) ==
  LET holds == Seen(h, sock, r)
      right == {p \in holds : PageFits(r, h.elem[At(h, sock, p)].ms)}
  IN IF right # {} THEN At(h, sock, First(right))
     ELSE IF r.flags.hint /\ holds # {} THEN At(h, sock, First(holds))
     ELSE NULL

(* Mutant: the dummy header is taken for the element.                      *)
FromDataNoPad(h, p) == p - HEADER_LEN

(* malloc_elem_from_data: a dummy header leads to the real one.            *)
FromData(h, p) ==
  LET e == h.elem[p - HEADER_LEN]
  IN IF e.state = "PAD" THEN p - HEADER_LEN - e.pad ELSE p - HEADER_LEN

-----------------------------------------------------------------------------
Idle == [op |-> "idle"]

Init ==
  /\ mem = [elem |-> [a \in {} |-> Idle],
            free_head |-> [s \in Sockets |-> [k \in Lists |-> <<>>]],
            dirty |-> {}]
  /\ segs = 0
  /\ alloc_count = [s \in Sockets |-> 0]
  /\ block = [a \in {} |-> 0]
  /\ call = [t \in Threads |-> Idle]

(* One turn of rte_eal_malloc_heap_init: malloc_heap_add_memseg.           *)
AddMemseg ==
  LET ms == segs + 1
      start == Segs[ms].addr
      end == EndElem(ms)
      h1 == InitElem(mem, start, ms, end - start)
      h2 == InitElem(h1, end, ms, 0)
      h3 == [h2 EXCEPT !.elem[end].prev = start, !.elem[end].state = "BUSY"]
  IN /\ segs < Len(Segs)
     /\ mem' = Insert(h3, start)
     /\ segs' = ms
     /\ UNCHANGED <<alloc_count, block, call>>

Ready(t) == segs = Len(Segs) /\ call[t] = Idle

(* The blocks that no rte_realloc is moving.                               *)
Usable ==
  DOMAIN block \ {call[t].from : t \in {u \in Threads : call[u] # Idle}}

(* The sockets in the order in which SOCKET_ID_ANY tries them: that of the *)
(* caller first.                                                           *)
Orders == {o \in [1 .. Cardinality(Sockets) -> Sockets] :
             \A j, k \in DOMAIN o : o[j] = o[k] => j = k}

(* rte_malloc_socket (and the part of a memzone reservation that allocates *)
(* memory): one socket, or all of them in turn.                            *)
Malloc(t, r, socks) ==
  /\ Ready(t)
  /\ call' = [call EXCEPT ![t] = [op |-> "malloc", req |-> r, socks |-> socks, from |-> NULL]]
  /\ UNCHANGED <<mem, segs, alloc_count, block>>

(* malloc_heap_alloc on the next socket: the caller gets the block and     *)
(* writes all of it.  A realloc then copies the old block into it and      *)
(* frees that next.                                                        *)
HeapAlloc(t) ==
  LET r == call[t].req
      sock == Head(call[t].socks)
      a == FindSuitable(mem, sock, r)
      p == StartPt(mem, a, r) + HEADER_LEN
  IN /\ call[t].op = "malloc"
     /\ a # NULL
     /\ mem' = [ElemAlloc(mem, a, r) EXCEPT !.dirty = @ \cup Lines(p, r.size)]
     /\ alloc_count' = [alloc_count EXCEPT ![sock] = @ + 1]
     /\ block' = With(block, p, r.size)
     /\ call' = [call EXCEPT ![t] =
                   IF @.from = NULL THEN Idle ELSE [op |-> "free", from |-> @.from]]
     /\ UNCHANGED segs

(* ... which has none: the next socket is tried, or NULL returned.         *)
HeapFull(t) ==
  LET r == call[t].req
  IN /\ call[t].op = "malloc"
     /\ FindSuitable(mem, Head(call[t].socks), r) = NULL
     /\ call' = [call EXCEPT ![t] =
                   IF Len(@.socks) = 1 THEN Idle
                   ELSE [op |-> "malloc", req |-> r, socks |-> Tail(@.socks), from |-> @.from]]
     /\ UNCHANGED <<mem, segs, alloc_count, block>>

FreeBlock(p) ==
  LET a == FromData(mem, p)
      sock == Segs[mem.elem[a].ms].socket_id
  IN /\ mem.elem[a].state = "BUSY"
     /\ mem' = ElemFree(mem, a)
     /\ alloc_count' = [alloc_count EXCEPT ![sock] = @ - 1]
     /\ block' = Without(block, {p})

(* rte_free                                                                *)
Free(t, p) ==
  /\ Ready(t)
  /\ FreeBlock(p)
  /\ UNCHANGED <<segs, call>>

(* rte_realloc, up to the decision.  An alignment of 0 is not the          *)
(* alignment of any pointer.                                               *)
InPlace(p, z) ==
  z.align # 0 /\ p % z.align = 0 /\ CanResize(mem, FromData(mem, p), z.size)

Realloc(t, p, z) ==
  /\ Ready(t)
  /\ InPlace(p, z)
  /\ mem' = [Resize(mem, FromData(mem, p), z.size) EXCEPT !.dirty = @ \cup Lines(p, z.size)]
  /\ block' = [block EXCEPT ![p] = z.size]
  /\ UNCHANGED <<segs, alloc_count, call>>

(* rte_realloc that moves: rte_malloc, of which a size of 0 gets NULL.     *)
ReallocMove(t, p, z, socks) ==
  /\ Ready(t)
  /\ ~InPlace(p, z)
  /\ z.size > 0
  /\ call' = [call EXCEPT ![t] =
       [op |-> "malloc", socks |-> socks, from |-> p,
        req |-> [size |-> z.size, align |-> IF z.align = 0 THEN 1 ELSE z.align,
                 bound |-> 0, flags |-> [page |-> AnySize, hint |-> FALSE]]]]
  /\ UNCHANGED <<mem, segs, alloc_count, block>>

(* ... and its rte_free of the old block.                                  *)
ReallocFree(t) ==
  /\ call[t].op = "free"
  /\ FreeBlock(call[t].from)
  /\ call' = [call EXCEPT ![t] = Idle]
  /\ UNCHANGED segs

Next ==
  \/ AddMemseg
  \/ \E t \in Threads :
       \/ \E r \in Requests :
            \E socks \in Orders \cup {<<s>> : s \in Sockets} : Malloc(t, r, socks)
       \/ HeapAlloc(t) \/ HeapFull(t)
       \/ \E p \in Usable : Free(t, p)
       \/ \E p \in Usable, z \in Resizes :
            Realloc(t, p, z) \/ \E socks \in Orders : ReallocMove(t, p, z, socks)
       \/ ReallocFree(t)

Spec == Init /\ [][Next]_vars

-----------------------------------------------------------------------------
(* The elements, the dummy headers of padded ones left aside.              *)
Elems == {a \in DOMAIN mem.elem : mem.elem[a].state # "PAD"}
EndMarkers == {EndElem(s) : s \in 1 .. segs}
FreeElems == {a \in Elems : mem.elem[a].state = "FREE"}
BusyElems == {a \in Elems : mem.elem[a].state = "BUSY"} \ EndMarkers
NextOf(a) == a + mem.elem[a].size
Data(a) == Lines(a + HEADER_LEN, mem.elem[a].size - OVERHEAD)
OnLists == {q \in Sockets \X Lists \X (1 .. Cardinality(DOMAIN mem.elem)) :
              q[3] <= Len(mem.free_head[q[1]][q[2]])}

(* The type of the state.                                                  *)
TypeOK ==
  /\ segs \in 0 .. Len(Segs)
  /\ DOMAIN mem.elem \cup DOMAIN block \subseteq Nat
  /\ mem.dirty \subseteq UNION {Lines(Segs[s].addr, Segs[s].len) : s \in 1 .. segs}
  /\ \A a \in DOMAIN mem.elem :
       LET e == mem.elem[a]
       IN /\ e.state \in {"FREE", "BUSY", "PAD"}
          /\ e.ms \in 1 .. segs /\ e.pad \in 0 .. 1
          /\ e.prev \in DOMAIN mem.elem \cup {NULL}

(* From the first element of a memseg, sizes lead from header to header up *)
(* to the end marker, and prev leads back: no call, in whatever order      *)
(* blocks are allocated, padded, resized and freed, loses a line or lets   *)
(* two elements overlap (split_elem, join_elem).                           *)
HeapTiles ==
  \A s \in 1 .. segs :
    LET here == {a \in Elems : mem.elem[a].ms = s}
    IN /\ Segs[s].addr \in here /\ EndElem(s) \in here
       /\ mem.elem[Segs[s].addr].prev = NULL
       /\ \A a \in here \ {EndElem(s)} :
            /\ mem.elem[a].size > OVERHEAD
            /\ NextOf(a) \in here /\ mem.elem[NextOf(a)].prev = a
            /\ Data(a) \cap Elems = {}

(* The free elements, and no others, are on the free lists, each once, on  *)
(* the list of its size and of its socket; and no two of them are          *)
(* neighbours, so memory that is free is found in one piece.               *)
FreeListsExact ==
  /\ {At(mem, q[1], <<q[2], q[3]>>) : q \in OnLists} = FreeElems
  /\ Cardinality(OnLists) = Cardinality(FreeElems)
  /\ \A q \in OnLists :
       LET e == mem.elem[At(mem, q[1], <<q[2], q[3]>>)]
       IN q[1] = Segs[e.ms].socket_id /\ q[2] = FreeListIndex(e.size - HEADER_LEN)
  /\ \A a \in FreeElems : NextOf(a) \notin FreeElems

(* Every block that a caller owns lies in the data of the busy element     *)
(* malloc_elem_from_data finds for it, behind the padding; no element has  *)
(* two blocks, and every busy element has one: none has leaked.  The count *)
(* of each heap is the number of its blocks.                               *)
BlocksOwned ==
  /\ \A p \in DOMAIN block : p - HEADER_LEN \in DOMAIN mem.elem
  /\ \A p \in DOMAIN block :
       LET a == FromData(mem, p)
       IN /\ a \in BusyElems
          /\ p = a + mem.elem[a].pad + HEADER_LEN
          /\ p + block[p] <= NextOf(a)
  /\ {FromData(mem, p) : p \in DOMAIN block} = BusyElems
  /\ \A s \in Sockets :
       alloc_count[s] =
         Cardinality({p \in DOMAIN block : Segs[mem.elem[FromData(mem, p)].ms].socket_id = s})

(* What a caller gets is all zeros, although nothing is cleared when it is *)
(* allocated: rte_zmalloc relies on rte_free, which clears the data and    *)
(* the headers that a join leaves behind.                                  *)
AllocZeroed ==
  [][\A p \in DOMAIN block' \ DOMAIN block : Lines(p, block'[p]) \cap mem.dirty = {}]_vars

(* A heap says no only when none of its free elements can hold the request *)
(* (on pages of the right size): starting at the list of the size that is  *)
(* asked for misses none.                                                  *)
FullOnlyWhenNoneFits ==
  [][\A t \in Threads :
       LET c == call[t]
       IN c # Idle /\ c.op = "malloc" /\ call'[t] # c /\ mem' = mem =>
            ~\E a \in FreeElems :
               /\ Segs[mem.elem[a].ms].socket_id = Head(c.socks)
               /\ CanHold(mem, a, c.req)
               /\ c.req.flags.hint \/ PageFits(c.req, mem.elem[a].ms)]_vars

(* A block is where and how it was asked for: aligned, inside a multiple   *)
(* of bound, on the pages asked for.                                       *)
AllocAsAsked ==
  [][\A t \in Threads :
       call[t] # Idle /\ call[t].op = "malloc" /\ mem' # mem =>
         \A p \in DOMAIN block' \ DOMAIN block :
           LET r == call[t].req
           IN call'[t] # call[t] =>
                /\ p % r.align = 0
                /\ SameBound(p, p + r.size - 1, r.bound)
                /\ r.flags.hint \/ PageFits(r, mem'.elem[p - HEADER_LEN].ms)]_vars

(* The header of a busy element changes only in a call on its own block:   *)
(* malloc_elem_resize and malloc_elem_free may read it before they lock    *)
(* the heap.                                                               *)
HeaderStable ==
  [][\A p \in DOMAIN block :
       LET a == FromData(mem, p)
           e == mem.elem[a]
       IN p \in DOMAIN block' /\ block'[p] = block[p] =>
            /\ a \in DOMAIN mem'.elem
            /\ [mem'.elem[a] EXCEPT !.prev = e.prev] = e]_vars

(* The heap is in order after every call, whatever came before: its        *)
(* elements tile the memsegs, the free lists have exactly the free ones,   *)
(* and each busy one is the block of one caller (malloc_elem.c,            *)
(* malloc_heap.c).                                                         *)
HeapSound == TypeOK /\ HeapTiles /\ FreeListsExact /\ BlocksOwned

(* A new block is what the caller of rte_zmalloc asked for: zeroed,        *)
(* aligned, within its boundary, on the right pages.                       *)
AllocSound == AllocZeroed /\ AllocAsAsked
=============================================================================
