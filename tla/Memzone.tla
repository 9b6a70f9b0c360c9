------------------------------- MODULE Memzone ------------------------------
(***************************************************************************)
(* Memzones (eal_common_memzone.c): named blocks of the heap of            *)
(* MallocHeap, kept in a table of the shared configuration under mlock.    *)
(* Threads reserve and free zones while they and others use the heap       *)
(* directly.  mlock is held from the checks of a reservation to its end;   *)
(* the heaps are locked inside it, one at a time.  A call that is refused  *)
(* (no room, a name that exists, arguments that are no good, a zone that   *)
(* was freed before) changes nothing: it is a stuttering step.             *)
(***************************************************************************)
EXTENDS MallocHeap

CONSTANTS
  MaxMemzone,    \* RTE_MAX_MEMZONE
  ZoneNames,
  ZoneRequests   \* [len, align, bound, flags, socket], in lines

AnySocket == -1      \* SOCKET_ID_ANY
ASSUME MemzoneAssumption ==
  /\ MaxMemzone \in Nat \ {0}
  /\ \A z \in ZoneRequests :
       /\ z.len \in Nat /\ z.align \in Nat /\ z.bound \in Nat
       /\ z.socket \in Sockets \cup {AnySocket}

NoZone == [name |-> "", addr |-> NULL, len |-> 0, socket_id |-> AnySocket]
Slots == 0 .. MaxMemzone - 1

VARIABLES
  memzone, memzone_cnt,
  zcall,     \* the memzone call each thread is in
  zblocks    \* history: the blocks allocated for zones and not yet freed

zone_vars == <<memzone, memzone_cnt, zcall, zblocks>>
mz_vars == <<vars, zone_vars>>

(* rte_eal_memzone_init; rte_eal_malloc_heap_init then adds the memsegs.   *)
ZoneInit ==
  /\ Init
  /\ memzone = [i \in Slots |-> NoZone]
  /\ memzone_cnt = 0
  /\ zcall = [t \in Threads |-> Idle]
  /\ zblocks = {}

(* mlock is held by a reservation under way; the others hold it for one    *)
(* step.                                                                   *)
mlock_free == \A t \in Threads : zcall[t].op \notin {"max", "alloc"}

Used == {i \in Slots : memzone[i].addr # NULL}

(* memzone_lookup_thread_unsafe                                            *)
Lookup(n) == {i \in Used : memzone[i].name = n}

(* get_next_free_memzone                                                   *)
NextFree == CHOOSE i \in Slots \ Used : \A j \in Slots \ Used : i <= j

IsPowerOf2(x) == \E k \in 0 .. x : x = 2 ^ k
AtLeastOne(x) == IF x = 0 THEN 1 ELSE x

(* The checks of memzone_reserve_aligned_thread_unsafe.                    *)
Refused(n, z) ==
  \/ memzone_cnt >= MaxMemzone
  \/ Lookup(n) # {}
  \/ z.align # 0 /\ ~IsPowerOf2(z.align)
  \/ z.bound # 0 /\ (AtLeastOne(z.len) > z.bound \/ ~IsPowerOf2(z.bound))

Request(z, len) ==
  [size |-> len, align |-> AtLeastOne(z.align), bound |-> z.bound, flags |-> z.flags]

(* The heaps to try: the one of the socket, or all, that of the caller     *)
(* first.                                                                  *)
Tries(socket) == IF socket = AnySocket THEN Orders ELSE {<<socket>>}

(* malloc_heap_alloc is next.                                              *)
Allocate(t, n, z, len, socket, max) ==
  \E socks \in Tries(socket) :
    /\ call' = [call EXCEPT ![t] = [op |-> "malloc", req |-> Request(z, len),
                                    socks |-> socks, from |-> NULL]]
    /\ zcall' = [zcall EXCEPT ![t] = [op |-> "alloc", name |-> n, max |-> max]]

(* rte_memzone_reserve, _aligned, _bounded: mlock is taken.  A length of 0 *)
(* asks for bound, or for the greatest free element.                       *)
Reserve(t, n, z) ==
  /\ Ready(t) /\ zcall[t] = Idle /\ mlock_free
  /\ ~Refused(n, z)
  /\ IF z.len = 0 /\ z.bound = 0
       THEN /\ zcall' = [zcall EXCEPT ![t] = [op |-> "max", name |-> n, req |-> z, len |-> 0,
                                              socket |-> z.socket, look |-> Sockets]]
            /\ UNCHANGED call
       ELSE Allocate(t, n, z, IF z.len = 0 THEN z.bound ELSE z.len, z.socket, 0)
  /\ UNCHANGED <<mem, segs, alloc_count, block, memzone, memzone_cnt, zblocks>>

(* greatest_free_size of malloc_heap_get_stats                             *)
Greatest(h, sock) ==
  LET listed(k) == {h.free_head[sock][k][j] : j \in DOMAIN h.free_head[sock][k]}
      sizes == {h.elem[a].size : a \in UNION {listed(k) : k \in Lists}}
  IN IF sizes = {} THEN 0 ELSE CHOOSE x \in sizes : \A y \in sizes : x >= y

(* find_heap_max_free_elem: malloc_heap_get_stats of the next socket.      *)
MaxFreeElem(t) ==
  LET c == zcall[t]
      sock == CHOOSE s \in c.look : \A u \in c.look : s <= u
      len == Greatest(mem, sock)
      skip == c.req.socket # AnySocket /\ c.req.socket # sock
  IN /\ c.op = "max" /\ c.look # {}
     /\ zcall' = [zcall EXCEPT ![t] =
          IF skip \/ len <= c.len THEN [c EXCEPT !.look = @ \ {sock}]
          ELSE [c EXCEPT !.look = @ \ {sock}, !.len = len, !.socket = sock]]
     /\ UNCHANGED <<vars, memzone, memzone_cnt, zblocks>>

(* Mutant: the room that the alignment may take is not subtracted.         *)
WholeLenUnaligned(len, align) == IF len < OVERHEAD + align THEN 0 ELSE len - OVERHEAD

WholeLen(len, align) == IF len < OVERHEAD + align THEN 0 ELSE len - OVERHEAD - align

ReserveWhole(t) ==
  LET c == zcall[t]
      len == WholeLen(c.len, AtLeastOne(c.req.align))
  IN /\ c.op = "max" /\ c.look = {}
     /\ IF len = 0
          THEN zcall' = [zcall EXCEPT ![t] = Idle] /\ UNCHANGED call
          ELSE Allocate(t, c.name, c.req, len, c.socket, c.len)
     /\ UNCHANGED <<mem, segs, alloc_count, block, memzone, memzone_cnt, zblocks>>

(* The block is allocated and the zone filled in; mlock is given back.     *)
ZoneAlloc(t) ==
  /\ zcall[t].op = "alloc"
  /\ HeapAlloc(t)
  /\ LET p == CHOOSE x \in DOMAIN block' : x \notin DOMAIN block
         ms == mem'.elem[FromData(mem', p)].ms
     IN /\ memzone' = [memzone EXCEPT ![NextFree] =
                         [name |-> zcall[t].name, addr |-> p, len |-> call[t].req.size,
                          socket_id |-> Segs[ms].socket_id]]
        /\ zblocks' = zblocks \cup {p}
  /\ memzone_cnt' = memzone_cnt + 1
  /\ zcall' = [zcall EXCEPT ![t] = Idle]

(* This heap has no room: the next one, or ENOMEM.                         *)
ZoneFull(t) ==
  /\ zcall[t].op = "alloc"
  /\ HeapFull(t)
  /\ zcall' = IF call'[t] = Idle THEN [zcall EXCEPT ![t] = Idle] ELSE zcall
  /\ UNCHANGED <<memzone, memzone_cnt, zblocks>>

(* Mutant: the zone is not taken from the count.                           *)
ZoneFreeUncounted(t, i) ==
  /\ Ready(t) /\ zcall[t] = Idle /\ mlock_free
  /\ i \in Used
  /\ memzone' = [memzone EXCEPT ![i] = NoZone]
  /\ zcall' = [zcall EXCEPT ![t] = [op |-> "free", addr |-> memzone[i].addr]]
  /\ UNCHANGED <<vars, memzone_cnt, zblocks>>

(* rte_memzone_free: the slot is cleared under mlock ...                   *)
ZoneFree(t, i) ==
  /\ Ready(t) /\ zcall[t] = Idle /\ mlock_free
  /\ i \in Used
  /\ memzone' = [memzone EXCEPT ![i] = NoZone]
  /\ memzone_cnt' = memzone_cnt - 1
  /\ zcall' = [zcall EXCEPT ![t] = [op |-> "free", addr |-> memzone[i].addr]]
  /\ UNCHANGED <<vars, zblocks>>

(* ... and the memory freed after it.                                      *)
ZoneFreeBlock(t) ==
  /\ zcall[t].op = "free"
  /\ FreeBlock(zcall[t].addr)
  /\ zblocks' = zblocks \ {zcall[t].addr}
  /\ zcall' = [zcall EXCEPT ![t] = Idle]
  /\ UNCHANGED <<segs, call, memzone, memzone_cnt>>

(* What a thread does with the heap itself, its own blocks only.           *)
HeapCall(t) ==
  \/ \E r \in Requests :
       \E socks \in Orders \cup {<<s>> : s \in Sockets} : Malloc(t, r, socks)
  \/ HeapAlloc(t) \/ HeapFull(t)
  \/ \E p \in Usable \ zblocks : Free(t, p)
  \/ \E p \in Usable \ zblocks, z \in Resizes :
       Realloc(t, p, z) \/ \E socks \in Orders : ReallocMove(t, p, z, socks)
  \/ ReallocFree(t)

ZoneNext ==
  \/ AddMemseg /\ UNCHANGED zone_vars
  \/ \E t \in Threads :
       \/ zcall[t] = Idle /\ HeapCall(t) /\ UNCHANGED zone_vars
       \/ \E n \in ZoneNames, z \in ZoneRequests : Reserve(t, n, z)
       \/ MaxFreeElem(t) \/ ReserveWhole(t) \/ ZoneAlloc(t) \/ ZoneFull(t)
       \/ \E i \in Slots : ZoneFree(t, i)
       \/ ZoneFreeBlock(t)

ZoneSpec == ZoneInit /\ [][ZoneNext]_mz_vars

-----------------------------------------------------------------------------
Freeing == {t \in Threads : zcall[t].op = "free"}

(* Every zone of the table has a name of its own and owns a block of its   *)
(* length on its socket; and the blocks allocated for zones are those of   *)
(* the table and those that rte_memzone_free is about to free, although it *)
(* frees them when mlock is no longer held: none is lost or freed twice.   *)
ZonesOwnBlocks ==
  /\ \A i, j \in Used : memzone[i].name = memzone[j].name => i = j
  /\ \A i \in Used :
       /\ memzone[i].addr \in DOMAIN block
       /\ block[memzone[i].addr] = memzone[i].len
       /\ memzone[i].socket_id = Segs[mem.elem[FromData(mem, memzone[i].addr)].ms].socket_id
  /\ zblocks = {memzone[i].addr : i \in Used} \cup {zcall[t].addr : t \in Freeing}
  /\ Cardinality(zblocks) = Cardinality(Used) + Cardinality(Freeing)

(* memzone_cnt is the number of slots in use whatever fails and whoever    *)
(* frees: "Cannot find free memzone but there is room in config!" and the  *)
(* panic "memzone address not NULL but memzone_cnt is 0!" cannot happen.   *)
CountExact == memzone_cnt = Cardinality(Used)

(* A zone of length 0 gets the greatest free element: the allocation,      *)
(* which comes after the heap was unlocked, fails only when somebody has   *)
(* made that heap's greatest element smaller in between.                   *)
WholeFitsUnlessTaken ==
  [][\A t \in Threads :
       zcall[t].op = "alloc" /\ zcall[t].max > 0 /\ zcall'[t] = Idle /\ mem' = mem
         /\ (call[t].req.flags.page = AnySize \/ call[t].req.flags.hint) =>
           Greatest(mem, Head(call[t].socks)) < zcall[t].max]_mz_vars

(* The table of memzones, its count and the blocks of the heap agree       *)
(* through every reservation, failure and free, although table and heap    *)
(* are not changed under one lock (eal_common_memzone.c).                  *)
ZonesSound == ZonesOwnBlocks /\ CountExact /\ BlocksOwned
=============================================================================
