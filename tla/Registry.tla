------------------------------ MODULE Registry ------------------------------
(***************************************************************************)
(* Creating, freeing and listing rings and mempools (librte_ring/rte_ring.c,*)
(* librte_mempool/rte_mempool.c, driver/ring/rte_mempool_ring.c): memzones *)
(* for the objects, entries of two tail queues that refer to them, and the *)
(* locks mplock and qlock.  A mempool owns a ring and chunks of memory.    *)
(*                                                                         *)
(* What is done under mlock or a heap's lock is one step, and any          *)
(* allocation may fail.  It takes the first place that is free: memory is  *)
(* reused at once, and an address says nothing about who is there.  A      *)
(* reader of a list takes one entry a step.                                *)
(***************************************************************************)
EXTENDS Integers, Sequences, FiniteSets

CONSTANTS
  Callers,
  RingNames, PoolNames,
  Addrs,        \* where memzones can be, a set of numbers
  Tes,          \* where list entries can be, another
  MaxChunks     \* BOUND: memory chunks of a mempool

NoOne == "no one"
Nil == 0

ASSUME RegistryAssumption ==
  /\ MaxChunks \in Nat \ {0}
  /\ IsFiniteSet(Callers) /\ NoOne \notin Callers
  /\ Addrs \subseteq Nat \ {Nil} /\ IsFiniteSet(Addrs)
  /\ Tes \subseteq Nat \ {Nil}

NoPool == [ring |-> Nil, chunks |-> {}]

VARIABLES
  qlock, mplock, \* [w, r]: the writer, and the readers
  zone,          \* the memzone at each address: its name, or <<>>
  te_used,       \* the list entries that are allocated
  ring_list, pool_list,   \* sequences of [te, data]
  pool,          \* struct rte_mempool at each address
  loc,           \* where each caller is, and its locals
  owned          \* the objects that callers may use and free: <<type, address>>

reg_vars == <<qlock, mplock, zone, te_used, ring_list, pool_list, pool, loc, owned>>
memory == <<zone, te_used>>
lists == <<ring_list, pool_list>>

Unlocked == [w |-> NoOne, r |-> {}]
Returned == [pc |-> "idle", te |-> Nil, mp |-> Nil, ring |-> Nil, chunk |-> Nil, name |-> <<>>, pos |-> 0]

RegInit ==
  /\ qlock = Unlocked /\ mplock = Unlocked
  /\ zone = [a \in Addrs |-> <<>>]
  /\ te_used = {}
  /\ ring_list = <<>> /\ pool_list = <<>>
  /\ pool = [a \in Addrs |-> NoPool]
  /\ loc = [t \in Callers |-> Returned]
  /\ owned = {}

Go(t, l) == loc' = [loc EXCEPT ![t].pc = l]
GoWith(t, l, r) == loc' = [loc EXCEPT ![t] = [r EXCEPT !.pc = l]]
Leave(t) == loc' = [loc EXCEPT ![t] = Returned]
InPool(t) == loc[t].mp # Nil

MayWrite(lock) == lock.w = NoOne /\ lock.r = {}
MayRead(lock) == lock.w = NoOne

FirstOf(S) == {a \in S : \A b \in S : a <= b}
FreeAddr == FirstOf({a \in Addrs : zone[a] = <<>>})
FreeTe == FirstOf(Tes \ te_used)

(* rte_memzone_reserve_aligned: a name is given once, where there is room. *)
Reserved(name, a) ==
  /\ \A b \in Addrs : zone[b] # name
  /\ zone' = [zone EXCEPT ![a] = name]

Entries(list) == {list[i] : i \in DOMAIN list}

(* TAILQ_FOREACH until te->data is the object.                             *)
Find(list, obj) ==
  LET S == {i \in DOMAIN list : list[i].data = obj}
  IN IF S = {} THEN 0 ELSE CHOOSE i \in S : \A j \in S : i <= j
Drop(list, i) == SubSeq(list, 1, i - 1) \o SubSeq(list, i + 1, Len(list))

-----------------------------------------------------------------------------
(* rte_ring_create, of a caller or of common_ring_alloc.  The entry comes  *)
(* first, then qlock, the memzone under it, the ring and the list.         *)
RingCreate(t, n) ==
  /\ loc[t].pc = "idle"
  /\ GoWith(t, "rc_te", [Returned EXCEPT !.name = <<"RG", n>>])
  /\ UNCHANGED <<qlock, mplock, memory, lists, pool, owned>>

RingFailed(t) == IF InPool(t) THEN Go(t, "phy_fail") ELSE Leave(t)

RingTe(t) ==
  /\ loc[t].pc = "rc_te"
  /\ \/ \E e \in FreeTe :
          /\ te_used' = te_used \cup {e}
          /\ loc' = [loc EXCEPT ![t].te = e, ![t].pc = "rc_lock"]
     \/ RingFailed(t) /\ UNCHANGED te_used
  /\ UNCHANGED <<qlock, mplock, zone, lists, pool, owned>>

RingLock(t) ==
  /\ loc[t].pc = "rc_lock"
  /\ MayWrite(qlock)
  /\ qlock' = [qlock EXCEPT !.w = t]
  /\ Go(t, "rc_zone")
  /\ UNCHANGED <<mplock, memory, lists, pool, owned>>

FreedTes(t) == te_used \ {loc[t].te}

(* Mutant: the lock is kept when there is no memory.                      *)
NoRingLocked(t) == te_used' = FreedTes(t) /\ UNCHANGED qlock /\ RingFailed(t)

NoRing(t) == te_used' = FreedTes(t) /\ qlock' = Unlocked /\ RingFailed(t)

RingZone(t) ==
  LET name == loc[t].name
  IN /\ loc[t].pc = "rc_zone"
     /\ \/ \E a \in FreeAddr :
             /\ Reserved(name, a)
             /\ qlock' = Unlocked
             /\ ring_list' = Append(ring_list, [te |-> loc[t].te, data |-> a])
             /\ IF InPool(t)
                  THEN /\ pool' = [pool EXCEPT ![loc[t].mp].ring = a]
                       /\ Go(t, "phy")
                       /\ UNCHANGED owned
                  ELSE /\ owned' = owned \cup {<<"ring", a>>}
                       /\ Leave(t)
                       /\ UNCHANGED pool
             /\ UNCHANGED te_used
        \/ NoRing(t) /\ UNCHANGED <<zone, ring_list, pool, owned>>
     /\ UNCHANGED <<mplock, pool_list>>

(* rte_ring_free: the memory, then the entry of the list, then that of the *)
(* heap.                                                                   *)
RingFree(t, a) ==
  /\ loc[t].pc = "idle"
  /\ <<"ring", a>> \in owned
  /\ owned' = owned \ {<<"ring", a>>}
  /\ GoWith(t, "rf_zone", [Returned EXCEPT !.ring = a])
  /\ UNCHANGED <<qlock, mplock, memory, lists, pool>>

RingFreeZone(t) ==
  /\ loc[t].pc = "rf_zone"
  /\ zone' = [zone EXCEPT ![loc[t].ring] = <<>>]
  /\ Go(t, "rf_unlink")
  /\ UNCHANGED <<qlock, mplock, te_used, lists, pool, owned>>

(* Mutant: the last entry is dropped, not the one of the ring.             *)
RingUnlinkLast(t) ==
  /\ loc[t].pc = "rf_unlink"
  /\ MayWrite(qlock)
  /\ ring_list' = Drop(ring_list, Len(ring_list))
  /\ loc' = [loc EXCEPT ![t].te = ring_list[Len(ring_list)].te, ![t].pc = "rf_te"]
  /\ UNCHANGED <<qlock, mplock, memory, pool_list, pool, owned>>

RingUnlink(t) ==
  LET i == Find(ring_list, loc[t].ring)
  IN /\ loc[t].pc = "rf_unlink"
     /\ MayWrite(qlock)
     /\ i # 0
     /\ ring_list' = Drop(ring_list, i)
     /\ loc' = [loc EXCEPT ![t].te = ring_list[i].te, ![t].pc = "rf_te"]
     /\ UNCHANGED <<qlock, mplock, memory, pool_list, pool, owned>>

RingFreeTe(t) ==
  /\ loc[t].pc = "rf_te"
  /\ te_used' = FreedTes(t)
  /\ IF InPool(t) THEN Go(t, "pf_zone") ELSE Leave(t)
  /\ UNCHANGED <<qlock, mplock, zone, lists, pool, owned>>

-----------------------------------------------------------------------------
(* rte_mempool_create: rte_mempool_create_empty under mplock ...           *)
PoolCreate(t, n) ==
  /\ loc[t].pc = "idle"
  /\ MayWrite(mplock)
  /\ mplock' = [mplock EXCEPT !.w = t]
  /\ GoWith(t, "pc_te", [Returned EXCEPT !.name = <<"MP", n>>])
  /\ UNCHANGED <<qlock, memory, lists, pool, owned>>

(* exit_unlock, with no mempool yet                                        *)
PoolExit(t) == mplock' = Unlocked /\ Leave(t)

PoolTe(t) ==
  /\ loc[t].pc = "pc_te"
  /\ \/ \E e \in FreeTe :
          /\ te_used' = te_used \cup {e}
          /\ loc' = [loc EXCEPT ![t].te = e, ![t].pc = "pc_zone"]
          /\ UNCHANGED mplock
     \/ PoolExit(t) /\ UNCHANGED te_used
  /\ UNCHANGED <<qlock, zone, lists, pool, owned>>

PoolZone(t) ==
  /\ loc[t].pc = "pc_zone"
  /\ \/ \E a \in FreeAddr :
          /\ Reserved(loc[t].name, a)
          /\ pool' = [pool EXCEPT ![a] = NoPool]
          /\ loc' = [loc EXCEPT ![t].mp = a, ![t].pc = "pc_lock"]
          /\ UNCHANGED <<mplock, te_used>>
     \/ /\ PoolExit(t)
        /\ te_used' = FreedTes(t)
        /\ UNCHANGED <<zone, pool>>
  /\ UNCHANGED <<qlock, lists, owned>>

(* ... with qlock inside for the list.                                     *)
PoolInsert(t) ==
  /\ loc[t].pc = "pc_lock"
  /\ MayWrite(qlock)
  /\ pool_list' = Append(pool_list, [te |-> loc[t].te, data |-> loc[t].mp])
  /\ mplock' = Unlocked
  /\ Go(t, "populate")
  /\ UNCHANGED <<qlock, memory, ring_list, pool, owned>>

(* One turn of rte_mempool_populate_default: a memzone for the objects     *)
(* left, or the largest there is; the first needs the ring.                *)
Populate(t) ==
  LET mp == loc[t].mp
      name == loc[t].name \o <<Cardinality(pool[mp].chunks)>>
  IN /\ loc[t].pc = "populate"
     /\ \/ \E a \in FreeAddr :
             /\ Reserved(name, a)
             /\ loc' = [loc EXCEPT ![t].chunk = a,
                                   ![t].pc = IF pool[mp].ring = Nil THEN "pool_ring" ELSE "phy"]
        \/ Go(t, "fail") /\ UNCHANGED zone
     /\ UNCHANGED <<qlock, mplock, te_used, lists, pool, owned>>

(* common_ring_alloc: a ring with the mempool's name; the name is too      *)
(* long, or rte_ring_create.                                               *)
PoolRing(t) ==
  /\ loc[t].pc = "pool_ring"
  /\ \/ Go(t, "phy_fail")
     \/ loc' = [loc EXCEPT ![t].name = <<"RG">> \o @, ![t].pc = "rc_te"]
  /\ UNCHANGED <<qlock, mplock, memory, lists, pool, owned>>

PoolName(t) == IF loc[t].name[1] = "RG" THEN Tail(loc[t].name) ELSE loc[t].name

(* rte_mempool_populate_phy: no memory for the header, or no room for an   *)
(* object; or some are added and the loop ends or needs another chunk.     *)
PopulatePhy(t) ==
  LET mp == loc[t].mp
  IN /\ loc[t].pc = "phy"
     /\ \/ Go(t, "phy_fail") /\ UNCHANGED <<pool, owned>>
        \/ /\ pool' = [pool EXCEPT ![mp].chunks = @ \cup {loc[t].chunk}]
           /\ \/ owned' = owned \cup {<<"pool", mp>>} /\ Leave(t)
              \/ /\ Cardinality(pool[mp].chunks) + 1 < MaxChunks
                 /\ GoWith(t, "populate", [loc[t] EXCEPT !.chunk = Nil, !.name = PoolName(t)])
                 /\ UNCHANGED owned
     /\ UNCHANGED <<qlock, mplock, memory, lists>>

(* Mutant: a chunk that could not be used is not given back.               *)
PhyFailKept(t) ==
  /\ loc[t].pc = "phy_fail"
  /\ Go(t, "fail")
  /\ UNCHANGED <<qlock, mplock, memory, lists, pool, owned>>

PhyFail(t) ==
  /\ loc[t].pc = "phy_fail"
  /\ zone' = [zone EXCEPT ![loc[t].chunk] = <<>>]
  /\ Go(t, "fail")
  /\ UNCHANGED <<qlock, mplock, te_used, lists, pool, owned>>

(* rte_mempool_free_memchunks, of the failing populate and of              *)
(* rte_mempool_free, which follows it.                                     *)
FreeMemchunk(t) ==
  LET mp == loc[t].mp
  IN /\ loc[t].pc \in {"fail", "pf_chunks"}
     /\ \/ \E a \in pool[mp].chunks :
             /\ zone' = [zone EXCEPT ![a] = <<>>]
             /\ pool' = [pool EXCEPT ![mp].chunks = @ \ {a}]
             /\ UNCHANGED loc
        \/ /\ pool[mp].chunks = {}
           /\ IF loc[t].pc = "fail" THEN Go(t, "pf_unlink")
              ELSE IF pool[mp].ring = Nil THEN Go(t, "pf_zone")
              ELSE GoWith(t, "rf_zone", [loc[t] EXCEPT !.ring = pool[mp].ring])
           /\ UNCHANGED <<zone, pool>>
     /\ UNCHANGED <<qlock, mplock, te_used, lists, owned>>

PoolFree(t, a) ==
  /\ loc[t].pc = "idle"
  /\ <<"pool", a>> \in owned
  /\ owned' = owned \ {<<"pool", a>>}
  /\ GoWith(t, "pf_unlink", [Returned EXCEPT !.mp = a])
  /\ UNCHANGED <<qlock, mplock, memory, lists, pool>>

(* The entry is found, unlinked and freed under qlock.                     *)
PoolUnlink(t) ==
  LET i == Find(pool_list, loc[t].mp)
  IN /\ loc[t].pc = "pf_unlink"
     /\ MayWrite(qlock)
     /\ i # 0
     /\ pool_list' = Drop(pool_list, i)
     /\ te_used' = te_used \ {pool_list[i].te}
     /\ Go(t, "pf_chunks")
     /\ UNCHANGED <<qlock, mplock, zone, ring_list, pool, owned>>

PoolFreeZone(t) ==
  /\ loc[t].pc = "pf_zone"
  /\ zone' = [zone EXCEPT ![loc[t].mp] = <<>>]
  /\ pool' = [pool EXCEPT ![loc[t].mp] = NoPool]
  /\ Leave(t)
  /\ UNCHANGED <<qlock, mplock, te_used, lists, owned>>

-----------------------------------------------------------------------------
(* rte_ring_lookup and rte_ring_list_dump: the reader stands on an entry   *)
(* and goes on to the next one.                                            *)
(* Mutant: the list is read without the lock.                              *)
RingsReadUnlocked(t) ==
  /\ loc[t].pc = "idle"
  /\ GoWith(t, "rings", [Returned EXCEPT !.pos = 1])
  /\ UNCHANGED <<qlock, mplock, memory, lists, pool, owned>>

RingsRead(t) ==
  /\ loc[t].pc = "idle"
  /\ MayRead(qlock)
  /\ qlock' = [qlock EXCEPT !.r = @ \cup {t}]
  /\ GoWith(t, "rings", [Returned EXCEPT !.pos = 1])
  /\ UNCHANGED <<mplock, memory, lists, pool, owned>>

RingsNext(t) ==
  /\ loc[t].pc = "rings"
  /\ IF loc[t].pos <= Len(ring_list)
       THEN /\ loc' = [loc EXCEPT ![t].pos = @ + 1, ![t].te = ring_list[loc[t].pos].te]
            /\ UNCHANGED qlock
       ELSE qlock' = [qlock EXCEPT !.r = @ \ {t}] /\ Leave(t)
  /\ UNCHANGED <<mplock, memory, lists, pool, owned>>

(* rte_mempool_lookup, rte_mempool_walk and rte_mempool_list_dump          *)
PoolsRead(t) ==
  /\ loc[t].pc = "idle"
  /\ MayRead(mplock)
  /\ mplock' = [mplock EXCEPT !.r = @ \cup {t}]
  /\ GoWith(t, "pools", [Returned EXCEPT !.pos = 1])
  /\ UNCHANGED <<qlock, memory, lists, pool, owned>>

PoolsNext(t) ==
  /\ loc[t].pc = "pools"
  /\ IF loc[t].pos <= Len(pool_list)
       THEN /\ loc' = [loc EXCEPT ![t].pos = @ + 1, ![t].te = pool_list[loc[t].pos].te]
            /\ UNCHANGED mplock
       ELSE mplock' = [mplock EXCEPT !.r = @ \ {t}] /\ Leave(t)
  /\ UNCHANGED <<qlock, memory, lists, pool, owned>>

RegStep(t) ==
  \/ RingTe(t) \/ RingLock(t) \/ RingZone(t)
  \/ RingFreeZone(t) \/ RingUnlink(t) \/ RingFreeTe(t)
  \/ PoolTe(t) \/ PoolZone(t) \/ PoolInsert(t) \/ Populate(t) \/ PoolRing(t)
  \/ PopulatePhy(t) \/ PhyFail(t) \/ FreeMemchunk(t) \/ PoolUnlink(t) \/ PoolFreeZone(t)
  \/ RingsNext(t) \/ PoolsNext(t)

RegCall(t) ==
  \/ \E n \in RingNames : RingCreate(t, n)
  \/ \E n \in PoolNames : PoolCreate(t, n)
  \/ \E a \in Addrs : RingFree(t, a) \/ PoolFree(t, a)
  \/ RingsRead(t) \/ PoolsRead(t)

RegNext == \E t \in Callers : RegStep(t) \/ RegCall(t)

(* Callers run; nobody has to call.                                        *)
RegSpec == RegInit /\ [][RegNext]_reg_vars /\ \A t \in Callers : WF_reg_vars(RegStep(t))

-----------------------------------------------------------------------------
Quiet == \A t \in Callers : loc[t].pc \in {"idle", "rings", "pools"}
Pools == {a \in Addrs : <<"pool", a>> \in owned}
PoolRings == {pool[a].ring : a \in Pools}
Rings == {a \in Addrs : <<"ring", a>> \in owned} \cup PoolRings
Chunks == UNION {pool[a].chunks : a \in Pools}

(* When no call is under way every memzone and every list entry belongs to *)
(* an object that somebody can free: a creation that fails at any of its   *)
(* allocations, and a free whatever it runs beside, leaves nothing behind, *)
(* and no lock.                                                            *)
NothingLeaked ==
  Quiet =>
    /\ qlock.w = NoOne /\ mplock.w = NoOne
    /\ {a \in Addrs : zone[a] # <<>>} = Pools \cup Rings \cup Chunks
    /\ te_used = {e.te : e \in Entries(ring_list) \cup Entries(pool_list)}
    /\ {e.data : e \in Entries(ring_list)} = Rings
    /\ {e.data : e \in Entries(pool_list)} = Pools

(* A mempool that was handed out keeps its ring and its chunks, each a     *)
(* memzone of its own under its own name, although freed memory is reused  *)
(* before rte_ring_free has unlinked the ring that was there.              *)
PoolsIntact ==
  \A a \in Pools :
    /\ zone[a] # <<>> /\ zone[a][1] = "MP"
    /\ zone[pool[a].ring] = <<"RG">> \o zone[a]
    /\ \A b \in pool[a].chunks : Len(zone[b]) = 3 /\ <<zone[b][1], zone[b][2]>> = zone[a]
    /\ \E e \in Entries(ring_list) : e.data = pool[a].ring

(* Every entry is in one place of one list, and is allocated; one that is  *)
(* unlinked is one of the object that is freed.                            *)
EntriesSound ==
  LET all == ring_list \o pool_list
  IN /\ \A i, j \in DOMAIN all : all[i].te = all[j].te => i = j
     /\ \A i \in DOMAIN all : all[i].te \in te_used

(* An entry of the list of rings leads to a ring, or rte_ring_free has     *)
(* given back the ring and has still to unlink an entry for that address:  *)
(* no more entries are stale than there are such calls, although what was  *)
(* given back is reused, by rings too, before they have qlock.             *)
EntriesAnswered ==
  \A a \in Addrs :
    LET entries == Cardinality({e \in Entries(ring_list) : e.data = a})
        stale == Cardinality({t \in Callers : loc[t].pc = "rf_unlink" /\ loc[t].ring = a})
    IN entries - stale \in IF zone[a] = <<>> THEN {0} ELSE {0, 1}

(* A reader of the list of rings stands on an entry that is still there;   *)
(* the ring it leads to may have been given back, as EntriesAnswered says. *)
RingReadersSafe ==
  \A t \in Callers : loc[t].pc = "rings" /\ loc[t].te # Nil =>
    \E e \in Entries(ring_list) : e.te = loc[t].te

(* rte_eal_memconfig.h says of mplock: "only used by mempool LIB for       *)
(* thread-safe": the same of the list of mempools.                         *)
PoolReadersSafe ==
  \A t \in Callers : loc[t].pc = "pools" /\ loc[t].te # Nil =>
    \E e \in Entries(pool_list) : e.te = loc[t].te

(* The calls do not wait for each other for ever: mplock, qlock and mlock  *)
(* are always taken in this order.                                         *)
SomebodyReturns ==
  \/ []<>(\A t \in Callers : loc[t].pc = "idle")
  \/ []<><<\E t \in Callers : loc[t].pc # "idle" /\ loc'[t].pc = "idle">>_reg_vars

(* The lists of rte_ring.c and rte_mempool.c under qlock: no entry is in   *)
(* two places or freed while it is linked, none of a ring is left behind,  *)
(* and none disappears under a reader of the list of rings.                *)
ListsSound == EntriesSound /\ EntriesAnswered /\ RingReadersSafe
=============================================================================
