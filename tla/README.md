# A verification project for rte_demo

rte_demo is a cut-down DPDK: an environment abstraction layer (EAL) that sets up
huge-page memory and threads pinned to cores, a heap and named memory zones on that
memory, lock-free rings, and mempools with a cache per core. This directory holds TLA+
models of it, TLC configurations that check them on small instances, and TLAPS proofs
for every value of the constants. Paths below are relative to `src/lib/`.

## 1. Inventory

| Component | State | Operations | What is hard |
|---|---|---|---|
| Ring, `librte_ring/rte_ring.h`, `rte_ring_generic.h` | `prod.head`, `prod.tail`, `cons.head`, `cons.tail` (32 bits, they wrap), the table of slots | enqueue and dequeue, bulk (all or nothing) and burst (as many as possible), multi and single producer or consumer; count, free_count, full, empty | No lock: heads are moved by compare-and-set on values that may be stale, tails are moved in the order of the heads, slots are copied in between |
| Ring registry, `rte_ring.c` | tailq of rings under `qlock` | create, free, lookup, dump | Memory is freed before the ring is unlinked |
| Mempool, `librte_mempool/rte_mempool.h`, `driver/ring/rte_mempool_ring.c` | a ring of free objects, a cache per lcore | get, put, flush | Results of enqueues are ignored; caches overrun their nominal size on purpose; slots of an unfinished dequeue are still in use |
| Mempool creation, `rte_mempool.c` | pool list, memory chunks | create, populate, free, lookup, walk | Two locks for one list, failures half way through, sizes of objects and zones |
| Heap, `common/malloc_elem.c`, `malloc_heap.c`, `rte_malloc.c` | element headers in memory (`size`, `prev`, `state`, `pad`), free lists by size, a heap per socket | malloc, zmalloc, calloc, free, realloc | Splitting, padding, joining; memory is zeroed when freed, not when allocated; headers are read before the lock is taken |
| Memzones, `common/eal_common_memzone.c` | table of zones and its count under `mlock` | reserve, free, lookup, walk | Length 0 means "the largest free element", found and allocated under two separate locks; a free releases descriptor and block at different moments |
| Locks, `common/include/generic/rte_rwlock.h`, `rte_spinlock.h`, `arch/x86/rte_spinlock.h`, `rte_rwlock.h` | `cnt`; `locked`, `user`, `count`; hardware transactions | lock, unlock, trylock, the `_tm` variants | Spinning on shared words; `user` read without the lock; an unlock that decides by the lock word whether it was elided |
| EAL start-up, `linuxapp/eal/eal.c`, `eal_hugepage_info.c` | the configuration file and `mem_config`, shared between a primary and secondaries; locks on files and on the huge-page directory | `rte_eal_init` | Races between processes, crashes, failures half way, repeated calls, secondaries that spin |
| Huge pages, `linuxapp/eal/eal_memory.c` | page table of the process, the shared table of pages, memsegs | `rte_eal_hugepage_init`, `rte_eal_hugepage_attach` | The kernel chooses pages, addresses and failures; pages per socket; the same address in every process |
| Lcore launch, `linuxapp/eal/eal_thread.c` | state, function and argument of each lcore, two pipes | `rte_eal_remote_launch`, `eal_thread_loop` | States written by both sides |
| Tailqs, `common/eal_common_tailqs.c` | local and shared table of list heads | register, lookup | Registration before and after start-up, in primary and secondary |
| `rte_memcpy`, `rte_common.h`, `rte_time.h`, `eal_common_string_fns.c` | | copy, next power of two, time counter, split | Limits of lengths and alignments, rounding, carries |
| Log, debug, errno, CPU flags, cycles, lcore detection, atomics | | | Formatting, I/O, single instructions |

How they interact: an application thread calls `rte_mempool_get`/`put`, which work on the
cache of its lcore and call the ring; `rte_ring_create` and `rte_mempool_create` reserve a
memzone (`mlock`) while holding `qlock` (and `mplock`); a memzone is a block of the heap;
the heap is built on the memsegs that start-up maps. All of it lies in memory shared by
the processes.

What makes each correct: a ring is a bounded FIFO and every call that has reserved slots
finishes; a mempool never loses an object and never hands one out twice; the elements of a
heap tile its memory, free memory is on exactly one list and is zero, blocks do not
overlap; a lock excludes and can always be taken again, elided or not; memzone names are
unique and the count is right; creation that fails leaks nothing, and the lists are whole:
an entry of the list of rings leads to a ring, but for the time between the free of the
ring and the unlink, which the code leaves open (section 3), and a mempool keeps its ring
and its memory; start-up respects other processes and ends; segments describe the pages
that are there, and a secondary sees the same; a copy moves every byte.

The hazards, each at its line, and the properties that watch them are listed in
`PROJECT.json`; what is left to the list at the end of section 3 has no property.

## 2. Modules

| Module | Models |
|---|---|
| `Ring` | Enqueue and dequeue of the ring, one step per access to shared memory |
| `RingFifo` | What the ring promises: a bounded FIFO whose slots are in use from claim to release |
| `RingImplementsFifo` | The refinement mapping from `Ring` to `RingFifo` |
| `RingCount` | `rte_ring_count` and its derivatives, called beside the threads of `Ring` |
| `RwLock` | `rte_rwlock` |
| `Spinlock` | `rte_spinlock` and the recursive lock on it |
| `Elision` | `rte_try_tm` and the `_tm` variants, on hardware transactions |
| `Mempool` | Get, put and flush on the ring of `RingFifo` |
| `Registry` | Creating, freeing and listing rings and mempools under `mplock` and `qlock` |
| `MallocHeap` | Elements, free lists, allocation, free and realloc on several sockets |
| `Memzone` | The memzone table on top of `MallocHeap`, which it extends |
| `HugePages` | From free huge pages to memory segments, and the attach of a secondary |
| `Startup` | `rte_eal_init` of several processes, with crashes |
| `Launch` | Handing functions to slave lcores |
| `Tailqs` | Registering list heads in primary and secondary |
| `Memcpy`, `MempoolSizes`, `Algorithms` | Pure functions: copies, object sizes and layout; small algorithms and the reference definitions they are checked against |
| `RingProofs` | Proofs about `Ring`, `RingCount` and the refinement of `RingFifo` |
| `ProtocolProofs` | Proofs about `RwLock`, `Spinlock`, `Elision`, `Launch`, `Tailqs` and `Startup` |
| `MempoolProofs`, `HugePagesProofs` | Proofs about `Mempool`; about the files and frames of `HugePages` |
| `RegistryProofs`, `RegistryZoneProofs` | Proofs about `Registry`: entries, lists and locks; memory zones and what owns them |
| `HeapProofs`, `MemzoneProofs` | Proofs about `MallocHeap`: every operator of `malloc_elem.c`, then the calls; about `Memzone`, on top of them |
| `MCRing`, `MCRingUse`, `MCThreads`, `MCMempool`, `MCMallocHeap`, `MCMemzone`, `MCStartup`, `MCMemory` | Values of the constants for TLC. `MCThreads` and `MCMemory` put components that share no state side by side: a behaviour is one of them, chosen in the initial state |

### Ring

The two halves of the ring, `prod` and `cons`, are the elements of `Side`; the code of
`__rte_ring_move_prod_head` and `__rte_ring_move_cons_head` differs only in the room a
side starts with (`Room`: the capacity, or 0). A call is: `CallEnqueue` / `CallDequeue`
(the arguments), `LoadHead` (`*old_head = r->prod.head`), `LoadTail` (the load of the
opposite tail and the decision: `Available`, `Granted`, return 0), `MoveHead` or
`RetryHead` (compare-and-set, or the plain store of the single variants), `CopyPtr` once
per object (`ENQUEUE_PTRS`, `DEQUEUE_PTRS`), `UpdateTail` (the wait and the store). The
indexes are integers modulo `M`, which stands for 2^32 and is small in the runs so that
they wrap. Loads and stores happen in program order: the build is x86, on which the
barriers of the code are compiler barriers.

One bound restricts behaviours: `NoLap`. While a thread is between its load of a head and
its compare-and-set the head passes fewer than `M - Capacity` positions. The code relies
on this (2^32 positions within a few instructions) and cannot check it. A bulk call is
`behavior = "FIXED"`, a burst call `"VARIABLE"`.

An enqueue takes effect when it moves `prod.tail`, a dequeue when it moves `cons.head`.
`RingImplementsFifo` therefore maps the queue to the slots between `cons.head` and
`prod.tail`, a reservation of a producer to its table, and that of a consumer to what it
has copied followed by what is still in its slots: the mapping breaks if anybody writes a
slot too early.

### Mempool

`Mempool` uses the actions of `RingFifo` for the ring, so it rests on what `Ring` is shown
to implement: an enqueue is `EnqueueHead` then `EnqueueTail`, a dequeue `DequeueHead` then
`DequeueTail`, and other threads act in between. A cache is the sequence
`objs[0 .. len-1]`. `keep` is the value that `cache->len` gets when the enqueue under way
is over. The contents of objects and the statistics are left out.

### MallocHeap

The unit is the cache line (64 bytes): sizes and alignments are rounded up to it, a header
takes one, `MIN_DATA_SIZE` is one, there is no trailer without `RTE_MALLOC_DEBUG`. `mem`
holds the headers by address, the free lists, and `dirty`, the lines that are not zero,
which is what `rte_zmalloc` depends on. The operators `Split`, `Join`, `Insert`, `Remove`,
`ElemAlloc`, `ElemFree`, `Resize` are the functions of `malloc_elem.c`, from a memory to a
memory. What runs under the lock of one heap is one step; a call that tries one heap after
the other, or a realloc that allocates, copies and frees, takes several. The worst caller
is assumed: it writes every line it is given. Memory is zero at the start, as the kernel
hands out huge pages. Sizes are far below 2^64: overflow of `size_t` is not modelled.

### Locks

`RwLock` and `Spinlock` have one step per access to a shared word. A turn of a spinning
loop that finds the lock taken changes nothing and is not a step. `held` in `Spinlock` is
a history variable.

### Elision

`Elision` has a lock word, the data it protects and transactions. The processor is
external: it aborts a transaction when another thread writes a word that the transaction
has read, and may abort at any time for any reason, with or without the hint to retry.
`CallTm`, `XBegin`, `CheckLock`, `AfterAbort` and `TakeLock` are `rte_try_tm` and the
fall-back of its callers; `UnlockTm` looks only at the word, as the code does. Real locks
take one step here; `RwLock` and `Spinlock` have their details.

### Memzone

A reservation is `Reserve` or `ReserveWhole` (length 0) with the checks (`Refused`), then
the allocation on one heap after the other (`ZoneAlloc`, `ZoneFull`) with `mlock` held;
other threads use the heaps in between. For length 0 without a boundary `MaxFreeElem` and
`WholeLen` compute the length first, and the heap may change before the allocation. A free
is `ZoneFree` (descriptor and count under `mlock`) and `ZoneFreeBlock` (`rte_free` after
the unlock). Two threads may free the same zone.

### Registry

Objects live at addresses that are reused at once, so that a stale pointer meets somebody
else's object. `rte_ring_create` is `RingCreate`, `RingTe`, `RingLock`, `RingZone`;
`rte_ring_free` is `RingFreeZone`, `RingUnlink`, `RingFreeTe`: its memory goes first, the
list entry, found by address, later. A mempool is created empty (`PoolTe`, `PoolZone`,
`PoolInsert`), gets its ring (the same steps as `rte_ring_create`, `PoolName` apart) and
its chunks (`Populate`, `PopulatePhy`), and every failure takes the code's own way back.
Readers walk the two lists entry by entry; what an entry leads to is the zone at its
address, and `EntriesAnswered` says how many entries lead to none. Contents of rings and pools are left out, they
are the subject of `Ring` and `Mempool`.

### HugePages

The kernel is external: it gives a new file any free page (of the preferred node if it has
one), maps where it likes unless told, and may fail any call. The first phase maps every
page (`MapOrigPage`), finds its physical address and socket and sorts by address, which
may leave equal addresses in any order (`Identify`, `Sorted`); the second maps again, one virtual area per physically contiguous run (`RemapPage`,
`get_virtual_area`); then pages are counted per socket (`CalcPages`), the rest returned
and the table shared (`SharePages`), and segments are cut (`FillMemsegs`). A secondary
reserves all segments (`ReserveSegment`) and maps the pages (`MapSegment`).

A page cannot be had (`OrigPageFails`) because `open` fails; because `mmap` fails, and the
new file stays, with no page (`NoFrame`); because the first write raises SIGBUS, and the
file is removed; or because `flock` fails, and file and page stay. Both kinds of files that
stay are in `stray`. Only SIGBUS puts back what was essential, from an `int`
(`PutBackEssential`, `Truncated`: `essential_prev`, `eal_memory.c:329`, so that an amount of
2 GiB and more comes back changed).

`memory` and `socket_mem` of a configuration are not assumed to agree: `eal_parse_socket_mem`
fills the second and drops the sum, and nothing in the repository sets the first when
sockets are asked for. The requests of the runs have the sum, less, none, and more than one
socket, since `rte_eal_hugepage_init` takes both from `internal_config` as it finds them;
only the one with none (`Parsed`) comes from the command line of this program.

### Startup

Processes start as primary, secondary or by detection, share the configuration file of
their prefix and one huge-page directory, fail at any fallible call, call `rte_eal_init`
again, exit and crash. The kernel releases the locks of a process that ends. Opening and
locking a file are separate steps, so are the test and the unlink of `clear_hugedir`, and
the creation and the mapping of a page file. One file stands for the pages of a process.
`HugedirFails` is all the ways of `eal_hugepage_info_init` to end before the directory is
locked. A failure is something that may happen and never has to (it is not in `StartStep`,
which has the fairness).

### Launch, Tailqs

`Launch`: the master's `rte_eal_remote_launch` and the slaves' loop, one step per access
to the shared state or a pipe; `rte_eal_wait_lcore` is not in the repository and is
modelled from its use. `struct lcore_config` in `rte_lcore.h` lacks the fields that
`eal_thread.c` works with, so the model is of the protocol as `eal_thread.c` writes it.
`Tailqs`: registration before (`RegisterEarly`) and after (`RegisterLate`)
`rte_eal_tailqs_init`, per process, over one shared table; names of 31 characters are cut
by `snprintf` (`Stored`, `Cut`) and never found again; what is left of one may be the name
of another list, and two of them may be cut to the same.

### Memcpy, MempoolSizes, Algorithms

A copy is the set of moves it makes, each with the bytes it stores and the bytes it loads;
three variants of the build. Object sizes follow the flags, channels and ranks; the layout
of objects in a zone is compared with the size computed for the zone. `Algorithms` calls
each function once with any of its arguments, and states what it should have returned by
a definition that is not the code's. `SplitsAll`, the one for `rte_strsplit`, leaves out
the strings whose last token would start with a delimiter: on these the code does not do
what its header says, which is the run `strsplit`.

## 3. Runs

| Run | Instance | Shows |
|---|---|---|
| `ring_multi` | 2 producers, 1 consumer, bursts of 0, 1 and 2, bulk and burst, capacity 2 of 4 slots, indexes modulo 8 | `WindowOrder`, `ReservationsTile`, `IndInv` (with `TypeOK`, `DecisionCurrent`, `SingleUndisturbed` among its parts), `RefusalJustified` |
| `ring_fifo` | a single producer, 2 consumers, two objects, partial bursts, capacity 3 | `ImplementsFifo` |
| `ring_use` | a single consumer; 2 producers, or a producer and a counting thread; capacity 2 | `CountSound` (never above the capacity, exact when no tail moved), `CommittedCompletes`, `CallsReturn` |
| `threads`: `RwLock` | 3 threads | `Exclusion`, `SomebodyEnters` |
| `threads`: `Spinlock` | 3 threads, depth 2 | `MutualExclusion`, `SomebodyGetsIt` |
| `threads`: `Elision` | 2 threads that read, write and try; 2 retries; with and without transactions | `ElisionSound` (`SectionsIsolated`: no update is lost, no section sees another one half done; `UnlockKnows`), `ElisionEnds` |
| `threads`: `Launch` | 2 slaves, one of them a service lcore, 3 launches each | `LaunchSound` (`EachRunOnce`, `NothingPending`), `LaunchEnds` |
| `threads`: `Tailqs` | primary and secondary, 3 names, one of them too long and cut to another one, 3 slots | `TailqsSound` (`OneListPerName`, `CountIsUsed`, `ListedIsUsable`) |
| `threads`: `Mempool` | 3 objects, ring of 4, caches of 2, 2 lcores and another thread | `PutsFit` (`PoolTypeOK`, `PutAlwaysFits`, `CacheBounded`), `Conservation`, `FailOnlyWhenShort` |
| `threads`: `Registry` | 2 callers, a ring and a mempool of up to 2 chunks, 4 addresses | `NothingLeaked`, `PoolsIntact`, `ListsSound` (`EntriesSound`, `EntriesAnswered`, `RingReadersSafe`), `SomebodyReturns`; no deadlock |
| `memzone` | 2 threads, 3 names, a table of 2, two sockets, two page sizes | `ZonesSound` (`ZonesOwnBlocks`, `CountExact`, `BlocksOwned`), `WholeFitsUnlessTaken`, `FullOnlyWhenNoneFits`, `HeaderStable` |
| `startup` | 3 processes, two of one prefix, one without huge pages, 2 calls each, crashes | `ConfigIntact`, `FileKept`, `MemoryOnce`, `HugedirGranted` |
| `memory`: `HugePages` | 3 machines (two sizes on two nodes, one size, no NUMA and no pagemap), 11 requests (6 on the first machine), 4 segments | `SegmentsTrue` (`SegmentsExact`, `AttachedAlike`), `RequestServed` (`RequestMet`, `ShortJustified`, `EssentialFirst`, `SegmentsJustified`), `PagesReturned` |
| `memory`: `MallocHeap` | 13 lines, 3 free lists, sizes 1 to 4, alignments, a boundary | `HeapSound` (`TypeOK`, `HeapTiles`, `FreeListsExact`, `BlocksOwned`), `AllocSound` (`AllocZeroed`, `AllocAsAsked`) |
| `memory`: `Algorithms` | copies of 0 to 1100 bytes around all limits with 49 pairs of alignments and 3 variants; 5040 pools; numbers up to 2^29 + 1; four readings of a counter of 4 bits; strings of up to 6 characters | `CopySound` (`CopiesExactly`, `LoadsOnSourceLines`, `BlocksAligned`), `LayoutSound` (`ObjectsSpread`, `ZoneHoldsAll`), `AnswersRight` (`NextPowerOf2`, `NoDrift`, `SplitsAll`) |

A property in brackets is a conjunct of the one before it, defined and explained in the same
module. The types of `RwLock` and `Spinlock` and what their counters count are proved
(section 4).

Runs that show where a comment or header says something else than the code does:

| Run | Statement | What happens |
|---|---|---|
| `mempool_out` | "If that fails, we are truly out of buffers." (`rte_mempool.h:984`) | Cache and ring together had enough |
| `secondary_attaches` | "wait until shared mem_config finish initialising" (`rte_eal_memconfig.h:64`) | `rte_eal_mcfg_complete` (`eal.c:465`) is never called, so a secondary waits for ever |
| `pool_walk` | mplock is "only used by mempool LIB for thread-safe." (`rte_eal_memconfig.h:41`) | `rte_mempool_free` unlinks and frees an entry under `qlock`, a walk under `mplock` stands on it |
| `socket_mem` | "if we didn't satisfy all memory requirements per socket" (`eal_memory.c:876`) the start-up is to fail; `socket_mem` is the "amount of memory per socket" (`eal_internal_cfg.h:43`) | `eal_parse_socket_mem` drops the sum (`eal.c:369`); with `memory` 0 the loop at `eal_memory.c:833` is not entered, no page is kept and the start-up succeeds |
| `strsplit` | "At most, maxtokens-1 splits of the string will be done." (`rte_string_fns.h:37`) | `",,"` and `"x,,x"` are split twice with maxtokens 2, and the end of the string is lost |

Met while modelling, without a run of their own:

* `free_entries` exceeds the capacity when `old_head` is stale (`rte_ring_generic.h:76`
  says it does not; the compare-and-set then fails, so no harm is done), and
  `rte_ring_count` beside other threads may return a number the ring had at no moment of
  the call, since it loads the two tails one after the other.
* `eal_hugedirs_unlock` is to "skip uninitialized" entries (`eal.c:305`), but these have
  descriptor 0: the standard input is unlocked and closed. `OthersLeftOpen` in `Startup`
  states the opposite.
* `rte_realloc` to size 0 returns the block, still allocated (`rte_malloc.c:142`); the
  header says "If this is 0, memory is freed." (`rte_malloc.h:118`). One that moves the
  block starts with the socket of the caller (`rte_malloc.c:148`), against "the new area
  resides on the same NUMA socket as the old area" (`rte_malloc.h:112`). `MallocHeap` does
  as the code does.
* `rte_ring_free` gives the memory of the ring back and takes `qlock` after it
  (`rte_ring.c:196-202`). In between the ring is still listed, and `rte_ring_lookup` and
  `rte_ring_list_dump`, under `qlock`, follow the entry into freed memory, although the lock
  is "used for tailq operation for thread safe." (`rte_eal_memconfig.h:40`).
  `RingReadersSafe` is therefore about the entry only; `EntriesAnswered` says that no more
  entries are stale than calls are on their way to unlink one.
* A secondary that asks for a list under the cut form of a name of 31 characters gets the
  list of the primary's longer name; "Each tailq is identified by name"
  (`rte_tailq.h:34-35`). `OneListPerName` allows this case and no other.
* When `memory` is used up within what one socket is asked for, the start-up fails on that
  socket with a message about missing memory although there is enough (`ShortJustified`
  has the case).
* A second `rte_eal_init` after one that failed while it held the huge-page directory
  blocks on its own lock (`eal_hugepage_info.c:296`). `HugedirGranted` is stated for
  processes that have left no lock behind.
* `rte_eal_config_reattach` closes `mem_cfg_fd` and keeps the number (`eal.c:251`); a
  secondary that calls `rte_eal_init` again maps whatever has it, or panics.
* `rte_spinlock_recursive_lock_tm` by the holder of the real lock waits for itself
  (`arch/x86/rte_spinlock.h:96`).
* A page whose file cannot be locked stays mapped (`eal_memory.c:474`);
  `essential_memory` is restored after SIGBUS only; a page that a secondary got at the
  wrong address stays mapped (`eal_memory.c:1394`).
* `rte_memzone_dump` stops at the first free descriptor (`eal_common_memzone.c:365`).
* The compare-and-set of the ring succeeds on a stale decision if the head passes 2^32
  positions in between; overlapping readers can keep a writer of the reader-writer lock
  out for ever; `rte_calloc` does not look at overflow; `rte_realloc` may read one cache
  line behind a padded element; `rte_log_register` grows its array without a lock.
* A mempool is on the list before it is populated (`rte_mempool.c:555`).
* The last slot of the tailq table is never used (`rte_tailqs_count + 1 < RTE_MAX_TAILQ`),
  and a name of 31 characters is stored cut and not found again.
* A failed `mmap` or `flock` leaves its file in hugetlbfs (`eal_memory.c:433-438`,
  `474-479`), for the next primary's `clear_hugedir` to remove.

Why the bounds are enough. The ring's interesting cases need two threads of one side (races
for the head, tails out of order), a capacity of at least two (two reservations in flight),
partial grants (a burst larger than what is left) and indexes that wrap; all occur. That
larger instances add nothing is proved for the invariants (section 4). A mempool needs a
ring without spare slots, a cache that is neither empty nor full, and a request above the
cache size. A heap needs an element with free neighbours on both sides, a padded element,
a tail split off by alignment or boundary, and elements on both sides of a free-list limit.
Memzones need more names than slots, and two threads so that one allocates between the
measuring and the allocating of the other. The registry needs fewer addresses than objects
over time, so that memory is reused while somebody still has a pointer to it. Start-up
needs two processes of one prefix and a third that shares only the directory, and a second
call after a failure. Huge pages need two sizes, two nodes, a gap in the physical
addresses, a request that ends within a page, one that cannot be met, one whose sum is not
`memory`, one spread without a socket being named, and more runs than segments. On the
machine with most pages the requests of `SmallOnly` are left out, which bring nothing that
the other two machines do not show, but time. Names of tailqs need one that is cut to
another that is registered. Copies are checked on both sides of every limit of the code.

Fairness. `Ring`: weak fairness of every thread's steps; EAL threads are pinned to a core
of their own, the code never blocks in the kernel between them, and nobody is assumed to
call. Lock freedom is stated as: while calls are pending, calls return; a single thread
may lose every race. `RwLock` and `Spinlock`: weak fairness of every thread, including that
a holder leaves its critical section. A particular writer may starve; the code gives no
preference. `Elision`: weak fairness of the threads' steps and none of the processor's, so
the calls end although every transaction may abort. `Launch`: of master and slaves, between
which pipes deliver; a function ends. `Registry`: of every caller inside a call. `Startup`:
of the steps of a process that lives, among them the blocking `flock`, which the kernel
grants; nobody is assumed to start, to exit or to crash.

## 4. Proofs

`RingProofs` proves, for any number of producers and consumers, any `0 < Capacity < Size`,
any `M` that is a multiple of `Size` and at least twice it, any bursts and both variants:

* `TypeCorrectness`, `WindowSafety` (no slot reserved twice), `ReservationSafety`
  (reservations in flight tile the zone between tail and head), from `Invariance`;
* `RefusalSafety`: a call is refused only if the ring as it is cannot serve it.

The inductive invariant `IndInv` is the conjunction of the types with `WindowOrder`,
`ReservationsTile`, `DecisionCurrent`, `SingleUndisturbed` and `LagBounded`. `WindowOrder`
alone is not inductive: a compare-and-set that succeeds moves the head by what was
available earlier, so the invariant has to say that this is still available
(`DecisionCurrent`), which holds because opposite tails only move forward, and because
only one reservation begins where a tail stands (`ReservationsTile`). For the variants
that do not compare, `SingleUndisturbed` takes the place of the comparison.
`LagBounded` keeps differences of indexes from wrapping; it is where `NoLap` enters. The
lemmas on `Add` and `Sub` reduce arithmetic modulo `M` to three cases each, so the steps
that follow are linear.

It also proves `CountSafety` and `RingRefinesFifo`. Counting: `CountInv` bounds
what the second load of `rte_ring_count` can still return by the distance of the tails
since the first one. Refinement: every step of `Ring` is a step or a stutter of `RingFifo`
under the mapping of `RingImplementsFifo`. It needs, besides `IndInv`, what is in the slots
(`DataInv`: what a producer has copied is in the ring, what a consumer has copied is what
was there). `QueueIs`, `ClaimIs` and `TakenIs` say what the mapping is in such a state;
each of the three kinds of step then changes one of them.

`ProtocolProofs` proves `WriterAlone` and `HoldersCounted` for any finite set of threads,
and `SpinExclusion` and `DepthCounted` for any threads and depth. There the strengthening
says what `user` may be at each place (`UserIsInside`, `HeldAt`).

For any slaves and number of launches it proves `LaunchSafety`: `LaunchInv`
says where the one byte of a launch is, in a pipe or in the hands of the slave (`UnderWay`,
`Unanswered`). For any finite set of threads, `ElisionSafety`: sections in transactions
and under the lock do not interfere. `TmInv` adds to `SectionsIsolated` that a transaction
which has looked at the word found it free (`Elided`) and that the word counts the holders
(`WordCounts`). For any processes, size of the table and names, among them such as are cut to others,
`TailqsSafety`: `TqInv` says that
slots are filled in order (`TableFilled`), what a process has found is what is in the table
(`HeadsAgree`), and where a registered element is (`ElementsListed`).

About `Startup` it proves `ConfigStaysIntact`, `FilesAreKept` and `MemorySetUpOnce` for any
processes, prefixes and number of calls, crashes included. `StartInv` says by the place of
each process what it has done (`PathOf`), that a primary with huge pages holds the lock on
the directory while it clears it and creates its files there (`DirOf`), and what that lock and the lock on the
configuration protect (`FilesOf`, `ConfigOf`).

`MempoolProofs` proves `PoolFits`, `PoolConserves` and `PoolFailsWhenShort` for any finite
set of objects, any lcores and any cache that `rte_mempool_create_empty` accepts. `PoolInv`
says that the places of objects (ring, caches, tables of calls, application) are disjoint
and together are all objects, and for each phase of a call what its tables and `keep`
promise (`CallOf`). That every put fits follows by counting: what the ring and its
unfinished dequeues hold, together with what is put, is a set of different objects.

`RegistryProofs` proves about the lists, for any callers, addresses and names, what holds
without looking at the memory behind the entries (`ListsFollow`). Its `ListInv` is: each list entry is in one place, a list or the hands of one call (`TesSound`); who holds a
lock is at a place that holds it, and the other way round (`LocksSound`); what the locals
and the name of each call are (`LocalsOf`, `NameOf`). `RegistryZoneProofs` builds on it and
proves `ListsStaySound`, `PoolsStayIntact` and `NothingIsLeaked`. `ZoneInv` says that every memory zone has
exactly one use (`UsesSound`), where calls under way have uses of their own (a ring just
reserved, a pool on its way back after a failure, a ring about to be freed); that a call
which creates or frees a mempool is the only one to do so (`UsersSound`) and has in it what
its place says (`PoolOf`); and that pools and rings are in their lists. `RingsListed`
counts the entries for an address rather than asking for one: `rte_ring_free` gives the
memory back before it unlinks the entry, so a second ring at the same address may be listed
meanwhile. The entry that is unlinked may then be that of the other ring; this is harmless,
since both lead to the same address and `RingsListed` still counts right. That is also what
`EntriesAnswered` says of the entries, zone by zone (`EntriesFollow`).

`HeapProofs` proves `HeapIsSound`, `AllocIsSound` and `HeapCallsSafe` for any memory
segments that do not overlap, any threads, number of free lists, requests and resizes.
`HeapInv` is `HeapOf`, a predicate of a memory, of the segments added so far and of the
blocks in use, with the counters of the heaps and what the calls under way hold. `HeapOf`
says that headers have their types, that elements follow each other from the start of a
segment to its end marker and back (`Tiled`), that dummy headers are those of padded
elements (`Padded`), that the lists have the free ones, each once and where it belongs
(`Listed`), that the data of free elements is zero (`Clean`, on which `rte_zmalloc`
depends), that no two of them are neighbours (`Apart`), and that each block is in a busy
element behind its padding (`Owned`). The operators of `malloc_elem.c` break it and repair
it, so each has a lemma with `HeapBut`, the same but for the elements that a call works on
and those it has off the lists: what `Split` cuts off, `Remove` takes from its list or
`Join` makes of two. `AllocHeap`, `FreeHeap`, `ResizeHeap` and `AddHeap` chain them along
the branches of the code. `Steady` is what a call leaves of the blocks of others: their
element and its header but for `prev`. `FullOnlyWhenNoneFits` needs that the index of a
free list grows with the size (`IndexMonotone`), and that an element which holds the data
is larger than it (`StartPtIs`), so it is on no list below the one where the search starts
(`NoneMissed`).

`MemzoneProofs` proves `ZonesAreSound`, `ZoneHeaderStable`, `ZoneFullOnlyWhenNoneFits` and
`WholeZoneFits` for any threads, names, zone requests and size of the table. Its `ZoneInv`
adds to `HeapInv`: at most one reservation is between its checks and its end (`Locked`), and what
it checked still holds (`Reserving`: the name is free, there is a slot); what the heap's
call of each reservation is (`ZoneCall`); that each zone of the table owns its block and
the count is right (`TableSound`); and that a block of a zone has one owner, a slot or one
call of `rte_memzone_free` (`ZoneBlocks`). The last part is what makes it safe to free the
block after `mlock` was given back: the slot may be reused at once, the block may not.
Every step of `Memzone` is a step or a stutter of the heap (`ZoneHeapStep`), so the action
properties carry over. `WholeZoneFits` is an argument on `WholeLen`: an aligned start lies
less than the alignment below the last place where the data fits (`FloorBelow`,
`WholeFits`).

`HugePagesProofs` proves `PagesGivenBack` and `FramesMappedOnce` for any page sizes,
machines, requests and lcores. `PagesReturned` speaks of the end only, so `FilesInv` follows the files
from their creation: while pages are collected and mapped again, hugetlbfs holds the files
of the table and the stray ones, and no file is both (`Working`). That a new file is new
rests on its name: the pages of a size are numbered (`Collecting`), and after a failure
none is added, so that a size leaves one stray file at most (`StrayApart`); sorting moves the entries of this size and no others (`IdentifyMoves`, from
`Sorted` alone); the mappings that stay are those of the pages mapped again so far
(`Remapping`), in the end all (`Complete`), and what is unmapped is unlinked (`Returned`).
`FramesInv` adds that a frame has one file (`OneToOne`: the kernel gives out free frames),
that only a stray file may be without a frame (`Backed`),
a mapping is of the frame of its file (`MapsTrue`) and a file has one entry (`NamesApart`);
the last survives sorting because a map of finitely many entries onto themselves is one
to one (`OntoIsOneToOne`). `FramesApart` is a part of `SegmentsExact`.

TLC checked the largest of these invariants, `ListInv`, both `ZoneInv`, `HeapInv` and `FilesInv`, on
the instances of the runs before they were proved. The proofs made several things explicit. `Remove` of `MallocHeap` is written with `Unlink`,
which takes one element out of a list: that filtering a list, as it said before, takes out
no more than that had been an unstated fact. `MallocAssumption` and `MemzoneAssumption`
type what had been left open (there is a segment, sockets are numbers, requests have sizes
and alignments). In `Startup` and `Registry` two definitions had `CASE`
arms that overlapped, of which TLC takes the first and the language either; they are `IF`
now. `CacheBounded` counts in what a refill is about to add to a cache. And some
assumptions had been silent: finite sets of threads, callers and addresses, markers such as
`None` and `Nil` that are no values of the sets they complete.

Assumptions on constants are the named `ASSUME`s of the modules; TLC evaluates them in the
runs. They are what the code ensures (sizes checked by creation) or what the machine does
(finitely many threads and addresses), and `NoLap` is a guard, see section 2.

Only model-checked:

* Liveness (`CommittedCompletes`, `CallsReturn`, `SomebodyEnters`, `SomebodyGetsIt`,
  `ElisionEnds`, `LaunchEnds`, `SomebodyReturns`, `HugedirGranted`): out of the prover's
  reach.
* `CopySound`, `LayoutSound`, `AnswersRight`: the functions are recursive, and what they
  compute would take induction over data, also out of reach.
* `SegmentsTrue` (but for `FramesApart`) and `RequestServed` of `HugePages`: counting pages
  and cutting segments are folds over the page table, both properties are about sums of
  lengths, and what a fold returns is again induction over data.

## 5. Not modelled

The ring's C11 variant (`rte_ring_c11_mem.h`, not compiled), the recursive transactional
locks, debug cookies, audits and statistics (compiled out), the table of mempool ops,
`rte_mempool_populate_virt` and `_anon`, dumps and logs, option parsing, thread affinity,
atomics (single steps of the models), detection of CPU features and lcores. Weak memory
models: the build is x86. The number of bytes `rte_realloc` copies, and overflow of sizes.

## 6. Plan

1. Done: `Ring` with its abstract specification and proofs, `RingCount`, locks with proofs,
   `Mempool`, `MallocHeap`, `Memzone`, `Registry`, `Elision`, `Launch`, `Tailqs`,
   `Startup`, `HugePages`, the pure algorithms.
2. Proofs done: the ring and its refinement, counting, the locks, elision, launch, tailqs,
   the mempool, the registry, start-up, the heap and the memzones on it, the files and
   frames of the huge pages (section 4).
3. Left to the model checker, and why: the end of section 4.
