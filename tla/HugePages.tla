----------------------------- MODULE HugePages ------------------------------
(***************************************************************************)
(* rte_eal_hugepage_init and rte_eal_hugepage_attach (eal_memory.c): a     *)
(* primary process maps all free huge pages, finds out where they are,     *)
(* maps them again in physical order, keeps those it was asked for,        *)
(* returns the others and describes what it has in memory segments; a      *)
(* secondary process then maps the segments at the same addresses.         *)
(*                                                                         *)
(* One file of hugetlbfs backs one page.  The kernel (external) chooses    *)
(* the frame of a new file, the address of a mapping and whether a call    *)
(* fails.  Sizes and addresses are in units; address 0 is NULL.            *)
(***************************************************************************)
EXTENDS Integers, Sequences, FiniteSets

LOCAL INSTANCE SequencesExt
LOCAL INSTANCE FiniteSetsExt

CONSTANTS
  MaxNode,     \* RTE_MAX_NUMA_NODES - 1
  Sizes,       \* hugepage_sz of hugepage_info[], largest first
  MaxMemseg,   \* RTE_MAX_MEMSEG
  Machines,    \* the memories the program may find: [frames, numa, pagemap]
  Configs,     \* internal_config: [no_hugetlbfs, memory, socket_mem,
               \*                   force_sockets, hugepage_unlink]
  Lcores,      \* the number of enabled lcores on each node
  IntSpan,     \* 2^32, for int ...
  LongSpan     \* ... and 2^64, for uint64_t

Nodes == 0 .. MaxNode
SumOver(f, S) == MapThenSumSet(LAMBDA s : f[s], S)
LeastOf(a, b) == IF a < b THEN a ELSE b

ASSUME HugePagesAssumption ==
  /\ MaxNode \in Nat /\ MaxMemseg \in Nat \ {0}
  /\ Sizes \in Seq(Nat \ {0}) /\ \A i \in 1 .. Len(Sizes) - 1 : Sizes[i] > Sizes[i + 1]
  /\ \A m \in Machines :
       IsFiniteSet(m.frames) /\ \A f \in m.frames : f.size \in Range(Sizes) /\ f.node \in Nodes
  /\ Configs \subseteq [no_hugetlbfs : BOOLEAN, memory : Nat, socket_mem : [Nodes -> Nat],
                         force_sockets : BOOLEAN, hugepage_unlink : BOOLEAN]
  /\ IntSpan \in Nat \ {0} /\ LongSpan \in Nat \ {0}

NoAddr == 0
NoFrame == [phys |-> 0, size |-> 0, node |-> 0]

VARIABLES
  pc,        \* where the primary is
  conf,      \* internal_config of the primary
  machine,   \* the frames; whether numa_maps and pagemap of /proc/self are there
  num,       \* hugepage_info[].num_pages[]
  memory,    \* memory[] of rte_eal_hugepage_init: what is still essential
  node,      \* node_id of map_all_hugepages
  size,      \* the index of the page size being worked on
  tbl,       \* tmp_hp
  off,       \* hp_offset
  k,         \* how many pages of this size are mapped again
  vma,       \* [at, len]: vma_addr and vma_len of map_all_hugepages
  used,      \* used_hp[].num_pages[]
  files,     \* the files of hugetlbfs and the frame of each, or NoFrame
  vm,        \* the final mappings of the primary: [at, file, frame]
  stray,     \* files left by a failure: without a page, or mapped for nothing
  shared,    \* the file of eal_hugepage_info_path
  memseg,    \* mcfg->memseg
  sec,       \* the secondary: [pc, seg]
  svm        \* its mappings: [at, len, file]

mapping == <<num, memory, node, size, tbl, off, k, vma>>
outcome == <<used, shared, memseg>>
secondary == <<sec, svm>>
hp_vars == <<pc, conf, machine, mapping, outcome, files, vm, stray, secondary>>

-----------------------------------------------------------------------------
SizeOf(file) == Sizes[file[1]]

(* struct hugepage_file and struct rte_memseg, zeroed.                     *)
NoFile == <<0, 0>>
ZeroPage == [size |-> 0, file |-> NoFile, phys |-> 0, socket |-> 0, final |-> NoAddr, seg |-> 0]
ZeroSeg == [iova |-> 0, addr |-> NoAddr, len |-> 0, socket |-> 0, pgsz |-> 0]

(* All pages are counted on socket 0 at first (eal_hugepage_info_init).    *)
HpInit ==
  /\ pc = "start"
  /\ conf \in Configs /\ machine \in Machines
  /\ num = [i \in DOMAIN Sizes |-> [s \in Nodes |->
              IF s = 0 THEN Cardinality({f \in machine.frames : f.size = Sizes[i]}) ELSE 0]]
  /\ memory = conf.socket_mem /\ node = -1
  /\ size = 1 /\ tbl = <<>> /\ off = 0 /\ k = 0
  /\ vma = [at |-> NoAddr, len |-> 0]
  /\ used = [i \in DOMAIN Sizes |-> [s \in Nodes |-> 0]]
  /\ files = <<>> /\ vm = {} /\ stray = {}
  /\ shared = <<>>
  /\ memseg = [s \in 1 .. MaxMemseg |-> ZeroSeg]
  /\ sec = [pc |-> "idle", seg |-> 1] /\ svm = {}

(* The no_hugetlbfs path of rte_eal_hugepage_init, and the start of the    *)
(* loop over the page sizes.                                               *)
Start ==
  /\ pc = "start"
  /\ \/ /\ conf.no_hugetlbfs
        /\ \/ pc' = "failed" /\ UNCHANGED memseg
           \/ /\ memseg' = [memseg EXCEPT ![1] =
                    [ZeroSeg EXCEPT !.addr = 1, !.len = conf.memory, !.pgsz = 1]]
              /\ pc' = "done"
     \/ ~conf.no_hugetlbfs /\ pc' = "orig" /\ UNCHANGED memseg
  /\ UNCHANGED <<conf, machine, mapping, used, shared, files, vm, stray, secondary>>

-----------------------------------------------------------------------------
(* map_all_hugepages, orig = 1: the sockets memory is requested of, and    *)
(* those that have not been served.                                        *)
Requested == {s \in Nodes : machine.numa /\ conf.socket_mem[s] > 0}
Essential == {s \in Nodes : Requested # {} /\ memory[s] > 0}

(* Mutant: the policy goes round the sockets from the start.               *)
RoundRobin ==
  IF Requested = {} THEN -1
  ELSE LET later == {s \in Requested : s > node}
       IN Min(IF later = {} THEN Requested ELSE later)

(* The node a page is wanted on.  Essential memory comes first, then the   *)
(* requested sockets in turn.                                              *)
NextNode ==
  CASE Requested = {} -> -1
    [] Essential # {} -> Min(Essential)
    [] OTHER -> LET later == {s \in Requested : s > node}
                IN Min(IF later = {} THEN Requested ELSE later)

TakeEssential ==
  IF Essential = {} THEN memory
  ELSE [memory EXCEPT ![Min(Essential)] = IF @ < Sizes[size] THEN 0 ELSE @ - Sizes[size]]

(* ... and what a SIGBUS puts back: it was kept in an int, essential_prev. *)
Truncated(m) == IF 2 * (m % IntSpan) < IntSpan THEN m % IntSpan
                ELSE (m % IntSpan) - IntSpan + LongSpan
PutBackEssential ==
  IF Essential = {} THEN memory ELSE [memory EXCEPT ![Min(Essential)] = Truncated(@)]

(* MPOL_PREFERRED: another node only when that one has no page left.       *)
Taken == {files[g] : g \in DOMAIN files}
Candidates ==
  LET free == {f \in machine.frames : f.size = Sizes[size] /\ f \notin Taken}
      near == {f \in free : f.node = NextNode}
  IN IF near = {} THEN free ELSE near

Mapped == Len(tbl) - off
ThisFile == <<size, Mapped>>
Created(f) ==
  [g \in DOMAIN files \cup {ThisFile} |-> IF g \in DOMAIN files THEN files[g] ELSE f]

MapOrigPage ==
  /\ pc = "orig" /\ size <= Len(Sizes) /\ Mapped < num[size][0]
  /\ \E f \in Candidates : files' = Created(f)
  /\ tbl' = Append(tbl, [ZeroPage EXCEPT !.size = Sizes[size], !.file = ThisFile])
  /\ memory' = TakeEssential /\ node' = NextNode
  /\ UNCHANGED <<pc, conf, machine, num, size, off, k, vma, outcome, vm, stray, secondary>>

(* The page cannot be had: open fails; mmap fails, and the file stays      *)
(* without a page; the first write raises SIGBUS, and the file is removed; *)
(* or flock fails, and the page stays mapped.                              *)
OrigPageFails ==
  /\ pc = "orig" /\ size <= Len(Sizes) /\ Mapped < num[size][0]
  /\ num' = [num EXCEPT ![size][0] = Mapped]
  /\ \/ memory' = TakeEssential /\ UNCHANGED <<files, stray>>
     \/ memory' = PutBackEssential /\ UNCHANGED <<files, stray>>
     \/ /\ memory' = TakeEssential
        /\ \E f \in Candidates \cup {NoFrame} : files' = Created(f)
        /\ stray' = stray \cup {ThisFile}
  /\ UNCHANGED <<pc, conf, machine, node, size, tbl, off, k, vma, outcome, vm, secondary>>

NoPages ==
  /\ pc = "orig" /\ size <= Len(Sizes) /\ num[size][0] = 0
  /\ size' = size + 1 /\ node' = -1
  /\ UNCHANGED <<pc, conf, machine, num, memory, tbl, off, k, vma, outcome, files, vm, stray, secondary>>

-----------------------------------------------------------------------------
(* qsort by cmp_physaddr: the pages in an order of their addresses.        *)
Sorted(pages) ==
  LET D == DOMAIN pages
      orders == {p \in [D -> D] : /\ \A d \in D : \E i \in D : p[i] = d
                                 /\ \A i, j \in D : i < j => pages[p[i]].phys <= pages[p[j]].phys}
  IN {[i \in D |-> pages[p[i]]] : p \in orders}

(* find_physaddrs, or set_physaddrs: without the pagemap the addresses are *)
(* made up, one page after the other.                                      *)
PhysAddr(i) ==
  IF machine.pagemap THEN files[tbl[i].file].phys
  ELSE SumOver([j \in DOMAIN tbl |-> tbl[j].size], 1 .. i - 1)

(* find_numasocket: without NUMA every page is on socket 0.                *)
SocketId(i) == IF machine.numa THEN files[tbl[i].file].node ELSE 0

(* Each of the searches may fail; then qsort.                              *)
Identified(i) == [tbl[i] EXCEPT !.phys = PhysAddr(i), !.socket = SocketId(i)]
Identify ==
  /\ pc = "orig" /\ size <= Len(Sizes) /\ Mapped = num[size][0] /\ Mapped > 0
  /\ \/ pc' = "failed" /\ UNCHANGED tbl
     \/ /\ \E pages \in Sorted([i \in 1 .. Mapped |-> Identified(off + i)]) :
             tbl' = [i \in DOMAIN tbl |-> IF i <= off THEN tbl[i] ELSE pages[i - off]]
        /\ pc' = "remap"
  /\ k' = 0 /\ vma' = [at |-> NoAddr, len |-> 0]
  /\ UNCHANGED <<conf, machine, num, memory, node, size, off, outcome, files, vm, stray, secondary>>

-----------------------------------------------------------------------------
(* map_all_hugepages, orig = 0.                                            *)
Page == tbl[off + k + 1]
(* How many pages from this one on are physically contiguous.              *)
RunLength ==
  Max({n \in 1 .. num[size][0] - k :
         \A j \in 1 .. n - 1 : tbl[off + k + j + 1].phys = tbl[off + k + j].phys + Sizes[size]})

(* An address that is neither mapped nor in the area being filled.         *)
Elsewhere ==
  LET end == Max({vma.at + vma.len} \cup {m.at + SizeOf(m.file) : m \in vm})
  IN (end \div Sizes[size] + 2) * Sizes[size]

(* get_virtual_area: an area for as many of n pages as can be had, or NoAddr *)
(* and the size of one page.                                               *)
get_virtual_area(n) ==
  {[at |-> Elsewhere, len |-> j * Sizes[size]] : j \in 1 .. n}
    \cup {[at |-> NoAddr, len |-> Sizes[size]]}

(* The area is free again when it is mapped to: the address is a hint.     *)
RemapPage ==
  /\ pc = "remap" /\ k < num[size][0]
  /\ \E area \in IF vma.len = 0 THEN get_virtual_area(RunLength) ELSE {vma} :
       /\ \E at \in ({area.at} \ {NoAddr}) \cup {Elsewhere + area.len} :
            /\ vm' = vm \cup {[at |-> at, file |-> Page.file, frame |-> files[Page.file]]}
            /\ tbl' = [tbl EXCEPT ![off + k + 1].final = at]
       /\ vma' = [at |-> area.at + Sizes[size], len |-> area.len - Sizes[size]]
  /\ k' = k + 1
  /\ UNCHANGED <<pc, conf, machine, num, memory, node, size, off, outcome, files, stray, secondary>>

RemapFails ==
  /\ pc = "remap" /\ k < num[size][0]
  /\ pc' = "failed"
  /\ UNCHANGED <<conf, machine, mapping, outcome, files, vm, stray, secondary>>

(* unmap_all_hugepages_orig, and on to the next size.                      *)
RemapDone ==
  /\ pc = "remap" /\ k = num[size][0]
  /\ pc' = "orig" /\ size' = size + 1 /\ off' = Len(tbl) /\ node' = -1
  /\ UNCHANGED <<conf, machine, num, memory, tbl, k, vma, outcome, files, vm, stray, secondary>>

-----------------------------------------------------------------------------
(* calc_num_pages_per_socket.                                              *)
SocketMem(n, s) == SumOver([i \in DOMAIN Sizes |-> Sizes[i] * n[i][s]], DOMAIN Sizes)

(* What each socket is asked for: the request, or the memory spread by     *)
(* lcores as far as the sockets have it, and the rest where there is room. *)
Spread(total, n) ==
  LET share(st, s) ==
        IF st.left = 0 THEN st
        ELSE LET d == LeastOf((total * Lcores[s]) \div SumOver(Lcores, Nodes), SocketMem(n, s))
             IN [mem |-> [st.mem EXCEPT ![s] = d], left |-> st.left - d]
      rest(st, s) ==
        LET d == LeastOf(SocketMem(n, s) - st.mem[s], st.left)
        IN [mem |-> [st.mem EXCEPT ![s] = @ + d], left |-> st.left - d]
      nodes == [s \in 1 .. MaxNode + 1 |-> s - 1]
  IN FoldLeft(rest, FoldLeft(share, [mem |-> conf.socket_mem, left |-> total], nodes), nodes).mem

(* One page size for a socket: whole pages; and when some of this size are *)
(* left that the smaller ones cannot replace, one more.                    *)
TakePages(st, i, s, n) ==
  LET take == LeastOf(st.mem \div Sizes[i], n[i][s])
      left == st.mem - take * Sizes[i]
      below == SumOver([j \in DOMAIN Sizes |-> Sizes[j] * n[j][s]], i + 1 .. Len(Sizes))
      more == left > 0 /\ take < n[i][s] /\ below < left
  IN IF st.mem = 0 THEN st
     ELSE [mem |-> IF more THEN left - LeastOf(left, Sizes[i]) ELSE left,
           pages |-> [st.pages EXCEPT ![i] = IF more THEN take + 1 ELSE take]]
PagesOn(s, mem, n) ==
  FoldLeft(LAMBDA st, i : TakePages(st, i, s, n),
           [mem |-> mem, pages |-> [i \in DOMAIN Sizes |-> 0]],
           [i \in DOMAIN Sizes |-> i])

(* The socket loop ends when total_mem is used up.                         *)
CalcPages(total, n) ==
  LET asked == IF conf.force_sockets THEN conf.socket_mem ELSE Spread(total, n)
      visit(st, s) ==
        LET got == PagesOn(s, asked[s], n)
        IN IF st.short \/ st.total = 0 THEN st
           ELSE [total |-> st.total - (asked[s] - got.mem), short |-> got.mem > 0,
                 used |-> [i \in DOMAIN Sizes |-> [st.used[i] EXCEPT ![s] = got.pages[i]]]]
      all == FoldLeft(visit, [total |-> total, short |-> FALSE, used |-> used],
                      [s \in 1 .. MaxNode + 1 |-> s - 1])
  IN [ok |-> ~all.short /\ all.total = 0, used |-> all.used]

(* The pages are counted again, each on its socket; memory that was not    *)
(* asked for by an amount is all there is.                                 *)
CountPages ==
  LET n == [i \in DOMAIN Sizes |-> [s \in Nodes |->
              Cardinality({j \in DOMAIN tbl : tbl[j].size = Sizes[i] /\ tbl[j].socket = s})]]
      total == IF conf.memory = 0 /\ ~conf.force_sockets
                 THEN SumOver([i \in DOMAIN Sizes |-> Sizes[i] * num[i][0]], DOMAIN Sizes)
                 ELSE conf.memory
      calc == CalcPages(total, n)
  IN /\ pc = "orig" /\ size > Len(Sizes)
     /\ conf' = [conf EXCEPT !.memory = total]
     /\ num' = n
     /\ used' = calc.used
     /\ pc' = IF calc.ok THEN "share" ELSE "failed_short"
     /\ UNCHANGED <<machine, memory, node, size, tbl, off, k, vma, shared, memseg, files, vm, stray, secondary>>

-----------------------------------------------------------------------------
(* unmap_unneeded_hugepages: the first pages of a size on a socket stay.   *)
Needed(j) ==
  LET same == {h \in 1 .. j : tbl[h].size = tbl[j].size /\ tbl[h].socket = tbl[j].socket}
      i == CHOOSE i \in DOMAIN Sizes : Sizes[i] = tbl[j].size
  IN Cardinality(same) <= used[i][tbl[j].socket]

(* Mutant: the files of pages that are not needed are left.                *)
UnlinkKeptOnly(gone) == IF conf.hugepage_unlink THEN DOMAIN files \ gone ELSE {}

(* The files that are unlinked; stray ones are not in the table.           *)
Unlinked(gone) == IF conf.hugepage_unlink THEN DOMAIN files \ stray ELSE gone

Padded(seq, n, zero) == [i \in 1 .. n |-> IF i <= Len(seq) THEN seq[i] ELSE zero]

(* copy_hugepages_to_shared_mem: those that are still mapped, in order.    *)
CopyPages(kept) ==
  [j \in 1 .. Cardinality(kept) |->
     tbl[CHOOSE h \in kept : Cardinality({g \in kept : g <= h}) = j]]

(* create_shared_memory, unmap_unneeded_hugepages,                         *)
(* copy_hugepages_to_shared_mem and unlink_hugepage_files.                 *)
SharePages ==
  LET kept == {j \in DOMAIN tbl : Needed(j)}
      gone == {tbl[j].file : j \in DOMAIN tbl \ kept}
  IN /\ pc = "share"
     /\ \/ pc' = "failed" /\ UNCHANGED <<vm, files, shared>>
        \/ /\ vm' = {m \in vm : m.file \notin gone}
           /\ files' = [f \in DOMAIN files \ Unlinked(gone) |-> files[f]]
           /\ shared' = Padded(CopyPages(kept), Len(tbl), ZeroPage)
           /\ pc' = "fill"
     /\ UNCHANGED <<conf, machine, mapping, used, memseg, stray, secondary>>

(* Mutant: only the physical addresses are compared.                       *)
ContinuesPhysically(p, q) ==
  q.socket = p.socket /\ q.size = p.size /\ q.phys - p.phys = q.size

(* The page q goes on where p ends.                                        *)
Continues(p, q) ==
  /\ q.socket = p.socket /\ q.size = p.size
  /\ q.phys - p.phys = q.size /\ q.final - p.final = q.size

(* The segments of all entries of the table, the zeroed ones behind the    *)
(* kept pages too.  The loop is left when there are more than fit.         *)
SegmentsOf(pages) ==
  FoldLeft(LAMBDA st, i :
      LET p == pages[i]
          last == Len(st.segs)
          new == i = 1 \/ ~Continues(pages[i - 1], p)
          seg == [iova |-> p.phys, addr |-> p.final, len |-> p.size, socket |-> p.socket, pgsz |-> p.size]
      IN IF st.full \/ (new /\ last = MaxMemseg) THEN [st EXCEPT !.full = TRUE]
         ELSE [full |-> FALSE,
               segs |-> IF new THEN Append(st.segs, seg)
                        ELSE [st.segs EXCEPT ![last].len = @ + st.segs[last].pgsz],
               ids |-> Append(st.ids, IF new THEN last + 1 ELSE last)],
    [segs |-> <<>>, ids |-> <<>>, full |-> FALSE], [i \in DOMAIN pages |-> i])

FillMemsegs ==
  LET st == SegmentsOf(shared)
  IN /\ pc = "fill"
     /\ memseg' = Padded(st.segs, MaxMemseg, ZeroSeg)
     /\ shared' = [i \in DOMAIN shared |->
                     IF i \in DOMAIN st.ids THEN [shared[i] EXCEPT !.seg = st.ids[i]] ELSE shared[i]]
     /\ pc' = IF st.full THEN "failed_segs" ELSE "done"
     /\ UNCHANGED <<conf, machine, mapping, used, files, vm, stray, secondary>>

-----------------------------------------------------------------------------
(* rte_eal_hugepage_attach.                                                *)
Overlaps(a, m, b, n) == a < b + n /\ b < a + m
InSegment(m, s) == Overlaps(m.at, m.len, memseg[s].addr, memseg[s].len)
Segments == {s \in 1 .. MaxMemseg : \A t \in 1 .. s : memseg[t].len > 0}

(* error: the segments below max_seg are unmapped.                         *)
AttachError(mapped) ==
  /\ svm' = {m \in mapped : \A s \in Segments : ~InSegment(m, s)}
  /\ sec' = [sec EXCEPT !.pc = "failed"]

(* The files are opened; with no_hugetlbfs there is no hugepage info file. *)
AttachOpen ==
  /\ pc = "done" /\ sec.pc = "idle"
  /\ \/ AttachError(svm)
     \/ ~conf.no_hugetlbfs /\ sec' = [sec EXCEPT !.pc = "reserve"] /\ UNCHANGED svm
  /\ UNCHANGED <<pc, conf, machine, mapping, outcome, files, vm, stray>>

ReserveSegment ==
  /\ sec.pc = "reserve" /\ sec.seg \in Segments
  /\ \/ /\ svm' = svm \cup {[at |-> memseg[sec.seg].addr, len |-> memseg[sec.seg].len, file |-> NoFile]}
        /\ sec' = [sec EXCEPT !.seg = @ + 1]
     \/ AttachError(svm)
  /\ UNCHANGED <<pc, conf, machine, mapping, outcome, files, vm, stray>>

ReserveDone ==
  /\ sec.pc = "reserve" /\ sec.seg \notin Segments
  /\ \/ sec' = [pc |-> "map", seg |-> 1] /\ UNCHANGED svm
     \/ AttachError(svm)
  /\ UNCHANGED <<pc, conf, machine, mapping, outcome, files, vm, stray>>

PagesOf(s) == SelectSeq(shared, LAMBDA p : p.seg = s)

(* The reservation of a segment is dropped, and its pages are mapped one   *)
(* behind the other; the n-th may not be there, fail or go elsewhere.      *)
MapSegment ==
  LET s == sec.seg
      pages == PagesOf(s)
      at(n) == memseg[s].addr + SumOver([j \in DOMAIN pages |-> pages[j].size], 1 .. n - 1)
      rest == {m \in svm : ~InSegment(m, s)}
      placed(n) == {[at |-> at(j), len |-> pages[j].size, file |-> pages[j].file] : j \in 1 .. n}
      there == {n \in DOMAIN pages : \A j \in 1 .. n : pages[j].file \in DOMAIN files}
  IN /\ sec.pc = "map" /\ s \in Segments
     /\ \/ /\ there = DOMAIN pages
           /\ svm' = rest \cup placed(Len(pages))
           /\ sec' = [sec EXCEPT !.seg = @ + 1]
        \/ \E n \in {0} \cup there : AttachError(rest \cup placed(n))
     /\ UNCHANGED <<pc, conf, machine, mapping, outcome, files, vm, stray>>

Attached ==
  /\ sec.pc = "map" /\ sec.seg \notin Segments
  /\ sec' = [sec EXCEPT !.pc = "done"]
  /\ UNCHANGED <<pc, conf, machine, mapping, outcome, files, vm, stray, svm>>

HpNext ==
  \/ Start \/ MapOrigPage \/ OrigPageFails \/ NoPages \/ Identify
  \/ RemapPage \/ RemapFails \/ RemapDone
  \/ CountPages \/ SharePages \/ FillMemsegs
  \/ AttachOpen \/ ReserveSegment \/ ReserveDone \/ MapSegment \/ Attached

HpSpec == HpInit /\ [][HpNext]_hp_vars

-----------------------------------------------------------------------------
UsesHugePages == pc = "done" /\ ~conf.no_hugetlbfs

(* No page is mapped twice, from the same or from another file.            *)
FramesApart == \A m, n \in vm : m # n => m.file # n.file /\ m.frame # n.frame

(* The memory segments describe the mapped pages and nothing else: page by *)
(* page a segment is mapped at its address, to frames that follow each     *)
(* other from its iova on and lie on its socket; every page that is mapped *)
(* is in a segment.  Whatever order the frames came in, wherever the       *)
(* kernel put the mappings and whichever pages were given back.            *)
SegmentsExact ==
  UsesHugePages =>
    LET pages(s) == memseg[s].len \div memseg[s].pgsz
    IN /\ \A s \in Segments : \A j \in 0 .. pages(s) - 1 :
            \E m \in vm :
              /\ m.at = memseg[s].addr + j * memseg[s].pgsz
              /\ m.frame.size = memseg[s].pgsz
              /\ machine.pagemap => m.frame.phys = memseg[s].iova + j * memseg[s].pgsz
              /\ machine.numa => m.frame.node = memseg[s].socket
       /\ MapThenSumSet(pages, Segments) = Cardinality(vm)
       /\ \A m, n \in vm : m # n => ~Overlaps(m.at, m.frame.size, n.at, n.frame.size)
       /\ FramesApart

(* What the first sockets up to t are asked for.  The loop over the        *)
(* sockets serves them in turn until internal_config.memory is used up.    *)
AskedUpTo(t) == SumOver(conf.socket_mem, 0 .. t)
OnSocket(s) == SumOver([t \in 1 .. MaxMemseg |-> memseg[t].len],
                       {t \in Segments : memseg[t].socket = s})
PageSizes(s) == {memseg[t].pgsz : t \in {t \in Segments : memseg[t].socket = s}}

(* A start-up that succeeds has internal_config.memory, and no page too    *)
(* many.  With amounts per socket it is all of what the first sockets are  *)
(* asked for, each of them has its amount and would not have it without    *)
(* any one of its pages, and the other sockets get nothing.  Without such  *)
(* amounts each socket that is used has less than one of its smallest      *)
(* pages too much.                                                         *)
RequestMet ==
  UsesHugePages =>
    IF conf.force_sockets
      THEN \E t \in -1 .. MaxNode :
             /\ AskedUpTo(t) = conf.memory
             /\ \A s \in Nodes :
                  IF s <= t THEN /\ OnSocket(s) >= conf.socket_mem[s]
                                 /\ \A z \in PageSizes(s) : OnSocket(s) - z < conf.socket_mem[s]
                  ELSE OnSocket(s) = 0
      ELSE LET had == SumOver([s \in Nodes |-> OnSocket(s)], Nodes)
               used_nodes == {s \in Nodes : OnSocket(s) > 0}
           IN /\ had >= conf.memory
              /\ had > 0 =>
                   had - SumOver([s \in used_nodes |-> Min(PageSizes(s))], used_nodes) < conf.memory

(* It gives up for lack of memory only when a socket, or all together,     *)
(* really has less than was asked for, or when internal_config.memory is   *)
(* used up within what one socket is asked for, or never.                  *)
ShortJustified ==
  pc = "failed_short" =>
    IF conf.force_sockets
      THEN \/ \E s \in Nodes : SocketMem(num, s) < conf.socket_mem[s]
           \/ \A t \in -1 .. MaxNode : AskedUpTo(t) # conf.memory
      ELSE SumOver([s \in Nodes |-> SocketMem(num, s)], Nodes) < conf.memory

(* When not all pages of the one size there is can be had, those that can  *)
(* are taken where they are asked for first: a socket goes short only when *)
(* it has no more pages, or there are fewer than all requests need.        *)
EssentialFirst ==
  LET free == machine.frames \ Taken
      needs(s) == (conf.socket_mem[s] + Sizes[1] - 1) \div Sizes[1]
  IN pc = "failed_short" /\ conf.force_sockets /\ machine.numa /\ stray = {}
       /\ (\E t \in -1 .. MaxNode : AskedUpTo(t) = conf.memory)
       /\ (\A f \in machine.frames : f.size = Sizes[1]) =>
     \/ Len(tbl) < MapThenSumSet(needs, Nodes)
     \/ \E s \in Nodes : SocketMem(num, s) < conf.socket_mem[s] /\ \A f \in free : f.node # s

(* All pages that are not in use have been given back: hugetlbfs holds the *)
(* files of the pages in the segments (none when they are to be unlinked), *)
(* and those that a failed mmap or flock left, at most one of each page    *)
(* size: the names are not used again, and the failure ends the size.      *)
PagesReturned ==
  UsesHugePages =>
    /\ DOMAIN files = stray \cup (IF conf.hugepage_unlink THEN {} ELSE {m.file : m \in vm})
    /\ \A m \in vm : m.file \notin stray
    /\ \A f, g \in stray : f[1] = g[1] => f = g

(* A secondary that attaches has the same pages at the same addresses as   *)
(* the primary; one that cannot leaves nothing where the segments are.     *)
AttachedAlike ==
  /\ sec.pc = "done" => svm = {[at |-> m.at, len |-> m.frame.size, file |-> m.file] : m \in vm}
  /\ sec.pc = "failed" => \A m \in svm : \A s \in Segments : ~InSegment(m, s)

(* "Current RTE_MAX_MEMSEG is not enough": the start-up gives up for lack  *)
(* of segments only when the runs of neighbouring pages it keeps are more  *)
(* than there are segments, or exactly as many while pages were given      *)
(* back: the zeroed entry behind the kept ones is taken for another run.   *)
SegmentsJustified ==
  LET kept == SelectSeq(shared, LAMBDA p : p.size > 0)
      starts == {i \in DOMAIN kept : \/ i = 1
                                      \/ kept[i].socket # kept[i - 1].socket
                                      \/ kept[i].size # kept[i - 1].size
                                      \/ kept[i].phys # kept[i - 1].phys + kept[i].size
                                      \/ kept[i].final # kept[i - 1].final + kept[i].size}
  IN pc = "failed_segs" =>
       Cardinality(starts) + (IF Len(kept) < Len(shared) THEN 1 ELSE 0) > MaxMemseg

(* The segments are the truth about the memory of the primary, and a       *)
(* secondary that attaches sees the same (rte_eal_hugepage_init,           *)
(* rte_eal_hugepage_attach).                                               *)
SegmentsTrue == SegmentsExact /\ AttachedAlike

(* rte_eal_hugepage_init serves internal_config.memory, socket by socket,  *)
(* with no page too many, and refuses only when the pages or the segments  *)
(* there are cannot serve it, or when it does not end with a socket.       *)
RequestServed == RequestMet /\ ShortJustified /\ EssentialFirst /\ SegmentsJustified

(* "if we didn't satisfy all memory requirements per socket": what         *)
(* eal_memory.c:876 says it refuses.  A start-up that succeeds has on each *)
(* socket the "amount of memory per socket" (eal_internal_cfg.h).          *)
SocketsServed ==
  UsesHugePages /\ conf.force_sockets => \A s \in Nodes : OnSocket(s) >= conf.socket_mem[s]
=============================================================================
