------------------------------ MODULE MCMemory ------------------------------
(***************************************************************************)
(* The set-up and the use of memory by one process, for TLC: a behaviour   *)
(* is one of HugePages, of the heap of MCMallocHeap with one memseg, or of *)
(* one call of Algorithms, chosen at the start; the variables of the       *)
(* others keep one initial value.                                          *)
(***************************************************************************)
EXTENDS MCMallocHeap, HugePages, Algorithms

MCSizes == <<4, 2>>
Frame(p, z, n) == [phys |-> p, size |-> z, node |-> n]
(* A machine with pages of both sizes on both nodes, one with one size     *)
(* only, and one without NUMA and pagemap.                                 *)
MCMachines ==
  {[frames |-> {Frame(8, 4, 0), Frame(12, 4, 1), Frame(2, 2, 0), Frame(4, 2, 0), Frame(6, 2, 1)},
    numa |-> TRUE, pagemap |-> TRUE],
   [frames |-> {Frame(8, 4, 0), Frame(12, 4, 0), Frame(20, 4, 1), Frame(24, 4, 1)},
    numa |-> TRUE, pagemap |-> TRUE],
   [frames |-> {Frame(8, 4, 0), Frame(2, 2, 0), Frame(6, 2, 0)}, numa |-> FALSE, pagemap |-> FALSE]}
Mem(a, b) == [s \in Nodes |-> IF s = 0 THEN a ELSE b]
PerSocket(m, total) ==
  [no_hugetlbfs |-> FALSE, memory |-> total, socket_mem |-> m, force_sockets |-> TRUE, hugepage_unlink |-> FALSE]
Anywhere(total, h, u) ==
  [no_hugetlbfs |-> h, memory |-> total, socket_mem |-> Mem(0, 0), force_sockets |-> FALSE, hugepage_unlink |-> u]
(* Requests per socket whose memory is the sum of them, or less, or none,  *)
(* as eal_parse_socket_mem leaves it; and requests for memory anywhere.    *)
(* Those in SmallOnly are left out on the machine with the most pages.     *)
Parsed == {PerSocket(Mem(3, 4), 0)}
SmallOnly ==
  Parsed \cup {PerSocket(Mem(3, 4), 3), PerSocket(Mem(3, 4), 5), PerSocket(Mem(0, 5), 5), Anywhere(9, FALSE, FALSE)}
MCConfigs ==
  SmallOnly \cup
  {PerSocket(Mem(3, 4), 7), PerSocket(Mem(3, 7), 10), PerSocket(Mem(9, 0), 9),
   Anywhere(0, FALSE, FALSE), Anywhere(7, FALSE, TRUE), Anywhere(6, TRUE, FALSE)}
MCLcores == Mem(2, 1)

MCCopies ==
  [isa : {"AVX512F", "AVX2", "SSE"}, dst : {0, 1, 15, 16, 31, 33, 63},
   src : {0, 1, 5, 15, 16, 32, 63}, n : (0 .. 290) \cup (500 .. 700) \cup (1010 .. 1100)]
MCPools ==
  [size : {0, 1, 48, 64, 65, 200, 2000}, chan : {0, 2, 3, 4, 6}, rank : {0, 1, 2},
   flags : SUBSET {"NO_SPREAD", "NO_CACHE_ALIGN"}, num : {1, 2, 7, 16},
   vaddr : {4096}, pg_sz : {0, 256, 4096}]
MCPow2s == (1 .. 1100) \cup {2 ^ e + d : e \in 11 .. 29, d \in {-1, 0, 1}}
MCReadings ==
  [last : 0 .. 15, deltas : [1 .. 4 -> {0, 1, 7, 15}], shift : {0, 1, 3}]
MCSplits ==
  UNION {[string : [1 .. l -> {"x", DELIM, NUL}], stringlen : {l}, maxtokens : 1 .. 3] : l \in 1 .. 6}
TwoTokens == {s \in MCSplits : s.maxtokens = 2 /\ \A i \in 1 .. s.stringlen : s.string[i] # NUL}

VARIABLE part
memory_parts == <<part, vars, hp_vars, alg_vars>>

FirstConfig == CHOOSE c \in Configs : TRUE
FirstMachine == CHOOSE m \in Machines : TRUE
FirstCall == fun.f = "pow2" /\ fun.a = 1

MCInit ==
  \/ part = "heap" /\ Init /\ HpInit /\ AlgInit
       /\ conf = FirstConfig /\ machine = FirstMachine /\ FirstCall
  \/ part = "pages" /\ HpInit /\ (conf \in SmallOnly => Cardinality(machine.frames) < 5)
       /\ Init /\ AlgInit /\ FirstCall
  \/ part = "algorithms" /\ AlgInit /\ Init /\ HpInit
       /\ conf = FirstConfig /\ machine = FirstMachine

MCNext ==
  \/ part = "heap" /\ Next /\ UNCHANGED <<part, hp_vars, alg_vars>>
  \/ part = "pages" /\ HpNext /\ UNCHANGED <<part, vars, alg_vars>>
  \/ part = "algorithms" /\ AlgNext /\ UNCHANGED <<part, vars, hp_vars>>

MCSpec == MCInit /\ [][MCNext]_memory_parts
PagesSpec == MCInit /\ part = "pages" /\ [][MCNext]_memory_parts
FunctionsSpec == MCInit /\ part = "algorithms" /\ [][MCNext]_memory_parts
=============================================================================
