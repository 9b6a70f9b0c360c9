---------------------------- MODULE MempoolSizes ----------------------------
(***************************************************************************)
(* The arithmetic of rte_mempool.c: the layout of an object with its       *)
(* header and trailer, the memory a number of objects needs, and where     *)
(* rte_mempool_populate_phy puts them in a zone.  Sizes are in bytes.      *)
(***************************************************************************)
EXTENDS Integers

MEMPOOL_ALIGN == 64          \* RTE_MEMPOOL_ALIGN, a cache line
OBJHDR_SIZE == 16            \* sizeof(struct rte_mempool_objhdr)

AlignCeil(x, a) == ((x + a - 1) \div a) * a
GreaterOf(a, b) == IF a > b THEN a ELSE b
LesserOf(a, b) == IF a > b THEN b ELSE a

(* get_gcd, by the remainders of its loop.                                 *)
Euclid[a \in Nat] == [b \in Nat |-> IF b = 0 THEN a ELSE Euclid[b][a % b]]
get_gcd(a, b) == Euclid[GreaterOf(a, b)][LesserOf(a, b)]

(* Mutant: sizes are spread over the channels only.                        *)
SpreadChannelsOnly(obj_size, chan, rank) ==
  LET nchan == IF chan = 0 THEN 4 ELSE chan
      units == AlignCeil(obj_size, MEMPOOL_ALIGN) \div MEMPOOL_ALIGN
      k == CHOOSE j \in 0 .. nchan :
             /\ get_gcd(units + j, nchan) = 1
             /\ \A h \in 0 .. j - 1 : get_gcd(units + h, nchan) # 1
  IN (units + k) * MEMPOOL_ALIGN

(* optimize_object_size: the next number of lines that has no divisor in   *)
(* common with channels times ranks, 4 and 1 when they are not known.      *)
optimize_object_size(obj_size, chan, rank) ==
  LET nchan == IF chan = 0 THEN 4 ELSE chan
      nrank == IF rank = 0 THEN 1 ELSE rank
      units == AlignCeil(obj_size, MEMPOOL_ALIGN) \div MEMPOOL_ALIGN
      k == CHOOSE j \in 0 .. nrank * nchan :
             /\ get_gcd(units + j, nrank * nchan) = 1
             /\ \A h \in 0 .. j - 1 : get_gcd(units + h, nrank * nchan) # 1
  IN (units + k) * MEMPOOL_ALIGN

(* What rte_mempool_create_empty makes of the flags.                       *)
ImpliedFlags(flags) ==
  IF "NO_CACHE_ALIGN" \in flags THEN flags \cup {"NO_SPREAD"} ELSE flags

(* rte_mempool_calc_obj_size                                               *)
rte_mempool_calc_obj_size(size, flags, chan, rank) ==
  LET cacheAlign == "NO_CACHE_ALIGN" \notin flags
      spread == "NO_SPREAD" \notin flags
      header == IF cacheAlign THEN AlignCeil(OBJHDR_SIZE, MEMPOOL_ALIGN) ELSE OBJHDR_SIZE
      elt == AlignCeil(size, 8)
      filled == IF cacheAlign THEN AlignCeil(header + elt, MEMPOOL_ALIGN) ELSE header + elt
      total == IF spread THEN optimize_object_size(filled, chan, rank) ELSE filled
  IN [header |-> header, elt |-> elt, trailer |-> total - header - elt, total |-> total]

(* rte_mempool_xmem_size; pg_sz = 0 when pages do not matter.              *)
rte_mempool_xmem_size(elt_num, total, pg_sz) ==
  LET obj_per_page == pg_sz \div total
  IN IF pg_sz = 0 THEN total * elt_num
     ELSE IF obj_per_page = 0 THEN AlignCeil(total, pg_sz) * elt_num
     ELSE ((elt_num + obj_per_page - 1) \div obj_per_page) * pg_sz

(* rte_mempool_populate_phy: the addresses of the objects it adds, at most *)
(* room of them, to a zone of len bytes at vaddr.                          *)
rte_mempool_populate_phy(vaddr, len, sz, room, flags) ==
  LET first == AlignCeil(vaddr, IF "NO_CACHE_ALIGN" \in flags THEN 8 ELSE 64) - vaddr
      fits == {k \in 1 .. room : first + k * sz.total <= len}
  IN [k \in fits |-> vaddr + first + (k - 1) * sz.total + sz.header]
=============================================================================
