----------------------------- MODULE Algorithms -----------------------------
(***************************************************************************)
(* The pure functions of the library, each called once with every argument *)
(* of a bounded set and compared with what it is for: rte_memcpy, the      *)
(* object layout of mempools, rte_align32pow2, the cycle counter of        *)
(* rte_time.h and rte_strsplit.                                            *)
(***************************************************************************)
EXTENDS Memcpy, MempoolSizes, Sequences, FiniteSets

LOCAL INSTANCE SequencesExt
LOCAL INSTANCE Bitwise

CONSTANTS
  Copies,     \* calls of rte_memcpy: [isa, dst, src, n]
  Pools,      \* [size, flags, chan, rank, num, vaddr, pg_sz]
  Pow2s,      \* arguments of rte_align32pow2
  Readings,   \* [last, deltas, shift]: a counter and how far it goes between reads
  Width,      \* 2^64: the width of the arithmetic of rte_time.h ...
  CcMask,     \* ... and the mask of a counter that is narrower
  Splits      \* [string, stringlen, maxtokens]

ASSUME AlgorithmsAssumption ==
  /\ \A c \in Copies : c.dst \in 0 .. 63 /\ c.src \in 0 .. 63
  /\ \A p \in Pools : p.vaddr % GreaterOf(64, p.pg_sz) = 0
  /\ Width % (CcMask + 1) = 0

-----------------------------------------------------------------------------
(* x |= x >> 1 ... x |= x >> 16                                            *)
Smear(x) == FoldLeft(LAMBDA y, k : y | (y \div 2 ^ k), x, <<1, 2, 4, 8, 16>>)
rte_align32pow2(x) == Smear(x - 1) + 1

(* Mutant: the fraction is forgotten.                                      *)
CyclesToNsDropped(tc, cycles) ==
  [ns |-> (cycles + tc.nsec_frac) \div 2 ^ tc.cc_shift, frac |-> 0]

(* rte_cyclecounter_cycles_to_ns, where nsec_mask = 2^cc_shift - 1.        *)
rte_cyclecounter_cycles_to_ns(tc, cycles) ==
  LET ns == (cycles + tc.nsec_frac) % Width
  IN [ns |-> ns \div 2 ^ tc.cc_shift, frac |-> ns % 2 ^ tc.cc_shift]

(* rte_timecounter_update.  ~x & mask is (-1 - x) modulo 2^width of it.    *)
rte_timecounter_update(tc, now) ==
  LET delta == IF tc.cycle_last <= now
                 THEN (now - tc.cycle_last) % (CcMask + 1)
                 ELSE ((Width - 1 - (tc.cycle_last - now)) % (CcMask + 1)) + 1
      conv == rte_cyclecounter_cycles_to_ns(tc, delta)
  IN [tc EXCEPT !.cycle_last = now, !.nsec_frac = conv.frac,
                !.nsec = (@ + conv.ns) % Width]

(* The counter read after each of the given numbers of cycles.             *)
ReadAll(r) ==
  FoldLeft(LAMBDA tc, d : rte_timecounter_update(tc, (tc.cycle_last + d) % (CcMask + 1)),
           [cycle_last |-> r.last, nsec |-> 0, nsec_frac |-> 0, cc_shift |-> r.shift],
           r.deltas)

NUL == "NUL"
DELIM == ","

(* A turn of the loop of rte_strsplit.                                     *)
SplitChar(st, i, max) ==
  LET c == st.string[i]
      start == st.tokstart
      toks == IF start THEN Append(st.tokens, i) ELSE st.tokens
  IN IF st.over \/ c = NUL \/ Len(st.tokens) >= max
       THEN [st EXCEPT !.over = TRUE]
       ELSE [st EXCEPT !.tokens = toks, !.tokstart = c = DELIM,
                       !.string[i] = IF c = DELIM THEN NUL ELSE c]
rte_strsplit(s) ==
  FoldLeft(LAMBDA st, i : SplitChar(st, i, s.maxtokens),
           [string |-> s.string, tokens |-> <<>>, tokstart |-> TRUE, over |-> FALSE],
           [i \in 1 .. s.stringlen |-> i])

-----------------------------------------------------------------------------
VARIABLES
  fun,      \* the function that is called, and its arguments
  result     \* what it returned; Pending before that

alg_vars == <<fun, result>>

Pending == [f |-> "pending"]

AlgInit ==
  /\ fun \in [f : {"memcpy"}, a : Copies] \cup [f : {"pool"}, a : Pools]
                \cup [f : {"pow2"}, a : Pow2s] \cup [f : {"time"}, a : Readings]
                \cup [f : {"split"}, a : Splits]
  /\ result = Pending

Returns(f, r) ==
  /\ result = Pending /\ fun.f = f
  /\ result' = [f |-> f, r |-> r]
  /\ UNCHANGED fun

CopyBytes == Returns("memcpy", rte_memcpy(fun.a.isa, fun.a.dst, fun.a.src, fun.a.n))
LayOut ==
  LET flags == ImpliedFlags(fun.a.flags)
      sz == rte_mempool_calc_obj_size(fun.a.size, flags, fun.a.chan, fun.a.rank)
      len == rte_mempool_xmem_size(fun.a.num, sz.total, fun.a.pg_sz)
  IN Returns("pool",
       [sz |-> sz, len |-> len,
        objs |-> rte_mempool_populate_phy(fun.a.vaddr, len, sz, fun.a.num, flags)])
Align == Returns("pow2", rte_align32pow2(fun.a))
Read == Returns("time", ReadAll(fun.a))
SplitString == Returns("split", rte_strsplit(fun.a))

AlgNext == CopyBytes \/ LayOut \/ Align \/ Read \/ SplitString
AlgSpec == AlgInit /\ [][AlgNext]_alg_vars

-----------------------------------------------------------------------------
(* rte_memcpy writes every byte of the destination and none in front of it *)
(* or behind it, and what it stores it has loaded: where a move ends       *)
(* before the end, another one goes on, in all three implementations and   *)
(* for all alignments.                                                     *)
CopiesExactly ==
  result.f = "memcpy" =>
    /\ \A m \in result.r : 0 <= m.at /\ m.at + m.len <= fun.a.n
    /\ \A m \in result.r : m.lo <= m.at /\ m.at + m.len <= m.hi
    /\ \A x \in {0} \cup {m.at + m.len : m \in result.r} :
         x < fun.a.n => \E m \in result.r : m.at <= x /\ x < m.at + m.len

(* The wide loads of the unaligned variant of rte_memcpy reach beyond the  *)
(* source, but never into a 16-byte line that holds none of its bytes:     *)
(* they cannot touch a page that the source does not.                      *)
LoadsOnSourceLines ==
  result.f = "memcpy" =>
    \A m \in result.r :
      /\ fun.a.src + m.lo >= (fun.a.src \div 16) * 16
      /\ fun.a.src + m.hi <= ((fun.a.src + fun.a.n + 15) \div 16) * 16

(* Above 512 bytes rte_memcpy stores blocks to aligned addresses, and the  *)
(* loads that are shifted together are aligned too (the requirements of    *)
(* MOVEUNALIGNED_LEFT47).                                                  *)
BlocksAligned ==
  result.f = "memcpy" =>
    \A m \in result.r :
      fun.a.n > 512 /\ m.len >= 128 =>
        /\ (fun.a.dst + m.at) % Alignment(fun.a.isa) = 0
        /\ m.lo # m.at => (fun.a.src + m.lo) % 16 = 0

(* rte_mempool_calc_obj_size: an object in lines has no divisor in common  *)
(* with the number of channels times ranks, so that consecutive objects    *)
(* start on all of them in turn, and holds what it is to hold.             *)
ObjectsSpread ==
  result.f = "pool" =>
    LET sz == result.r.sz
        nchan == IF fun.a.chan = 0 THEN 4 ELSE fun.a.chan
        nrank == IF fun.a.rank = 0 THEN 1 ELSE fun.a.rank
    IN /\ sz.trailer >= 0 /\ sz.elt >= fun.a.size
       /\ fun.a.flags = {} =>
            /\ sz.total % MEMPOOL_ALIGN = 0
            /\ {((k * sz.total) \div MEMPOOL_ALIGN) % (nchan * nrank) : k \in 1 .. nchan * nrank}
                 = 0 .. nchan * nrank - 1

(* The memory that rte_mempool_xmem_size asks for holds all the objects,   *)
(* whatever the page size, and none of those rte_mempool_populate_phy lays *)
(* out reaches into the next one or beyond the zone.                       *)
ZoneHoldsAll ==
  result.f = "pool" =>
    LET sz == result.r.sz
        objs == result.r.objs
    IN /\ DOMAIN objs = 1 .. fun.a.num
       /\ \A k \in DOMAIN objs :
            /\ objs[k] - sz.header >= fun.a.vaddr
            /\ objs[k] + sz.elt + sz.trailer <= fun.a.vaddr + result.r.len
            /\ k + 1 \in DOMAIN objs => objs[k] + sz.elt <= objs[k + 1] - sz.header
            /\ objs[k] % 8 = 0

(* rte_align32pow2 returns the least power of 2 that is not below its      *)
(* argument: the ring of a mempool gets room for all objects and no more   *)
(* than twice that.                                                        *)
NextPowerOf2 ==
  result.f = "pow2" =>
    /\ \E k \in 0 .. 30 : result.r = 2 ^ k
    /\ result.r >= fun.a
    /\ result.r \div 2 < fun.a

(* However the counter wraps between two readings, the nanoseconds of      *)
(* rte_timecounter_update are those of all the cycles that have passed:    *)
(* the fractions of single updates are not lost.                           *)
NoDrift ==
  result.f = "time" =>
    result.r.nsec = FoldLeft(+, 0, fun.a.deltas) \div 2 ^ fun.a.shift

(* rte_strsplit puts a NUL in place of a delimiter: a split.               *)
Replaced == {k \in DOMAIN fun.a.string : result.r.string[k] # fun.a.string[k]}

(* "At most, maxtokens-1 splits of the string will be done."               *)
SplitsAtMost == result.f = "split" => Cardinality(Replaced) <= fun.a.maxtokens - 1

(* Where that holds (it does not if the last of maxtokens tokens starts    *)
(* with a delimiter), the tokens, put together with the delimiter, are the *)
(* string up to its end; there are at most maxtokens of them, and only the *)
(* last of maxtokens still holds a delimiter.                              *)
SplitsAll ==
  result.f = "split" =>
    LET str == fun.a.string
        toks == result.r.tokens
        out == result.r.string
        end == LET ends == {k \in 1 .. fun.a.stringlen : str[k] = NUL}
               IN IF ends = {} THEN fun.a.stringlen
                  ELSE (CHOOSE k \in ends : \A j \in ends : k <= j) - 1
        last(k) == IF k < Len(toks) THEN toks[k + 1] - 2
                   ELSE IF end > 0 /\ out[end] = NUL THEN end - 1 ELSE end
        full == Len(toks) = fun.a.maxtokens
    IN ~(full /\ str[toks[fun.a.maxtokens]] = DELIM) =>
         /\ Len(toks) <= fun.a.maxtokens
         /\ toks = <<>> <=> end = 0
         /\ toks # <<>> => toks[1] = 1
         /\ \A k \in DOMAIN toks :
              /\ \A j \in toks[k] .. last(k) :
                   out[j] = str[j] /\ (str[j] = DELIM => k = fun.a.maxtokens)
              /\ last(k) < end => str[last(k) + 1] = DELIM /\ out[last(k) + 1] = NUL
         /\ SplitsAtMost

(* rte_memcpy copies the bytes asked for and no others, reads nothing that *)
(* could fault, and stores its blocks aligned.                             *)
CopySound == CopiesExactly /\ LoadsOnSourceLines /\ BlocksAligned

(* The objects of a mempool use all memory channels, do not overlap and    *)
(* fit in the zone that was reserved for them (rte_mempool.c).             *)
LayoutSound == ObjectsSpread /\ ZoneHoldsAll

(* rte_align32pow2 and rte_timecounter_update agree with their definitions *)
(* up to the limits of their arguments; and so does rte_strsplit, unless   *)
(* the last token that it may return starts with a delimiter.              *)
AnswersRight == NextPowerOf2 /\ NoDrift /\ SplitsAll
=============================================================================
