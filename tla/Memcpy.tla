------------------------------- MODULE Memcpy -------------------------------
(***************************************************************************)
(* rte_memcpy of arch/x86/rte_memcpy.h: the three implementations that the *)
(* build chooses from (AVX512F, AVX2, SSE and AVX), each a cascade of      *)
(* overlapping moves of fixed width that depends on the length and, from   *)
(* some length on, on the alignment of both pointers.                      *)
(*                                                                         *)
(* A copy under way is [pos, n, moves]: how far dst and src have advanced, *)
(* the bytes left, and the moves made so far.  A move stores len bytes at  *)
(* offset at of the destination from loads of the source bytes lo .. hi-1. *)
(***************************************************************************)
EXTENDS Integers

(* ALIGNMENT_MASK + 1                                                      *)
Alignment(isa) == CASE isa = "AVX512F" -> 64 [] isa = "AVX2" -> 32 [] OTHER -> 16

-----------------------------------------------------------------------------
(* rte_mov16, 32, 64, 128 and 256 at dst + x: a move of k bytes.           *)
MovAt(c, x, k) ==
  LET at == c.pos + x
  IN [c EXCEPT !.moves = @ \cup {[at |-> at, len |-> k, lo |-> at, hi |-> at + k]}]
Mov(c, k) == MovAt(c, 0, k)
(* dst + k, src + k, n - k                                                 *)
Skip(c, k) == [c EXCEPT !.pos = @ + k, !.n = @ - k]
(* rte_movk(dst - k + n, src - k + n): the move that ends where all ends.  *)
MovLast(c, k) == MovAt(c, c.n - k, k)
MovOn(c, k) == Skip(Mov(c, k), k)
MovIf(c, k) == IF c.n >= k THEN MovOn(c, k) ELSE c
(* rte_mov128blocks, rte_mov512blocks and the loops over rte_mov64 and     *)
(* rte_mov256: as many blocks as there are.                                *)
Blocks(c, k) == IF c.n >= k THEN MovOn(c, (c.n \div k) * k) ELSE c

(* "Copy less than 16 bytes": a move of 1, 2, 4 and 8 by the bits of n.    *)
Under16(c) ==
  LET bit(x, k) == IF (c.n \div k) % 2 = 1 THEN MovOn(x, k) ELSE x
  IN bit(bit(bit(bit(c, 1), 2), 4), 8)

(* "Make store aligned": a move of w bytes, of which those up to the next  *)
(* multiple of a (and back of them) are done with.                         *)
AlignDst(c, dst, w, a, back) ==
  IF dst % a = 0 THEN c ELSE Skip(Mov(c, w), a - (dst % a) + back)

(* COPY_BLOCK_128_BACK63                                                   *)
Back63(c) ==
  IF c.n > 64 THEN MovLast(Mov(c, 64), 64)
  ELSE IF c.n > 0 THEN MovLast(c, 64) ELSE c

(* rte_memcpy_generic for AVX512F                                          *)
Avx512(c, dst) ==
  CASE c.n < 16   -> Under16(c)
    [] c.n \in 16 .. 32 -> MovLast(Mov(c, 16), 16)
    [] c.n \in 33 .. 64 -> MovLast(Mov(c, 32), 32)
    [] c.n \in 65 .. 512 -> Back63(MovIf(MovIf(c, 256), 128))
    [] c.n > 512 -> Back63(Blocks(Blocks(AlignDst(c, dst, 64, 64, 0), 512), 128))

(* COPY_BLOCK_128_BACK31                                                   *)
Back31(c) ==
  LET d == MovIf(c, 64)
  IN IF d.n > 32 THEN MovLast(Mov(d, 32), 32)
     ELSE IF d.n > 0 THEN MovLast(d, 32) ELSE d

(* rte_memcpy_generic for AVX2                                             *)
Avx2(c, dst) ==
  CASE c.n < 16   -> Under16(c)
    [] c.n \in 16 .. 32 -> MovLast(Mov(c, 16), 16)
    [] c.n \in 33 .. 48 -> MovLast(MovAt(Mov(c, 16), 16, 16), 16)
    [] c.n \in 49 .. 64 -> MovLast(Mov(c, 32), 32)
    [] c.n \in 65 .. 256 -> Back31(MovIf(c, 128))
    [] c.n > 256 -> Back31(Blocks(AlignDst(c, dst, 32, 32, 0), 128))

(* COPY_BLOCK_64_BACK15, COPY_BLOCK_128_BACK15 and COPY_BLOCK_255_BACK15   *)
Back15(c) ==
  LET d == MovIf(c, 32)
  IN IF d.n > 16 THEN MovLast(Mov(d, 16), 16)
     ELSE IF d.n > 0 THEN MovLast(d, 16) ELSE d
Back15From128(c) == Back15(MovIf(c, 64))
Back15From255(c) == Back15From128(MovIf(c, 128))

(* Mutant: the loads start a whole vector before src, not ofs bytes.       *)
LeftFarBack(c, ofs, w) ==
  LET k == IF c.n >= w + 16 - ofs THEN (c.n - 16 + ofs) \div w ELSE 0
      wide == [at |-> c.pos, len |-> k * w, lo |-> c.pos - 16, hi |-> c.pos + k * w]
  IN IF k = 0 THEN c ELSE Skip([c EXCEPT !.moves = @ \cup {wide}], k * w)

(* A loop of MOVEUNALIGNED_LEFT47_IMM: aligned loads from ofs bytes before *)
(* src to 16 - ofs behind the block, shifted together, while there are     *)
(* that many bytes; then the pointers advance by the difference to what    *)
(* the length formula says is left.                                        *)
Left(c, ofs, w) ==
  LET spare == 16 - ofs
      k == IF c.n >= w + spare THEN (c.n - spare) \div w ELSE 0
      wide == [at |-> c.pos, len |-> k * w, lo |-> c.pos - ofs, hi |-> c.pos - ofs + k * w + 16]
      d == IF k = 0 THEN c ELSE Skip([c EXCEPT !.moves = @ \cup {wide}], k * w)
  IN Skip(d, d.n - (((d.n - spare) % w) + spare))
(* MOVEUNALIGNED_LEFT47: blocks of 128, then blocks of 32.                 *)
MoveUnaligned(c, ofs) ==
  LET d == Left(c, ofs, 128)
  IN IF d.n >= 32 + 16 - ofs THEN Left(d, ofs, 32) ELSE d

(* The tail of rte_memcpy_generic for SSE and AVX, above 512 bytes.        *)
SseLong(c, dst, src) ==
  LET d == AlignDst(c, dst, 32, 16, 16)
      srcofs == (src + d.pos) % 16
  IN IF srcofs = 0 THEN Back15From255(Blocks(d, 256))
     ELSE Back15(MoveUnaligned(d, srcofs))

(* rte_memcpy_generic for SSE and AVX                                      *)
Sse(c, dst, src) ==
  CASE c.n < 16   -> Under16(c)
    [] c.n \in 16 .. 32 -> MovLast(Mov(c, 16), 16)
    [] c.n \in 33 .. 48 -> MovLast(Mov(c, 32), 16)
    [] c.n \in 49 .. 64 -> MovLast(MovAt(Mov(c, 32), 32, 16), 16)
    [] c.n \in 65 .. 128 -> Back15From128(c)
    [] c.n \in 129 .. 512 -> Back15From255(MovIf(c, 256))
    [] c.n > 512 -> SseLong(c, dst, src)

(* rte_memcpy_aligned                                                      *)
Aligned(c) ==
  CASE c.n < 16   -> Under16(c)
    [] c.n \in 16 .. 32 -> MovLast(Mov(c, 16), 16)
    [] c.n \in 33 .. 64 -> MovLast(Mov(c, 32), 32)
    [] c.n > 64 -> MovLast(Blocks(c, 64), 64)

(* rte_memcpy: the moves of a call.                                        *)
rte_memcpy(isa, dst, src, n) ==
  LET c == [pos |-> 0, n |-> n, moves |-> {}]
      aligned == dst % Alignment(isa) = 0 /\ src % Alignment(isa) = 0
  IN IF aligned THEN Aligned(c).moves
     ELSE (CASE isa = "AVX512F" -> Avx512(c, dst)
             [] isa = "AVX2" -> Avx2(c, dst)
             [] isa = "SSE" -> Sse(c, dst, src)).moves
=============================================================================
