----------------------------- MODULE MCMemzone ------------------------------
(* Memzones and heaps for TLC: two sockets, pages of two sizes on one.     *)
EXTENDS Memzone, TLC

Plain == [page |-> AnySize, hint |-> FALSE]
Req(size, align, bound, flags) ==
  [size |-> size, align |-> align, bound |-> bound, flags |-> flags]
Seg(addr, len, sock, page) ==
  [addr |-> addr, len |-> len, socket_id |-> sock, hugepage_sz |-> page]
Zone(len, align, bound, sock) ==
  [len |-> len, align |-> align, bound |-> bound, flags |-> Plain, socket |-> sock]

TwoSockets == <<Seg(16, 5, 0, "2M"), Seg(32, 4, 0, "1G"), Seg(64, 4, 1, "2M")>>
OnPages == {Req(1, 1, 0, Plain),
            Req(2, 1, 0, [page |-> "1G", hint |-> FALSE]),
            Req(2, 1, 0, [page |-> "1G", hint |-> TRUE])}
Grow == {[size |-> 2, align |-> 1]}
Zones == {Zone(1, 0, 0, AnySocket), Zone(0, 2, 0, AnySocket), Zone(0, 1, 2, 1)}

Symmetry == Permutations(ZoneNames) \cup Permutations(Threads)
=============================================================================
