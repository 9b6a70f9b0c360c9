---------------------------- MODULE MCMallocHeap ----------------------------
(* Instances of the heap for TLC.                                          *)
EXTENDS MallocHeap, TLC

Plain == [page |-> AnySize, hint |-> FALSE]
Req(size, align, bound, flags) ==
  [size |-> size, align |-> align, bound |-> bound, flags |-> flags]
Seg(addr, len, sock, page) ==
  [addr |-> addr, len |-> len, socket_id |-> sock, hugepage_sz |-> page]

OneSeg == <<Seg(16, 13, 0, "2M")>>
Shapes == {Req(1, 1, 0, Plain), Req(3, 1, 0, Plain), Req(2, 4, 0, Plain), Req(2, 1, 4, Plain)}
GrowShrink == {[size |-> 2, align |-> 1], [size |-> 4, align |-> 4], [size |-> 1, align |-> 0]}
=============================================================================
