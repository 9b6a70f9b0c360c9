------------------------------ MODULE RingCount ------------------------------
(***************************************************************************)
(* rte_ring_count, rte_ring_free_count, rte_ring_full and rte_ring_empty   *)
(* called by a thread beside those that use the ring.  The two tails are   *)
(* loaded one after the other.  lo and hi are history variables: the least *)
(* and the greatest number of entries the ring had since the call began.   *)
(***************************************************************************)
EXTENDS Ring

VARIABLES
  opc,        \* the observer: "idle", "cons_tail" or "done"
  prod_tail,  \* its local
  count,      \* what rte_ring_count returned
  lo, hi

ovars == <<opc, prod_tail, count, lo, hi>>
allvars == <<vars, ovars>>

(* The entries that have been enqueued and whose dequeue is not over.      *)
Entries == Sub(tail["prod"], tail["cons"])

MinOf(a, b) == IF a <= b THEN a ELSE b
MaxOf(a, b) == IF a >= b THEN a ELSE b

NotCounting == opc = "idle" /\ prod_tail = 0 /\ count = 0 /\ lo = 0 /\ hi = 0
CountInit == Init /\ NotCounting

(* uint32_t prod_tail = r->prod.tail                                       *)
LoadProdTail ==
  /\ opc = "idle"
  /\ opc' = "cons_tail"
  /\ prod_tail' = tail["prod"]
  /\ lo' = Entries /\ hi' = Entries
  /\ UNCHANGED <<vars, count>>

MaskedOnly(ptail, ctail) == Sub(ptail, ctail) % Size

(* (prod_tail - cons_tail) & mask, at most the capacity.                   *)
Reported(ptail, ctail) ==
  LET masked == Sub(ptail, ctail) % Size
  IN IF masked > Capacity THEN Capacity ELSE masked

(* uint32_t cons_tail = r->cons.tail, and the result.                      *)
LoadConsTail ==
  /\ opc = "cons_tail"
  /\ opc' = "done"
  /\ count' = Reported(prod_tail, tail["cons"])
  /\ UNCHANGED <<vars, prod_tail, lo, hi>>

CallOver ==
  /\ opc = "done"
  /\ opc' = "idle" /\ prod_tail' = 0 /\ count' = 0 /\ lo' = 0 /\ hi' = 0
  /\ UNCHANGED vars

(* A step of the other threads, recorded in the history.                   *)
RingStep ==
  /\ Next
  /\ IF opc = "cons_tail"
       THEN lo' = MinOf(lo, Entries') /\ hi' = MaxOf(hi, Entries')
       ELSE UNCHANGED <<lo, hi>>
  /\ UNCHANGED <<opc, prod_tail, count>>

CountNext == LoadProdTail \/ LoadConsTail \/ CallOver \/ RingStep
CountSpec == CountInit /\ [][CountNext]_allvars

-----------------------------------------------------------------------------
rte_ring_free_count == Capacity - count
rte_ring_full == rte_ring_free_count = 0
rte_ring_empty == count = 0

(* Whatever happens between the two loads, the count does not exceed the   *)
(* capacity, so rte_ring_free_count does not go below zero.                *)
FreeCountNotNegative == opc = "done" => rte_ring_free_count \in 0 .. Capacity

(* When no tail moved during the call, the count is exact.                 *)
CountExactWhenQuiet == opc = "done" /\ lo = hi => count = lo

(* rte_ring_count beside threads that use the ring: never more than the    *)
(* capacity, and exact when nothing moved between its two loads.           *)
CountSound == FreeCountNotNegative /\ CountExactWhenQuiet
=============================================================================
