-------------------------- MODULE RingImplementsFifo --------------------------
(***************************************************************************)
(* The ring of Ring.tla implements the queue of RingFifo.tla.  An enqueue  *)
(* takes effect when it moves prod.tail, a dequeue when it moves           *)
(* cons.head; the objects a consumer has reserved and not yet copied are   *)
(* read from the slots, so the mapping holds only while nobody overwrites  *)
(* them.                                                                   *)
(***************************************************************************)
EXTENDS Ring

(* The objects in the k slots from position pos on.                        *)
Slots(pos, k) == [j \in 1 .. k |-> ring[Slot(Add(pos, j - 1))]]

FifoQueue == Slots(head["cons"], Queued)
FifoClaim ==
  [p \in Producers |-> IF Committed(p) THEN SubSeq(table[p], 1, n[p]) ELSE <<>>]
FifoTaken ==
  [c \in Consumers |->
     IF Committed(c)
       THEN table[c] \o Slots(Add(old[c], i[c]), n[c] - i[c])
       ELSE <<>>]

Fifo == INSTANCE RingFifo
          WITH queue <- FifoQueue, claim <- FifoClaim, taken <- FifoTaken

(* Objects leave in the order they entered, each exactly once, a table at  *)
(* a time, from a queue that never holds more than capacity objects        *)
(* (__rte_ring_do_enqueue, __rte_ring_do_dequeue).                         *)
ImplementsFifo == Fifo!Spec
=============================================================================
