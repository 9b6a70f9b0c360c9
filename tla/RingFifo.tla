------------------------------ MODULE RingFifo ------------------------------
(***************************************************************************)
(* What librte_ring promises: a bounded first-in first-out queue on which  *)
(* a call moves a whole table of objects at once.  A slot is in use from   *)
(* the moment an enqueue claims it to the moment the dequeue that took its *)
(* object hands it back.                                                   *)
(***************************************************************************)
EXTENDS Integers, Sequences, FiniteSets

CONSTANTS Producers, Consumers, Objs, Capacity

VARIABLES
  queue,   \* the objects that can be dequeued, oldest first
  claim,   \* claim[p]: the objects p is about to append, their slots taken
  taken    \* taken[c]: the objects c removed and whose slots it still holds

fvars == <<queue, claim, taken>>

Tables == UNION {[1 .. k -> Objs] : k \in 1 .. Capacity}
Places(f, T) == {e \in T \X (1 .. Capacity) : e[2] <= Len(f[e[1]])}
Weight(f, T) == Cardinality(Places(f, T))
InUse == Weight(claim, Producers) + Len(queue) + Weight(taken, Consumers)

Init ==
  /\ queue = <<>>
  /\ claim = [p \in Producers |-> <<>>]
  /\ taken = [c \in Consumers |-> <<>>]

Claim(p, objs) ==
  /\ claim[p] = <<>>
  /\ InUse + Len(objs) <= Capacity
  /\ claim' = [claim EXCEPT ![p] = objs]
  /\ UNCHANGED <<queue, taken>>

Publish(p) ==
  /\ claim[p] # <<>>
  /\ queue' = queue \o claim[p]
  /\ claim' = [claim EXCEPT ![p] = <<>>]
  /\ UNCHANGED taken

Take(c, k) ==
  /\ taken[c] = <<>>
  /\ taken' = [taken EXCEPT ![c] = SubSeq(queue, 1, k)]
  /\ queue' = SubSeq(queue, k + 1, Len(queue))
  /\ UNCHANGED claim

Release(c) ==
  /\ taken[c] # <<>>
  /\ taken' = [taken EXCEPT ![c] = <<>>]
  /\ UNCHANGED <<queue, claim>>

Next ==
  \/ \E p \in Producers : Publish(p) \/ \E objs \in Tables : Claim(p, objs)
  \/ \E c \in Consumers : Release(c) \/ \E k \in 1 .. Len(queue) : Take(c, k)

Spec == Init /\ [][Next]_fvars
=============================================================================
