-------------------------------- MODULE Ring --------------------------------
(***************************************************************************)
(* The lock-free ring of librte_ring (rte_ring.h, rte_ring_generic.h):     *)
(* any number of threads enqueue and dequeue tables of objects.  Every     *)
(* access to a shared index or to a slot is a step of its own; the build   *)
(* is x86, whose loads are not reordered and whose stores are not          *)
(* reordered, which is what rte_smp_rmb and rte_smp_wmb ask for.           *)
(*                                                                         *)
(* The two halves of the ring, struct rte_ring_headtail prod and cons, are *)
(* the two elements of Side: the code of __rte_ring_move_prod_head and of  *)
(* __rte_ring_move_cons_head differs only in the room each side starts     *)
(* with (capacity or 0) and in the direction of the copy.                  *)
(***************************************************************************)
EXTENDS Integers, Sequences, FiniteSets

CONSTANTS
  Producers, Consumers,   \* the threads that call enqueue, and dequeue
  Objs,                   \* the object pointers that are passed
  Size,                   \* r->size: slots of the table
  Capacity,               \* r->capacity: usable slots (RING_F_EXACT_SZ: < Size - 1)
  M,                      \* 2^32: the indexes are unsigned integers modulo M
  Bursts,                 \* the values of n that callers pass
  Behaviors,              \* the enum rte_ring_queue_behavior values in use
  Single,                 \* Single[s]: is_sp / is_sc of the calls made
  NoObj                   \* what a slot holds before its first write

Side == {"prod", "cons"}
Threads == Producers \cup Consumers

(* rte_ring_init, for a count of at least 2 (1 with RING_F_EXACT_SZ),      *)
(* makes 0 < capacity < size <= 2^31; size is a power of 2.                *)
ASSUME RingAssumption ==
  /\ Producers \cap Consumers = {}
  /\ Size \in Nat /\ Capacity \in Nat /\ M \in Nat
  /\ 0 < Capacity /\ Capacity < Size
  /\ M >= 2 * Size /\ M % Size = 0
  /\ Bursts \subseteq Nat
  /\ Behaviors \subseteq {"FIXED", "VARIABLE"}
  /\ Single \in [Side -> BOOLEAN]

(* A single-producer (single-consumer) call needs one caller at a time:    *)
(* "NOT multi-producers safe" in the text of the sp/sc variants.           *)
ASSUME SingleAssumption ==
  /\ Single["prod"] => \A p, q \in Producers : p = q
  /\ Single["cons"] => \A p, q \in Consumers : p = q

VARIABLES
  head, tail,  \* head[s], tail[s]: the volatile indexes of side s
  ring,        \* the table of slots behind struct rte_ring
  pc,          \* where each thread is in its call
  behavior,    \* its arguments: behavior, the requested count (max)
  max,
  table,       \* obj_table: what to enqueue, or what was dequeued so far
  old,         \* the locals old_head, n and free_entries / entries
  n,
  avail,
  i            \* the index of the copy loop

vars == <<head, tail, ring, pc, behavior, max, table, old, n, avail, i>>
locals == <<behavior, max, table, old, n, avail, i>>

-----------------------------------------------------------------------------
(* uint32_t arithmetic.                                                    *)
Idx == 0 .. M - 1
Add(a, b) == IF a + b >= M THEN a + b - M ELSE a + b
Sub(a, b) == IF a >= b THEN a - b ELSE a - b + M

(* idx & mask; ENQUEUE_PTRS and DEQUEUE_PTRS continue at slot 0 when the   *)
(* reservation runs past the end of the table.                             *)
Slot(idx) == idx % Size

SideOf(t) == IF t \in Producers THEN "prod" ELSE "cons"
Other(s) == IF s = "prod" THEN "cons" ELSE "prod"
Room(s) == IF s = "prod" THEN Capacity ELSE 0

(* What a thread reserved by moving the head and has not given to the      *)
(* other side by moving the tail: positions old .. old + n - 1.            *)
Committed(t) == pc[t] \in {"copy", "update"}
(* Between reading the head and moving it.                                 *)
Reading(t) == pc[t] \in {"tail", "cas"}
OnSide(s) == {t \in Threads : SideOf(t) = s}

-----------------------------------------------------------------------------
Init ==
  /\ head = [s \in Side |-> 0]
  /\ tail = [s \in Side |-> 0]
  /\ ring = [k \in 0 .. Size - 1 |-> NoObj]
  /\ pc = [t \in Threads |-> "idle"]
  /\ behavior = [t \in Threads |-> "FIXED"]
  /\ max = [t \in Threads |-> 0]
  /\ table = [t \in Threads |-> <<>>]
  /\ old = [t \in Threads |-> 0]
  /\ n = [t \in Threads |-> 0]
  /\ avail = [t \in Threads |-> 0]
  /\ i = [t \in Threads |-> 0]

(* rte_ring_[ms]p_enqueue[_bulk|_burst]: the callers' table of objects.    *)
CallEnqueue(p, objs, b) ==
  /\ pc[p] = "idle"
  /\ pc' = [pc EXCEPT ![p] = "head"]
  /\ max' = [max EXCEPT ![p] = Len(objs)]
  /\ table' = [table EXCEPT ![p] = objs]
  /\ behavior' = [behavior EXCEPT ![p] = b]
  /\ UNCHANGED <<head, tail, ring, old, n, avail, i>>

(* rte_ring_[ms]c_dequeue[_bulk|_burst].                                   *)
CallDequeue(c, k, b) ==
  /\ pc[c] = "idle"
  /\ pc' = [pc EXCEPT ![c] = "head"]
  /\ max' = [max EXCEPT ![c] = k]
  /\ behavior' = [behavior EXCEPT ![c] = b]
  /\ UNCHANGED <<head, tail, ring, table, old, n, avail, i>>

(* The call is over: its locals are dead and are put back to one value.    *)
Return(t) ==
  /\ pc' = [pc EXCEPT ![t] = "idle"]
  /\ behavior' = [behavior EXCEPT ![t] = "FIXED"]
  /\ max' = [max EXCEPT ![t] = 0]
  /\ table' = [table EXCEPT ![t] = <<>>]
  /\ old' = [old EXCEPT ![t] = 0]
  /\ n' = [n EXCEPT ![t] = 0]
  /\ avail' = [avail EXCEPT ![t] = 0]
  /\ i' = [i EXCEPT ![t] = 0]

(* *old_head = r->prod.head, the top of the do ... while loop.             *)
LoadHead(t) ==
  /\ pc[t] = "head"
  /\ pc' = [pc EXCEPT ![t] = "tail"]
  /\ old' = [old EXCEPT ![t] = head[SideOf(t)]]
  /\ UNCHANGED <<head, tail, ring, behavior, max, table, n, avail, i>>

(* Mutants: the head of the other side is read instead of its tail; one    *)
(* slot is left unused.                                                    *)
AvailableFromHead(s, old_head) == Sub(Add(Room(s), head[Other(s)]), old_head)
AvailableOneShort(s, old_head) ==
  IF s = "prod" THEN Sub(Add(Capacity - 1, tail[Other(s)]), old_head)
  ELSE Sub(tail[Other(s)], old_head)

(* free_entries = capacity + cons.tail - old_head, or                      *)
(* entries = prod.tail - old_head.                                         *)
Available(s, old_head) == Sub(Add(Room(s), tail[Other(s)]), old_head)

(* n, after the check for enough room (or entries).                        *)
Granted(t, free) ==
  IF max[t] <= free THEN max[t]
  ELSE IF behavior[t] = "FIXED" THEN 0 ELSE free

(* The load of the opposite tail and the decision taken from it.           *)
LoadTail(t) ==
  LET free == Available(SideOf(t), old[t])
      k == Granted(t, free)
  IN /\ pc[t] = "tail"
     /\ \/ /\ k = 0
           /\ Return(t)
        \/ /\ k # 0
           /\ pc' = [pc EXCEPT ![t] = "cas"]
           /\ n' = [n EXCEPT ![t] = k]
           /\ avail' = [avail EXCEPT ![t] = free]
           /\ UNCHANGED <<behavior, max, table, old, i>>
     /\ UNCHANGED <<head, tail, ring>>

(* BOUND.  The indexes wrap after M positions.  While a thread is between  *)
(* its load of the head and its compare-and-set, the head passes fewer     *)
(* than M - Capacity positions: 2^32 positions in the time of a few        *)
(* instructions would defeat the compare-and-set (the ABA problem), and    *)
(* the code relies on that not happening.                                  *)
NoLap(t) ==
  \A u \in OnSide(SideOf(t)) \ {t} :
    Reading(u) => Sub(head[SideOf(t)], old[u]) + n[t] + Capacity < M

(* Mutant: the head is stored without comparing it.                        *)
HeadStored(t) == TRUE

(* The head still is what was read, and moves: rte_atomic32_cmpset, or the *)
(* plain store of the single-producer and single-consumer variants.        *)
HeadUnmoved(t) == Single[SideOf(t)] \/ head[SideOf(t)] = old[t]

MoveHead(t) ==
  /\ pc[t] = "cas"
  /\ HeadUnmoved(t)
  /\ NoLap(t)
  /\ head' = [head EXCEPT ![SideOf(t)] = Add(old[t], n[t])]
  /\ pc' = [pc EXCEPT ![t] = "copy"]
  /\ UNCHANGED <<tail, ring, locals>>

(* Mutant: the load of the head is hoisted out of the loop.                *)
RetryStale(t) ==
  /\ pc[t] = "cas"
  /\ ~HeadUnmoved(t)
  /\ pc' = [pc EXCEPT ![t] = "tail"]
  /\ n' = [n EXCEPT ![t] = 0]
  /\ avail' = [avail EXCEPT ![t] = 0]
  /\ UNCHANGED <<head, tail, ring, behavior, max, table, old, i>>

(* The compare-and-set failed: back to the top of the loop.                *)
RetryHead(t) ==
  /\ pc[t] = "cas"
  /\ ~HeadUnmoved(t)
  /\ pc' = [pc EXCEPT ![t] = "head"]
  /\ old' = [old EXCEPT ![t] = 0]
  /\ n' = [n EXCEPT ![t] = 0]
  /\ avail' = [avail EXCEPT ![t] = 0]
  /\ UNCHANGED <<head, tail, ring, behavior, max, table, i>>

(* One assignment of ENQUEUE_PTRS or DEQUEUE_PTRS.                         *)
CopyPtr(t) ==
  LET idx == Slot(Add(old[t], i[t]))
  IN /\ pc[t] = "copy"
     /\ \/ /\ t \in Producers
           /\ ring' = [ring EXCEPT ![idx] = table[t][i[t] + 1]]
           /\ UNCHANGED table
        \/ /\ t \in Consumers
           /\ table' = [table EXCEPT ![t] = Append(@, ring[idx])]
           /\ UNCHANGED ring
     /\ i' = [i EXCEPT ![t] = @ + 1]
     /\ pc' = [pc EXCEPT ![t] = IF i[t] + 1 = n[t] THEN "update" ELSE "copy"]
     /\ UNCHANGED <<head, tail, behavior, max, old, n, avail>>

(* Mutants: no wait; the wait compares with new_val.                       *)
TailNotAwaited(t) == TRUE
TailAwaitsNew(t) == tail[SideOf(t)] = Add(old[t], n[t])

(* The wait of update_tail: the operations that reserved before this one   *)
(* have moved the tail up to where this one starts.                        *)
TailReached(t) == Single[SideOf(t)] \/ tail[SideOf(t)] = old[t]

(* The end of update_tail, and the return of n and free_entries - n.       *)
UpdateTail(t) ==
  /\ pc[t] = "update"
  /\ TailReached(t)
  /\ tail' = [tail EXCEPT ![SideOf(t)] = Add(old[t], n[t])]
  /\ Return(t)
  /\ UNCHANGED <<head, ring>>

Tables == UNION {[1 .. k -> Objs] : k \in Bursts}

Step(t) ==
  \/ LoadHead(t) \/ LoadTail(t) \/ MoveHead(t) \/ RetryHead(t)
  \/ CopyPtr(t) \/ UpdateTail(t)

Next ==
  \/ \E p \in Producers, objs \in Tables, b \in Behaviors :
       CallEnqueue(p, objs, b)
  \/ \E c \in Consumers, k \in Bursts, b \in Behaviors : CallDequeue(c, k, b)
  \/ \E t \in Threads : Step(t)

Spec == Init /\ [][Next]_vars

(* Each thread keeps running: it is pinned to its own core (eal_thread.c)  *)
(* and none of its steps blocks in the kernel.  Nobody has to call.        *)
Fairness == \A t \in Threads : WF_vars(Step(t))
FairSpec == Spec /\ Fairness

-----------------------------------------------------------------------------
Types ==
  /\ head \in [Side -> Idx] /\ tail \in [Side -> Idx]
  /\ ring \in [0 .. Size - 1 -> Objs \cup {NoObj}]
  /\ pc \in [Threads -> {"idle", "head", "tail", "cas", "copy", "update"}]
  /\ behavior \in [Threads -> {"FIXED", "VARIABLE"}]
  /\ max \in [Threads -> Nat] /\ n \in [Threads -> Nat]
  /\ i \in [Threads -> Nat]
  /\ old \in [Threads -> Idx] /\ avail \in [Threads -> Idx]
  /\ table \in [Threads -> Seq(Objs \cup {NoObj})]

TablesFit == \A p \in Producers : table[p] \in [1 .. max[p] -> Objs]

CountsFit ==
  \A t \in Threads :
    /\ pc[t] = "cas" \/ Committed(t) => n[t] \in 1 .. max[t] /\ n[t] <= avail[t]
    /\ ~Committed(t) => i[t] = 0
    /\ pc[t] = "copy" => i[t] < n[t]
    /\ pc[t] = "update" => i[t] = n[t]

(* The type of the state.  A granted count is never zero once a thread is  *)
(* past the decision, and never more than what was asked for or counted as *)
(* available; a copy loop never runs past the caller's table, and all of   *)
(* it is copied before the tail moves.                                     *)
TypeOK == Types /\ TablesFit /\ CountsFit

(* How far ahead of b index a is, for each of the three zones of the ring. *)
BeingWritten == Sub(head["prod"], tail["prod"])
Queued == Sub(tail["prod"], head["cons"])
BeingRead == Sub(head["cons"], tail["cons"])

(* cons.tail, cons.head, prod.tail, prod.head never overtake one another,  *)
(* and prod.head never gets more than capacity ahead of cons.tail: no slot *)
(* is reserved twice, whatever the stale values threads act on and also    *)
(* when the 32-bit indexes wrap (move_prod_head, move_cons_head,           *)
(* update_tail).                                                           *)
WindowOrder == BeingWritten + Queued + BeingRead <= Capacity

(* The positions between a side's tail and its head, and where in that     *)
(* zone a thread's reservation starts.                                     *)
Zone(s) == Sub(head[s], tail[s])
Offset(t) == Sub(old[t], tail[SideOf(t)])
Owns(t, k) == Committed(t) /\ Offset(t) <= k /\ k < Offset(t) + n[t]

(* The reservations in flight on a side tile the zone between its tail and *)
(* its head: they lie in it, they do not overlap, so no thread copies to   *)
(* or from another one's slots, and no position of it is orphaned, which   *)
(* would leave every later operation spinning in update_tail.              *)
ReservationsTile ==
  /\ \A t \in Threads : Committed(t) => Offset(t) + n[t] <= Zone(SideOf(t))
  /\ \A t, u \in Threads :
       t # u /\ SideOf(t) = SideOf(u) /\ Committed(t) /\ Committed(u) =>
         Offset(t) + n[t] <= Offset(u) \/ Offset(u) + n[u] <= Offset(t)
  /\ \A s \in Side : \A k \in 0 .. Zone(s) - 1 : \E t \in OnSide(s) : Owns(t, k)

(* What a side can reserve at this moment, by the indexes as they are.     *)
TrulyAvailable(s) ==
  IF s = "prod" THEN Capacity - BeingWritten - Queued - BeingRead ELSE Queued

(* When the compare-and-set of a thread would succeed, the room (or the    *)
(* entries) it counted are still there: the opposite tail it read may be   *)
(* old, but can only have moved in its favour.                             *)
DecisionCurrent ==
  \A t \in Threads :
    pc[t] = "cas" /\ old[t] = head[SideOf(t)] => n[t] <= TrulyAvailable(SideOf(t))

(* The thread of a single-producer or single-consumer side, which neither  *)
(* compares the head nor waits for the tail, finds both where it left them.*)
SingleUndisturbed ==
  \A t \in Threads :
    LET s == SideOf(t)
    IN Single[s] =>
         /\ Reading(t) => old[t] = head[s]
         /\ Committed(t) => old[t] = tail[s]
         /\ ~Committed(t) => head[s] = tail[s]

(* The head a thread has read is less than M - Capacity positions old, so  *)
(* the available count computed from it does not wrap.                     *)
LagBounded ==
  \A t \in Threads : Reading(t) => Sub(head[SideOf(t)], old[t]) + Capacity < M

(* The inductive invariant behind WindowOrder, ReservationsTile and        *)
(* RefusalJustified.                                                       *)
IndInv ==
  /\ TypeOK /\ WindowOrder /\ ReservationsTile
  /\ DecisionCurrent /\ SingleUndisturbed /\ LagBounded

(* A call returns 0 because it read a stale head only if it would have     *)
(* returned 0 on the true indexes too: a FIXED call is refused only when   *)
(* the ring, at the load of the opposite tail, has no room (no entries)    *)
(* for it, a VARIABLE one only when it has none at all.                    *)
RefusalJustified ==
  [][\A t \in Threads :
       pc[t] = "tail" /\ pc'[t] = "idle" /\ max[t] > 0 =>
         TrulyAvailable(SideOf(t)) < IF behavior[t] = "FIXED" THEN max[t] ELSE 1
    ]_vars

(* An operation that has moved a head moves the tail and returns: no       *)
(* thread spins in update_tail for ever, because those before it finish.   *)
CommittedCompletes ==
  \A t \in Threads : Committed(t) ~> pc[t] = "idle"

(* Lock freedom of the head loops: as long as calls are pending, calls     *)
(* return, since a compare-and-set fails only because another one          *)
(* succeeded. A single-producer or single-consumer call never retries:     *)
(* each one returns.                                                       *)
CallsReturn ==
  /\ \/ []<>(\A t \in Threads : pc[t] = "idle")
     \/ []<><<\E t \in Threads : pc[t] # "idle" /\ pc'[t] = "idle">>_vars
  /\ \A t \in Threads : Single[SideOf(t)] => (pc[t] # "idle" ~> pc[t] = "idle")
=============================================================================
