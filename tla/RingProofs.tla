----------------------------- MODULE RingProofs -----------------------------
(***************************************************************************)
(* Proofs about Ring, for any number of threads, any size, any capacity    *)
(* below it and any index width; and what callers rely on, from its        *)
(* invariant: the count that rte_ring_count returns, and the queue of      *)
(* RingFifo that the ring implements.                                      *)
(***************************************************************************)
EXTENDS Ring, RingCount, RingImplementsFifo, FiniteSetTheorems, SequenceTheorems, TLAPS

(* What the proofs use of RingAssumption.                                  *)
LEMMA Bounds ==
  /\ Size \in Nat /\ Capacity \in Nat /\ M \in Nat
  /\ 0 < Capacity /\ Capacity < Size /\ 2 * Size <= M
  /\ 0 \in Idx
BY RingAssumption DEF Idx

LEMMA ThreadSets ==
  /\ Producers \subseteq Threads /\ Consumers \subseteq Threads
  /\ \A t \in Threads : t \notin Producers => t \in Consumers
  /\ Producers \cap Consumers = {}
BY RingAssumption DEF Threads

-----------------------------------------------------------------------------
(* Arithmetic of the indexes.                                              *)

(* The difference of two indexes is an index; it is zero for equal ones    *)
(* only.                                                                   *)
LEMMA SubType ==
  ASSUME NEW a \in Idx, NEW b \in Idx
  PROVE  /\ Sub(a, b) \in Idx
         /\ Sub(a, b) \in Int /\ 0 <= Sub(a, b) /\ Sub(a, b) < M
         /\ Sub(a, a) = 0
         /\ Sub(a, b) = 0 => a = b
BY Bounds DEF Idx, Sub

(* Moving an index forward.                                                *)
LEMMA AddType ==
  ASSUME NEW a \in Idx, NEW k \in Nat, k < M
  PROVE  Add(a, k) \in Idx
BY Bounds DEF Idx, Add

(* Moving the front of a zone forward makes the zone longer ...            *)
LEMMA FrontMoves ==
  ASSUME NEW a \in Idx, NEW b \in Idx, NEW k \in Nat, Sub(a, b) + k < M
  PROVE  Sub(Add(a, k), b) = Sub(a, b) + k
BY Bounds DEF Idx, Add, Sub

(* ... and moving its back forward makes it shorter.                       *)
LEMMA BackMoves ==
  ASSUME NEW a \in Idx, NEW b \in Idx, NEW k \in Nat, k <= Sub(a, b)
  PROVE  Sub(a, Add(b, k)) = Sub(a, b) - k
BY Bounds DEF Idx, Add, Sub

(* free_entries, for a thread whose old_head is the head.                  *)
LEMMA FreeEntries ==
  ASSUME NEW ph \in Idx, NEW pt \in Idx, NEW ch \in Idx, NEW ct \in Idx,
         Sub(ph, pt) + Sub(pt, ch) + Sub(ch, ct) <= Capacity
  PROVE  Sub(Add(Capacity, ct), ph) =
           Capacity - Sub(ph, pt) - Sub(pt, ch) - Sub(ch, ct)
BY Bounds DEF Idx, Add, Sub

(* The same for a thread whose old_head is behind the head.                *)
LEMMA StaleFreeEntries ==
  ASSUME NEW ph \in Idx, NEW pt \in Idx, NEW ch \in Idx, NEW ct \in Idx, NEW o \in Idx,
         Sub(ph, pt) + Sub(pt, ch) + Sub(ch, ct) <= Capacity,
         Sub(ph, o) + Capacity < M
  PROVE  Capacity - Sub(ph, pt) - Sub(pt, ch) - Sub(ch, ct) <= Sub(Add(Capacity, ct), o)
BY Bounds DEF Idx, Add, Sub

LEMMA StaleEntries ==
  ASSUME NEW pt \in Idx, NEW ch \in Idx, NEW o \in Idx,
         Sub(pt, ch) <= Capacity, Sub(ch, o) + Capacity < M
  PROVE  Sub(pt, ch) <= Sub(pt, o)
BY Bounds DEF Idx, Sub

(* Every index has a slot of the table.                                    *)
LEMMA SlotType ==
  ASSUME NEW a \in Idx, NEW k \in Nat
  PROVE  Slot(Add(a, k)) \in 0 .. Size - 1
<1>1. Add(a, k) \in Int
  BY Bounds DEF Idx, Add
<1> QED BY <1>1, Bounds DEF Slot

(* A consumer starts with no room.                                         *)
LEMMA NoEntryRoom ==
  ASSUME NEW a \in Idx
  PROVE  Add(0, a) = a
BY Bounds DEF Idx, Add

-----------------------------------------------------------------------------
LEMMA Sides ==
  /\ \A t : SideOf(t) \in Side
  /\ \A s \in Side : Other(s) \in Side
  /\ Side = {"prod", "cons"}
BY DEF Side, SideOf, Other

(* A granted count is at most what was asked for and at most what there is.*)
LEMMA GrantedType ==
  ASSUME TypeOK, NEW t \in Threads, NEW free \in Idx
  PROVE  /\ Granted(t, free) \in Nat
         /\ Granted(t, free) <= max[t] /\ Granted(t, free) <= free
BY Bounds DEF TypeOK, Types, Granted, Idx

LEMMA AvailableType ==
  ASSUME TypeOK, NEW s \in Side, NEW a \in Idx
  PROVE  Available(s, a) \in Idx
<1>1. tail[Other(s)] \in Idx
  BY Sides DEF TypeOK, Types
<1>2. Room(s) \in Idx /\ tail[Other(s)] \in Nat /\ tail[Other(s)] < M
  BY <1>1, Bounds DEF Room, Idx
<1>3. Add(Room(s), tail[Other(s)]) \in Idx
  BY <1>2, AddType
<1> QED BY <1>3, SubType DEF Available

(* A table of the right length is a sequence of that length.               *)
LEMMA TableLength ==
  ASSUME NEW k \in Nat, NEW objs \in [1 .. k -> Objs]
  PROVE  Len(objs) = k /\ objs \in Seq(Objs \cup {NoObj})
<1>1. objs \in Seq(Objs)
  OBVIOUS
<1>2. DOMAIN objs = 1 .. k /\ DOMAIN objs = 1 .. Len(objs) /\ Len(objs) \in Nat
  BY <1>1
<1> QED BY <1>1, <1>2

-----------------------------------------------------------------------------
(* Every step keeps the types.                                             *)
LEMMA TypeStep ==
  ASSUME TypeOK, [Next]_vars
  PROVE  TypeOK'
<1> USE DEF Committed
<1>1. ASSUME NEW p \in Producers, NEW objs \in Tables, NEW b \in Behaviors,
             CallEnqueue(p, objs, b)
      PROVE  TypeOK'
  <2>1. PICK k \in Bursts : objs \in [1 .. k -> Objs]
    BY DEF Tables
  <2>2. k \in Nat /\ Len(objs) = k /\ objs \in Seq(Objs \cup {NoObj})
    BY <2>1, TableLength, RingAssumption
  <2>3. b \in {"FIXED", "VARIABLE"} /\ p \in Threads
    BY RingAssumption DEF Threads
  <2>4. Types'
    BY <1>1, <2>2, <2>3 DEF TypeOK, Types, CallEnqueue
  <2>5. TablesFit'
    BY <1>1, <2>1, <2>2, <2>3, ThreadSets DEF TypeOK, Types, TablesFit, CallEnqueue
  <2>6. CountsFit'
    BY <1>1, <2>2, <2>3 DEF TypeOK, Types, CountsFit, CallEnqueue
  <2> QED BY <2>4, <2>5, <2>6 DEF TypeOK
<1>2. ASSUME NEW c \in Consumers, NEW k \in Bursts, NEW b \in Behaviors,
             CallDequeue(c, k, b)
      PROVE  TypeOK'
  <2>1. k \in Nat /\ b \in {"FIXED", "VARIABLE"} /\ c \in Threads /\ c \notin Producers
    BY RingAssumption DEF Threads
  <2>2. Types'
    BY <1>2, <2>1 DEF TypeOK, Types, CallDequeue
  <2>3. TablesFit'
    BY <1>2, <2>1, ThreadSets DEF TypeOK, Types, TablesFit, CallDequeue
  <2>4. CountsFit'
    BY <1>2, <2>1 DEF TypeOK, Types, CountsFit, CallDequeue
  <2> QED BY <2>2, <2>3, <2>4 DEF TypeOK
<1>3. ASSUME NEW t \in Threads, LoadHead(t)
      PROVE  TypeOK'
  <2>1. Types'
    BY <1>3, Sides DEF TypeOK, Types, LoadHead
  <2>2. TablesFit'
    BY <1>3 DEF TypeOK, TablesFit, LoadHead
  <2>3. CountsFit'
    BY <1>3 DEF TypeOK, Types, CountsFit, LoadHead
  <2> QED BY <2>1, <2>2, <2>3 DEF TypeOK
(* The end of a call, from the decision or from update_tail.               *)
<1>4. ASSUME NEW t \in Threads, Return(t), ring' = ring,
             head' \in [Side -> Idx], tail' \in [Side -> Idx]
      PROVE  TypeOK'
  <2>1. Types'
    <3>1. <<>> \in Seq(Objs \cup {NoObj})
      OBVIOUS
    <3>2. table' \in [Threads -> Seq(Objs \cup {NoObj})]
      BY <1>4, <3>1 DEF TypeOK, Types, Return
    <3> QED BY <1>4, <3>2, Bounds DEF TypeOK, Types, Return
  <2>2. TablesFit'
    <3> SUFFICES ASSUME NEW p \in Producers PROVE (table[p] \in [1 .. max[p] -> Objs])'
      BY DEF TablesFit
    <3>1. CASE p = t
      <4>1. table'[p] = <<>> /\ max'[p] = 0
        BY <1>4, <3>1, ThreadSets DEF TypeOK, Types, Return
      <4> QED BY <4>1
    <3>2. CASE p # t
      BY <1>4, <3>2, ThreadSets DEF TypeOK, Types, TablesFit, Return
    <3> QED BY <3>1, <3>2
  <2>3. CountsFit'
    BY <1>4 DEF TypeOK, Types, CountsFit, Return
  <2> QED BY <2>1, <2>2, <2>3 DEF TypeOK
<1>5. ASSUME NEW t \in Threads, LoadTail(t)
      PROVE  TypeOK'
  <2> DEFINE free == Available(SideOf(t), old[t])
             k == Granted(t, free)
  <2>1. free \in Idx
    BY AvailableType, Sides DEF TypeOK, Types
  <2>2. k \in Nat /\ k <= max[t] /\ k <= free
    BY <2>1, GrantedType
  <2>3. CASE k = 0
    <3>1. Return(t) /\ UNCHANGED <<head, tail, ring>>
      BY <1>5, <2>3 DEF LoadTail
    <3> QED BY <3>1, <1>4 DEF TypeOK, Types
  <2>4. CASE k # 0
    <3> HIDE DEF free, k
    <3>1. /\ pc' = [pc EXCEPT ![t] = "cas"]
          /\ n' = [n EXCEPT ![t] = k]
          /\ avail' = [avail EXCEPT ![t] = free]
          /\ UNCHANGED <<behavior, max, table, old, i, head, tail, ring>>
          /\ pc[t] = "tail"
      BY <1>5, <2>4 DEF LoadTail, free, k
    <3>2. Types'
      BY <3>1, <2>1, <2>2 DEF TypeOK, Types
    <3>3. TablesFit'
      BY <3>1 DEF TypeOK, TablesFit
    <3>4. CountsFit'
      BY <3>1, <2>1, <2>2, <2>4 DEF TypeOK, Types, CountsFit
    <3> QED BY <3>2, <3>3, <3>4 DEF TypeOK
  <2> QED BY <2>3, <2>4
<1>6. ASSUME NEW t \in Threads, pc[t] = "cas" \/ Committed(t)
      PROVE  Add(old[t], n[t]) \in Idx
  <2>1. n[t] \in Nat /\ avail[t] \in Idx /\ n[t] <= avail[t] /\ old[t] \in Idx
    BY <1>6 DEF TypeOK, Types, CountsFit
  <2>2. n[t] < M
    BY <2>1, Bounds DEF Idx
  <2> QED BY <2>1, <2>2, AddType
<1>7. ASSUME NEW t \in Threads, MoveHead(t)
      PROVE  TypeOK'
  <2>1. Add(old[t], n[t]) \in Idx /\ SideOf(t) \in Side
    BY <1>6, <1>7, Sides DEF MoveHead
  <2>2. Types'
    BY <1>7, <2>1 DEF TypeOK, Types, MoveHead, locals
  <2>3. TablesFit'
    BY <1>7 DEF TypeOK, TablesFit, MoveHead, locals
  <2>4. CountsFit'
    BY <1>7 DEF TypeOK, Types, CountsFit, MoveHead, locals
  <2> QED BY <2>2, <2>3, <2>4 DEF TypeOK
<1>8. ASSUME NEW t \in Threads, RetryHead(t)
      PROVE  TypeOK'
  <2>1. Types'
    BY <1>8, Bounds DEF TypeOK, Types, RetryHead
  <2>2. TablesFit'
    BY <1>8 DEF TypeOK, TablesFit, RetryHead
  <2>3. CountsFit'
    BY <1>8 DEF TypeOK, Types, CountsFit, RetryHead
  <2> QED BY <2>1, <2>2, <2>3 DEF TypeOK
<1>9. ASSUME NEW t \in Threads, CopyPtr(t)
      PROVE  TypeOK'
  <2> DEFINE idx == Slot(Add(old[t], i[t]))
  <2>1. /\ i[t] \in Nat /\ n[t] \in Nat /\ max[t] \in Nat
        /\ i[t] < n[t] /\ n[t] <= max[t] /\ pc[t] = "copy"
    BY <1>9 DEF TypeOK, Types, CountsFit, CopyPtr
  <2>2. idx \in 0 .. Size - 1
    BY <2>1, Bounds, SlotType DEF TypeOK, Types
  <2>3. /\ i' = [i EXCEPT ![t] = @ + 1]
        /\ pc' = [pc EXCEPT ![t] = IF i[t] + 1 = n[t] THEN "update" ELSE "copy"]
        /\ UNCHANGED <<head, tail, behavior, max, old, n, avail>>
    BY <1>9 DEF CopyPtr
  <2>4. CountsFit'
    BY <2>1, <2>3 DEF TypeOK, Types, CountsFit
  <2>5. CASE t \in Producers
    <3>1. ring' = [ring EXCEPT ![idx] = table[t][i[t] + 1]] /\ UNCHANGED table
      BY <1>9, <2>5, ThreadSets DEF CopyPtr
    <3>2. table[t][i[t] + 1] \in Objs
      <4>1. table[t] \in [1 .. max[t] -> Objs]
        BY <2>5 DEF TypeOK, TablesFit
      <4>2. i[t] + 1 \in 1 .. max[t]
        BY <2>1
      <4> QED BY <4>1, <4>2
    <3> HIDE DEF idx
    <3>3. Types'
      BY <2>1, <2>2, <2>3, <3>1, <3>2 DEF TypeOK, Types
    <3>4. TablesFit'
      BY <2>3, <3>1 DEF TypeOK, TablesFit
    <3> QED BY <2>4, <3>3, <3>4 DEF TypeOK
  <2>6. CASE t \notin Producers
    <3>1. table' = [table EXCEPT ![t] = Append(@, ring[idx])] /\ UNCHANGED ring
      BY <1>9, <2>6 DEF CopyPtr
    <3> HIDE DEF idx
    <3>2. Append(table[t], ring[idx]) \in Seq(Objs \cup {NoObj})
      <4>1. ring[idx] \in Objs \cup {NoObj} /\ table[t] \in Seq(Objs \cup {NoObj})
        BY <2>2 DEF TypeOK, Types
      <4> QED BY <4>1
    <3>3. Types'
      BY <2>1, <2>3, <3>1, <3>2 DEF TypeOK, Types
    <3>4. TablesFit'
      BY <2>3, <2>6, <3>1, ThreadSets DEF TypeOK, Types, TablesFit
    <3> QED BY <2>4, <3>3, <3>4 DEF TypeOK
  <2> QED BY <2>5, <2>6
<1>10. ASSUME NEW t \in Threads, UpdateTail(t)
       PROVE  TypeOK'
  <2>1. Add(old[t], n[t]) \in Idx /\ SideOf(t) \in Side
    BY <1>6, <1>10, Sides DEF UpdateTail
  <2>2. /\ Return(t) /\ ring' = ring
        /\ head' \in [Side -> Idx] /\ tail' \in [Side -> Idx]
    BY <1>10, <2>1 DEF TypeOK, Types, UpdateTail
  <2> QED BY <2>2, <1>4
<1>11. CASE UNCHANGED vars
  BY <1>11 DEF TypeOK, Types, TablesFit, CountsFit, vars
<1> QED BY <1>1, <1>2, <1>3, <1>5, <1>7, <1>8, <1>9, <1>10, <1>11 DEF Next, Step

-----------------------------------------------------------------------------
(* The numbers the invariant is about.                                     *)
LEMMA Distances ==
  ASSUME TypeOK
  PROVE  /\ BeingWritten \in Nat /\ BeingWritten < M
         /\ Queued \in Nat /\ Queued < M
         /\ BeingRead \in Nat /\ BeingRead < M
         /\ Zone("prod") = BeingWritten /\ Zone("cons") = BeingRead
         /\ \A s \in Side : Zone(s) \in Nat /\ Zone(s) < M
         /\ \A t \in Threads : Offset(t) \in Nat /\ Offset(t) < M
<1>1. /\ \A s \in Side : head[s] \in Idx /\ tail[s] \in Idx
      /\ \A t \in Threads : old[t] \in Idx /\ SideOf(t) \in Side
      /\ "prod" \in Side /\ "cons" \in Side
  BY Sides DEF TypeOK, Types
<1>2. \A a, b \in Idx : Sub(a, b) \in Nat /\ Sub(a, b) < M
  BY SubType
<1> QED BY <1>1, <1>2 DEF BeingWritten, Queued, BeingRead, Zone, Offset

(* A thread's count, past the decision.                                    *)
LEMMA CountType ==
  ASSUME TypeOK, NEW t \in Threads, pc[t] = "cas" \/ Committed(t)
  PROVE  n[t] \in Nat /\ 0 < n[t] /\ n[t] < M
<1>1. n[t] \in Nat /\ max[t] \in Nat /\ avail[t] \in Idx /\ n[t] <= avail[t] /\ n[t] \in 1 .. max[t]
  BY DEF TypeOK, Types, CountsFit
<1> QED BY <1>1, Bounds DEF Idx

(* What moving a head does to the three zones.                             *)
LEMMA HeadMoved ==
  ASSUME IndInv, NEW t \in Threads, MoveHead(t)
  PROVE  /\ old[t] = head[SideOf(t)] /\ n[t] <= TrulyAvailable(SideOf(t))
         /\ SideOf(t) = "prod" =>
              /\ BeingWritten' = BeingWritten + n[t]
              /\ Queued' = Queued /\ BeingRead' = BeingRead
         /\ SideOf(t) = "cons" =>
              /\ Queued' = Queued - n[t] /\ BeingRead' = BeingRead + n[t]
              /\ BeingWritten' = BeingWritten
         /\ Zone(SideOf(t))' = Zone(SideOf(t)) + n[t]
<1> DEFINE s == SideOf(t)
<1>1. s \in Side /\ (s = "prod" \/ s = "cons")
  BY Sides
<1>2. old[t] = head[s]
  BY DEF MoveHead, HeadUnmoved, IndInv, SingleUndisturbed, Reading
<1>3. n[t] <= TrulyAvailable(s) /\ n[t] \in Nat /\ n[t] < M /\ 0 < n[t]
  BY <1>2, CountType DEF IndInv, DecisionCurrent, MoveHead
<1>4. /\ head["prod"] \in Idx /\ head["cons"] \in Idx
      /\ tail["prod"] \in Idx /\ tail["cons"] \in Idx
  BY Sides DEF IndInv, TypeOK, Types
<1>5. head' = [head EXCEPT ![s] = Add(head[s], n[t])] /\ tail' = tail
  BY <1>2 DEF MoveHead
<1>6. CASE s = "prod"
  <2>1. /\ head'["prod"] = Add(head["prod"], n[t]) /\ head'["cons"] = head["cons"]
        /\ tail'["prod"] = tail["prod"] /\ tail'["cons"] = tail["cons"]
    BY <1>5, <1>6, <1>1 DEF IndInv, TypeOK, Types, Side
  <2>2. Sub(head["prod"], tail["prod"]) + n[t] < M
    BY <1>3, <1>6, Distances, Bounds DEF IndInv, TrulyAvailable, BeingWritten
  <2>3. BeingWritten' = BeingWritten + n[t]
    BY <2>1, <2>2, <1>3, <1>4, FrontMoves DEF BeingWritten
  <2>4. Queued' = Queued /\ BeingRead' = BeingRead
    BY <2>1 DEF Queued, BeingRead
  <2>5. Zone(s)' = Zone(s) + n[t]
    BY <2>3, <1>6 DEF Zone, BeingWritten
  <2> QED BY <1>2, <1>3, <1>6, <2>3, <2>4, <2>5
<1>7. CASE s = "cons"
  <2>1. /\ head'["cons"] = Add(head["cons"], n[t]) /\ head'["prod"] = head["prod"]
        /\ tail'["prod"] = tail["prod"] /\ tail'["cons"] = tail["cons"]
    BY <1>5, <1>7, <1>1 DEF IndInv, TypeOK, Types, Side
  <2>2. n[t] <= Sub(tail["prod"], head["cons"])
    BY <1>3, <1>7 DEF TrulyAvailable, Queued
  <2>3. Queued' = Queued - n[t]
    BY <2>1, <2>2, <1>3, <1>4, BackMoves DEF Queued
  <2>4. Sub(head["cons"], tail["cons"]) + n[t] < M
    BY <2>2, <1>3, Distances, Bounds DEF IndInv, WindowOrder, Queued, BeingRead
  <2>5. BeingRead' = BeingRead + n[t]
    BY <2>1, <2>4, <1>3, <1>4, FrontMoves DEF BeingRead
  <2>6. BeingWritten' = BeingWritten
    BY <2>1 DEF BeingWritten
  <2>7. Zone(s)' = Zone(s) + n[t]
    BY <2>5, <1>7 DEF Zone, BeingRead
  <2> QED BY <1>2, <1>3, <1>7, <2>3, <2>5, <2>6, <2>7
<1> QED BY <1>1, <1>6, <1>7

(* What moving a tail does to them.                                        *)
LEMMA TailMoved ==
  ASSUME IndInv, NEW t \in Threads, UpdateTail(t)
  PROVE  /\ old[t] = tail[SideOf(t)] /\ Offset(t) = 0 /\ n[t] <= Zone(SideOf(t))
         /\ SideOf(t) = "prod" =>
              /\ BeingWritten' = BeingWritten - n[t] /\ Queued' = Queued + n[t]
              /\ BeingRead' = BeingRead
         /\ SideOf(t) = "cons" =>
              /\ BeingRead' = BeingRead - n[t]
              /\ BeingWritten' = BeingWritten /\ Queued' = Queued
         /\ Zone(SideOf(t))' = Zone(SideOf(t)) - n[t]
<1> DEFINE s == SideOf(t)
<1>1. s \in Side /\ (s = "prod" \/ s = "cons")
  BY Sides
<1>2. old[t] = tail[s]
  BY DEF UpdateTail, TailReached, IndInv, SingleUndisturbed, Committed
<1>3. n[t] \in Nat /\ n[t] < M /\ 0 < n[t]
  BY CountType DEF IndInv, UpdateTail, Committed
<1>4. /\ head["prod"] \in Idx /\ head["cons"] \in Idx
      /\ tail["prod"] \in Idx /\ tail["cons"] \in Idx
  BY Sides DEF IndInv, TypeOK, Types
<1>5. tail' = [tail EXCEPT ![s] = Add(tail[s], n[t])] /\ head' = head
  BY <1>2 DEF UpdateTail
<1>6. Offset(t) = 0
  BY <1>1, <1>2, SubType DEF Offset, IndInv, TypeOK, Types
<1>7. n[t] <= Zone(s)
  <2>1. Offset(t) + n[t] <= Zone(s)
    BY DEF IndInv, ReservationsTile, UpdateTail, Committed
  <2> QED BY <2>1, <1>3, <1>6
<1>8. CASE s = "prod"
  <2>1. /\ tail'["prod"] = Add(tail["prod"], n[t]) /\ tail'["cons"] = tail["cons"]
        /\ head'["prod"] = head["prod"] /\ head'["cons"] = head["cons"]
    BY <1>5, <1>8, <1>1 DEF IndInv, TypeOK, Types, Side
  <2>2. n[t] <= Sub(head["prod"], tail["prod"])
    BY <1>7, <1>8 DEF Zone
  <2>3. BeingWritten' = BeingWritten - n[t]
    BY <2>1, <2>2, <1>3, <1>4, BackMoves DEF BeingWritten
  <2>4. Sub(tail["prod"], head["cons"]) + n[t] < M
    BY <2>2, <1>3, Distances, Bounds DEF IndInv, WindowOrder, Queued, BeingWritten
  <2>5. Queued' = Queued + n[t]
    BY <2>1, <2>4, <1>3, <1>4, FrontMoves DEF Queued
  <2>6. BeingRead' = BeingRead
    BY <2>1 DEF BeingRead
  <2>7. Zone(s)' = Zone(s) - n[t]
    BY <2>3, <1>8 DEF Zone, BeingWritten
  <2> QED BY <1>2, <1>6, <1>7, <1>8, <2>3, <2>5, <2>6, <2>7
<1>9. CASE s = "cons"
  <2>1. /\ tail'["cons"] = Add(tail["cons"], n[t]) /\ tail'["prod"] = tail["prod"]
        /\ head'["prod"] = head["prod"] /\ head'["cons"] = head["cons"]
    BY <1>5, <1>9, <1>1 DEF IndInv, TypeOK, Types, Side
  <2>2. n[t] <= Sub(head["cons"], tail["cons"])
    BY <1>7, <1>9 DEF Zone
  <2>3. BeingRead' = BeingRead - n[t]
    BY <2>1, <2>2, <1>3, <1>4, BackMoves DEF BeingRead
  <2>4. BeingWritten' = BeingWritten /\ Queued' = Queued
    BY <2>1 DEF BeingWritten, Queued
  <2>5. Zone(s)' = Zone(s) - n[t]
    BY <2>3, <1>9 DEF Zone, BeingRead
  <2> QED BY <1>2, <1>6, <1>7, <1>9, <2>3, <2>4, <2>5
<1> QED BY <1>1, <1>8, <1>9

-----------------------------------------------------------------------------
(* The steps that move neither a head nor a tail keep every reservation,   *)
(* and make a decision only from the current head.                         *)
QuietFor(t) ==
  /\ Committed(t)' <=> Committed(t)
  /\ Committed(t) => old'[t] = old[t] /\ n'[t] = n[t]
  /\ Reading(t)' => \/ Reading(t) /\ old'[t] = old[t]
                    \/ old'[t] = head[SideOf(t)]
  /\ pc'[t] = "cas" => /\ old'[t] = old[t]
                       /\ \/ pc[t] = "cas" /\ n'[t] = n[t]
                          \/ n'[t] <= Available(SideOf(t), old[t])

LEMMA QuietStep ==
  ASSUME TypeOK, [Next]_vars,
         ~ \E t \in Threads : MoveHead(t) \/ UpdateTail(t)
  PROVE  head' = head /\ tail' = tail /\ \A u \in Threads : QuietFor(u)
<1> USE DEF QuietFor, Committed, Reading, TypeOK, Types
<1>1. ASSUME NEW p \in Producers, NEW objs \in Tables, NEW b \in Behaviors,
             CallEnqueue(p, objs, b)
      PROVE  head' = head /\ tail' = tail /\ \A u \in Threads : QuietFor(u)
  BY <1>1, ThreadSets DEF CallEnqueue
<1>2. ASSUME NEW c \in Consumers, NEW k \in Bursts, NEW b \in Behaviors,
             CallDequeue(c, k, b)
      PROVE  head' = head /\ tail' = tail /\ \A u \in Threads : QuietFor(u)
  BY <1>2, ThreadSets DEF CallDequeue
<1>3. ASSUME NEW t \in Threads, LoadHead(t)
      PROVE  head' = head /\ tail' = tail /\ \A u \in Threads : QuietFor(u)
  BY <1>3 DEF LoadHead
<1>4. ASSUME NEW t \in Threads, LoadTail(t)
      PROVE  head' = head /\ tail' = tail /\ \A u \in Threads : QuietFor(u)
  <2> DEFINE free == Available(SideOf(t), old[t])
             k == Granted(t, free)
  <2>1. free \in Idx
    BY AvailableType, Sides
  <2>2. k <= free
    BY <2>1, GrantedType
  <2>3. pc[t] = "tail" /\ UNCHANGED <<head, tail>>
    BY <1>4 DEF LoadTail
  <2>4. CASE k = 0
    <3>1. Return(t)
      BY <1>4, <2>4 DEF LoadTail
    <3> QED BY <2>3, <3>1 DEF Return
  <2>5. CASE k # 0
    <3> HIDE DEF free, k
    <3>1. /\ pc' = [pc EXCEPT ![t] = "cas"] /\ n' = [n EXCEPT ![t] = k]
          /\ UNCHANGED old
      BY <1>4, <2>5 DEF LoadTail, free, k
    <3> QED BY <2>2, <2>3, <3>1 DEF free
  <2> QED BY <2>4, <2>5
<1>5. ASSUME NEW t \in Threads, RetryHead(t)
      PROVE  head' = head /\ tail' = tail /\ \A u \in Threads : QuietFor(u)
  BY <1>5 DEF RetryHead
<1>6. ASSUME NEW t \in Threads, CopyPtr(t)
      PROVE  head' = head /\ tail' = tail /\ \A u \in Threads : QuietFor(u)
  BY <1>6 DEF CopyPtr
<1>7. CASE UNCHANGED vars
  BY <1>7 DEF vars
<1> QED BY <1>1, <1>2, <1>3, <1>4, <1>5, <1>6, <1>7 DEF Next, Step

(* A head moves past every head read earlier, and a tail leaves the other  *)
(* threads' reservations in place.                                         *)
LEMMA OthersAtMoveHead ==
  ASSUME IndInv, NEW t \in Threads, MoveHead(t)
  PROVE  /\ tail' = tail /\ old' = old /\ n' = n
         /\ pc'[t] = "copy" /\ \A u \in Threads \ {t} : pc'[u] = pc[u]
         /\ Offset(t) = Zone(SideOf(t))
         /\ \A u \in Threads : SideOf(u) # SideOf(t) => head'[SideOf(u)] = head[SideOf(u)]
         /\ \A u \in Threads \ {t} :
              SideOf(u) = SideOf(t) /\ Reading(u) => head'[SideOf(t)] # old[u]
<1>1. /\ tail' = tail /\ old' = old /\ n' = n
      /\ pc'[t] = "copy" /\ \A u \in Threads \ {t} : pc'[u] = pc[u]
      /\ \A u \in Threads : SideOf(u) # SideOf(t) => head'[SideOf(u)] = head[SideOf(u)]
  BY Sides DEF MoveHead, locals, IndInv, TypeOK, Types
<1>2. old[t] = head[SideOf(t)]
  BY HeadMoved
<1>3. Offset(t) = Zone(SideOf(t))
  BY <1>2 DEF Offset, Zone
<1>4. ASSUME NEW u \in Threads \ {t}, SideOf(u) = SideOf(t), Reading(u)
      PROVE  head'[SideOf(t)] # old[u]
  <2> DEFINE h == head[SideOf(t)]
  <2>1. h \in Idx /\ old[u] \in Idx
    BY Sides DEF IndInv, TypeOK, Types
  <2>2. n[t] \in Nat /\ 0 < n[t]
    BY CountType DEF IndInv, MoveHead
  <2>3. Sub(h, old[u]) + n[t] + Capacity < M
    BY <1>4 DEF MoveHead, NoLap, OnSide
  <2>4. head'[SideOf(t)] = Add(h, n[t])
    BY <1>2, Sides DEF MoveHead, IndInv, TypeOK, Types
  <2> HIDE DEF h
  <2>5. Sub(h, old[u]) \in Nat
    BY <2>1, SubType
  <2>6. Sub(Add(h, n[t]), old[u]) = Sub(h, old[u]) + n[t]
    BY <2>1, <2>2, <2>3, <2>5, FrontMoves, Bounds
  <2>7. Sub(old[u], old[u]) = 0
    BY <2>1, SubType
  <2> QED BY <2>2, <2>4, <2>5, <2>6, <2>7
<1> QED BY <1>1, <1>3, <1>4

LEMMA OthersAtUpdateTail ==
  ASSUME IndInv, NEW t \in Threads, UpdateTail(t)
  PROVE  /\ head' = head /\ pc'[t] = "idle"
         /\ \A u \in Threads \ {t} : pc'[u] = pc[u] /\ old'[u] = old[u] /\ n'[u] = n[u]
         /\ \A u \in Threads : SideOf(u) # SideOf(t) => tail'[SideOf(u)] = tail[SideOf(u)]
         /\ \A u \in Threads \ {t} :
              Committed(u) => IF SideOf(u) = SideOf(t)
                                THEN Offset(u)' = Offset(u) - n[t]
                                ELSE Offset(u)' = Offset(u)
<1>1. /\ head' = head /\ pc'[t] = "idle"
      /\ \A u \in Threads \ {t} : pc'[u] = pc[u] /\ old'[u] = old[u] /\ n'[u] = n[u]
      /\ \A u \in Threads : SideOf(u) # SideOf(t) => tail'[SideOf(u)] = tail[SideOf(u)]
  BY Sides DEF UpdateTail, Return, IndInv, TypeOK, Types
<1>2. ASSUME NEW u \in Threads \ {t}, Committed(u), SideOf(u) = SideOf(t)
      PROVE  Offset(u)' = Offset(u) - n[t]
  <2> DEFINE s == SideOf(t)
  <2>1. tail'[s] = Add(tail[s], n[t]) /\ tail[s] \in Idx /\ old[u] \in Idx
    BY TailMoved, Sides DEF UpdateTail, IndInv, TypeOK, Types
  <2>2. n[t] \in Nat /\ n[u] \in Nat /\ 0 < n[u] /\ Offset(u) \in Nat
    BY <1>2, CountType, Distances DEF IndInv, UpdateTail, Committed
  <2>3. Offset(t) + n[t] <= Offset(u) \/ Offset(u) + n[u] <= Offset(t)
    BY <1>2 DEF IndInv, ReservationsTile, UpdateTail, Committed
  <2>4. n[t] <= Offset(u)
    BY <2>2, <2>3, TailMoved
  <2>5. Sub(old[u], Add(tail[s], n[t])) = Sub(old[u], tail[s]) - n[t]
    BY <2>1, <2>2, <2>4, <1>2, BackMoves DEF Offset
  <2> QED BY <1>1, <1>2, <2>1, <2>5 DEF Offset
<1>3. ASSUME NEW u \in Threads \ {t}, SideOf(u) # SideOf(t)
      PROVE  Offset(u)' = Offset(u)
  BY <1>1, <1>3 DEF Offset
<1> QED BY <1>1, <1>2, <1>3

-----------------------------------------------------------------------------
(* Each part of the invariant is kept.                                     *)
LEMMA WindowStep ==
  ASSUME IndInv, [Next]_vars
  PROVE  WindowOrder'
<1>1. ASSUME NEW t \in Threads, MoveHead(t)
      PROVE  WindowOrder'
  <2>1. n[t] \in Nat
    BY <1>1, CountType DEF IndInv, MoveHead
  <2> QED BY <1>1, <2>1, HeadMoved, Distances, Sides, Bounds
          DEF IndInv, WindowOrder, TrulyAvailable, Side
<1>2. ASSUME NEW t \in Threads, UpdateTail(t)
      PROVE  WindowOrder'
  <2>1. n[t] \in Nat
    BY <1>2, CountType DEF IndInv, UpdateTail, Committed
  <2> QED BY <1>2, <2>1, TailMoved, Distances, Sides, Bounds
          DEF IndInv, WindowOrder, Side
<1>3. CASE ~ \E t \in Threads : MoveHead(t) \/ UpdateTail(t)
  <2>1. head' = head /\ tail' = tail
    BY <1>3, QuietStep DEF IndInv
  <2> QED BY <2>1 DEF IndInv, WindowOrder, BeingWritten, Queued, BeingRead
<1> QED BY <1>1, <1>2, <1>3

LEMMA TileStep ==
  ASSUME IndInv, [Next]_vars
  PROVE  ReservationsTile'
<1>1. ASSUME NEW t \in Threads, MoveHead(t)
      PROVE  ReservationsTile'
  <2> DEFINE s == SideOf(t)
  <2>0. /\ s \in Side /\ \A u \in Threads : SideOf(u) \in Side
        /\ \A u \in Threads : Offset(u) \in Nat
        /\ \A r \in Side : Zone(r) \in Nat
        /\ n[t] \in Nat /\ 0 < n[t]
        /\ \A u \in Threads : Committed(u) => n[u] \in Nat /\ 0 < n[u]
    BY <1>1, Sides, Distances, CountType DEF IndInv, MoveHead
  <2>1. /\ n' = n /\ Offset(t) = Zone(s) /\ Zone(s)' = Zone(s) + n[t]
        /\ \A u \in Threads : Offset(u)' = Offset(u)
        /\ \A r \in Side : r # s => Zone(r)' = Zone(r)
    <3>1. \A u \in Threads : Offset(u)' = Offset(u)
      BY <1>1, OthersAtMoveHead DEF Offset
    <3>2. \A r \in Side : r # s => Zone(r)' = Zone(r)
      BY <1>1, <2>0 DEF Zone, MoveHead, IndInv, TypeOK, Types
    <3> QED BY <1>1, <3>1, <3>2, OthersAtMoveHead, HeadMoved
  <2>2. /\ Committed(t)' /\ ~Committed(t)
        /\ \A u \in Threads \ {t} : Committed(u)' <=> Committed(u)
    BY <1>1, OthersAtMoveHead DEF Committed, MoveHead
  <2> HIDE DEF s
  <2>3. ASSUME NEW u \in Threads, Committed(u)'
        PROVE  (Offset(u) + n[u] <= Zone(SideOf(u)))'
    <3>1. CASE u = t
      BY <3>1, <2>0, <2>1 DEF s
    <3>2. CASE u # t
      <4>1. Offset(u) + n[u] <= Zone(SideOf(u))
        BY <2>2, <2>3, <3>2 DEF IndInv, ReservationsTile
      <4>2. Zone(SideOf(u))' >= Zone(SideOf(u))
        BY <2>0, <2>1
      <4> QED BY <4>1, <4>2, <2>0, <2>1, <2>2, <2>3, <3>2
    <3> QED BY <3>1, <3>2
  <2>4. ASSUME NEW u \in Threads, NEW v \in Threads, u # v, SideOf(u) = SideOf(v),
               Committed(u)', Committed(v)'
        PROVE  (Offset(u) + n[u] <= Offset(v) \/ Offset(v) + n[v] <= Offset(u))'
    <3>1. CASE u = t
      <4>1. Offset(v) + n[v] <= Zone(s)
        BY <2>2, <2>4, <3>1 DEF IndInv, ReservationsTile, s
      <4> QED BY <4>1, <3>1, <2>1
    <3>2. CASE v = t
      <4>1. Offset(u) + n[u] <= Zone(s)
        BY <2>2, <2>4, <3>2 DEF IndInv, ReservationsTile, s
      <4> QED BY <4>1, <3>2, <2>1
    <3>3. CASE u # t /\ v # t
      BY <3>3, <2>1, <2>2, <2>4 DEF IndInv, ReservationsTile
    <3> QED BY <3>1, <3>2, <3>3
  <2>5. ASSUME NEW r \in Side, NEW k \in 0 .. Zone(r)' - 1
        PROVE  \E u \in OnSide(r) : Owns(u, k)'
    <3>1. CASE r = s /\ k >= Zone(s)
      <4>1. t \in OnSide(r)
        BY <3>1 DEF OnSide, s
      <4>2. Owns(t, k)'
        BY <3>1, <2>0, <2>1, <2>2, <2>5 DEF Owns
      <4> QED BY <4>1, <4>2
    <3>2. CASE ~(r = s /\ k >= Zone(s))
      <4>1. k \in 0 .. Zone(r) - 1
        BY <3>2, <2>0, <2>1, <2>5
      <4>2. PICK u \in OnSide(r) : Owns(u, k)
        BY <4>1 DEF IndInv, ReservationsTile
      <4>3. Owns(u, k)'
        BY <4>2, <2>1, <2>2 DEF Owns, OnSide
      <4> QED BY <4>3
    <3> QED BY <3>1, <3>2
  <2> QED BY <2>3, <2>4, <2>5 DEF ReservationsTile, OnSide
<1>2. ASSUME NEW t \in Threads, UpdateTail(t)
      PROVE  ReservationsTile'
  <2> DEFINE s == SideOf(t)
  <2>0. /\ s \in Side /\ \A u \in Threads : SideOf(u) \in Side
        /\ \A u \in Threads : Offset(u) \in Nat
        /\ \A r \in Side : Zone(r) \in Nat
        /\ n[t] \in Nat /\ 0 < n[t] /\ Committed(t)
        /\ \A u \in Threads : Committed(u) => n[u] \in Nat /\ 0 < n[u]
    BY <1>2, Sides, Distances, CountType DEF IndInv, UpdateTail, Committed
  <2>1. /\ Offset(t) = 0 /\ Zone(s)' = Zone(s) - n[t]
        /\ \A u \in Threads \ {t} : n'[u] = n[u]
        /\ \A u \in Threads \ {t} :
             Committed(u) => IF SideOf(u) = s THEN Offset(u)' = Offset(u) - n[t]
                             ELSE Offset(u)' = Offset(u)
    BY <1>2, TailMoved, OthersAtUpdateTail
  <2>2. \A r \in Side : r # s => Zone(r)' = Zone(r)
    BY <1>2, <2>0 DEF Zone, UpdateTail, IndInv, TypeOK, Types
  <2>3. /\ ~Committed(t)'
        /\ \A u \in Threads \ {t} : Committed(u)' <=> Committed(u)
    BY <1>2, OthersAtUpdateTail DEF Committed
  <2> HIDE DEF s
  <2>4. ASSUME NEW u \in Threads, Committed(u)'
        PROVE  (Offset(u) + n[u] <= Zone(SideOf(u)))'
    <3>1. u # t /\ Committed(u)
      BY <2>3, <2>4
    <3>2. Offset(u) + n[u] <= Zone(SideOf(u))
      BY <3>1 DEF IndInv, ReservationsTile
    <3> QED BY <3>1, <3>2, <2>0, <2>1, <2>2
  <2>5. ASSUME NEW u \in Threads, NEW v \in Threads, u # v, SideOf(u) = SideOf(v),
               Committed(u)', Committed(v)'
        PROVE  (Offset(u) + n[u] <= Offset(v) \/ Offset(v) + n[v] <= Offset(u))'
    <3>1. u # t /\ v # t /\ Committed(u) /\ Committed(v)
      BY <2>3, <2>5
    <3>2. Offset(u) + n[u] <= Offset(v) \/ Offset(v) + n[v] <= Offset(u)
      BY <3>1, <2>5 DEF IndInv, ReservationsTile
    <3> QED BY <3>1, <3>2, <2>0, <2>1, <2>5
  <2>6. ASSUME NEW r \in Side, NEW k \in 0 .. Zone(r)' - 1
        PROVE  \E u \in OnSide(r) : Owns(u, k)'
    <3>1. CASE r = s
      <4>1. k + n[t] \in 0 .. Zone(r) - 1
        BY <3>1, <2>0, <2>1, <2>6
      <4>2. PICK u \in OnSide(r) : Owns(u, k + n[t])
        BY <4>1 DEF IndInv, ReservationsTile
      <4>3. u # t /\ u \in Threads /\ SideOf(u) = s
        BY <4>2, <3>1, <2>0, <2>1, <2>6 DEF Owns, OnSide
      <4>4. Owns(u, k)'
        BY <4>2, <4>3, <2>0, <2>1, <2>3, <2>6 DEF Owns
      <4> QED BY <4>4
    <3>2. CASE r # s
      <4>1. k \in 0 .. Zone(r) - 1
        BY <3>2, <2>2, <2>6
      <4>2. PICK u \in OnSide(r) : Owns(u, k)
        BY <4>1 DEF IndInv, ReservationsTile
      <4>3. u # t /\ u \in Threads /\ SideOf(u) # s
        BY <4>2, <3>2 DEF OnSide, s
      <4>4. Owns(u, k)'
        BY <4>2, <4>3, <2>1, <2>3 DEF Owns
      <4> QED BY <4>4
    <3> QED BY <3>1, <3>2
  <2> QED BY <2>4, <2>5, <2>6 DEF ReservationsTile, OnSide
<1>3. CASE ~ \E t \in Threads : MoveHead(t) \/ UpdateTail(t)
  <2>1. head' = head /\ tail' = tail /\ \A u \in Threads : QuietFor(u)
    BY <1>3, QuietStep DEF IndInv
  <2>2. \A u \in Threads : Committed(u)' <=> Committed(u)
    BY <2>1 DEF QuietFor
  <2>3. \A u \in Threads : Committed(u) => Offset(u)' = Offset(u) /\ n'[u] = n[u]
    BY <2>1 DEF QuietFor, Offset
  <2>4. \A s \in Side : Zone(s)' = Zone(s)
    BY <2>1 DEF Zone
  <2>5. \A u \in Threads : \A k : Owns(u, k) => Owns(u, k)'
    BY <2>2, <2>3 DEF Owns
  <2>6. ASSUME NEW s \in Side, NEW k \in 0 .. Zone(s)' - 1
        PROVE  \E u \in OnSide(s) : Owns(u, k)'
    <3>1. PICK u \in OnSide(s) : Owns(u, k)
      BY <2>4, <2>6 DEF IndInv, ReservationsTile
    <3> QED BY <3>1, <2>5 DEF OnSide
  <2>7. (\A t \in Threads : Committed(t) => Offset(t) + n[t] <= Zone(SideOf(t)))'
    BY <2>2, <2>3, <2>4, Sides DEF IndInv, ReservationsTile
  <2>8. (\A t, u \in Threads :
           t # u /\ SideOf(t) = SideOf(u) /\ Committed(t) /\ Committed(u) =>
             Offset(t) + n[t] <= Offset(u) \/ Offset(u) + n[u] <= Offset(t))'
    BY <2>2, <2>3 DEF IndInv, ReservationsTile
  <2> QED BY <2>6, <2>7, <2>8 DEF ReservationsTile, OnSide
<1> QED BY <1>1, <1>2, <1>3

LEMMA DecisionStep ==
  ASSUME IndInv, [Next]_vars
  PROVE  DecisionCurrent'
<1>1. ASSUME NEW t \in Threads, MoveHead(t)
      PROVE  DecisionCurrent'
  <2> SUFFICES ASSUME NEW u \in Threads, pc'[u] = "cas", old'[u] = head'[SideOf(u)]
               PROVE  n'[u] <= TrulyAvailable(SideOf(u))'
    BY DEF DecisionCurrent
  <2>1. u # t /\ pc[u] = "cas" /\ old'[u] = old[u] /\ n'[u] = n[u]
    BY <1>1, OthersAtMoveHead
  <2>2. SideOf(u) # SideOf(t) /\ old[u] = head[SideOf(u)]
    BY <1>1, <2>1, OthersAtMoveHead DEF Reading
  <2>3. n[u] <= TrulyAvailable(SideOf(u))
    BY <2>1, <2>2 DEF IndInv, DecisionCurrent
  <2>4. n[t] \in Nat /\ n[u] \in Nat
    BY <1>1, <2>1, CountType DEF IndInv, MoveHead
  <2> QED BY <1>1, <2>1, <2>2, <2>3, <2>4, HeadMoved, Distances, Sides, Bounds
          DEF IndInv, TrulyAvailable, SideOf
<1>2. ASSUME NEW t \in Threads, UpdateTail(t)
      PROVE  DecisionCurrent'
  <2> SUFFICES ASSUME NEW u \in Threads, pc'[u] = "cas", old'[u] = head'[SideOf(u)]
               PROVE  n'[u] <= TrulyAvailable(SideOf(u))'
    BY DEF DecisionCurrent
  <2>1. u # t /\ pc[u] = "cas" /\ old'[u] = old[u] /\ n'[u] = n[u]
    BY <1>2, OthersAtUpdateTail
  <2>2. old[u] = head[SideOf(u)]
    BY <1>2, <2>1, OthersAtUpdateTail
  <2>3. n[u] <= TrulyAvailable(SideOf(u))
    BY <2>1, <2>2 DEF IndInv, DecisionCurrent
  <2>4. n[t] \in Nat /\ n[u] \in Nat
    BY <1>2, <2>1, CountType DEF IndInv, UpdateTail, Committed
  <2> QED BY <1>2, <2>1, <2>3, <2>4, TailMoved, Distances, Sides, Bounds
          DEF IndInv, TrulyAvailable, SideOf
<1>3. CASE ~ \E t \in Threads : MoveHead(t) \/ UpdateTail(t)
  <2> SUFFICES ASSUME NEW u \in Threads, pc'[u] = "cas", old'[u] = head'[SideOf(u)]
               PROVE  n'[u] <= TrulyAvailable(SideOf(u))'
    BY DEF DecisionCurrent
  <2>1. head' = head /\ tail' = tail /\ QuietFor(u)
    BY <1>3, QuietStep DEF IndInv
  <2>2. TrulyAvailable(SideOf(u))' = TrulyAvailable(SideOf(u))
    BY <2>1 DEF TrulyAvailable, BeingWritten, Queued, BeingRead, SideOf
  <2>3. old'[u] = old[u] /\ old[u] = head[SideOf(u)]
    BY <2>1 DEF QuietFor
  <2>4. CASE pc[u] = "cas" /\ n'[u] = n[u]
    BY <2>2, <2>3, <2>4 DEF IndInv, DecisionCurrent
  <2>5. CASE n'[u] <= Available(SideOf(u), old[u])
    <3>1. /\ head["prod"] \in Idx /\ head["cons"] \in Idx
          /\ tail["prod"] \in Idx /\ tail["cons"] \in Idx
      BY Sides DEF IndInv, TypeOK, Types
    <3>2. Available(SideOf(u), old[u]) = TrulyAvailable(SideOf(u))
      <4>1. CASE SideOf(u) = "prod"
        BY <2>3, <3>1, <4>1, FreeEntries
           DEF Available, Room, Other, TrulyAvailable, IndInv, WindowOrder,
               BeingWritten, Queued, BeingRead
      <4>2. CASE SideOf(u) = "cons"
        BY <2>3, <3>1, <4>2, NoEntryRoom
           DEF Available, Room, Other, TrulyAvailable, Queued
      <4> QED BY <4>1, <4>2, Sides
    <3> QED BY <2>2, <2>5, <3>2
  <2> QED BY <2>1, <2>4, <2>5 DEF QuietFor
<1> QED BY <1>1, <1>2, <1>3

LEMMA SingleStep ==
  ASSUME IndInv, [Next]_vars
  PROVE  SingleUndisturbed'
<1> SUFFICES ASSUME NEW u \in Threads, Single[SideOf(u)]
             PROVE  /\ Reading(u)' => old'[u] = head'[SideOf(u)]
                    /\ Committed(u)' => old'[u] = tail'[SideOf(u)]
                    /\ ~Committed(u)' => head'[SideOf(u)] = tail'[SideOf(u)]
  BY DEF SingleUndisturbed
<1>1. \A t \in Threads : SideOf(t) = SideOf(u) => t = u
  BY SingleAssumption, ThreadSets, Sides DEF SideOf
<1>2. /\ Reading(u) => old[u] = head[SideOf(u)]
      /\ Committed(u) => old[u] = tail[SideOf(u)]
      /\ ~Committed(u) => head[SideOf(u)] = tail[SideOf(u)]
  BY DEF IndInv, SingleUndisturbed
<1>3. ASSUME NEW t \in Threads, MoveHead(t)
      PROVE  /\ Reading(u)' => old'[u] = head'[SideOf(u)]
             /\ Committed(u)' => old'[u] = tail'[SideOf(u)]
             /\ ~Committed(u)' => head'[SideOf(u)] = tail'[SideOf(u)]
  <2>1. CASE t = u
    BY <1>2, <1>3, <2>1, OthersAtMoveHead, HeadMoved DEF Reading, Committed, MoveHead
  <2>2. CASE t # u
    BY <1>1, <1>2, <1>3, <2>2, OthersAtMoveHead DEF Reading, Committed
  <2> QED BY <2>1, <2>2
<1>4. ASSUME NEW t \in Threads, UpdateTail(t)
      PROVE  /\ Reading(u)' => old'[u] = head'[SideOf(u)]
             /\ Committed(u)' => old'[u] = tail'[SideOf(u)]
             /\ ~Committed(u)' => head'[SideOf(u)] = tail'[SideOf(u)]
  <2>1. CASE t = u
    <3>1. pc'[u] = "idle" /\ head' = head
      BY <1>4, <2>1, OthersAtUpdateTail
    <3>2. Zone(SideOf(u))' = 0
      <4>1. Committed(u) /\ 0 < n[u] /\ n[u] \in Nat
        BY <1>4, <2>1, CountType DEF IndInv, UpdateTail, Committed
      <4>2. Offset(u) = 0 /\ n[u] <= Zone(SideOf(u)) /\ Zone(SideOf(u))' = Zone(SideOf(u)) - n[u]
        BY <1>4, <2>1, TailMoved
      <4>3. Zone(SideOf(u)) \in Nat /\ SideOf(u) \in Side
        BY Distances, Sides DEF IndInv
      <4>4. ASSUME n[u] < Zone(SideOf(u)) PROVE FALSE
        <5>1. n[u] \in 0 .. Zone(SideOf(u)) - 1
          BY <4>1, <4>3, <4>4
        <5>2. PICK v \in OnSide(SideOf(u)) : Owns(v, n[u])
          BY <4>3, <5>1 DEF IndInv, ReservationsTile
        <5>3. v = u
          BY <1>1, <5>2 DEF OnSide
        <5> QED BY <4>1, <4>2, <5>2, <5>3 DEF Owns
      <4> QED BY <4>1, <4>2, <4>3, <4>4
    <3>3. head'[SideOf(u)] = tail'[SideOf(u)]
      <4>1. TypeOK'
        BY TypeStep DEF IndInv
      <4>2. head'[SideOf(u)] \in Idx /\ tail'[SideOf(u)] \in Idx
        BY <4>1, Sides DEF TypeOK, Types
      <4> QED BY <3>2, <4>2, SubType DEF Zone
    <3> QED BY <3>1, <3>3 DEF Reading, Committed
  <2>2. CASE t # u
    BY <1>1, <1>2, <1>4, <2>2, OthersAtUpdateTail DEF Reading, Committed
  <2> QED BY <2>1, <2>2
<1>5. CASE ~ \E t \in Threads : MoveHead(t) \/ UpdateTail(t)
  BY <1>2, <1>5, QuietStep DEF IndInv, QuietFor
<1> QED BY <1>3, <1>4, <1>5

LEMMA LagStep ==
  ASSUME IndInv, [Next]_vars
  PROVE  LagBounded'
<1> SUFFICES ASSUME NEW u \in Threads, Reading(u)'
             PROVE  (Sub(head[SideOf(u)], old[u]) + Capacity < M)'
  BY DEF LagBounded
<1>0. head[SideOf(u)] \in Idx /\ old[u] \in Idx
  BY Sides DEF IndInv, TypeOK, Types
<1>1. ASSUME NEW t \in Threads, MoveHead(t)
      PROVE  (Sub(head[SideOf(u)], old[u]) + Capacity < M)'
  <2>1. u # t /\ Reading(u) /\ old'[u] = old[u]
    BY <1>1, OthersAtMoveHead DEF Reading
  <2>2. CASE SideOf(u) = SideOf(t)
    <3>1. Sub(head[SideOf(u)], old[u]) + n[t] + Capacity < M
      BY <1>1, <2>1, <2>2 DEF MoveHead, NoLap, OnSide
    <3>2. n[t] \in Nat /\ head'[SideOf(u)] = Add(head[SideOf(u)], n[t])
      BY <1>1, <2>2, HeadMoved, CountType, Sides DEF MoveHead, IndInv, TypeOK, Types
    <3>3. Sub(head[SideOf(u)], old[u]) \in Nat
      BY <1>0, SubType
    <3>4. Sub(Add(head[SideOf(u)], n[t]), old[u]) = Sub(head[SideOf(u)], old[u]) + n[t]
      BY <1>0, <3>1, <3>2, <3>3, FrontMoves, Bounds
    <3> QED BY <2>1, <3>1, <3>2, <3>4
  <2>3. CASE SideOf(u) # SideOf(t)
    BY <1>1, <2>1, <2>3, OthersAtMoveHead DEF IndInv, LagBounded
  <2> QED BY <2>2, <2>3
<1>2. ASSUME NEW t \in Threads, UpdateTail(t)
      PROVE  (Sub(head[SideOf(u)], old[u]) + Capacity < M)'
  <2>1. u # t /\ Reading(u) /\ old'[u] = old[u] /\ head' = head
    BY <1>2, OthersAtUpdateTail DEF Reading
  <2> QED BY <2>1 DEF IndInv, LagBounded
<1>3. CASE ~ \E t \in Threads : MoveHead(t) \/ UpdateTail(t)
  <2>1. head' = head /\ QuietFor(u)
    BY <1>3, QuietStep DEF IndInv
  <2>2. CASE Reading(u) /\ old'[u] = old[u]
    BY <2>1, <2>2 DEF IndInv, LagBounded
  <2>3. CASE old'[u] = head[SideOf(u)]
    BY <1>0, <2>1, <2>3, SubType, Bounds
  <2> QED BY <2>1, <2>2, <2>3 DEF QuietFor
<1> QED BY <1>1, <1>2, <1>3

-----------------------------------------------------------------------------
LEMMA InitInv == Init => IndInv
<1> SUFFICES ASSUME Init PROVE IndInv
  OBVIOUS
<1>1. TypeOK
  <2>1. <<>> \in Seq(Objs \cup {NoObj})
    OBVIOUS
  <2>2. Types
    BY <2>1, Bounds DEF Init, Types, Idx
  <2>3. TablesFit
    <3> SUFFICES ASSUME NEW p \in Producers PROVE table[p] \in [1 .. max[p] -> Objs]
      BY DEF TablesFit
    <3>1. table[p] = <<>> /\ max[p] = 0
      BY ThreadSets DEF Init
    <3> QED BY <3>1
  <2>4. CountsFit
    BY DEF Init, CountsFit, Committed
  <2> QED BY <2>2, <2>3, <2>4 DEF TypeOK
<1>2. \A t \in Threads : ~Committed(t) /\ ~Reading(t) /\ pc[t] # "cas"
  BY DEF Init, Committed, Reading
<1>3. /\ BeingWritten = 0 /\ Queued = 0 /\ BeingRead = 0
      /\ \A s \in Side : Zone(s) = 0 /\ head[s] = tail[s]
  BY Bounds DEF Init, BeingWritten, Queued, BeingRead, Zone, Side, Sub
<1>4. WindowOrder
  BY <1>3, Bounds DEF WindowOrder
<1>5. ReservationsTile
  BY <1>2, <1>3 DEF ReservationsTile
<1>6. DecisionCurrent /\ LagBounded
  BY <1>2 DEF DecisionCurrent, LagBounded
<1>7. SingleUndisturbed
  BY <1>2, <1>3, Sides DEF SingleUndisturbed
<1> QED BY <1>1, <1>4, <1>5, <1>6, <1>7 DEF IndInv

LEMMA StepInv == IndInv /\ [Next]_vars => IndInv'
BY TypeStep, WindowStep, TileStep, DecisionStep, SingleStep, LagStep DEF IndInv

(* The inductive invariant holds of every run of the ring.                 *)
THEOREM Invariance == Spec => []IndInv
BY InitInv, StepInv, PTL DEF Spec

(* Type correctness: in particular no index leaves its range, no copy loop *)
(* runs past the caller's table and nothing is granted that was not asked  *)
(* for.                                                                    *)
THEOREM TypeCorrectness == Spec => []TypeOK
BY Invariance, PTL DEF IndInv

(* The four indexes never overtake one another and the ring never holds    *)
(* more than its capacity, for any number of threads on either side, any   *)
(* mixture of single and multi sides, any burst size, and across the       *)
(* wrap-around of the indexes.                                             *)
THEOREM WindowSafety == Spec => []WindowOrder
BY Invariance, PTL DEF IndInv

(* Reservations in flight never overlap and never leave a gap.             *)
THEOREM ReservationSafety == Spec => []ReservationsTile
BY Invariance, PTL DEF IndInv

(* A thread that works with a head read M - Capacity positions ago or less *)
(* counts at least what there is.                                          *)
LEMMA NeverUndercounts ==
  ASSUME IndInv, NEW t \in Threads, pc[t] = "tail"
  PROVE  TrulyAvailable(SideOf(t)) <= Available(SideOf(t), old[t])
<1>1. /\ head["prod"] \in Idx /\ head["cons"] \in Idx
      /\ tail["prod"] \in Idx /\ tail["cons"] \in Idx /\ old[t] \in Idx
  BY Sides DEF IndInv, TypeOK, Types
<1>2. Sub(head[SideOf(t)], old[t]) + Capacity < M
  BY DEF IndInv, LagBounded, Reading
<1>3. CASE SideOf(t) = "prod"
  BY <1>1, <1>2, <1>3, StaleFreeEntries
     DEF Available, Room, Other, TrulyAvailable, IndInv, WindowOrder,
         BeingWritten, Queued, BeingRead
<1>4. CASE SideOf(t) = "cons"
  <2>1. Sub(tail["prod"], head["cons"]) <= Capacity
    BY Distances, Bounds DEF IndInv, WindowOrder, Queued
  <2> QED BY <1>1, <1>2, <1>4, <2>1, StaleEntries, NoEntryRoom
          DEF Available, Room, Other, TrulyAvailable, Queued
<1> QED BY <1>3, <1>4, Sides

(* An enqueue or a dequeue returns 0 only when, at its load of the         *)
(* opposite tail, the ring really cannot serve it: the staleness of the    *)
(* head it works with never makes it give up.                              *)
THEOREM RefusalSafety == Spec => RefusalJustified
<1>1. ASSUME IndInv, [Next]_vars, NEW t \in Threads,
             pc[t] = "tail", pc'[t] = "idle", max[t] > 0
      PROVE  TrulyAvailable(SideOf(t)) < IF behavior[t] = "FIXED" THEN max[t] ELSE 1
  <2> DEFINE free == Available(SideOf(t), old[t])
  <2>1. LoadTail(t) /\ Granted(t, free) = 0
    BY <1>1, ThreadSets, SMTT(30)
       DEF Next, Step, vars, CallEnqueue, CallDequeue, LoadHead, LoadTail, MoveHead,
           RetryHead, CopyPtr, UpdateTail, Return, IndInv, TypeOK, Types
  <2>2. free \in Idx /\ max[t] \in Nat /\ behavior[t] \in {"FIXED", "VARIABLE"}
    BY AvailableType, Sides, <1>1 DEF IndInv, TypeOK, Types
  <2>3. TrulyAvailable(SideOf(t)) <= free
    BY <1>1, NeverUndercounts
  <2>4. TrulyAvailable(SideOf(t)) \in Int
    BY <1>1, Distances, Bounds DEF IndInv, TrulyAvailable
  <2>5. CASE behavior[t] = "FIXED"
    BY <1>1, <2>1, <2>2, <2>3, <2>4, <2>5, Bounds DEF Granted, Idx
  <2>6. CASE behavior[t] = "VARIABLE"
    BY <1>1, <2>1, <2>2, <2>3, <2>4, <2>6, Bounds DEF Granted, Idx
  <2> QED BY <2>2, <2>5, <2>6
<1>2. IndInv /\ [Next]_vars =>
        [\A t \in Threads :
           pc[t] = "tail" /\ pc'[t] = "idle" /\ max[t] > 0 =>
             TrulyAvailable(SideOf(t)) < IF behavior[t] = "FIXED" THEN max[t] ELSE 1
        ]_vars
  BY <1>1
<1> QED BY Invariance, <1>2, PTL DEF Spec, RefusalJustified

-----------------------------------------------------------------------------
LEMMA IndexTypes ==
  ASSUME IndInv
  PROVE  /\ head["prod"] \in Idx /\ head["cons"] \in Idx
         /\ tail["prod"] \in Idx /\ tail["cons"] \in Idx
BY Sides DEF IndInv, TypeOK, Types

(* Consecutive zones add up.                                               *)
LEMMA SubChain ==
  ASSUME NEW a \in Idx, NEW b \in Idx, NEW c \in Idx, Sub(a, b) + Sub(b, c) < M
  PROVE  Sub(a, c) = Sub(a, b) + Sub(b, c)
BY Bounds DEF Idx, Sub

-----------------------------------------------------------------------------
(* Between its two loads the observer knows the bounds of the number of    *)
(* entries; while they are equal no tail has moved.                        *)
CountInv ==
  /\ IndInv
  /\ prod_tail \in Idx
  /\ opc = "cons_tail" =>
       /\ lo \in Int /\ hi \in Int /\ lo <= Entries /\ Entries <= hi
       /\ lo = hi => prod_tail = tail["prod"]
  /\ opc = "done" =>
       /\ count \in 0 .. Capacity
       /\ lo = hi => count = lo

LEMMA EntriesBounded == IndInv => Entries = Queued + BeingRead /\ Entries \in 0 .. Capacity
<1> SUFFICES ASSUME IndInv PROVE Entries = Queued + BeingRead /\ Entries \in 0 .. Capacity
  OBVIOUS
<1>1. /\ Queued \in Nat /\ BeingRead \in Nat /\ Queued + BeingRead <= Capacity
      /\ Queued + BeingRead < M
  BY Distances, Bounds DEF IndInv, WindowOrder
<1>2. Entries = Queued + BeingRead
  BY <1>1, IndexTypes, SubChain DEF Entries, Queued, BeingRead
<1> QED BY <1>1, <1>2, Bounds

(* A step that leaves the number of entries alone moves no tail.           *)
LEMMA EntriesTell ==
  ASSUME IndInv, [Next]_vars
  PROVE  /\ Entries' \in 0 .. Capacity
         /\ Entries' = Entries => tail' = tail
<1>1. IndInv'
  BY StepInv
<1>2. (Entries = Queued + BeingRead /\ Entries \in 0 .. Capacity)'
  BY <1>1, EntriesBounded, PTL
<1>3. ASSUME NEW t \in Threads, UpdateTail(t) PROVE Entries' # Entries
  <2>1. n[t] \in Nat /\ 0 < n[t]
    BY <1>3, CountType DEF IndInv, UpdateTail, Committed
  <2> QED BY <1>2, <1>3, <2>1, TailMoved, Distances, Sides, EntriesBounded DEF IndInv
<1>4. ASSUME NEW t \in Threads, MoveHead(t) PROVE tail' = tail
  BY <1>4 DEF MoveHead
<1>5. CASE ~ \E t \in Threads : MoveHead(t) \/ UpdateTail(t)
  BY <1>2, <1>5, QuietStep DEF IndInv
<1> QED BY <1>2, <1>3, <1>4, <1>5

LEMMA CountInitInv == CountInit => CountInv
BY InitInv, Bounds DEF CountInit, NotCounting, CountInv

LEMMA CountStepInv == CountInv /\ [CountNext]_allvars => CountInv'
<1> SUFFICES ASSUME CountInv, [CountNext]_allvars PROVE CountInv'
  OBVIOUS
<1>0. IndInv /\ Entries \in 0 .. Capacity /\ Capacity \in Nat
  BY EntriesBounded, Bounds DEF CountInv
<1>1. [Next]_vars
  BY DEF CountNext, LoadProdTail, LoadConsTail, CallOver, RingStep, allvars
<1>2. IndInv'
  BY <1>0, <1>1, StepInv
<1>3. Entries' \in 0 .. Capacity /\ (Entries' = Entries => tail' = tail)
  BY <1>0, <1>1, EntriesTell
<1>4. CASE LoadProdTail
  <2>1. Entries' = Entries /\ tail' = tail
    BY <1>4 DEF LoadProdTail, vars, Entries
  <2> QED BY <1>0, <1>2, <1>4, <2>1, IndexTypes DEF LoadProdTail, CountInv
<1>5. CASE LoadConsTail
  <2>1. prod_tail \in Idx /\ tail["cons"] \in Idx /\ tail["prod"] \in Idx
    BY <1>0, IndexTypes DEF CountInv
  <2>2. Sub(prod_tail, tail["cons"]) \in Nat
    BY <2>1, SubType
  <2>3. Reported(prod_tail, tail["cons"]) \in 0 .. Capacity
    BY <2>2, Bounds DEF Reported
  <2>4. ASSUME lo = hi PROVE Reported(prod_tail, tail["cons"]) = lo
    <3>1. Sub(prod_tail, tail["cons"]) = Entries /\ Entries = lo
      BY <1>0, <1>5, <2>4 DEF LoadConsTail, CountInv, Entries
    <3>2. Entries % Size = Entries
      BY <1>0, Bounds
    <3> QED BY <1>0, <3>1, <3>2 DEF Reported
  <2> QED BY <1>2, <1>5, <2>1, <2>3, <2>4 DEF LoadConsTail, CountInv
<1>6. CASE CallOver
  BY <1>2, <1>6, Bounds DEF CallOver, CountInv
<1>7. CASE RingStep
  <2>1. CASE opc = "cons_tail"
    <3>1. /\ lo' = MinOf(lo, Entries') /\ hi' = MaxOf(hi, Entries')
          /\ opc' = opc /\ prod_tail' = prod_tail /\ count' = count
      BY <1>7, <2>1 DEF RingStep
    <3>2. /\ lo \in Int /\ hi \in Int /\ lo <= Entries /\ Entries <= hi
          /\ lo = hi => prod_tail = tail["prod"]
      BY <2>1 DEF CountInv
    <3>3. lo' \in Int /\ hi' \in Int /\ lo' <= Entries' /\ Entries' <= hi'
      BY <1>3, <3>1, <3>2 DEF MinOf, MaxOf
    <3>4. lo' = hi' => lo = hi /\ Entries' = Entries
      BY <1>0, <1>3, <3>1, <3>2 DEF MinOf, MaxOf
    <3> QED BY <1>2, <1>3, <2>1, <3>1, <3>2, <3>3, <3>4 DEF CountInv
  <2>2. CASE opc # "cons_tail"
    BY <1>2, <1>7, <2>2 DEF RingStep, CountInv
  <2> QED BY <2>1, <2>2
<1>8. CASE UNCHANGED allvars
  BY <1>2, <1>8 DEF allvars, vars, ovars, CountInv, Entries
<1> QED BY <1>4, <1>5, <1>6, <1>7, <1>8 DEF CountNext

(* rte_ring_count beside any threads that use the ring, across the wrap of *)
(* the indexes: at most the capacity, and exact when no tail moved between *)
(* its two loads.                                                          *)
THEOREM CountSafety == CountSpec => []CountSound
<1>1. CountInv => CountSound
  BY Bounds DEF CountInv, CountSound, FreeCountNotNegative, CountExactWhenQuiet, rte_ring_free_count
<1> QED BY CountInitInv, CountStepInv, <1>1, PTL DEF CountSpec

-----------------------------------------------------------------------------
(* The refinement.  Positions are counted from cons.tail: those of one     *)
(* window of the ring have slots of their own.                             *)
LEMMA AddChain ==
  ASSUME NEW a \in Idx, NEW j \in Nat, NEW k \in Nat, j + k < M
  PROVE  Add(Add(a, j), k) = Add(a, j + k)
BY Bounds DEF Idx, Add

LEMMA AddSub ==
  ASSUME NEW a \in Idx, NEW b \in Idx
  PROVE  Add(b, Sub(a, b)) = a
BY Bounds DEF Idx, Add, Sub

(* Remainders.                                                             *)
LEMMA Remainder ==
  ASSUME NEW x \in Int
  PROVE  /\ x \div Size \in Int /\ x % Size \in 0 .. Size - 1
         /\ x = Size * (x \div Size) + (x % Size)
<1>1. Size \in Nat /\ Size > 0
  BY Bounds
<1> QED BY <1>1

LEMMA RemainderUnique ==
  ASSUME NEW q \in Int, NEW r \in 0 .. Size - 1
  PROVE  (Size * q + r) % Size = r
<1>1. Size \in Nat /\ Size > 0
  BY Bounds
<1> QED BY <1>1

LEMMA NoMultiple ==
  ASSUME NEW q \in Int, -Size < Size * q, Size * q < Size
  PROVE  q = 0
<1>1. Size \in Nat /\ Size > 0
  BY Bounds
<1>2. q >= 1 => Size * q >= Size
  BY <1>1
<1>3. q <= -1 => Size * q <= -Size
  BY <1>1
<1> QED BY <1>1, <1>2, <1>3

(* The size divides 2^32: the wrap of an index does not show in its slot.  *)
LEMMA SlotWraps ==
  ASSUME NEW a \in Idx, NEW k \in Nat, k < M
  PROVE  Slot(Add(a, k)) = (a + k) % Size
<1>1. Size \in Nat /\ M \in Nat /\ M % Size = 0 /\ a \in Int
  BY Bounds, RingAssumption DEF Idx
<1>2. CASE a + k >= M
  <2> DEFINE x == a + k
             q == x \div Size
             d == M \div Size
  <2>1. q \in Int /\ x % Size \in 0 .. Size - 1 /\ x = Size * q + (x % Size)
    BY <1>1, Remainder, SMTT(30)
  <2>2. d \in Int /\ M = Size * d
    BY <1>1, Remainder
  <2>3. q - d \in Int /\ x - M = Size * (q - d) + (x % Size)
    <3> HIDE DEF x, q, d
    <3>1. Size * (q - d) = Size * q - Size * d /\ Size * q \in Int /\ Size * d \in Int
      BY <1>1, <2>1, <2>2
    <3> QED BY <1>1, <2>1, <2>2, <3>1
  <2>4. (x - M) % Size = x % Size
    BY <2>1, <2>3, RemainderUnique
  <2>5. Add(a, k) = x - M
    BY <1>1, <1>2 DEF Add
  <2> QED BY <2>4, <2>5 DEF Slot
<1>3. CASE ~(a + k >= M)
  BY <1>3 DEF Slot, Add
<1> QED BY <1>2, <1>3

LEMMA SlotApart ==
  ASSUME NEW a \in Idx, NEW d \in Nat, NEW e \in Nat, d < Size, e < Size,
         Slot(Add(a, d)) = Slot(Add(a, e))
  PROVE  d = e
<1> DEFINE x == a + d
           y == a + e
           q == x \div Size
           r == y \div Size
<1>1. a \in Nat /\ d < M /\ e < M /\ Size \in Nat
  BY Bounds DEF Idx
<1>2. x % Size = y % Size
  BY <1>1, SlotWraps
<1>3. /\ q \in Int /\ x % Size \in 0 .. Size - 1 /\ x = Size * q + (x % Size)
      /\ r \in Int /\ y = Size * r + (y % Size) /\ x \in Int /\ y \in Int
  BY <1>1, Remainder
<1>4. x - y = d - e
  BY <1>1
<1> HIDE DEF x, y, q, r
<1>5. q - r \in Int /\ Size * (q - r) = d - e
  <2>1. Size * (q - r) = Size * q - Size * r /\ Size * q \in Int /\ Size * r \in Int
    BY <1>1, <1>3
  <2> QED BY <1>1, <1>2, <1>3, <1>4, <2>1
<1>6. q - r = 0
  BY <1>1, <1>5, NoMultiple
<1> QED BY <1>1, <1>5, <1>6

(* Where the positions of a reservation and of the queue are.              *)
Base(t) == IF t \in Producers THEN BeingRead + Queued ELSE 0

LEMMA Placed ==
  ASSUME IndInv, NEW t \in Threads, Committed(t), NEW j \in Nat, j < n[t]
  PROVE  /\ Add(old[t], j) = Add(tail["cons"], Base(t) + Offset(t) + j)
         /\ Offset(t) \in Nat /\ Offset(t) + j < Zone(SideOf(t))
         /\ Base(t) \in Nat /\ Base(t) + Offset(t) + j < Capacity
         /\ IF t \in Producers THEN Zone(SideOf(t)) = BeingWritten ELSE Zone(SideOf(t)) = BeingRead
<1>1. /\ n[t] \in Nat /\ Offset(t) \in Nat /\ Offset(t) + n[t] <= Zone(SideOf(t))
      /\ old[t] \in Idx
      /\ BeingWritten \in Nat /\ Queued \in Nat /\ BeingRead \in Nat
      /\ BeingWritten + Queued + BeingRead <= Capacity /\ Capacity \in Nat /\ Capacity < M
      /\ Zone("prod") = BeingWritten /\ Zone("cons") = BeingRead
  BY CountType, Distances, Bounds, SMTT(30) DEF IndInv, WindowOrder, ReservationsTile, TypeOK, Types
<1>2. IF t \in Producers THEN SideOf(t) = "prod" ELSE SideOf(t) = "cons"
  BY DEF SideOf
<1>3. Add(tail[SideOf(t)], Offset(t)) = old[t]
  BY <1>1, <1>2, IndexTypes, AddSub DEF Offset
<1>4. Add(tail["cons"], Base(t)) = tail[SideOf(t)] /\ Base(t) \in Nat
  <2>1. CASE t \in Producers
    <3>1. Entries = Queued + BeingRead
      BY EntriesBounded
    <3> QED BY <1>1, <1>2, <2>1, <3>1, IndexTypes, AddSub DEF Base, Entries
  <2>2. CASE t \notin Producers
    BY <1>2, <2>2, IndexTypes, Bounds DEF Base, Add, Idx
  <2> QED BY <2>1, <2>2
<1>5. Offset(t) + j < Zone(SideOf(t)) /\ Base(t) + Offset(t) + j < Capacity
  BY <1>1, <1>2 DEF Base
<1>6. Add(tail["cons"], Base(t) + Offset(t)) = old[t]
  <2>1. Base(t) + Offset(t) < M
    BY <1>1, <1>4, <1>5, Bounds
  <2> QED BY <1>1, <1>3, <1>4, <2>1, IndexTypes, AddChain
<1>7. Add(tail["cons"], (Base(t) + Offset(t)) + j) = Add(old[t], j)
  <2>1. (Base(t) + Offset(t)) + j < M /\ Base(t) + Offset(t) \in Nat
    BY <1>1, <1>4, <1>5, Bounds
  <2> QED BY <1>6, <2>1, IndexTypes, AddChain
<1> QED BY <1>1, <1>2, <1>4, <1>5, <1>7

LEMMA QueuePlaced ==
  ASSUME IndInv, NEW j \in Nat, j < Queued
  PROVE  /\ Add(head["cons"], j) = Add(tail["cons"], BeingRead + j)
         /\ BeingRead \in Nat /\ Queued \in Nat /\ BeingRead + j < Capacity
<1>1. /\ Queued \in Nat /\ BeingRead \in Nat /\ BeingWritten \in Nat
      /\ BeingWritten + Queued + BeingRead <= Capacity /\ Capacity \in Nat /\ Capacity < M
  BY Distances, Bounds DEF IndInv, WindowOrder
<1>2. Add(tail["cons"], BeingRead) = head["cons"]
  BY IndexTypes, AddSub DEF BeingRead
<1>3. BeingRead + j < M
  BY <1>1, Bounds
<1>4. Add(Add(tail["cons"], BeingRead), j) = Add(tail["cons"], BeingRead + j)
  BY <1>1, <1>3, IndexTypes, AddChain
<1> QED BY <1>1, <1>2, <1>4

(* The slot a producer writes is not one of those that are read, are in    *)
(* the queue, or belong to another position that is being written.         *)
LEMMA WriteElsewhere ==
  ASSUME IndInv, NEW p \in Producers, Committed(p), NEW k \in Nat, k < n[p]
  PROVE  /\ \A j \in Nat : j < Queued => Slot(Add(head["cons"], j)) # Slot(Add(old[p], k))
         /\ \A t \in Threads, j \in Nat :
              Committed(t) /\ j < n[t] /\ ~(t = p /\ j = k) =>
                Slot(Add(old[t], j)) # Slot(Add(old[p], k))
<1> DEFINE d == Base(p) + Offset(p) + k
<1>1. /\ p \in Threads /\ Offset(p) \in Nat /\ Base(p) = BeingRead + Queued /\ Base(p) \in Nat
      /\ d < Capacity /\ Add(old[p], k) = Add(tail["cons"], d) /\ d \in Nat
  BY ThreadSets, Placed DEF Base
<1>2. Capacity < Size /\ Size \in Nat /\ Capacity \in Nat /\ tail["cons"] \in Idx
  BY Bounds, IndexTypes
<1> HIDE DEF d
<1>3. ASSUME NEW j \in Nat, j < Queued, Slot(Add(head["cons"], j)) = Slot(Add(old[p], k))
      PROVE  FALSE
  <2>1. /\ BeingRead \in Nat /\ Queued \in Nat /\ BeingRead + j < Capacity
        /\ Slot(Add(tail["cons"], BeingRead + j)) = Slot(Add(tail["cons"], d))
    BY <1>1, <1>3, QueuePlaced
  <2>2. BeingRead + j = d
    BY <1>1, <1>2, <2>1, SlotApart
  <2> QED BY <1>1, <1>3, <2>1, <2>2 DEF d
<1>4. ASSUME NEW t \in Threads, NEW j \in Nat, Committed(t), j < n[t], ~(t = p /\ j = k),
             Slot(Add(old[t], j)) = Slot(Add(old[p], k))
      PROVE  FALSE
  <2> DEFINE e == Base(t) + Offset(t) + j
  <2>1. /\ Offset(t) \in Nat /\ Base(t) \in Nat /\ e < Capacity /\ e \in Nat
        /\ Offset(t) + j < Zone(SideOf(t))
        /\ Add(old[t], j) = Add(tail["cons"], e)
        /\ t \notin Producers => Zone(SideOf(t)) = BeingRead
    BY <1>4, Placed
  <2>2. e = d
    <3> HIDE DEF e
    <3> QED BY <1>1, <1>2, <1>4, <2>1, SlotApart
  <2>3. CASE t \in Producers
    <3>1. Offset(t) + j = Offset(p) + k
      BY <1>1, <2>1, <2>2, <2>3 DEF d, Base
    <3>2. t = p
      <4>1. n[t] \in Nat /\ n[p] \in Nat
        BY <1>1, <1>4, CountType DEF IndInv
      <4>2. SideOf(t) = SideOf(p)
        BY <2>3 DEF SideOf
      <4>3. t # p => Offset(t) + n[t] <= Offset(p) \/ Offset(p) + n[p] <= Offset(t)
        BY <1>1, <1>4, <4>2 DEF IndInv, ReservationsTile
      <4> QED BY <1>1, <1>4, <2>1, <3>1, <4>1, <4>3
    <3> QED BY <1>1, <1>4, <2>1, <3>1, <3>2
  <2>4. CASE t \notin Producers
    <3>1. Queued \in Nat /\ BeingRead \in Nat
      BY Distances DEF IndInv
    <3> QED BY <1>1, <2>1, <2>2, <2>4, <3>1 DEF d, Base
  <2> QED BY <2>3, <2>4
<1> QED BY <1>3, <1>4

-----------------------------------------------------------------------------
(* What a producer has copied so far is in its slots, and a consumer's     *)
(* table is as long as its copy has got.                                   *)
DataInv ==
  /\ \A p \in Producers : Committed(p) =>
       \A j \in Nat : j < i[p] => ring[Slot(Add(old[p], j))] = table[p][j + 1]
  /\ \A c \in Consumers : Len(table[c]) = i[c]

LEMMA DataInit == Init => DataInv
<1>1. Len(<<>>) = 0
  OBVIOUS
<1> QED BY <1>1, ThreadSets DEF Init, DataInv, Committed

LEMMA DataStep ==
  ASSUME IndInv, DataInv, [Next]_vars
  PROVE  DataInv'
<1> USE DEF DataInv
<1>0. /\ Types /\ CountsFit /\ Producers \subseteq Threads /\ Consumers \subseteq Threads
      /\ Producers \cap Consumers = {} /\ Len(<<>>) = 0
      /\ \A t \in Threads : ~Committed(t) => i[t] = 0
  BY ThreadSets DEF IndInv, TypeOK, CountsFit
<1>1. ASSUME NEW p \in Producers, NEW objs \in Tables, NEW b \in Behaviors,
             CallEnqueue(p, objs, b)
      PROVE  DataInv'
  BY <1>0, <1>1 DEF CallEnqueue, Types, Committed
<1>2. ASSUME NEW c \in Consumers, NEW k \in Bursts, NEW b \in Behaviors,
             CallDequeue(c, k, b)
      PROVE  DataInv'
  BY <1>0, <1>2 DEF CallDequeue, Types, Committed
<1>3. ASSUME NEW t \in Threads, LoadHead(t) PROVE DataInv'
  BY <1>0, <1>3 DEF LoadHead, Types, Committed
<1>4. ASSUME NEW t \in Threads, Return(t), ring' = ring PROVE DataInv'
  <2>1. /\ pc' = [pc EXCEPT ![t] = "idle"] /\ table' = [table EXCEPT ![t] = <<>>]
        /\ i' = [i EXCEPT ![t] = 0] /\ old' = [old EXCEPT ![t] = 0]
    BY <1>4 DEF Return
  <2>2. \A u \in Threads : IF u = t THEN ~Committed(u)' /\ table'[u] = <<>> /\ i'[u] = 0
          ELSE /\ Committed(u)' <=> Committed(u)
               /\ table'[u] = table[u] /\ i'[u] = i[u] /\ old'[u] = old[u]
    BY <1>0, <2>1 DEF Types, Committed
  <2>3. \A c \in Consumers : Len(table'[c]) = i'[c]
    <3> SUFFICES ASSUME NEW c \in Consumers PROVE Len(table'[c]) = i'[c]
      OBVIOUS
    <3>1. CASE c = t
      BY <1>0, <2>2, <3>1
    <3>2. CASE c # t
      BY <1>0, <2>2, <3>2
    <3> QED BY <3>1, <3>2
  <2> QED BY <1>0, <1>4, <2>2, <2>3
<1>5. ASSUME NEW t \in Threads, LoadTail(t) PROVE DataInv'
  <2>1. CASE Return(t)
    BY <1>4, <1>5, <2>1 DEF LoadTail
  <2>2. CASE ~Return(t)
    <3>1. /\ pc' = [pc EXCEPT ![t] = "cas"] /\ pc[t] = "tail"
          /\ UNCHANGED <<behavior, max, table, old, i, ring>>
      BY <1>5, <2>2 DEF LoadTail
    <3> QED BY <1>0, <3>1 DEF Types, Committed
  <2> QED BY <2>1, <2>2
<1>6. ASSUME NEW t \in Threads, MoveHead(t) PROVE DataInv'
  BY <1>0, <1>6 DEF MoveHead, locals, Types, Committed
<1>7. ASSUME NEW t \in Threads, RetryHead(t) PROVE DataInv'
  BY <1>0, <1>7 DEF RetryHead, Types, Committed
<1>8. ASSUME NEW t \in Threads, CopyPtr(t) PROVE DataInv'
  <2> DEFINE idx == Slot(Add(old[t], i[t]))
  <2>1. /\ i[t] \in Nat /\ n[t] \in Nat /\ i[t] < n[t] /\ pc[t] = "copy" /\ Committed(t)
        /\ i' = [i EXCEPT ![t] = i[t] + 1] /\ old' = old /\ n' = n
        /\ pc' = [pc EXCEPT ![t] = IF i[t] + 1 = n[t] THEN "update" ELSE "copy"]
        /\ \A u \in Threads : Committed(u)' <=> Committed(u)
    BY <1>0, <1>8 DEF CopyPtr, Types, CountsFit, Committed
  <2>2. idx \in 0 .. Size - 1
    BY <2>1, SlotType DEF IndInv, TypeOK, Types
  <2>3. CASE t \in Producers
    <3>1. ring' = [ring EXCEPT ![idx] = table[t][i[t] + 1]] /\ table' = table
      BY <1>0, <1>8, <2>3 DEF CopyPtr
    <3>2. \A u \in Threads, j \in Nat :
            Committed(u) /\ j < n[u] /\ ~(u = t /\ j = i[t]) => Slot(Add(old[u], j)) # idx
      BY <2>1, <2>3, WriteElsewhere
    <3>3. \A u \in Threads : Committed(u) => i[u] <= n[u] /\ i[u] \in Nat /\ n[u] \in Nat
      BY <1>0 DEF Types, CountsFit, Committed
    <3>4. \A u \in Threads, j \in Nat : old[u] \in Idx /\ Slot(Add(old[u], j)) \in 0 .. Size - 1
      BY SlotType DEF IndInv, TypeOK, Types
    <3> HIDE DEF idx
    <3>5. ASSUME NEW p \in Producers, Committed(p), NEW j \in Nat, j < i'[p]
          PROVE  ring'[Slot(Add(old[p], j))] = table[p][j + 1]
      <4>1. CASE p = t /\ j = i[t]
        <5>1. Slot(Add(old[p], j)) = idx
          BY <4>1 DEF idx
        <5> QED BY <1>0, <2>2, <3>1, <4>1, <5>1 DEF Types
      <4>2. CASE ~(p = t /\ j = i[t])
        <5>1. j < i[p] /\ j < n[p] /\ p \in Threads
          BY <1>0, <2>1, <3>3, <3>5, <4>2 DEF Types
        <5>2. Slot(Add(old[p], j)) # idx /\ Slot(Add(old[p], j)) \in 0 .. Size - 1
          BY <3>2, <3>4, <3>5, <4>2, <5>1
        <5>3. ring'[Slot(Add(old[p], j))] = ring[Slot(Add(old[p], j))]
          BY <1>0, <3>1, <5>2 DEF Types
        <5> QED BY <3>5, <5>1, <5>3
      <4> QED BY <4>1, <4>2
    <3>6. \A c \in Consumers : Len(table'[c]) = i'[c]
      BY <1>0, <2>1, <2>3, <3>1 DEF Types
    <3> QED BY <1>0, <2>1, <3>1, <3>5, <3>6
  <2>4. CASE t \notin Producers
    <3>1. table' = [table EXCEPT ![t] = Append(table[t], ring[idx])] /\ ring' = ring /\ t \in Consumers
      BY <1>0, <1>8, <2>4, ThreadSets DEF CopyPtr
    <3>2. Len(Append(table[t], ring[idx])) = i[t] + 1
      <4>1. table[t] \in Seq(Objs \cup {NoObj}) /\ ring[idx] \in Objs \cup {NoObj}
        BY <2>2 DEF IndInv, TypeOK, Types
      <4> QED BY <3>1, <4>1, AppendProperties
    <3> HIDE DEF idx
    <3> QED BY <1>0, <2>1, <2>4, <3>1, <3>2 DEF Types
  <2> QED BY <2>3, <2>4
<1>9. ASSUME NEW t \in Threads, UpdateTail(t) PROVE DataInv'
  BY <1>4, <1>9 DEF UpdateTail
<1>10. CASE UNCHANGED vars
  BY <1>10 DEF vars, Committed
<1> QED BY <1>1, <1>2, <1>3, <1>5, <1>6, <1>7, <1>8, <1>9, <1>10 DEF Next, Step

-----------------------------------------------------------------------------
(* The mapping, element by element.                                        *)
TakenAt(c, j) == IF j <= i[c] THEN table[c][j] ELSE ring[Slot(Add(old[c], j - 1))]

QueueIs == FifoQueue = [j \in 1 .. Queued |-> ring[Slot(Add(head["cons"], j - 1))]]
ClaimIs ==
  FifoClaim = [p \in Producers |->
                 IF Committed(p) THEN [j \in 1 .. n[p] |-> table[p][j]] ELSE <<>>]
TakenIs ==
  FifoTaken = [c \in Consumers |->
                 IF Committed(c) THEN [j \in 1 .. n[c] |-> TakenAt(c, j)] ELSE <<>>]

LEMMA SlotsSeq ==
  ASSUME IndInv, NEW pos \in Idx, NEW k \in Nat
  PROVE  /\ Slots(pos, k) \in Seq(Objs \cup {NoObj}) /\ Len(Slots(pos, k)) = k
         /\ \A j \in 1 .. k : Slots(pos, k)[j] = ring[Slot(Add(pos, j - 1))]
<1>1. \A j \in 1 .. k : ring[Slot(Add(pos, j - 1))] \in Objs \cup {NoObj}
  BY SlotType DEF IndInv, TypeOK, Types
<1>2. Slots(pos, k) \in [1 .. k -> Objs \cup {NoObj}]
  BY <1>1 DEF Slots
<1>3. \A f : f \in [1 .. k -> Objs \cup {NoObj}] => f \in Seq(Objs \cup {NoObj}) /\ Len(f) = k
  <2> SUFFICES ASSUME NEW f \in [1 .. k -> Objs \cup {NoObj}]
               PROVE  f \in Seq(Objs \cup {NoObj}) /\ Len(f) = k
    OBVIOUS
  <2>1. f \in Seq(Objs \cup {NoObj})
    OBVIOUS
  <2>2. DOMAIN f = 1 .. k /\ DOMAIN f = 1 .. Len(f) /\ Len(f) \in Nat
    BY <2>1
  <2> QED BY <2>1, <2>2
<1> QED BY <1>2, <1>3 DEF Slots

LEMMA Mapping == IndInv /\ DataInv => QueueIs /\ ClaimIs /\ TakenIs
<1> SUFFICES ASSUME IndInv, DataInv PROVE QueueIs /\ ClaimIs /\ TakenIs
  OBVIOUS
<1>1. QueueIs
  BY DEF QueueIs, FifoQueue, Slots
<1>2. ClaimIs
  <2>1. ASSUME NEW p \in Producers, Committed(p)
        PROVE  SubSeq(table[p], 1, n[p]) = [j \in 1 .. n[p] |-> table[p][j]]
    <3>1. n[p] \in Nat /\ table[p] \in Seq(Objs \cup {NoObj})
      BY ThreadSets DEF IndInv, TypeOK, Types
    <3> QED BY <3>1
  <2> QED BY <2>1 DEF ClaimIs, FifoClaim
<1>3. TakenIs
  <2>1. ASSUME NEW c \in Consumers, Committed(c)
        PROVE  table[c] \o Slots(Add(old[c], i[c]), n[c] - i[c]) = [j \in 1 .. n[c] |-> TakenAt(c, j)]
    <3> DEFINE a == table[c]
               b == Slots(Add(old[c], i[c]), n[c] - i[c])
               f == [j \in 1 .. n[c] |-> TakenAt(c, j)]
               S == Objs \cup {NoObj}
    <3>1. /\ n[c] \in Nat /\ i[c] \in Nat /\ i[c] <= n[c] /\ n[c] < M /\ old[c] \in Idx
          /\ a \in Seq(S) /\ Len(a) = i[c] /\ c \in Threads
      BY <2>1, ThreadSets, CountType DEF IndInv, TypeOK, Types, CountsFit, Committed, DataInv
    <3>2. Add(old[c], i[c]) \in Idx /\ n[c] - i[c] \in Nat
      BY <3>1, AddType, Bounds
    <3>3. /\ b \in Seq(S) /\ Len(b) = n[c] - i[c]
          /\ \A j \in 1 .. n[c] - i[c] : b[j] = ring[Slot(Add(Add(old[c], i[c]), j - 1))]
      BY <3>2, SlotsSeq
    <3>4. \A j \in 1 .. n[c] - i[c] : Add(Add(old[c], i[c]), j - 1) = Add(old[c], i[c] + j - 1)
      <4> SUFFICES ASSUME NEW j \in 1 .. n[c] - i[c]
                   PROVE  Add(Add(old[c], i[c]), j - 1) = Add(old[c], i[c] + j - 1)
        OBVIOUS
      <4>1. j - 1 \in Nat /\ i[c] + (j - 1) < M /\ i[c] + (j - 1) = i[c] + j - 1
        BY <3>1, Bounds
      <4> QED BY <3>1, <4>1, AddChain
    <3> HIDE DEF a, b
    <3>5. /\ a \o b \in Seq(S) /\ Len(a \o b) = n[c]
          /\ \A j \in 1 .. n[c] : (a \o b)[j] = IF j <= i[c] THEN a[j] ELSE b[j - i[c]]
      <4>1. /\ a \o b \in Seq(S) /\ Len(a \o b) = Len(a) + Len(b)
            /\ \A j \in 1 .. Len(a) + Len(b) :
                 (a \o b)[j] = IF j <= Len(a) THEN a[j] ELSE b[j - Len(a)]
        BY <3>1, <3>3, ConcatProperties, Zenon
      <4>2. Len(a) + Len(b) = n[c]
        BY <3>1, <3>3
      <4> QED BY <3>1, <4>1, <4>2
    <3>6. ASSUME NEW j \in 1 .. n[c] PROVE (a \o b)[j] = TakenAt(c, j)
      <4>1. CASE j <= i[c]
        BY <3>5, <4>1 DEF TakenAt, a
      <4>2. CASE ~(j <= i[c])
        <5>1. j - i[c] \in 1 .. n[c] - i[c] /\ i[c] + (j - i[c]) - 1 = j - 1
          BY <3>1, <4>2
        <5>2. b[j - i[c]] = ring[Slot(Add(old[c], j - 1))]
          BY <3>3, <3>4, <5>1
        <5> QED BY <3>5, <4>2, <5>2 DEF TakenAt
      <4> QED BY <4>1, <4>2
    <3>7. a \o b = f
      <4>1. DOMAIN (a \o b) = 1 .. n[c] /\ a \o b \in [1 .. n[c] -> S]
        BY <3>5, LenProperties
      <4> QED BY <3>6, <4>1
    <3> QED BY <3>7 DEF a, b
  <2> QED BY <2>1 DEF TakenIs, FifoTaken
<1> QED BY <1>1, <1>2, <1>3

(* The claimed slots are positions between the tail and the head of their  *)
(* side, no two the same: there are at most as many.                       *)
LEMMA WeightBound ==
  ASSUME IndInv, NEW T \in SUBSET Threads, NEW s \in Side, \A t \in T : SideOf(t) = s,
         NEW g, \A t \in T : Len(g[t]) = IF Committed(t) THEN n[t] ELSE 0
  PROVE  Fifo!Weight(g, T) \in Nat /\ Fifo!Weight(g, T) <= Zone(s)
<1> DEFINE P == Fifo!Places(g, T)
           h == [e \in P |-> Offset(e[1]) + e[2]]
<1>1. /\ Zone(s) \in Nat /\ \A t \in T : t \in Threads /\ Offset(t) \in Nat
      /\ \A t \in T : Committed(t) => n[t] \in Nat /\ Offset(t) + n[t] <= Zone(s)
  BY Distances, CountType DEF IndInv, ReservationsTile
<1>2. \A e \in P : e[1] \in T /\ e[2] \in Nat /\ 1 <= e[2] /\ e[2] <= n[e[1]] /\ Committed(e[1])
                   /\ e = <<e[1], e[2]>>
  BY Bounds DEF Fifo!Places
<1>3. h \in [P -> 1 .. Zone(s)]
  BY <1>1, <1>2
<1>4. ASSUME NEW d \in P, NEW e \in P, h[d] = h[e] PROVE d = e
  <2>1. Offset(d[1]) + d[2] = Offset(e[1]) + e[2]
    BY <1>4
  <2>2. d[1] # e[1] =>
          Offset(d[1]) + n[d[1]] <= Offset(e[1]) \/ Offset(e[1]) + n[e[1]] <= Offset(d[1])
    BY <1>1, <1>2 DEF IndInv, ReservationsTile
  <2>3. d[1] = e[1] /\ d[2] = e[2]
    BY <1>1, <1>2, <2>1, <2>2
  <2> QED BY <1>2, <2>3
<1>5. h \in Injection(P, 1 .. Zone(s))
  BY <1>3, <1>4 DEF Injection, IsInjective
<1>6. IsFiniteSet(1 .. Zone(s)) /\ Cardinality(1 .. Zone(s)) = Zone(s)
  BY <1>1, FS_Interval
<1>7. IsFiniteSet(P) /\ Cardinality(P) <= Zone(s)
  BY <1>5, <1>6, FS_Injection
<1>8. Cardinality(P) \in Nat
  BY <1>7, FS_CardinalityType
<1>9. Fifo!Weight(g, T) = Cardinality(P)
  BY DEF Fifo!Weight, Fifo!Places, Fifo!Cardinality, Cardinality
<1> QED BY <1>7, <1>8, <1>9

-----------------------------------------------------------------------------
(* Each step of the ring is a step of the queue or leaves it unchanged.    *)
RefineInv == IndInv /\ DataInv
Mapped == QueueIs /\ ClaimIs /\ TakenIs

LEMMA MappedNext ==
  ASSUME RefineInv, [Next]_vars
  PROVE  RefineInv' /\ Mapped /\ Mapped'
<1>1. IndInv' /\ DataInv'
  BY StepInv, DataStep DEF RefineInv
<1>2. RefineInv => Mapped
  BY Mapping DEF RefineInv, Mapped
<1>3. RefineInv'
  BY <1>1 DEF RefineInv
<1>4. Mapped
  BY <1>2
<1>5. Mapped'
  <2>1. (QueueIs /\ ClaimIs /\ TakenIs)'
    BY <1>1, Mapping, PTL
  <2> QED BY <2>1 DEF Mapped
<1> QED BY <1>3, <1>4, <1>5

(* A step that moves no index and copies nothing leaves the queue alone.   *)
LEMMA QuietMaps ==
  ASSUME RefineInv, Mapped, Mapped', head' = head, tail' = tail, ring' = ring,
         \A t \in Threads :
           /\ Committed(t)' <=> Committed(t)
           /\ Committed(t) => n'[t] = n[t] /\ old'[t] = old[t] /\ i'[t] = i[t] /\ table'[t] = table[t]
  PROVE  UNCHANGED Fifo!fvars
<1>1. FifoQueue' = FifoQueue
  BY DEF Mapped, QueueIs, Queued
<1>2. FifoClaim' = FifoClaim
  BY ThreadSets DEF Mapped, ClaimIs
<1>3. FifoTaken' = FifoTaken
  BY ThreadSets DEF Mapped, TakenIs, TakenAt
<1> QED BY <1>1, <1>2, <1>3 DEF Fifo!fvars

LEMMA ClaimMaps ==
  ASSUME RefineInv, Mapped, Mapped', NEW p \in Producers, MoveHead(p)
  PROVE  \E objs \in Fifo!Tables : Fifo!Claim(p, objs)
<1> DEFINE objs == [j \in 1 .. n[p] |-> table[p][j]]
<1>1. /\ p \in Threads /\ SideOf(p) = "prod" /\ pc[p] = "cas" /\ IndInv
      /\ n[p] \in Nat /\ 0 < n[p]
      /\ n[p] <= Capacity - BeingWritten - Queued - BeingRead
      /\ ring' = ring /\ tail' = tail /\ n' = n /\ table' = table /\ old' = old /\ i' = i
      /\ pc' = [pc EXCEPT ![p] = "copy"]
  BY ThreadSets, HeadMoved, CountType DEF MoveHead, locals, SideOf, RefineInv, TrulyAvailable, IndInv
<1>2. /\ BeingWritten \in Nat /\ Queued \in Nat /\ BeingRead \in Nat /\ Capacity \in Nat
      /\ Zone("prod") = BeingWritten /\ Zone("cons") = BeingRead
  BY <1>1, Distances, Bounds DEF IndInv
<1>3. objs \in [1 .. n[p] -> Objs] /\ Len(objs) = n[p] /\ n[p] \in 1 .. Capacity
  <2>1. table[p] \in [1 .. max[p] -> Objs] /\ n[p] <= max[p] /\ max[p] \in Nat
    BY <1>1 DEF IndInv, TypeOK, Types, TablesFit, CountsFit
  <2>2. objs \in [1 .. n[p] -> Objs]
    BY <1>1, <2>1
  <2>3. Len(objs) = n[p]
    BY <1>1, <2>2, TableLength
  <2> QED BY <1>1, <1>2, <2>2, <2>3
<1>4. /\ ~Committed(p) /\ Committed(p)'
      /\ \A t \in Threads \ {p} : Committed(t)' <=> Committed(t)
  BY <1>1 DEF Committed, IndInv, TypeOK, Types
<1>5. FifoQueue' = FifoQueue
  <2>1. Queued' = Queued /\ head'["cons"] = head["cons"]
    BY <1>1, HeadMoved DEF MoveHead, IndInv, TypeOK, Types, Side
  <2> QED BY <1>1, <2>1 DEF Mapped, QueueIs
<1>6. FifoTaken' = FifoTaken
  BY <1>1, <1>4, ThreadSets DEF Mapped, TakenIs, TakenAt
<1>7. FifoClaim[p] = <<>> /\ FifoClaim' = [FifoClaim EXCEPT ![p] = objs]
  BY <1>1, <1>4, ThreadSets DEF Mapped, ClaimIs
<1>8. Fifo!InUse + Len(objs) <= Capacity
  <2>1. Fifo!Weight(FifoClaim, Producers) \in Nat /\ Fifo!Weight(FifoClaim, Producers) <= Zone("prod")
    <3>1. \A t \in Producers : SideOf(t) = "prod"
      BY DEF SideOf
    <3>2. ASSUME NEW t \in Producers
          PROVE  Len(FifoClaim[t]) = IF Committed(t) THEN n[t] ELSE 0
      <4>1. CASE Committed(t)
        <5>1. n[t] \in Nat
          BY ThreadSets DEF RefineInv, IndInv, TypeOK, Types
        <5>2. FifoClaim[t] = [j \in 1 .. n[t] |-> table[t][j]]
          BY <4>1 DEF Mapped, ClaimIs
        <5> QED BY <4>1, <5>1, <5>2
      <4>2. CASE ~Committed(t)
        BY <4>2 DEF Mapped, ClaimIs
      <4> QED BY <4>1, <4>2
    <3> QED BY <1>1, <3>1, <3>2, ThreadSets, Sides, WeightBound
  <2>2. Fifo!Weight(FifoTaken, Consumers) \in Nat /\ Fifo!Weight(FifoTaken, Consumers) <= Zone("cons")
    <3>1. \A t \in Consumers : SideOf(t) = "cons"
      BY ThreadSets DEF SideOf
    <3>2. ASSUME NEW t \in Consumers
          PROVE  Len(FifoTaken[t]) = IF Committed(t) THEN n[t] ELSE 0
      <4>1. CASE Committed(t)
        <5>1. n[t] \in Nat
          BY ThreadSets DEF RefineInv, IndInv, TypeOK, Types
        <5>2. FifoTaken[t] = [j \in 1 .. n[t] |-> TakenAt(t, j)]
          BY <4>1 DEF Mapped, TakenIs
        <5> QED BY <4>1, <5>1, <5>2
      <4>2. CASE ~Committed(t)
        BY <4>2 DEF Mapped, TakenIs
      <4> QED BY <4>1, <4>2
    <3> QED BY <1>1, <3>1, <3>2, ThreadSets, Sides, WeightBound
  <2>3. Len(FifoQueue) = Queued
    BY <1>2 DEF Mapped, QueueIs
  <2> QED BY <1>1, <1>2, <1>3, <2>1, <2>2, <2>3 DEF Fifo!InUse
<1>9. objs \in Fifo!Tables
  BY <1>3 DEF Fifo!Tables
<1> HIDE DEF objs
<1>10. Fifo!Claim(p, objs)
  BY <1>5, <1>6, <1>7, <1>8 DEF Fifo!Claim
<1> QED BY <1>9, <1>10

LEMMA PublishMaps ==
  ASSUME RefineInv, Mapped, Mapped', NEW p \in Producers, UpdateTail(p)
  PROVE  Fifo!Publish(p)
<1> DEFINE S == Objs \cup {NoObj}
           a == FifoClaim[p]
<1>1. /\ p \in Threads /\ SideOf(p) = "prod" /\ pc[p] = "update" /\ IndInv
      /\ n[p] \in Nat /\ 0 < n[p] /\ i[p] = n[p] /\ Committed(p)
      /\ ring' = ring /\ head' = head /\ old[p] = tail["prod"]
      /\ Queued' = Queued + n[p] /\ Queued \in Nat /\ Queued' <= Capacity
      /\ \A t \in Threads \ {p} : /\ Committed(t)' <=> Committed(t)
                                  /\ n'[t] = n[t] /\ table'[t] = table[t]
                                  /\ old'[t] = old[t] /\ i'[t] = i[t]
      /\ ~Committed(p)'
  <2>1. p \in Threads /\ SideOf(p) = "prod" /\ pc[p] = "update" /\ IndInv /\ Committed(p)
        /\ ring' = ring /\ head' = head /\ Return(p)
    BY ThreadSets DEF UpdateTail, SideOf, RefineInv, Committed
  <2>2. n[p] \in Nat /\ 0 < n[p] /\ i[p] = n[p]
    BY <2>1, CountType DEF IndInv, TypeOK, CountsFit
  <2>3. /\ old[p] = tail["prod"] /\ Queued' = Queued + n[p] /\ Queued \in Nat
        /\ n[p] <= BeingWritten /\ BeingWritten + Queued + BeingRead <= Capacity
        /\ BeingRead \in Nat /\ BeingWritten \in Nat /\ Capacity \in Nat
    BY <2>1, TailMoved, Distances, Bounds DEF IndInv, WindowOrder
  <2>4. \A t \in Threads \ {p} : pc'[t] = pc[t] /\ n'[t] = n[t] /\ table'[t] = table[t]
                                 /\ old'[t] = old[t] /\ i'[t] = i[t]
    BY <2>1 DEF Return, IndInv, TypeOK, Types
  <2>5. pc'[p] = "idle"
    BY <2>1 DEF Return, IndInv, TypeOK, Types
  <2> QED BY <2>1, <2>2, <2>3, <2>4, <2>5 DEF Committed
<1>2. /\ a = [j \in 1 .. n[p] |-> table[p][j]] /\ a \in Seq(S) /\ Len(a) = n[p]
      /\ \A j \in 1 .. n[p] : a[j] = ring[Slot(Add(old[p], j - 1))]
  <2>1. a = [j \in 1 .. n[p] |-> table[p][j]]
    BY <1>1 DEF Mapped, ClaimIs
  <2>2. a \in [1 .. n[p] -> Objs]
    <3>1. table[p] \in [1 .. max[p] -> Objs] /\ n[p] <= max[p] /\ max[p] \in Nat
      BY <1>1 DEF IndInv, TypeOK, Types, TablesFit, CountsFit
    <3> QED BY <1>1, <2>1, <3>1
  <2>3. a \in Seq(S) /\ Len(a) = n[p]
    BY <1>1, <2>2, TableLength
  <2>4. ASSUME NEW j \in 1 .. n[p] PROVE a[j] = ring[Slot(Add(old[p], j - 1))]
    <3>1. j - 1 \in Nat /\ j - 1 < i[p] /\ (j - 1) + 1 = j
      BY <1>1
    <3>2. ring[Slot(Add(old[p], j - 1))] = table[p][(j - 1) + 1]
      BY <1>1, <3>1 DEF RefineInv, DataInv
    <3> QED BY <2>1, <3>1, <3>2
  <2> QED BY <2>1, <2>3, <2>4
<1>3. /\ FifoQueue \in Seq(S) /\ Len(FifoQueue) = Queued
      /\ \A j \in 1 .. Queued : FifoQueue[j] = ring[Slot(Add(head["cons"], j - 1))]
  BY <1>1, IndexTypes, SlotsSeq DEF FifoQueue
<1>4. FifoQueue' = FifoQueue \o a
  <2> DEFINE b == FifoQueue \o a
  <2>1. /\ b \in Seq(S) /\ Len(b) = Queued + n[p]
        /\ \A j \in 1 .. Queued + n[p] : b[j] = IF j <= Queued THEN FifoQueue[j] ELSE a[j - Queued]
    <3> HIDE DEF a, S
    <3>1. a \in Seq(S) /\ FifoQueue \in Seq(S) /\ Len(a) = n[p] /\ Len(FifoQueue) = Queued
      BY <1>2, <1>3
    <3>2. /\ FifoQueue \o a \in Seq(S) /\ Len(FifoQueue \o a) = Len(FifoQueue) + Len(a)
          /\ \A j \in 1 .. Len(FifoQueue) + Len(a) :
               (FifoQueue \o a)[j] = IF j <= Len(FifoQueue) THEN FifoQueue[j] ELSE a[j - Len(FifoQueue)]
      BY <3>1, ConcatProperties, Zenon
    <3> QED BY <3>1, <3>2
  <2>2. DOMAIN b = 1 .. Queued + n[p] /\ b \in [1 .. Queued + n[p] -> S]
    BY <2>1, LenProperties
  <2>3. ASSUME NEW j \in 1 .. Queued + n[p] PROVE b[j] = ring[Slot(Add(head["cons"], j - 1))]
    <3>1. CASE j <= Queued
      <4>1. j \in 1 .. Queued
        BY <1>1, <3>1
      <4> QED BY <1>3, <2>1, <3>1, <4>1
    <3>2. CASE ~(j <= Queued)
      <4>1. j - Queued \in 1 .. n[p] /\ (j - Queued) - 1 \in Nat
            /\ Queued + ((j - Queued) - 1) = j - 1 /\ j - 1 < M
        BY <1>1, <3>2, Bounds
      <4>2. Add(head["cons"], Queued) = tail["prod"]
        BY <1>1, IndexTypes, AddSub DEF Queued
      <4>3. Add(old[p], (j - Queued) - 1) = Add(head["cons"], j - 1)
        BY <1>1, <4>1, <4>2, IndexTypes, AddChain
      <4>4. a[j - Queued] = ring[Slot(Add(old[p], (j - Queued) - 1))]
        <5> HIDE DEF a
        <5> QED BY <1>2, <4>1
      <4> QED BY <2>1, <2>3, <3>2, <4>3, <4>4
    <3> QED BY <3>1, <3>2
  <2>4. FifoQueue' = [j \in 1 .. Queued + n[p] |-> ring[Slot(Add(head["cons"], j - 1))]]
    BY <1>1 DEF Mapped, QueueIs
  <2> HIDE DEF b
  <2>5. FifoQueue' = b
    BY <2>2, <2>3, <2>4
  <2> QED BY <2>5 DEF b
<1>5. a # <<>>
  <2> HIDE DEF a
  <2> QED BY <1>1, <1>2
<1>6. FifoClaim' = [FifoClaim EXCEPT ![p] = <<>>]
  BY <1>1, ThreadSets DEF Mapped, ClaimIs
<1>7. FifoTaken' = FifoTaken
  BY <1>1, ThreadSets DEF Mapped, TakenIs, TakenAt
<1> QED BY <1>4, <1>5, <1>6, <1>7 DEF Fifo!Publish

LEMMA TakeMaps ==
  ASSUME RefineInv, Mapped, Mapped', NEW c \in Consumers, MoveHead(c)
  PROVE  \E k \in 1 .. Len(FifoQueue) : Fifo!Take(c, k)
<1>1. /\ c \in Threads /\ c \notin Producers /\ SideOf(c) = "cons" /\ pc[c] = "cas" /\ IndInv
      /\ n[c] \in Nat /\ 0 < n[c] /\ n[c] <= Queued /\ i[c] = 0
      /\ Queued \in Nat /\ Queued < M /\ Queued' = Queued - n[c]
      /\ ring' = ring /\ tail' = tail /\ n' = n /\ table' = table /\ old' = old /\ i' = i
      /\ pc' = [pc EXCEPT ![c] = "copy"] /\ old[c] = head["cons"]
  BY ThreadSets, HeadMoved, CountType, Distances
     DEF MoveHead, locals, SideOf, RefineInv, TrulyAvailable, IndInv, TypeOK, CountsFit, Committed
<1>2. head'["cons"] = Add(head["cons"], n[c])
  BY <1>1 DEF MoveHead, IndInv, TypeOK, Types, Side
<1>3. /\ ~Committed(c) /\ Committed(c)'
      /\ \A t \in Threads \ {c} : Committed(t)' <=> Committed(t)
  BY <1>1 DEF Committed, IndInv, TypeOK, Types
<1>4. FifoQueue = [j \in 1 .. Queued |-> ring[Slot(Add(head["cons"], j - 1))]] /\ Len(FifoQueue) = Queued
  BY <1>1 DEF Mapped, QueueIs
<1>5. FifoQueue' = SubSeq(FifoQueue, n[c] + 1, Len(FifoQueue))
  <2>1. FifoQueue' = [j \in 1 .. Queued - n[c] |-> ring[Slot(Add(Add(head["cons"], n[c]), j - 1))]]
    BY <1>1, <1>2 DEF Mapped, QueueIs
  <2>2. ASSUME NEW j \in 1 .. Queued - n[c]
        PROVE  /\ Add(Add(head["cons"], n[c]), j - 1) = Add(head["cons"], (j + n[c]) - 1)
               /\ j + n[c] \in 1 .. Queued
    <3>1. j - 1 \in Nat /\ n[c] + (j - 1) < M /\ n[c] + (j - 1) = (j + n[c]) - 1 /\ j + n[c] \in 1 .. Queued
      BY <1>1, Bounds
    <3>2. Add(Add(head["cons"], n[c]), j - 1) = Add(head["cons"], n[c] + (j - 1))
      BY <1>1, <3>1, IndexTypes, AddChain
    <3> QED BY <3>1, <3>2
  <2>3. FifoQueue' = [j \in 1 .. Queued - n[c] |-> FifoQueue[j + n[c]]]
    BY <1>4, <2>1, <2>2
  <2>4. SubSeq(FifoQueue, n[c] + 1, Queued) = [j \in 1 .. Queued - n[c] |-> FifoQueue[j + n[c]]]
    BY <1>1, SMTT(30)
  <2> QED BY <1>4, <2>3, <2>4
<1>6. FifoTaken[c] = <<>> /\ FifoTaken' = [FifoTaken EXCEPT ![c] = SubSeq(FifoQueue, 1, n[c])]
  <2>1. [j \in 1 .. n[c] |-> TakenAt(c, j)'] = SubSeq(FifoQueue, 1, n[c])
    <3>1. \A j \in 1 .. n[c] : TakenAt(c, j)' = FifoQueue[j]
      BY <1>1, <1>4 DEF TakenAt
    <3>2. SubSeq(FifoQueue, 1, n[c]) = [j \in 1 .. n[c] |-> FifoQueue[j]]
      BY <1>1
    <3> QED BY <3>1, <3>2
  <2>2. FifoTaken'[c] = SubSeq(FifoQueue, 1, n[c])
    BY <1>1, <1>3, <2>1 DEF Mapped, TakenIs
  <2>3. \A d \in Consumers \ {c} : FifoTaken'[d] = FifoTaken[d]
    BY <1>1, <1>3, ThreadSets DEF Mapped, TakenIs, TakenAt
  <2>4. DOMAIN FifoTaken' = Consumers /\ DOMAIN FifoTaken = Consumers /\ FifoTaken[c] = <<>>
    BY <1>3 DEF Mapped, TakenIs
  <2>5. /\ FifoTaken' = [d \in Consumers |-> FifoTaken'[d]]
        /\ FifoTaken = [d \in Consumers |-> FifoTaken[d]]
    BY <2>4 DEF FifoTaken
  <2> QED BY <2>2, <2>3, <2>4, <2>5
<1>7. FifoClaim' = FifoClaim
  BY <1>1, <1>3, ThreadSets DEF Mapped, ClaimIs
<1>8. n[c] \in 1 .. Len(FifoQueue)
  BY <1>1, <1>4
<1>9. Fifo!Take(c, n[c])
  BY <1>5, <1>6, <1>7 DEF Fifo!Take
<1> QED BY <1>8, <1>9

LEMMA ReleaseMaps ==
  ASSUME RefineInv, Mapped, Mapped', NEW c \in Consumers, UpdateTail(c)
  PROVE  Fifo!Release(c)
<1>1. /\ c \in Threads /\ SideOf(c) = "cons" /\ pc[c] = "update" /\ IndInv /\ Committed(c)
      /\ ring' = ring /\ head' = head /\ Return(c) /\ Queued' = Queued
      /\ n[c] \in Nat /\ 0 < n[c]
  BY ThreadSets, TailMoved, CountType DEF UpdateTail, SideOf, RefineInv, Committed, IndInv
<1>2. /\ \A t \in Threads \ {c} : /\ Committed(t)' <=> Committed(t)
                                  /\ n'[t] = n[t] /\ table'[t] = table[t]
                                  /\ old'[t] = old[t] /\ i'[t] = i[t]
      /\ ~Committed(c)'
  BY <1>1 DEF Return, IndInv, TypeOK, Types, Committed
<1>3. FifoQueue' = FifoQueue
  BY <1>1 DEF Mapped, QueueIs
<1>4. FifoClaim' = FifoClaim
  BY <1>1, <1>2, ThreadSets DEF Mapped, ClaimIs
<1>5. FifoTaken' = [FifoTaken EXCEPT ![c] = <<>>]
  BY <1>1, <1>2, ThreadSets DEF Mapped, TakenIs, TakenAt
<1>6. FifoTaken[c] # <<>>
  <2>1. FifoTaken[c] = [j \in 1 .. n[c] |-> TakenAt(c, j)]
    BY <1>1 DEF Mapped, TakenIs
  <2>2. 1 \in DOMAIN FifoTaken[c]
    BY <1>1, <2>1
  <2> QED BY <2>2
<1> QED BY <1>3, <1>4, <1>5, <1>6 DEF Fifo!Release

LEMMA CopyMaps ==
  ASSUME RefineInv, Mapped, Mapped', NEW t \in Threads, CopyPtr(t)
  PROVE  UNCHANGED Fifo!fvars
<1> DEFINE idx == Slot(Add(old[t], i[t]))
<1>1. /\ IndInv /\ i[t] \in Nat /\ n[t] \in Nat /\ i[t] < n[t] /\ Committed(t)
      /\ i' = [i EXCEPT ![t] = i[t] + 1] /\ old' = old /\ n' = n /\ head' = head /\ tail' = tail
      /\ \A u \in Threads : Committed(u)' <=> Committed(u)
      /\ i \in [Threads -> Nat] /\ ring \in [0 .. Size - 1 -> Objs \cup {NoObj}]
      /\ table \in [Threads -> Seq(Objs \cup {NoObj})] /\ head["cons"] \in Idx
  BY Sides DEF CopyPtr, RefineInv, IndInv, TypeOK, Types, CountsFit, Committed
<1>2. \A u \in Threads, j \in Nat : old[u] \in Idx /\ Slot(Add(old[u], j)) \in 0 .. Size - 1
  BY SlotType DEF RefineInv, IndInv, TypeOK, Types
<1>3. \A j \in Nat : Slot(Add(head["cons"], j)) \in 0 .. Size - 1
  BY <1>1, SlotType
<1>4. Queued' = Queued /\ Queued \in Nat
  BY <1>1, Distances DEF Queued, IndInv
<1>5. CASE t \in Producers
  <2>1. ring' = [ring EXCEPT ![idx] = table[t][i[t] + 1]] /\ table' = table
    BY <1>5, ThreadSets DEF CopyPtr
  <2>2. /\ \A j \in Nat : j < Queued => Slot(Add(head["cons"], j)) # idx
        /\ \A u \in Threads, j \in Nat :
             Committed(u) /\ j < n[u] /\ u # t => Slot(Add(old[u], j)) # idx
    BY <1>1, <1>5, WriteElsewhere
  <2> HIDE DEF idx
  <2>3. FifoQueue' = FifoQueue
    <3>1. \A j \in 1 .. Queued :
            ring'[Slot(Add(head["cons"], j - 1))] = ring[Slot(Add(head["cons"], j - 1))]
      <4> SUFFICES ASSUME NEW j \in 1 .. Queued
                   PROVE  ring'[Slot(Add(head["cons"], j - 1))] = ring[Slot(Add(head["cons"], j - 1))]
        OBVIOUS
      <4>1. j - 1 \in Nat /\ j - 1 < Queued
        BY <1>4
      <4> QED BY <1>1, <1>3, <2>1, <2>2, <4>1
    <3> QED BY <1>1, <1>4, <3>1 DEF Mapped, QueueIs
  <2>4. FifoClaim' = FifoClaim
    BY <1>1, <2>1, ThreadSets DEF Mapped, ClaimIs
  <2>5. FifoTaken' = FifoTaken
    <3>1. ASSUME NEW c \in Consumers, Committed(c), NEW j \in 1 .. n[c]
          PROVE  TakenAt(c, j)' = TakenAt(c, j)
      <4>1. c \in Threads /\ c # t /\ i'[c] = i[c] /\ n[c] \in Nat
        BY <1>1, <1>5, ThreadSets DEF IndInv, TypeOK, Types
      <4>2. j - 1 \in Nat /\ j - 1 < n[c]
        BY <4>1
      <4>3. ring'[Slot(Add(old[c], j - 1))] = ring[Slot(Add(old[c], j - 1))]
        BY <1>1, <1>2, <2>1, <2>2, <3>1, <4>1, <4>2
      <4> QED BY <1>1, <2>1, <4>1, <4>3 DEF TakenAt
    <3> QED BY <1>1, <3>1, ThreadSets DEF Mapped, TakenIs
  <2> QED BY <2>3, <2>4, <2>5 DEF Fifo!fvars
<1>6. CASE t \notin Producers
  <2>1. table' = [table EXCEPT ![t] = Append(table[t], ring[idx])] /\ ring' = ring /\ t \in Consumers
    BY <1>6, ThreadSets DEF CopyPtr
  <2>2. FifoQueue' = FifoQueue
    BY <1>1, <1>4, <2>1 DEF Mapped, QueueIs
  <2>3. FifoClaim' = FifoClaim
    BY <1>1, <1>6, <2>1, ThreadSets DEF Mapped, ClaimIs
  <2>4. \A j \in 1 .. n[t] : TakenAt(t, j)' = TakenAt(t, j)
    <3>1. /\ Len(table[t]) = i[t] /\ ring[idx] \in Objs \cup {NoObj}
          /\ table[t] \in Seq(Objs \cup {NoObj})
      BY <1>1, <1>2, <2>1 DEF RefineInv, DataInv
    <3>2. /\ \A j \in 1 .. i[t] : table'[t][j] = table[t][j]
          /\ table'[t][i[t] + 1] = ring[idx] /\ i'[t] = i[t] + 1
      <4> HIDE DEF idx
      <4>1. table'[t] = Append(table[t], ring[idx]) /\ i'[t] = i[t] + 1
        BY <1>1, <2>1
      <4> QED BY <3>1, <4>1, AppendProperties
    <3> SUFFICES ASSUME NEW j \in 1 .. n[t] PROVE TakenAt(t, j)' = TakenAt(t, j)
      OBVIOUS
    <3>3. CASE j <= i[t]
      <4>1. j \in 1 .. i[t] /\ j <= i[t] + 1
        BY <1>1, <3>3
      <4> QED BY <3>2, <3>3, <4>1 DEF TakenAt
    <3>4. CASE j = i[t] + 1
      <4>1. j - 1 = i[t] /\ ~(j <= i[t]) /\ j <= i[t] + 1
        BY <1>1, <3>4
      <4> QED BY <3>2, <3>4, <4>1 DEF TakenAt
    <3>5. CASE j > i[t] + 1
      <4>1. ~(j <= i[t]) /\ ~(j <= i[t] + 1)
        BY <1>1, <3>5
      <4> QED BY <1>1, <2>1, <3>2, <4>1 DEF TakenAt
    <3> QED BY <1>1, <3>3, <3>4, <3>5
  <2>5. \A c \in Consumers \ {t} : \A j \in 1 .. n[c] : TakenAt(c, j)' = TakenAt(c, j)
    BY <1>1, <2>1, ThreadSets DEF TakenAt
  <2>6. FifoTaken' = FifoTaken
    BY <1>1, <2>4, <2>5, ThreadSets DEF Mapped, TakenIs
  <2> QED BY <2>2, <2>3, <2>6 DEF Fifo!fvars
<1> QED BY <1>5, <1>6

LEMMA InitMaps == Init => Fifo!Init
<1> SUFFICES ASSUME Init PROVE Fifo!Init
  OBVIOUS
<1>1. IndInv /\ DataInv
  BY InitInv, DataInit
<1>2. Mapped
  BY <1>1, Mapping DEF Mapped
<1>3. Queued = 0 /\ \A t \in Threads : ~Committed(t)
  BY Bounds DEF Init, Queued, Sub, Side, Committed
<1>4. FifoQueue = <<>>
  BY <1>2, <1>3 DEF Mapped, QueueIs
<1>5. FifoClaim = [p \in Producers |-> <<>>] /\ FifoTaken = [c \in Consumers |-> <<>>]
  BY <1>2, <1>3, ThreadSets DEF Mapped, ClaimIs, TakenIs
<1> QED BY <1>4, <1>5 DEF Fifo!Init

LEMMA StepMaps ==
  ASSUME RefineInv, [Next]_vars
  PROVE  [Fifo!Next]_Fifo!fvars
<1>0. RefineInv' /\ Mapped /\ Mapped'
  BY MappedNext
<1>1. ASSUME NEW t \in Threads, MoveHead(t) PROVE Fifo!Next
  <2>1. CASE t \in Producers
    BY <1>0, <1>1, <2>1, ClaimMaps DEF Fifo!Next
  <2>2. CASE t \in Consumers
    BY <1>0, <1>1, <2>2, TakeMaps DEF Fifo!Next
  <2> QED BY <2>1, <2>2 DEF Threads
<1>2. ASSUME NEW t \in Threads, UpdateTail(t) PROVE Fifo!Next
  <2>1. CASE t \in Producers
    BY <1>0, <1>2, <2>1, PublishMaps DEF Fifo!Next
  <2>2. CASE t \in Consumers
    BY <1>0, <1>2, <2>2, ReleaseMaps DEF Fifo!Next
  <2> QED BY <2>1, <2>2 DEF Threads
<1>3. ASSUME NEW t \in Threads, CopyPtr(t) PROVE UNCHANGED Fifo!fvars
  BY <1>0, <1>3, CopyMaps
<1>4. CASE ~ \E t \in Threads : MoveHead(t) \/ UpdateTail(t) \/ CopyPtr(t)
  <2>1. TypeOK /\ Types
    BY DEF RefineInv, IndInv, TypeOK
  <2>2. head' = head /\ tail' = tail /\ \A u \in Threads : QuietFor(u)
    BY <1>4, <2>1, QuietStep
  <2>3. ring' = ring
    BY <1>4 DEF Next, Step, vars, CallEnqueue, CallDequeue, LoadHead, LoadTail, RetryHead
  <2>4. \A t \in Threads : Committed(t) => i'[t] = i[t] /\ table'[t] = table[t]
    <3>1. ASSUME NEW p \in Producers, NEW objs \in Tables, NEW b \in Behaviors,
                 CallEnqueue(p, objs, b), NEW t \in Threads, Committed(t)
          PROVE  i'[t] = i[t] /\ table'[t] = table[t]
      BY <2>1, <3>1, ThreadSets DEF CallEnqueue, Committed, Types
    <3>2. ASSUME NEW u \in Threads, LoadTail(u), NEW t \in Threads, Committed(t)
          PROVE  i'[t] = i[t] /\ table'[t] = table[t]
      <4>1. u # t
        BY <3>2 DEF LoadTail, Committed
      <4>2. CASE Return(u)
        BY <2>1, <4>1, <4>2 DEF Return, Types
      <4>3. CASE ~Return(u)
        BY <3>2, <4>3 DEF LoadTail
      <4> QED BY <4>2, <4>3
    <3> QED BY <1>4, <3>1, <3>2 DEF Next, Step, vars, CallDequeue, LoadHead, RetryHead
  <2> QED BY <1>0, <2>2, <2>3, <2>4, QuietMaps DEF QuietFor
<1> QED BY <1>1, <1>2, <1>3, <1>4

(* The ring implements the queue, for any number of producers and          *)
(* consumers, any size, any burst and across the wrap of the indexes:      *)
(* whatever the interleaving of reservations, copies and tail updates,     *)
(* objects come out in the order they went in, each once, a table at a     *)
(* time, and no slot is read before it was written or overwritten before   *)
(* it was read.                                                            *)
THEOREM RingRefinesFifo == Spec => ImplementsFifo
<1>1. Init => RefineInv
  BY InitInv, DataInit DEF RefineInv
<1>2. RefineInv /\ [Next]_vars => RefineInv'
  BY StepInv, DataStep DEF RefineInv
<1>3. RefineInv /\ [Next]_vars => [Fifo!Next]_Fifo!fvars
  BY StepMaps
<1> QED BY InitMaps, <1>1, <1>2, <1>3, PTL DEF Spec, ImplementsFifo, Fifo!Spec
=============================================================================
