----------------------------- MODULE MCRingUse ------------------------------
(***************************************************************************)
(* A ring with a single consumer for TLC: it and one producer are joined   *)
(* by a second producer, who competes with the first for the head and      *)
(* waits for its tail, or by a thread that counts the entries.             *)
(***************************************************************************)
EXTENDS RingCount

CONSTANT Second        \* the second producer
VARIABLE counting      \* the third thread counts

SingleCons == [s \in Side |-> s = "cons"]

MCInit == counting \in BOOLEAN /\ CountInit

Counting(A) == counting /\ A /\ pc'[Second] = "idle" /\ UNCHANGED counting
Competing(A) == ~counting /\ A /\ UNCHANGED <<counting, ovars>>

MCNext == Counting(CountNext) \/ Competing(Next)

MCSpec ==
  /\ MCInit /\ [][MCNext]_<<counting, allvars>>
  /\ \A t \in Threads : WF_<<counting, allvars>>(Competing(Step(t)))
  /\ \A t \in Threads : WF_<<counting, allvars>>(Counting(Step(t) /\ RingStep))
=============================================================================
