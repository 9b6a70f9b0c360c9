------------------------------- MODULE RwLock -------------------------------
(***************************************************************************)
(* rte_rwlock (generic/rte_rwlock.h): the lock behind mlock, qlock and     *)
(* mplock of struct rte_mem_config, shared by the threads of all           *)
(* processes.  The load of cnt and the compare-and-set are separate steps. *)
(***************************************************************************)
EXTENDS Integers, FiniteSets

CONSTANT Threads
ASSUME ThreadsFinite == IsFiniteSet(Threads)

VARIABLES
  cnt,  \* rwl->cnt: -1 when the write lock is held, the number of readers else
  pc,   \* where each thread is
  x     \* the local of the lock functions

vars == <<cnt, pc, x>>

Locations ==
  {"idle", "rload", "rcas", "reading", "wload", "wcas", "writing"}

(* rte_rwlock_init                                                         *)
Init ==
  /\ cnt = 0
  /\ pc = [t \in Threads |-> "idle"]
  /\ x = [t \in Threads |-> 0]

Call(t) ==
  /\ pc[t] = "idle"
  /\ \E l \in {"rload", "wload"} : pc' = [pc EXCEPT ![t] = l]
  /\ UNCHANGED <<cnt, x>>

(* if (x < 0) ... continue, and if (x != 0) ... continue.                  *)
ReaderMayTry(v) == v >= 0
WriterMayTry(v) == v = 0

(* The turn of the loop that sees a value it can try.  A turn that sees    *)
(* another one pauses and loads again: it changes nothing.                 *)
ReadLoad(t) ==
  /\ pc[t] = "rload"
  /\ ReaderMayTry(cnt)
  /\ x' = [x EXCEPT ![t] = cnt]
  /\ pc' = [pc EXCEPT ![t] = "rcas"]
  /\ UNCHANGED cnt

WriteLoad(t) ==
  /\ pc[t] = "wload"
  /\ WriterMayTry(cnt)
  /\ x' = [x EXCEPT ![t] = cnt]
  /\ pc' = [pc EXCEPT ![t] = "wcas"]
  /\ UNCHANGED cnt

(* Mutant: x + 1 is stored without comparing.                              *)
ReadStore(t) ==
  /\ pc[t] = "rcas"
  /\ cnt' = x[t] + 1
  /\ pc' = [pc EXCEPT ![t] = "reading"]
  /\ UNCHANGED x

(* Mutant: a reader that lost the race does not load cnt again.            *)
ReadCasStale(t) ==
  /\ pc[t] = "rcas"
  /\ cnt = x[t]
  /\ cnt' = x[t] + 1
  /\ pc' = [pc EXCEPT ![t] = "reading"]
  /\ UNCHANGED x

(* rte_atomic32_cmpset(cnt, x, x + 1)                                      *)
ReadCas(t) ==
  /\ pc[t] = "rcas"
  /\ IF cnt = x[t]
       THEN cnt' = x[t] + 1 /\ pc' = [pc EXCEPT ![t] = "reading"]
       ELSE UNCHANGED cnt /\ pc' = [pc EXCEPT ![t] = "rload"]
  /\ UNCHANGED x

(* rte_atomic32_cmpset(cnt, 0, -1)                                         *)
WriteCas(t) ==
  /\ pc[t] = "wcas"
  /\ IF cnt = 0
       THEN cnt' = -1 /\ pc' = [pc EXCEPT ![t] = "writing"]
       ELSE UNCHANGED cnt /\ pc' = [pc EXCEPT ![t] = "wload"]
  /\ UNCHANGED x

ReadUnlock(t) ==
  /\ pc[t] = "reading"
  /\ cnt' = cnt - 1
  /\ pc' = [pc EXCEPT ![t] = "idle"]
  /\ UNCHANGED x

WriteUnlock(t) ==
  /\ pc[t] = "writing"
  /\ cnt' = cnt + 1
  /\ pc' = [pc EXCEPT ![t] = "idle"]
  /\ UNCHANGED x

Step(t) ==
  \/ ReadLoad(t) \/ ReadCas(t) \/ ReadUnlock(t)
  \/ WriteLoad(t) \/ WriteCas(t) \/ WriteUnlock(t)

Next == \E t \in Threads : Call(t) \/ Step(t)

Spec == Init /\ [][Next]_vars

(* Threads run; a critical section ends.  Nobody has to call.              *)
FairSpec == Spec /\ \A t \in Threads : WF_vars(Step(t))

-----------------------------------------------------------------------------
Readers == {t \in Threads : pc[t] = "reading"}
Writers == {t \in Threads : pc[t] = "writing"}

(* The type of the state: cnt never falls below -1.                        *)
TypeOK ==
  /\ cnt \in Int /\ cnt >= -1
  /\ pc \in [Threads -> Locations]
  /\ x \in [Threads -> Nat]

(* A writer is alone: no other writer and no reader (rte_rwlock_write_lock,*)
(* rte_rwlock_read_lock).                                                  *)
Exclusion ==
  \A t \in Writers : Writers = {t} /\ Readers = {}

(* cnt says exactly who holds the lock, whatever the compare-and-sets that *)
(* failed on the way and in whatever order the holders leave; so the lock  *)
(* can be taken again once everybody has left.                             *)
CntIsHolders ==
  cnt = IF Writers # {} THEN -1 ELSE Cardinality(Readers)

(* Somebody gets in: not everybody who asks spins for ever.                *)
Waiting(t) == pc[t] \in {"rload", "rcas", "wload", "wcas"}
SomebodyEnters ==
  \/ []<>(\A t \in Threads : ~Waiting(t))
  \/ []<><<\E t \in Threads : Waiting(t) /\ ~Waiting(t)'>>_vars

IndInv == TypeOK /\ Exclusion /\ CntIsHolders
=============================================================================
