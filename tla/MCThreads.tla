----------------------------- MODULE MCThreads ------------------------------
(***************************************************************************)
(* What threads and processes do to each other, for TLC: a behaviour is    *)
(* one of RwLock, Spinlock, Elision, Launch, Tailqs, Mempool or Registry,  *)
(* chosen at the start; the variables of the others keep their initial     *)
(* values.                                                                 *)
(***************************************************************************)
EXTENDS RwLock, Spinlock, Elision, Launch, Tailqs, Mempool, Registry

CONSTANT n1
CutToN1 == [n \in LongNames |-> n1]

VARIABLE part
locks == <<vars, spin_vars, tm_vars>>
parts == <<part, locks, launch_vars, tq_vars, pool_vars, reg_vars>>

(* The initial state of a part that stands still.                          *)
FirstQueue == CHOOSE s \in [1 .. Cardinality(Objects) -> Objects] : Elems(s) = Objects

MCInit ==
  /\ part \in {"rwlock", "spinlock", "elision", "launch", "tailqs", "mempool", "registry"}
  /\ Init /\ SpinInit /\ TmInit /\ LaunchInit /\ TqInit /\ PoolInit /\ RegInit
  /\ part # "elision" => rtm = FALSE
  /\ part # "mempool" => queue = FirstQueue

OfRwLock(A) == part = "rwlock" /\ A /\ UNCHANGED <<part, spin_vars, tm_vars, launch_vars, tq_vars, pool_vars, reg_vars>>
OfSpinlock(A) == part = "spinlock" /\ A /\ UNCHANGED <<part, vars, tm_vars, launch_vars, tq_vars, pool_vars, reg_vars>>
OfElision(A) == part = "elision" /\ A /\ UNCHANGED <<part, vars, spin_vars, launch_vars, tq_vars, pool_vars, reg_vars>>
OfLaunch(A) == part = "launch" /\ A /\ UNCHANGED <<part, locks, tq_vars, pool_vars, reg_vars>>
OfTailqs(A) == part = "tailqs" /\ A /\ UNCHANGED <<part, locks, launch_vars, pool_vars, reg_vars>>
OfMempool(A) == part = "mempool" /\ A /\ UNCHANGED <<part, locks, launch_vars, tq_vars, reg_vars>>
OfRegistry(A) == part = "registry" /\ A /\ UNCHANGED <<part, locks, launch_vars, tq_vars, pool_vars>>

MCNext ==
  \/ OfRwLock(Next) \/ OfSpinlock(SpinNext) \/ OfElision(TmNext)
  \/ OfLaunch(LaunchNext) \/ OfTailqs(TqNext)
  \/ OfTailqs(UNCHANGED tq_vars)   \* all names may be registered
  \/ OfMempool(PoolNext) \/ OfRegistry(RegNext)

(* The fairness of each module.                                            *)
MCSpec ==
  /\ MCInit /\ [][MCNext]_parts
  /\ \A t \in Threads : WF_parts(OfRwLock(Step(t)))
  /\ \A t \in Tids : WF_parts(OfSpinlock(SpinStep(t))) /\ WF_parts(OfSpinlock(CallUnlock(t)))
  /\ \A t \in TmThreads : WF_parts(OfElision(TmStep(t)))
  /\ \A s \in Slaves : WF_parts(OfLaunch(SlaveStep(s))) /\ WF_parts(OfLaunch(MasterStep(s)))
  /\ \A t \in Callers : WF_parts(OfRegistry(RegStep(t)))
=============================================================================
