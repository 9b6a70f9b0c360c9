------------------------------- MODULE Launch -------------------------------
(***************************************************************************)
(* rte_eal_remote_launch and eal_thread_loop (linuxapp/eal/eal_thread.c):  *)
(* the master hands functions to slave lcores through lcore_config[] and   *)
(* two pipes.  rte_eal_wait_lcore is not in the repository (external): it  *)
(* waits for WAIT or FINISHED, takes the result and sets WAIT.             *)
(*                                                                         *)
(* A function and its argument are the number of the launch; what it       *)
(* returns is that number.  read and write that EINTR interrupts are       *)
(* called again: this changes nothing.                                     *)
(***************************************************************************)
EXTENDS Integers

CONSTANTS
  Slaves,
  Service,    \* the slaves with ROLE_SERVICE
  MaxJobs     \* BOUND: launches on each slave
ASSUME LaunchAssumption == Service \subseteq Slaves /\ MaxJobs \in Nat

VARIABLES
  state,     \* lcore_config[].state
  f,         \* lcore_config[].f and .arg
  ret,       \* lcore_config[].ret
  m2s, s2m,  \* the bytes in each pipe
  slave_pc,
  master_pc, \* "free", or the slave and the place in the call
  jobs,      \* history: launches accepted by each slave
  done,      \* history: functions that each slave has run
  got        \* what the last rte_eal_wait_lcore returned for each slave

launch_vars == <<state, f, ret, m2s, s2m, slave_pc, master_pc, jobs, done, got>>

Free == <<"free", 0>>

LaunchInit ==
  /\ state = [s \in Slaves |-> "WAIT"]
  /\ f = [s \in Slaves |-> 0] /\ ret = [s \in Slaves |-> 0]
  /\ m2s = [s \in Slaves |-> 0] /\ s2m = [s \in Slaves |-> 0]
  /\ slave_pc = [s \in Slaves |-> "read"]
  /\ master_pc = Free
  /\ jobs = [s \in Slaves |-> 0] /\ done = [s \in Slaves |-> 0] /\ got = [s \in Slaves |-> 0]

slave == <<state, ret, s2m, slave_pc, done>>

(* rte_eal_remote_launch, whose first test may return -EBUSY.              *)
RemoteLaunch(s) ==
  /\ master_pc = Free
  /\ state[s] = "WAIT"
  /\ jobs[s] < MaxJobs
  /\ master_pc' = <<"set", s>>
  /\ UNCHANGED <<state, f, ret, m2s, s2m, slave_pc, jobs, done, got>>

SetFunction(s) ==
  /\ master_pc = <<"set", s>>
  /\ jobs' = [jobs EXCEPT ![s] = @ + 1]
  /\ f' = [f EXCEPT ![s] = jobs[s] + 1]
  /\ m2s' = [m2s EXCEPT ![s] = @ + 1]
  /\ master_pc' = <<"ack", s>>
  /\ UNCHANGED <<slave, got>>

(* Mutant: the launch does not wait for the slave.                         *)
NoAck(s) ==
  /\ master_pc = <<"ack", s>>
  /\ master_pc' = Free
  /\ UNCHANGED <<slave, f, m2s, jobs, got>>

WaitAck(s) ==
  /\ master_pc = <<"ack", s>>
  /\ s2m[s] > 0
  /\ s2m' = [s2m EXCEPT ![s] = @ - 1]
  /\ master_pc' = Free
  /\ UNCHANGED <<state, f, ret, m2s, slave_pc, jobs, done, got>>

(* rte_eal_wait_lcore (external)                                           *)
WaitLcore(s) ==
  /\ master_pc = Free
  /\ state[s] \in {"WAIT", "FINISHED"}
  /\ got' = [got EXCEPT ![s] = IF state[s] = "FINISHED" THEN ret[s] ELSE 0]
  /\ state' = [state EXCEPT ![s] = "WAIT"]
  /\ UNCHANGED <<f, ret, m2s, s2m, slave_pc, master_pc, jobs, done>>

(* eal_thread_loop                                                         *)
ReadCommand(s) ==
  /\ slave_pc[s] = "read"
  /\ m2s[s] > 0
  /\ m2s' = [m2s EXCEPT ![s] = @ - 1]
  /\ slave_pc' = [slave_pc EXCEPT ![s] = "running"]
  /\ UNCHANGED <<state, f, ret, s2m, master_pc, jobs, done, got>>

SetRunning(s) ==
  /\ slave_pc[s] = "running"
  /\ state' = [state EXCEPT ![s] = "RUNNING"]
  /\ slave_pc' = [slave_pc EXCEPT ![s] = "ack"]
  /\ UNCHANGED <<f, ret, m2s, s2m, master_pc, jobs, done, got>>

SendAck(s) ==
  /\ slave_pc[s] = "ack"
  /\ s2m' = [s2m EXCEPT ![s] = @ + 1]
  /\ slave_pc' = [slave_pc EXCEPT ![s] = "call"]
  /\ UNCHANGED <<state, f, ret, m2s, master_pc, jobs, done, got>>

(* f and arg are read only now; f returns and the result is stored.        *)
RunFunction(s) ==
  /\ slave_pc[s] = "call"
  /\ ret' = [ret EXCEPT ![s] = f[s]]
  /\ done' = [done EXCEPT ![s] = @ + 1]
  /\ slave_pc' = [slave_pc EXCEPT ![s] = "finish"]
  /\ UNCHANGED <<state, f, m2s, s2m, master_pc, jobs, got>>

(* Mutant: a service lcore finishes as any other.                          *)
FinalStateOfAny(s) == "FINISHED"

(* A service lcore goes straight to WAIT.                                  *)
FinalState(s) == IF s \in Service THEN "WAIT" ELSE "FINISHED"

FinishFunction(s) ==
  /\ slave_pc[s] = "finish"
  /\ state' = [state EXCEPT ![s] = FinalState(s)]
  /\ slave_pc' = [slave_pc EXCEPT ![s] = "read"]
  /\ UNCHANGED <<f, ret, m2s, s2m, master_pc, jobs, done, got>>

SlaveStep(s) ==
  ReadCommand(s) \/ SetRunning(s) \/ SendAck(s) \/ RunFunction(s) \/ FinishFunction(s)
MasterStep(s) == SetFunction(s) \/ WaitAck(s)

LaunchNext ==
  \E s \in Slaves : SlaveStep(s) \/ MasterStep(s) \/ RemoteLaunch(s) \/ WaitLcore(s)

LaunchSpec == LaunchInit /\ [][LaunchNext]_launch_vars

-----------------------------------------------------------------------------
(* Every launch that is accepted is run once, with its own function and    *)
(* argument: f and arg are never overwritten before the slave has read     *)
(* them, also when a service lcore says WAIT before it reads its pipe.     *)
EachRunOnce ==
  \A s \in Slaves :
    /\ done[s] \in jobs[s] - 1 .. jobs[s]
    /\ slave_pc[s] \in {"ack", "call"} => f[s] = done[s] + 1
    /\ slave_pc[s] = "finish" => ret[s] = done[s]

(* Once rte_eal_remote_launch has returned, the state is WAIT or FINISHED  *)
(* only when the function has run: rte_eal_wait_lcore then takes the       *)
(* result of that launch, never an earlier one.                            *)
NothingPending ==
  \A s \in Slaves :
    master_pc = Free /\ state[s] \in {"WAIT", "FINISHED"} => done[s] = jobs[s] /\ ret[s] = jobs[s]

(* What is launched comes to an end, and a service lcore then takes the    *)
(* next launch although nobody waits for it.                               *)
LaunchEnds ==
  \A s \in Slaves :
    []<>(master_pc[2] # s /\ state[s] # "RUNNING" /\ (s \in Service => state[s] = "WAIT"))

(* A launch is run once, with what was launched, and its own result is     *)
(* what rte_eal_wait_lcore finds (rte_eal_remote_launch, eal_thread_loop). *)
LaunchSound == EachRunOnce /\ NothingPending
=============================================================================
