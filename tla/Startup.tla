------------------------------ MODULE Startup -------------------------------
(***************************************************************************)
(* rte_eal_init (linuxapp/eal/eal.c, eal_hugepage_info.c): processes that  *)
(* start as primary, secondary or by auto-detection, share the runtime     *)
(* configuration file of their prefix and one hugetlbfs directory, fail,   *)
(* try again, exit and crash.  The kernel (external) keeps a record lock   *)
(* on the configuration and an flock on the directory until the process    *)
(* ends; a mapped huge page file stays locked while it is mapped.          *)
(*                                                                         *)
(* One page size is mounted, one file stands for the pages of a process,   *)
(* and what happens to the pages is the subject of HugePages.              *)
(***************************************************************************)
EXTENDS Naturals, FiniteSets

CONSTANTS
  Procs,
  None,
  PrefixOf,    \* hugefile_prefix of each process
  NoShconf,    \* the processes that run with no_shconf
  NoHuge,      \* ... and with no_hugetlbfs
  MaxCalls     \* BOUND: how often a process calls rte_eal_init

Prefixes == {PrefixOf[p] : p \in Procs}

ASSUME StartupAssumption ==
  /\ MaxCalls \in Nat
  /\ None \notin Procs /\ None \notin Procs \X (0 .. MaxCalls)
  \* without a shared configuration nothing keeps two primaries of a prefix apart
  /\ \A p \in NoShconf, q \in Procs : p # q => PrefixOf[p] # PrefixOf[q]

VARIABLES
  stage,     \* where each process is in its life
  type,      \* process_type of rte_config
  calls,     \* how often it has called rte_eal_init
  run_once,
  cfg_fd,    \* mem_cfg_fd: "none", "open" or "closed" (but not reset)
  cfg,       \* the configuration files: [exists, owner, magic]
  wr_lock,   \* who has the record lock on each
  dirlock,   \* the flock on the huge page directory: <<process, call>> or None
  lockfds,   \* lock_descriptor of hugepage_info[]: "zero", "dir" or "none"
  stdin,     \* descriptor 0 is open
  victims,   \* the files clear_hugedir found unlocked
  files,     \* the huge page files, by prefix
  maps       \* the process has mapped and locked its file

shared == <<cfg, wr_lock, dirlock, files>>
start_vars == <<stage, type, calls, run_once, cfg_fd, cfg, wr_lock, dirlock, lockfds, stdin, victims, files, maps>>

(* hugepage_info[MAX_HUGEPAGE_SIZES] of a new process: static, so zeroed.  *)
NewLockfds == [i \in 1 .. 3 |-> "zero"]

StartInit ==
  /\ stage = [p \in Procs |-> "off"]
  /\ type = [p \in Procs |-> "primary"]
  /\ calls = [p \in Procs |-> 0]
  /\ run_once = [p \in Procs |-> FALSE]
  /\ cfg_fd = [p \in Procs |-> "none"]
  \* there is no file, or one left by another program that set its magic
  /\ cfg \in [Prefixes -> {[exists |-> b, owner |-> None, magic |-> b] : b \in BOOLEAN}]
  /\ \A p \in NoShconf : ~cfg[PrefixOf[p]].exists   \* would make no difference
  /\ wr_lock = [x \in Prefixes |-> None]
  /\ dirlock = None
  /\ lockfds = [p \in Procs |-> NewLockfds]
  /\ stdin = [p \in Procs |-> TRUE]
  /\ victims = [p \in Procs |-> {}]
  /\ files = {}
  /\ maps = [p \in Procs |-> FALSE]

Goto(p, l) == stage' = [stage EXCEPT ![p] = l]

(* The process ends: by rte_exit, rte_panic, a crash or of itself.  Its    *)
(* files stay.                                                             *)
Ends(p) ==
  /\ Goto(p, "dead")
  /\ wr_lock' = [x \in Prefixes |-> IF wr_lock[x] = p THEN None ELSE wr_lock[x]]
  /\ dirlock' = IF dirlock # None /\ dirlock[1] = p THEN None ELSE dirlock
  /\ maps' = [maps EXCEPT ![p] = FALSE]
  /\ UNCHANGED <<type, calls, run_once, cfg_fd, cfg, lockfds, stdin, victims, files>>

Crash(p) == stage[p] \notin {"off", "dead"} /\ Ends(p)

(* A process chooses its type, or asks eal_proc_type_detect.               *)
Begin(p) ==
  /\ stage[p] = "off"
  /\ \/ \E t \in {"primary", "secondary"} : type' = [type EXCEPT ![p] = t] /\ Goto(p, "call")
     \/ UNCHANGED type /\ Goto(p, "detect")
  /\ UNCHANGED <<calls, run_once, cfg_fd, shared, lockfds, stdin, victims, maps>>

(* eal_proc_type_detect: secondary if the file is there and the lock is    *)
(* taken; descriptor and lock are kept.                                    *)
eal_proc_type_detect(p) ==
  LET x == PrefixOf[p]
      got == cfg[x].exists /\ wr_lock[x] = None
  IN /\ stage[p] = "detect"
     /\ cfg_fd' = [cfg_fd EXCEPT ![p] = IF cfg[x].exists THEN "open" ELSE "none"]
     /\ wr_lock' = IF got THEN [wr_lock EXCEPT ![x] = p] ELSE wr_lock
     /\ type' = [type EXCEPT ![p] = IF cfg[x].exists /\ ~got THEN "secondary" ELSE "primary"]
     /\ Goto(p, "call")
     /\ UNCHANGED <<calls, run_once, cfg, dirlock, lockfds, stdin, victims, files, maps>>

AfterConfig(p) == IF p \in NoHuge THEN "log" ELSE "hugeinfo"

(* rte_eal_init: the CPU is not supported, or it has been called already;  *)
(* else rte_config_init.                                                   *)
CallInit(p) ==
  /\ stage[p] = "call"
  /\ calls[p] < MaxCalls
  /\ calls' = [calls EXCEPT ![p] = @ + 1]
  /\ \/ Goto(p, "returned") /\ UNCHANGED run_once
     \/ /\ ~run_once[p]
        /\ run_once' = [run_once EXCEPT ![p] = TRUE]
        /\ Goto(p, IF p \notin NoShconf THEN type[p]
                   ELSE IF type[p] = "primary" THEN AfterConfig(p) ELSE "wait")
  /\ UNCHANGED <<type, cfg_fd, shared, lockfds, stdin, victims, maps>>

(* rte_eal_config_create                                                   *)
OpenConfig(p) ==
  LET x == PrefixOf[p]
  IN /\ stage[p] = "primary"
     /\ cfg' = IF cfg_fd[p] = "none" THEN [cfg EXCEPT ![x].exists = TRUE] ELSE cfg
     /\ cfg_fd' = [cfg_fd EXCEPT ![p] = "open"]
     /\ Goto(p, "lock")
     /\ UNCHANGED <<type, calls, run_once, wr_lock, dirlock, lockfds, stdin, victims, files, maps>>

(* Mutant: the lock is not asked for; the file can be written in any case. *)
LockNothing(p) ==
  /\ stage[p] = "lock"
  /\ Goto(p, "write")
  /\ UNCHANGED <<type, calls, run_once, cfg_fd, shared, lockfds, stdin, victims, maps>>

LockConfig(p) ==
  LET x == PrefixOf[p]
  IN /\ stage[p] = "lock"
     /\ \/ wr_lock[x] \notin {None, p} /\ Ends(p)
        \/ /\ wr_lock[x] \in {None, p}
           /\ wr_lock' = [wr_lock EXCEPT ![x] = p]
           /\ Goto(p, "write")
           /\ UNCHANGED <<type, calls, run_once, cfg_fd, cfg, dirlock, lockfds, stdin, victims, files, maps>>

WriteConfig(p) ==
  /\ stage[p] = "write"
  /\ cfg' = [cfg EXCEPT ![PrefixOf[p]] = [exists |-> TRUE, owner |-> p, magic |-> FALSE]]
  /\ Goto(p, AfterConfig(p))
  /\ UNCHANGED <<type, calls, run_once, cfg_fd, wr_lock, dirlock, lockfds, stdin, victims, files, maps>>

(* rte_eal_config_attach, rte_eal_mcfg_wait_complete and                   *)
(* rte_eal_config_reattach, which closes the file and keeps its number: a  *)
(* later attach cannot map it and panics.                                  *)
AttachConfig(p) ==
  /\ stage[p] = "secondary"
  /\ IF cfg_fd[p] = "open" \/ (cfg_fd[p] = "none" /\ cfg[PrefixOf[p]].exists)
       THEN /\ cfg_fd' = [cfg_fd EXCEPT ![p] = "open"]
            /\ Goto(p, "wait")
            /\ UNCHANGED <<type, calls, run_once, shared, lockfds, stdin, victims, maps>>
       ELSE Ends(p)

(* With no_shconf it is the magic of its own, zeroed configuration.        *)
WaitComplete(p) ==
  /\ stage[p] = "wait"
  /\ p \notin NoShconf /\ cfg[PrefixOf[p]].magic
  /\ cfg_fd' = [cfg_fd EXCEPT ![p] = "closed"]
  /\ Goto(p, "log")
  /\ UNCHANGED <<type, calls, run_once, shared, lockfds, stdin, victims, maps>>

(* eal_hugepage_info_init: the directory is opened and locked; the file    *)
(* descriptor of an earlier call is overwritten, not closed.               *)
LockHugedir(p) ==
  /\ stage[p] = "hugeinfo"
  /\ dirlock = None
  /\ dirlock' = <<p, calls[p]>>
  /\ lockfds' = [lockfds EXCEPT ![p][1] = "dir"]
  /\ Goto(p, "clear")
  /\ UNCHANGED <<type, calls, run_once, cfg_fd, cfg, wr_lock, stdin, victims, files, maps>>

(* ... or no directory is locked: the sizes cannot be listed or none is    *)
(* mounted, the directory cannot be opened, or flock fails.                *)
HugedirFails(p) ==
  /\ stage[p] = "hugeinfo"
  /\ \E fd \in {lockfds[p][1], "none", "dir"} : lockfds' = [lockfds EXCEPT ![p][1] = fd]
  /\ run_once' = [run_once EXCEPT ![p] = FALSE]
  /\ Goto(p, "returned")
  /\ UNCHANGED <<type, calls, cfg_fd, shared, stdin, victims, maps>>

(* Mutant: files in use are not told from others.                          *)
InUseNever(x) == FALSE

(* flock(LOCK_EX) fails: some process has the file mapped.                 *)
InUse(x) == \E q \in Procs : maps[q] /\ PrefixOf[q] = x

(* clear_hugedir: the files are tested, then unlinked.                     *)
TestFiles(p) ==
  /\ stage[p] = "clear"
  /\ victims' = [victims EXCEPT ![p] = {x \in files : ~InUse(x)}]
  /\ Goto(p, "unlink")
  /\ UNCHANGED <<type, calls, run_once, cfg_fd, shared, lockfds, stdin, maps>>

UnlinkFiles(p) ==
  /\ stage[p] = "unlink"
  /\ files' = files \ victims[p]
  /\ victims' = [victims EXCEPT ![p] = {}]
  /\ Goto(p, "count")
  /\ UNCHANGED <<type, calls, run_once, cfg_fd, cfg, wr_lock, dirlock, lockfds, stdin, maps>>

(* An error before the memory is set up allows for another call.           *)
EarlyError(p) ==
  /\ run_once' = [run_once EXCEPT ![p] = FALSE]
  /\ Goto(p, "returned")
  /\ UNCHANGED <<type, calls, cfg_fd, shared, lockfds, stdin, victims, maps>>

(* No size has a mount point and pages; or the directory cannot be read.   *)
CountHugepages(p) ==
  /\ stage[p] = "count"
  /\ \/ EarlyError(p)
     \/ /\ Goto(p, "log")
        /\ UNCHANGED <<type, calls, run_once, cfg_fd, shared, lockfds, stdin, victims, maps>>

LogInit(p) ==
  /\ stage[p] = "log"
  /\ \/ EarlyError(p)
     \/ /\ Goto(p, IF type[p] = "primary" /\ p \notin NoHuge THEN "memory" ELSE "memory_done")
        /\ UNCHANGED <<type, calls, run_once, cfg_fd, shared, lockfds, stdin, victims, maps>>

(* Mutant: a late error allows for another call, too.                      *)
LateErrorClears(p) == EarlyError(p)

(* Later errors do not.                                                    *)
LateError(p) ==
  /\ Goto(p, "returned")
  /\ UNCHANGED <<type, calls, run_once, cfg_fd, shared, lockfds, stdin, victims, maps>>

(* map_all_hugepages: the file is created, then mapped and locked, unless  *)
(* that fails; a page that is mapped stays so when a later step fails.     *)
CreateFile(p) ==
  /\ stage[p] = "memory"
  /\ files' = files \cup {PrefixOf[p]}
  /\ Goto(p, "map")
  /\ UNCHANGED <<type, calls, run_once, cfg_fd, cfg, wr_lock, dirlock, lockfds, stdin, victims, maps>>

MapFile(p) ==
  /\ stage[p] = "map"
  /\ \/ LateError(p)
     \/ /\ maps' = [maps EXCEPT ![p] = TRUE]
        /\ Goto(p, "memory_done")
        /\ UNCHANGED <<type, calls, run_once, cfg_fd, shared, lockfds, stdin, victims>>

(* rte_eal_memory_init fails or returns.                                   *)
MemoryInit(p) ==
  /\ stage[p] = "memory_done"
  /\ \/ LateError(p)
     \/ /\ Goto(p, "unlock")
        /\ UNCHANGED <<type, calls, run_once, cfg_fd, shared, lockfds, stdin, victims, maps>>

(* Mutant: the lock stays with the process that started.                   *)
UnlockNothing(p) ==
  /\ stage[p] = "unlock"
  /\ Goto(p, "finish")
  /\ UNCHANGED <<type, calls, run_once, cfg_fd, shared, lockfds, stdin, victims, maps>>

(* eal_hugedirs_unlock: every descriptor that is not negative is unlocked  *)
(* and closed.  That of an earlier call is in no entry any more.           *)
UnlockHugedirs(p) ==
  /\ stage[p] = "unlock"
  /\ dirlock' = IF dirlock = <<p, calls[p]>> THEN None ELSE dirlock
  /\ stdin' = [stdin EXCEPT ![p] = @ /\ \A i \in 1 .. 3 : lockfds[p][i] # "zero"]
  /\ lockfds' = [lockfds EXCEPT ![p] = [i \in 1 .. 3 |-> "none"]]
  /\ Goto(p, "finish")
  /\ UNCHANGED <<type, calls, run_once, cfg_fd, cfg, wr_lock, victims, files, maps>>

(* rte_eal_memzone_init, rte_eal_tailqs_init, rte_eal_timer_init and       *)
(* eal_thread_init_master; nothing sets the magic.                         *)
Finish(p) ==
  /\ stage[p] = "finish"
  /\ \/ LateError(p)
     \/ /\ Goto(p, "running")
        /\ UNCHANGED <<type, calls, run_once, cfg_fd, shared, lockfds, stdin, victims, maps>>

(* The application calls rte_eal_init again.                               *)
Retry(p) ==
  /\ stage[p] \in {"returned", "running"}
  /\ Goto(p, "call")
  /\ calls[p] < MaxCalls
  /\ UNCHANGED <<type, calls, run_once, cfg_fd, shared, lockfds, stdin, victims, maps>>

StartStep(p) ==
  \/ eal_proc_type_detect(p) \/ CallInit(p)
  \/ OpenConfig(p) \/ LockConfig(p) \/ WriteConfig(p)
  \/ AttachConfig(p) \/ WaitComplete(p)
  \/ LockHugedir(p) \/ TestFiles(p) \/ UnlinkFiles(p) \/ CountHugepages(p)
  \/ LogInit(p) \/ CreateFile(p) \/ MapFile(p) \/ MemoryInit(p)
  \/ UnlockHugedirs(p) \/ Finish(p)

StartNext ==
  \E p \in Procs : StartStep(p) \/ HugedirFails(p) \/ Begin(p) \/ Retry(p) \/ Crash(p)

(* A call that has begun goes on; nobody has to fail to lock a directory,  *)
(* to start, retry or end.                                                 *)
StartSpec == StartInit /\ [][StartNext]_start_vars /\ \A p \in Procs : WF_start_vars(StartStep(p))

-----------------------------------------------------------------------------
Initialised(p) ==
  type[p] = "primary" /\ stage[p] \in {"hugeinfo", "clear", "unlink", "count", "log",
                                    "memory", "map", "memory_done", "unlock", "finish", "running"}

(* The configuration a primary has written is its own as long as it lives: *)
(* no other process that takes itself for a primary, however the detection *)
(* raced with the creation of the file, writes it.                         *)
ConfigIntact ==
  \A p \in Procs \ NoShconf :
    Initialised(p) => cfg[PrefixOf[p]].owner = p /\ wr_lock[PrefixOf[p]] = p

(* The file of a process's huge pages is not taken away by another one     *)
(* that clears the directory, not even between its creation and its lock.  *)
FileKept == \A p \in Procs : maps[p] \/ stage[p] = "map" => PrefixOf[p] \in files

(* The memory of a process is set up once, however often rte_eal_init is   *)
(* called and wherever it failed before.                                   *)
MemoryOnce == \A p \in Procs : stage[p] = "memory" => ~maps[p]

(* Who waits for the directory gets it, unless the lock was left behind by *)
(* a call that failed in a process that goes on.                           *)
LeftBehind ==
  dirlock # None /\ (stage[dirlock[1]] = "returned" \/ calls[dirlock[1]] > dirlock[2]
                     \/ stage[dirlock[1]] = "call")
HugedirGranted == \A p \in Procs : ~<>[](stage[p] = "hugeinfo" /\ ~LeftBehind)

(* "wait until shared mem_config finish initialising": a secondary does    *)
(* not wait for ever while a primary of its prefix is up and running.      *)
SecondaryAttaches ==
  \A p, q \in Procs : ~<>[](/\ stage[p] = "wait" /\ stage[q] = "running"
                            /\ type[q] = "primary" /\ PrefixOf[p] = PrefixOf[q])

(* "skip uninitialized": unlocking the directories closes no descriptor    *)
(* but theirs.                                                             *)
OthersLeftOpen == \A p \in Procs : stdin[p]
=============================================================================
