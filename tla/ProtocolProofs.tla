--------------------------- MODULE ProtocolProofs ---------------------------
(***************************************************************************)
(* Proofs about the locks and the small protocols of shared memory: the    *)
(* reader-writer lock, for any finite set of threads, the recursive        *)
(* spinlock, for any threads and any nesting depth, the launch of          *)
(* functions on lcores, locks elided with hardware transactions, tailqs,   *)
(* and the start-up of the processes that share it.                        *)
(***************************************************************************)
EXTENDS RwLock, Spinlock, Launch, Elision, Tailqs, Startup, FiniteSetTheorems, TLAPS

(* Counting the readers.                                                   *)
LEMMA ReadersFinite ==
  /\ IsFiniteSet(Readers) /\ Cardinality(Readers) \in Nat
  /\ Cardinality(Readers) = 0 => Readers = {}
  /\ Readers = {} => Cardinality(Readers) = 0
BY ThreadsFinite, FS_Subset, FS_CardinalityType, FS_EmptySet DEF Readers

LEMMA RwInitInv == Init => IndInv
<1> SUFFICES ASSUME Init PROVE IndInv
  OBVIOUS
<1>1. Readers = {} /\ Writers = {}
  BY DEF Init, Readers, Writers
<1> QED BY <1>1, ReadersFinite
        DEF Init, IndInv, TypeOK, Exclusion, CntIsHolders, Locations

(* Steps that change neither cnt nor the holders.                          *)
LEMMA SameHolders ==
  ASSUME IndInv, TypeOK', cnt' = cnt, Readers' = Readers, Writers' = Writers
  PROVE  IndInv'
BY DEF IndInv, Exclusion, CntIsHolders

LEMMA RwStepInv == IndInv /\ [Next]_vars => IndInv'
<1> SUFFICES ASSUME IndInv, [Next]_vars PROVE IndInv'
  OBVIOUS
<1> USE DEF Locations
<1>1. ASSUME NEW t \in Threads, Call(t) \/ ReadLoad(t) \/ WriteLoad(t)
      PROVE  IndInv'
  <2>1. TypeOK' /\ cnt' = cnt
    BY <1>1 DEF IndInv, TypeOK, Call, ReadLoad, WriteLoad, ReaderMayTry, WriterMayTry
  <2>2. Readers' = Readers /\ Writers' = Writers
    BY <1>1 DEF IndInv, TypeOK, Call, ReadLoad, WriteLoad, Readers, Writers
  <2> QED BY <2>1, <2>2, SameHolders
<1>2. ASSUME NEW t \in Threads, ReadCas(t)
      PROVE  IndInv'
  <2>1. CASE cnt # x[t]
    <3>1. TypeOK' /\ cnt' = cnt
      BY <1>2, <2>1 DEF IndInv, TypeOK, ReadCas
    <3>2. Readers' = Readers /\ Writers' = Writers
      BY <1>2, <2>1 DEF IndInv, TypeOK, ReadCas, Readers, Writers
    <3> QED BY <3>1, <3>2, SameHolders
  <2>2. CASE cnt = x[t]
    <3>1. /\ cnt' = cnt + 1 /\ x' = x /\ pc' = [pc EXCEPT ![t] = "reading"]
          /\ pc[t] = "rcas" /\ cnt >= 0 /\ cnt \in Int
      BY <1>2, <2>2 DEF IndInv, TypeOK, ReadCas
    <3>2. TypeOK'
      BY <3>1 DEF IndInv, TypeOK
    <3>3. Writers = {} /\ Writers' = {}
      BY <3>1 DEF IndInv, TypeOK, CntIsHolders, Writers
    <3>4. Readers' = Readers \cup {t} /\ t \notin Readers
      BY <3>1 DEF IndInv, TypeOK, Readers
    <3>5. Cardinality(Readers') = Cardinality(Readers) + 1
      BY <3>4, ReadersFinite, FS_AddElement
    <3> QED BY <3>1, <3>2, <3>3, <3>5 DEF IndInv, Exclusion, CntIsHolders
  <2> QED BY <2>1, <2>2
<1>3. ASSUME NEW t \in Threads, WriteCas(t)
      PROVE  IndInv'
  <2>1. CASE cnt # 0
    <3>1. TypeOK' /\ cnt' = cnt
      BY <1>3, <2>1 DEF IndInv, TypeOK, WriteCas
    <3>2. Readers' = Readers /\ Writers' = Writers
      BY <1>3, <2>1 DEF IndInv, TypeOK, WriteCas, Readers, Writers
    <3> QED BY <3>1, <3>2, SameHolders
  <2>2. CASE cnt = 0
    <3>1. /\ cnt' = -1 /\ x' = x /\ pc' = [pc EXCEPT ![t] = "writing"]
          /\ pc[t] = "wcas"
      BY <1>3, <2>2 DEF WriteCas
    <3>2. TypeOK'
      BY <3>1 DEF IndInv, TypeOK
    <3>3. Writers = {} /\ Readers = {}
      BY <2>2, ReadersFinite DEF IndInv, CntIsHolders
    <3>4. Writers' = {t} /\ Readers' = {}
      BY <3>1, <3>3 DEF IndInv, TypeOK, Writers, Readers
    <3> QED BY <3>1, <3>2, <3>4 DEF IndInv, Exclusion, CntIsHolders
  <2> QED BY <2>1, <2>2
<1>4. ASSUME NEW t \in Threads, ReadUnlock(t)
      PROVE  IndInv'
  <2>1. /\ cnt' = cnt - 1 /\ x' = x /\ pc' = [pc EXCEPT ![t] = "idle"]
        /\ pc[t] = "reading"
    BY <1>4 DEF ReadUnlock
  <2>2. t \in Readers /\ Writers = {}
    BY <2>1 DEF IndInv, Exclusion, Readers, Writers
  <2>3. cnt = Cardinality(Readers)
    BY <2>2 DEF IndInv, CntIsHolders
  <2>4. Readers' = Readers \ {t} /\ Writers' = {}
    BY <2>1, <2>2 DEF IndInv, TypeOK, Readers, Writers
  <2>5. Cardinality(Readers') = Cardinality(Readers) - 1 /\ Cardinality(Readers) > 0
    <3>1. Cardinality(Readers \ {t}) = Cardinality(Readers) - 1
      BY <2>2, ReadersFinite, FS_RemoveElement
    <3>2. Cardinality(Readers) # 0 /\ Cardinality(Readers) \in Nat
      BY <2>2, ReadersFinite
    <3> QED BY <2>4, <3>1, <3>2
  <2>6. TypeOK'
    BY <2>1, <2>3, <2>5, ReadersFinite DEF IndInv, TypeOK
  <2> QED BY <2>1, <2>3, <2>4, <2>5, <2>6 DEF IndInv, Exclusion, CntIsHolders
<1>5. ASSUME NEW t \in Threads, WriteUnlock(t)
      PROVE  IndInv'
  <2>1. /\ cnt' = cnt + 1 /\ x' = x /\ pc' = [pc EXCEPT ![t] = "idle"]
        /\ pc[t] = "writing"
    BY <1>5 DEF WriteUnlock
  <2>2. Writers = {t} /\ Readers = {}
    BY <2>1 DEF IndInv, Exclusion, Writers
  <2>3. cnt = -1
    BY <2>2 DEF IndInv, CntIsHolders
  <2>4. Writers' = {} /\ Readers' = {}
    BY <2>1, <2>2 DEF IndInv, TypeOK, Writers, Readers
  <2>5. TypeOK'
    BY <2>1, <2>3 DEF IndInv, TypeOK
  <2>6. Cardinality({}) = 0
    BY FS_EmptySet
  <2> QED BY <2>1, <2>3, <2>4, <2>5, <2>6 DEF IndInv, Exclusion, CntIsHolders
<1>6. CASE UNCHANGED vars
  BY <1>6 DEF vars, IndInv, TypeOK, Exclusion, CntIsHolders, Readers, Writers
<1> QED BY <1>1, <1>2, <1>3, <1>4, <1>5, <1>6 DEF Next, Step

(* The inductive invariant holds of every run.                             *)
THEOREM RwInvariance == Spec => []IndInv
BY RwInitInv, RwStepInv, PTL DEF Spec

(* A writer is alone, for any number of threads.                           *)
THEOREM WriterAlone == Spec => []Exclusion
BY RwInvariance, PTL DEF IndInv

(* cnt counts the holders exactly, for any number of threads.              *)
THEOREM HoldersCounted == Spec => []CntIsHolders
BY RwInvariance, PTL DEF IndInv

-----------------------------------------------------------------------------
(* The recursive spinlock.                                                 *)
LEMMA SpinInitInv == SpinInit => SpinInv
BY SpinlockAssumption
   DEF SpinInit, SpinInv, SpinTypeOK, SpinLocations, MutualExclusion, CountIsDepth, UserIsInside, HeldAt, Inside

(* Every action keeps the invariant.  Only Xchg decides who gets in: the   *)
(* value it exchanges tells whether somebody is inside.                    *)
LEMMA SpinStepInv == SpinInv /\ [SpinNext]_spin_vars => SpinInv'
<1> SUFFICES ASSUME SpinInv, [SpinNext]_spin_vars PROVE SpinInv'
  OBVIOUS
<1> USE SpinlockAssumption
    DEF SpinInv, SpinTypeOK, SpinLocations, MutualExclusion, CountIsDepth, UserIsInside, HeldAt, Inside, Move
<1>1. ASSUME NEW t \in Tids, NEW b \in BOOLEAN, CallLock(t, b) PROVE SpinInv'
  BY <1>1 DEF CallLock
<1>2. ASSUME NEW t \in Tids, TestUser(t) PROVE SpinInv'
  BY <1>2 DEF TestUser, IsOwner
<1>3. ASSUME NEW t \in Tids, Xchg(t) PROVE SpinInv'
  <2>1. /\ at[t] = "xchg" /\ held[t] = 0 /\ locked \in {0, 1}
        /\ UNCHANGED <<user, count, held>>
    BY <1>3 DEF Xchg
  <2>2. CASE locked = 0
    <3>1. \A u \in Tids : ~Inside(u)
      BY <2>2
    <3>2. count = 0 /\ user = NoUser
      BY <3>1
    <3>3. locked' = 1 /\ at' = [at EXCEPT ![t] = "own"] /\ UNCHANGED try
      BY <1>3, <2>2 DEF Xchg
    <3>4. SpinTypeOK'
      BY <2>1, <3>3
    <3>5. \A u \in Tids : Inside(u)' <=> u = t
      BY <2>1, <3>1, <3>3
    <3>6. MutualExclusion' /\ CountIsDepth'
      BY <2>1, <3>2, <3>3, <3>5
    <3>7. UserIsInside' /\ HeldAt'
      BY <2>1, <3>1, <3>2, <3>3, <3>5
    <3> QED BY <3>4, <3>6, <3>7
  <2>3. CASE locked = 1
    <3>1. \E l \in {"spin", "idle"} : at' = [at EXCEPT ![t] = l]
      BY <1>3, <2>3 DEF Xchg
    <3>2. locked' = locked /\ try' \in [Tids -> BOOLEAN]
      BY <1>3, <2>3 DEF Xchg
    <3>3. \A u \in Tids : Inside(u)' <=> Inside(u)
      BY <2>1, <3>1
    <3>4. SpinTypeOK'
      BY <2>1, <3>1, <3>2, ZenonT(40)
    <3>5. MutualExclusion' /\ CountIsDepth'
      BY <2>1, <3>2, <3>3
    <3>6. UserIsInside'
      BY <2>1, <3>1, <3>3
    <3>7. HeldAt'
      BY <2>1, <3>1
    <3> QED BY <3>4, <3>5, <3>6, <3>7
  <2> QED BY <2>1, <2>2, <2>3
<1>4. ASSUME NEW t \in Tids, Spin(t) PROVE SpinInv'
  BY <1>4 DEF Spin
<1>5. ASSUME NEW t \in Tids, Own(t) PROVE SpinInv'
  BY <1>5 DEF Own
<1>6. ASSUME NEW t \in Tids, Inc(t) PROVE SpinInv'
  BY <1>6 DEF Inc
<1>7. ASSUME NEW t \in Tids, CallUnlock(t) PROVE SpinInv'
  BY <1>7 DEF CallUnlock
<1>8. ASSUME NEW t \in Tids, Dec(t) PROVE SpinInv'
  BY <1>8 DEF Dec
<1>9. ASSUME NEW t \in Tids, Disown(t) PROVE SpinInv'
  BY <1>9 DEF Disown
<1>10. ASSUME NEW t \in Tids, Unlock(t) PROVE SpinInv'
  BY <1>10 DEF Unlock
<1>11. CASE UNCHANGED spin_vars
  BY <1>11 DEF spin_vars
<1> QED BY <1>1, <1>2, <1>3, <1>4, <1>5, <1>6, <1>7, <1>8, <1>9, <1>10, <1>11
        DEF SpinNext, SpinStep

(* The inductive invariant holds of every run.                             *)
THEOREM SpinInvariance == SpinSpec => []SpinInv
BY SpinInitInv, SpinStepInv, PTL DEF SpinSpec

(* At most one thread is inside the recursive lock, for any number of      *)
(* threads: the unlocked read of slr->user never lets a second one in.     *)
THEOREM SpinExclusion == SpinSpec => []MutualExclusion
BY SpinInvariance, PTL DEF SpinInv

(* slr->count always is the nesting depth of the thread inside.            *)
THEOREM DepthCounted == SpinSpec => []CountIsDepth
BY SpinInvariance, PTL DEF SpinInv

-----------------------------------------------------------------------------
(* Launch.  A launch is under way from the write to the pipe to the return *)
(* of the function, and the master waits for the answer from that write to *)
(* the read of the answer: where the one byte is tells how far it is.      *)
UnderWay(s) == m2s[s] = 1 \/ slave_pc[s] \in {"running", "ack", "call"}
Unanswered(s) == m2s[s] = 1 \/ slave_pc[s] \in {"running", "ack"} \/ s2m[s] = 1

LaunchTypes ==
  /\ state \in [Slaves -> {"WAIT", "RUNNING", "FINISHED"}]
  /\ f \in [Slaves -> Nat] /\ ret \in [Slaves -> Nat]
  /\ m2s \in [Slaves -> {0, 1}] /\ s2m \in [Slaves -> {0, 1}]
  /\ slave_pc \in [Slaves -> {"read", "running", "ack", "call", "finish"}]
  /\ jobs \in [Slaves -> Nat] /\ done \in [Slaves -> Nat]

LaunchInv ==
  /\ LaunchTypes
  /\ \A s \in Slaves :
       /\ f[s] = jobs[s]
       /\ IF UnderWay(s) THEN jobs[s] = done[s] + 1
          ELSE done[s] = jobs[s] /\ ret[s] = jobs[s]
       /\ master_pc = <<"ack", s>> <=> Unanswered(s)
       /\ master_pc = <<"set", s>> => state[s] = "WAIT" /\ slave_pc[s] = "read"
       /\ m2s[s] = 1 => slave_pc[s] = "read" /\ s2m[s] = 0
       /\ s2m[s] = 1 => slave_pc[s] \in {"call", "finish", "read"}
       /\ state[s] = "RUNNING" <=> slave_pc[s] \in {"ack", "call", "finish"}

LEMMA LaunchInitInv == LaunchInit => LaunchInv
BY DEF LaunchInit, LaunchInv, LaunchTypes, UnderWay, Unanswered, Free

LEMMA LaunchStepInv == LaunchInv /\ [LaunchNext]_launch_vars => LaunchInv'
<1> SUFFICES ASSUME LaunchInv, [LaunchNext]_launch_vars PROVE LaunchInv'
  OBVIOUS
<1> USE DEF LaunchInv, LaunchTypes, UnderWay, Unanswered, Free
<1>1. ASSUME NEW s \in Slaves, RemoteLaunch(s) PROVE LaunchInv'
  BY <1>1 DEF RemoteLaunch
<1>2. ASSUME NEW s \in Slaves, SetFunction(s) PROVE LaunchInv'
  BY <1>2 DEF SetFunction, slave
<1>3. ASSUME NEW s \in Slaves, WaitAck(s) PROVE LaunchInv'
  BY <1>3 DEF WaitAck
<1>4. ASSUME NEW s \in Slaves, WaitLcore(s) PROVE LaunchInv'
  BY <1>4 DEF WaitLcore
<1>5. ASSUME NEW s \in Slaves, ReadCommand(s) PROVE LaunchInv'
  BY <1>5 DEF ReadCommand
<1>6. ASSUME NEW s \in Slaves, SetRunning(s) PROVE LaunchInv'
  BY <1>6 DEF SetRunning
<1>7. ASSUME NEW s \in Slaves, SendAck(s) PROVE LaunchInv'
  BY <1>7 DEF SendAck
<1>8. ASSUME NEW s \in Slaves, RunFunction(s) PROVE LaunchInv'
  BY <1>8 DEF RunFunction
<1>9. ASSUME NEW s \in Slaves, FinishFunction(s) PROVE LaunchInv'
  BY <1>9 DEF FinishFunction, FinalState
<1>10. CASE UNCHANGED launch_vars
  BY <1>10 DEF launch_vars
<1> QED BY <1>1, <1>2, <1>3, <1>4, <1>5, <1>6, <1>7, <1>8, <1>9, <1>10
        DEF LaunchNext, SlaveStep, MasterStep

(* For any number of slave lcores and of launches, and whichever of them   *)
(* are service lcores: every accepted launch is run once with its own      *)
(* function, and what rte_eal_wait_lcore takes is the result of the last   *)
(* one.                                                                    *)
THEOREM LaunchSafety == LaunchSpec => []LaunchSound
<1>1. LaunchInv => LaunchSound
  BY DEF LaunchInv, LaunchTypes, LaunchSound, EachRunOnce, NothingPending, UnderWay, Unanswered, Free
<1> QED BY LaunchInitInv, LaunchStepInv, <1>1, PTL DEF LaunchSpec

-----------------------------------------------------------------------------
(* Elision.  A thread in its critical section is in a transaction that has *)
(* read the word, which then is 0, or it has the lock: the word counts     *)
(* those, as in RwLock.                                                    *)
InSection(t) == tm_pc[t] \in {"enter", "use", "leave"}
TmReaders == {t \in TmThreads : InSection(t) /\ ~InTx(t) /\ kind[t] = "read"}
TmWriters == {t \in TmThreads : InSection(t) /\ ~InTx(t) /\ kind[t] # "read"}

TmTypes ==
  /\ rtm \in BOOLEAN /\ word \in Int /\ data \in Int
  /\ tm_pc \in [TmThreads -> {"idle", "begin", "check", "busy", "aborted", "take",
                              "enter", "use", "leave"}]
  /\ kind \in [TmThreads -> {"read", "write", "try"}]
  /\ tx \in [TmThreads -> SUBSET {"none", "word", "data"}]
  /\ retries \in [TmThreads -> Nat] /\ seen \in [TmThreads -> Int]

Elided ==
  \A t \in TmThreads :
    /\ tm_pc[t] = "check" => InTx(t)
    /\ InTx(t) =>
         /\ "none" \notin tx[t]
         /\ tm_pc[t] \in {"check", "enter", "use", "leave"}
         /\ InSection(t) => "word" \in tx[t] /\ word = 0
         /\ tm_pc[t] \in {"use", "leave"} => "data" \in tx[t]

WordCounts ==
  \/ TmWriters = {} /\ word = Cardinality(TmReaders)
  \/ TmReaders = {} /\ word = -1 /\ \E t \in TmThreads : TmWriters = {t}

TmInv == TmTypes /\ Elided /\ WordCounts /\ SectionsIsolated

LEMMA TmReadersFinite ==
  /\ IsFiniteSet(TmReaders) /\ Cardinality(TmReaders) \in Nat
  /\ Cardinality(TmReaders) = 0 <=> TmReaders = {}
BY ElisionAssumption, FS_Subset, FS_CardinalityType, FS_EmptySet DEF TmReaders

LEMMA TmInitInv == TmInit => TmInv
<1> SUFFICES ASSUME TmInit PROVE TmInv
  OBVIOUS
<1>1. TmReaders = {} /\ TmWriters = {}
  BY DEF TmInit, TmReaders, TmWriters, InSection
<1>2. WordCounts
  BY <1>1, TmReadersFinite DEF TmInit, WordCounts
<1> QED BY <1>2 DEF TmInit, TmInv, TmTypes, Elided, InTx, InSection, SectionsIsolated

LEMMA SameSections ==
  ASSUME WordCounts, word' = word, TmReaders' = TmReaders, TmWriters' = TmWriters
  PROVE  WordCounts'
BY DEF WordCounts

LEMMA TmStepInv == TmInv /\ [TmNext]_tm_vars => TmInv'
<1> SUFFICES ASSUME TmInv, [TmNext]_tm_vars PROVE TmInv'
  OBVIOUS
<1> USE DEF TmInv, TmTypes, Elided, InTx, InSection, SectionsIsolated
<1>1. ASSUME NEW t \in TmThreads, NEW k \in {"read", "write", "try"}, CallTm(t, k)
      PROVE  TmInv'
  <2>1. TmReaders' = TmReaders /\ TmWriters' = TmWriters /\ word' = word
    BY <1>1 DEF CallTm, TmReaders, TmWriters
  <2>2. WordCounts'
    BY <2>1, SameSections
  <2> QED BY <1>1, <2>2, ElisionAssumption DEF CallTm
<1>2. ASSUME NEW t \in TmThreads, XBegin(t) PROVE TmInv'
  <2>1. TmReaders' = TmReaders /\ TmWriters' = TmWriters /\ word' = word
    BY <1>2 DEF XBegin, TmReaders, TmWriters
  <2>2. WordCounts'
    BY <2>1, SameSections
  <2> QED BY <1>2, <2>2 DEF XBegin
<1>3. ASSUME NEW t \in TmThreads, CheckLock(t) PROVE TmInv'
  <2>1. TmReaders' = TmReaders /\ TmWriters' = TmWriters /\ word' = word
    BY <1>3 DEF CheckLock, TmReaders, TmWriters
  <2>2. WordCounts'
    BY <2>1, SameSections
  <2> QED BY <1>3, <2>2 DEF CheckLock
<1>4. ASSUME NEW t \in TmThreads, XAbort(t) PROVE TmInv'
  <2>1. TmReaders' = TmReaders /\ TmWriters' = TmWriters /\ word' = word
    BY <1>4 DEF XAbort, TmReaders, TmWriters
  <2>2. WordCounts'
    BY <2>1, SameSections
  <2> QED BY <1>4, <2>2 DEF XAbort
<1>5. ASSUME NEW t \in TmThreads, AfterAbort(t) PROVE TmInv'
  <2>1. TmReaders' = TmReaders /\ TmWriters' = TmWriters /\ word' = word
    BY <1>5 DEF AfterAbort, TmReaders, TmWriters
  <2>2. WordCounts'
    BY <2>1, SameSections
  <2> QED BY <1>5, <2>2 DEF AfterAbort
<1>6. ASSUME NEW t \in TmThreads, ReadData(t) PROVE TmInv'
  <2>1. TmReaders' = TmReaders /\ TmWriters' = TmWriters /\ word' = word
    BY <1>6 DEF ReadData, TmReaders, TmWriters
  <2>2. WordCounts'
    BY <2>1, SameSections
  <2> QED BY <1>6, <2>2 DEF ReadData
<1>7. ASSUME NEW t \in TmThreads, TakeLock(t) PROVE TmInv'
  <2>1. CASE kind[t] = "try" /\ word # 0 /\ tm_pc' = [tm_pc EXCEPT ![t] = "idle"]
               /\ UNCHANGED <<word, tx>>
    <3>1. TmReaders' = TmReaders /\ TmWriters' = TmWriters /\ word' = word
      BY <1>7, <2>1 DEF TakeLock, TmReaders, TmWriters
    <3>2. WordCounts'
      BY <3>1, SameSections
    <3> QED BY <1>7, <2>1, <3>2 DEF TakeLock
  <2>2. CASE /\ IF kind[t] = "read" THEN word >= 0 ELSE word = 0
             /\ word' = NextWord(t)
             /\ Wrote(t, "enter", {"word"}, {"none"})
    <3>1. /\ TmTypes' /\ Elided' /\ SectionsIsolated'
      BY <1>7, <2>2 DEF TakeLock, Wrote, NextWord
    <3>2. TmWriters = {} /\ word = Cardinality(TmReaders)
      BY <2>2 DEF WordCounts
    <3>3. CASE kind[t] = "read"
      <4>1. TmReaders' = TmReaders \cup {t} /\ t \notin TmReaders /\ TmWriters' = {}
        BY <1>7, <2>2, <3>2, <3>3 DEF TakeLock, Wrote, TmReaders, TmWriters
      <4>2. Cardinality(TmReaders') = Cardinality(TmReaders) + 1
        BY <4>1, TmReadersFinite, FS_AddElement
      <4> QED BY <2>2, <3>1, <3>2, <3>3, <4>1, <4>2 DEF WordCounts, NextWord
    <3>4. CASE kind[t] # "read"
      <4>1. TmReaders = {}
        BY <2>2, <3>2, <3>4, TmReadersFinite
      <4>2. TmReaders' = {} /\ TmWriters' = {t}
        BY <1>7, <2>2, <3>2, <3>4, <4>1, SMTT(30) DEF TakeLock, Wrote, TmReaders, TmWriters
      <4> QED BY <2>2, <3>1, <3>4, <4>2 DEF WordCounts, NextWord
    <3> QED BY <3>3, <3>4
  <2> QED BY <1>7, <2>1, <2>2 DEF TakeLock
<1>8. ASSUME NEW t \in TmThreads, UseData(t) PROVE TmInv'
  <2>1. CASE InTx(t) \/ kind[t] = "read"
    <3>1. TmReaders' = TmReaders /\ TmWriters' = TmWriters /\ word' = word
      BY <1>8, <2>1 DEF UseData, TmReaders, TmWriters
    <3>2. WordCounts'
      BY <3>1, SameSections
    <3> QED BY <1>8, <2>1, <3>2 DEF UseData
  <2>2. CASE ~InTx(t) /\ kind[t] # "read"
    <3>1. TmWriters = {t} /\ TmReaders = {} /\ word = -1
      BY <1>8, <2>2 DEF UseData, WordCounts, TmWriters
    <3>2. \A u \in TmThreads \ {t} : ~InSection(u)
      BY <3>1 DEF TmWriters, TmReaders
    <3>3. data' = NewData(t) /\ Wrote(t, "leave", {"data"}, {"none"}) /\ tm_pc[t] = "use"
          /\ UNCHANGED <<rtm, word, kind, retries, seen>>
      BY <1>8, <2>2 DEF UseData
    <3>4. NewData(t) \in Int
      BY ElisionAssumption DEF NewData
    <3>5. TmTypes'
      BY <3>3, <3>4 DEF Wrote
    <3>6. Elided' /\ SectionsIsolated'
      BY <2>2, <3>2, <3>3 DEF Wrote
    <3>7. TmWriters' = {t} /\ TmReaders' = {} /\ word' = word
      BY <2>2, <3>2, <3>3 DEF Wrote, TmWriters, TmReaders
    <3> QED BY <3>1, <3>5, <3>6, <3>7 DEF WordCounts
  <2> QED BY <2>1, <2>2
<1>9. ASSUME NEW t \in TmThreads, UnlockTm(t) PROVE TmInv'
  <2>1. tm_pc[t] = "leave" /\ UNCHANGED <<rtm, kind, retries, seen>>
    BY <1>9 DEF UnlockTm
  <2>2. CASE word # 0
    <3>1. ~InTx(t) /\ word' = Released(t) /\ data' = data /\ Wrote(t, "idle", {"word"}, tx[t])
      BY <1>9, <2>1, <2>2 DEF UnlockTm
    <3>2. TmTypes'
      BY <2>1, <3>1 DEF Wrote, Released
    <3>3. Elided' /\ SectionsIsolated'
      BY <2>1, <2>2, <3>1 DEF Wrote
    <3>4. CASE kind[t] = "read"
      <4>1. t \in TmReaders /\ TmWriters = {} /\ word = Cardinality(TmReaders)
        BY <2>1, <3>1, <3>4 DEF WordCounts, TmReaders
      <4>2. TmReaders' = TmReaders \ {t} /\ TmWriters' = {}
        BY <2>1, <3>1, <4>1, ZenonT(40) DEF Wrote, TmReaders, TmWriters
      <4>3. Cardinality(TmReaders') = Cardinality(TmReaders) - 1
        BY <4>1, <4>2, TmReadersFinite, FS_RemoveElement
      <4> QED BY <3>1, <3>2, <3>3, <3>4, <4>1, <4>2, <4>3 DEF WordCounts, Released
    <3>5. CASE kind[t] # "read"
      <4>1. TmWriters = {t} /\ TmReaders = {}
        BY <2>1, <3>1, <3>5 DEF WordCounts, TmWriters
      <4>2. TmReaders' = {} /\ TmWriters' = {}
        BY <2>1, <3>1, <4>1 DEF Wrote, TmReaders, TmWriters
      <4>3. Cardinality(TmReaders') = 0
        BY <4>2, FS_EmptySet
      <4> QED BY <3>1, <3>2, <3>3, <3>5, <4>2, <4>3 DEF WordCounts, Released
    <3> QED BY <3>4, <3>5
  <2>3. CASE word = 0
    <3>1. TmReaders = {} /\ TmWriters = {}
      BY <2>3, TmReadersFinite DEF WordCounts
    <3>2. /\ InTx(t) /\ word' = word /\ data' = NewData(t)
          /\ Wrote(t, "idle", IF kind[t] = "read" THEN {} ELSE {"data"}, {"none"})
      BY <1>9, <2>1, <2>3, <3>1 DEF UnlockTm, TmReaders, TmWriters
    <3>3. NewData(t) \in Int
      BY ElisionAssumption DEF NewData
    <3>4. TmTypes'
      BY <2>1, <3>2, <3>3 DEF Wrote
    <3>5. Elided'
      BY <2>1, <3>2 DEF Wrote
    <3>6. TmReaders' = {} /\ TmWriters' = {}
      BY <2>1, <3>1, <3>2 DEF Wrote, TmReaders, TmWriters
    <3>7. SectionsIsolated'
      BY <2>1, <3>1, <3>2 DEF Wrote, NewData, TmReaders, TmWriters
    <3> QED BY <3>1, <3>2, <3>4, <3>5, <3>6, <3>7 DEF WordCounts
  <2> QED BY <2>2, <2>3
<1>10. CASE UNCHANGED tm_vars
  BY <1>10 DEF tm_vars, WordCounts, TmReaders, TmWriters
<1> QED BY <1>1, <1>2, <1>3, <1>4, <1>5, <1>6, <1>7, <1>8, <1>9, <1>10 DEF TmNext, TmStep

(* For any finite number of threads, readers and writers, with and without *)
(* hardware transactions and whenever these are undone: sections that were *)
(* elided and sections that took the lock are isolated from each other,    *)
(* and the word tells a thread that leaves which of the two it is in.      *)
THEOREM ElisionSafety == TmSpec => []ElisionSound
<1>1. TmInv => ElisionSound
  <2> SUFFICES ASSUME TmInv PROVE UnlockKnows
    BY DEF TmInv, ElisionSound
  <2> SUFFICES ASSUME NEW t \in TmThreads, tm_pc[t] = "leave" PROVE word # 0 <=> ~InTx(t)
    BY DEF UnlockKnows
  <2>1. CASE InTx(t)
    BY <2>1 DEF TmInv, Elided, InSection
  <2>2. CASE ~InTx(t)
    BY <2>2, TmReadersFinite DEF TmInv, TmTypes, WordCounts, TmReaders, TmWriters, InSection
  <2> QED BY <2>1, <2>2
<1> QED BY TmInitInv, TmStepInv, <1>1, PTL DEF TmSpec

-----------------------------------------------------------------------------
(* Tailqs.  The slots below the primary's count hold the names of its      *)
(* elements, a name that is not cut has the first slot in which it is      *)
(* found, and an element has a head or is still to be set up.              *)
TqTypes ==
  /\ tailq_head \in [Slots -> {Stored(n) : n \in Names} \cup {NoName}]
  /\ elems \in [TqProcs -> Seq(Names)] /\ todo \in [TqProcs -> Seq(Names)]
  /\ head \in [TqProcs -> [Names -> Slots \cup {NoHead}]]
  /\ tq_count \in [TqProcs -> Int]
  /\ ready \in [TqProcs -> {"early", "init", "up", "failed"}]

TableFilled ==
  /\ IF ready[Primary] = "early" THEN tq_count[Primary] = -1
     ELSE 0 <= tq_count[Primary] /\ tq_count[Primary] < MaxTailq
  /\ \A i \in Slots : tailq_head[i] # NoName <=> i < tq_count[Primary]
  /\ \A n \in Names : head[Primary][n] # NoHead => tailq_head[head[Primary][n]] = Stored(n)
  /\ \A n, k \in Names :
       head[Primary][n] # NoHead /\ head[Primary][n] = head[Primary][k] => n = k

First(t, i, n) == i \in Slots /\ t[i] = n /\ \A j \in Slots : t[j] = n => i <= j

HeadsAgree ==
  /\ \A n \in Names : (\E i \in Slots : tailq_head[i] = n) => \E i \in Slots : First(tailq_head, i, n)
  /\ \A p \in TqProcs : \A n \in Names : head[p][n] # NoHead =>
       (n \in LongNames /\ p = Primary) \/ (n \notin LongNames /\ First(tailq_head, head[p][n], n))

Injective(s) == \A i, j \in DOMAIN s : s[i] = s[j] => i = j
Listed(s) == {s[i] : i \in DOMAIN s}
Pending(p) == Listed(todo[p])

ElementsListed ==
  \A p \in TqProcs :
    /\ Injective(elems[p]) /\ Injective(todo[p])
    /\ \A n \in Names : head[p][n] # NoHead => n \in Registered(p) \ Pending(p)
    /\ ready[p] = "early" => \A n \in Names : head[p][n] = NoHead
    /\ ready[p] = "init" <=> todo[p] # <<>>
    /\ ready[p] \in {"init", "up"} =>
         \A n \in Registered(p) : head[p][n] # NoHead \/ n \in Pending(p)
    /\ Pending(p) \subseteq Registered(p)

TqInv == TqTypes /\ TableFilled /\ HeadsAgree /\ ElementsListed

(* rte_eal_tailq_lookup finds the first slot, or there is none.  A name    *)
(* that is cut is in no slot.                                              *)
LEMMA LookupFinds ==
  ASSUME TqInv, NEW n \in Names
  PROVE  /\ Lookup(n) # NoHead => First(tailq_head, Lookup(n), n) /\ n \notin LongNames
         /\ Lookup(n) = NoHead => \A i \in Slots : tailq_head[i] # n
<1> DEFINE S == {i \in Slots : tailq_head[i] = n}
<1>1. ASSUME S # {}
      PROVE  First(tailq_head, Lookup(n), n) /\ Lookup(n) # NoHead
  <2>1. \E i \in Slots : First(tailq_head, i, n)
    BY <1>1 DEF TqInv, HeadsAgree
  <2>2. \E i \in S : \A j \in S : i <= j
    BY <2>1 DEF First
  <2>3. Lookup(n) = CHOOSE i \in S : \A j \in S : i <= j
    BY <1>1 DEF Lookup
  <2>4. Lookup(n) \in S /\ \A j \in S : Lookup(n) <= j
    <3> HIDE DEF S
    <3> QED BY <2>2, <2>3
  <2> QED BY <2>4, TailqsAssumption DEF First, Slots, NoHead
<1>2. S = {} => Lookup(n) = NoHead
  BY DEF Lookup
<1>3. ASSUME First(tailq_head, Lookup(n), n)
      PROVE  n \notin LongNames
  <2>1. PICK i \in Slots : tailq_head[i] = n
    BY <1>3 DEF First
  <2>2. n \in {Stored(k) : k \in Names} \cup {NoName}
    BY <2>1 DEF TqInv, TqTypes
  <2> QED BY <2>2, TailqsAssumption DEF Stored
<1> QED BY <1>1, <1>2, <1>3

(* Setting up an element that has no head yet.                             *)
LEMMA UpdateInv ==
  ASSUME TqInv, NEW p \in TqProcs, NEW n \in Names, Update(p, n), head[p][n] = NoHead,
         ready[p] # "early", \A q \in TqProcs : ready'[q] = "early" <=> ready[q] = "early"
  PROVE  /\ tailq_head' \in [Slots -> {Stored(k) : k \in Names} \cup {NoName}]
         /\ head' = [head EXCEPT ![p][n] = Updated(p, n)]
         /\ head' \in [TqProcs -> [Names -> Slots \cup {NoHead}]]
         /\ tq_count' \in [TqProcs -> Int]
         /\ TableFilled' /\ HeadsAgree'
<1> USE DEF TqInv, TqTypes
<1>1. CASE p = Primary /\ CanCreate(p, n)
  <2> DEFINE c == tq_count[Primary]
  <2>1. /\ c \in Slots /\ c # NoHead
        /\ head' = [head EXCEPT ![p][n] = c]
        /\ tailq_head' = [tailq_head EXCEPT ![c] = Stored(n)]
        /\ tq_count' = [tq_count EXCEPT ![p] = c + 1]
        /\ c + 1 < MaxTailq
    BY <1>1, TailqsAssumption DEF Update, Updated, CanCreate, TableFilled, Slots, NoHead, TqProcs
  <2>2. /\ tailq_head' \in [Slots -> {Stored(k) : k \in Names} \cup {NoName}]
        /\ head' \in [TqProcs -> [Names -> Slots \cup {NoHead}]]
        /\ tq_count' \in [TqProcs -> Int]
    BY <1>1, <2>1
  <2>3. \A k \in Names : Stored(k) # NoName
    BY TailqsAssumption DEF Stored
  <2>4. \A k \in Names : head[Primary][k] # c
    <3> SUFFICES ASSUME NEW k \in Names, head[Primary][k] = c PROVE FALSE
      OBVIOUS
    <3>1. tailq_head[c] = Stored(k)
      BY <2>1 DEF TableFilled
    <3> QED BY <2>1, <2>3, <3>1, TailqsAssumption DEF TableFilled, Slots
  <2>5. /\ tq_count'[Primary] = c + 1 /\ 0 <= c /\ head'[Primary][n] = c
        /\ \A k \in Names \ {n} : head'[Primary][k] = head[Primary][k]
        /\ tailq_head'[c] = Stored(n)
        /\ \A i \in Slots \ {c} : tailq_head'[i] = tailq_head[i]
        /\ ready'[Primary] # "early"
        /\ \A i \in Slots : i < c \/ i = c \/ (i > c /\ tailq_head[i] = NoName)
    BY <1>1, <2>1 DEF Slots, TableFilled
  <2>6. TableFilled'
    <3>1. \A i \in Slots : tailq_head'[i] # NoName <=> i < tq_count'[Primary]
      BY <2>1, <2>3, <2>5 DEF TableFilled, Slots
    <3>2. \A k \in Names : head'[Primary][k] # NoHead => tailq_head'[head'[Primary][k]] = Stored(k)
      BY <2>1, <2>4, <2>5 DEF TableFilled
    <3>3. \A k, l \in Names :
            head'[Primary][k] # NoHead /\ head'[Primary][k] = head'[Primary][l] => k = l
      <4> SUFFICES ASSUME NEW k \in Names, NEW l \in Names,
                          head'[Primary][k] # NoHead, head'[Primary][k] = head'[Primary][l]
                   PROVE  k = l
        OBVIOUS
      <4>1. CASE k # n /\ l # n
        <5>1. head[Primary][k] = head'[Primary][k] /\ head[Primary][l] = head'[Primary][l]
          BY <2>5, <4>1
        <5>2. head[Primary][k] # NoHead /\ head[Primary][k] = head[Primary][l]
          BY <5>1
        <5> QED BY <5>2 DEF TableFilled
      <4>2. CASE k = n /\ l # n
        BY <2>4, <2>5, <4>2
      <4>3. CASE k # n /\ l = n
        BY <2>4, <2>5, <4>3
      <4> QED BY <4>1, <4>2, <4>3
    <3> QED BY <2>1, <2>5, <3>1, <3>2, <3>3 DEF TableFilled
  <2>7. \A i \in Slots, k \in Names : First(tailq_head, i, k) => First(tailq_head', i, k)
    <3> SUFFICES ASSUME NEW i \in Slots, NEW k \in Names, First(tailq_head, i, k) PROVE First(tailq_head', i, k)
      OBVIOUS
    <3>1. k # NoName
      BY TailqsAssumption
    <3>2. i # c /\ i < c
      BY <2>1, <2>5, <3>1 DEF First, TableFilled, Slots
    <3>3. tailq_head'[i] = k
      BY <2>5, <3>2 DEF First
    <3>4. ASSUME NEW j \in Slots, tailq_head'[j] = k
          PROVE  i <= j
      <4>1. CASE j = c
        BY <3>2, <4>1 DEF Slots
      <4>2. CASE j # c
        BY <2>5, <3>4, <4>2 DEF First
      <4> QED BY <4>1, <4>2
    <3> QED BY <3>3, <3>4 DEF First
  <2>8. Stored(n) = n => First(tailq_head', c, n)
    <3>1. Lookup(n) = NoHead
      BY <1>1 DEF CanCreate
    <3>2. \A i \in Slots : tailq_head[i] # n
      BY <3>1, LookupFinds
    <3> QED BY <2>1, <2>5, <3>2 DEF First, Slots
  <2>9. HeadsAgree'
    <3>1. ASSUME NEW k \in Names, NEW i \in Slots, tailq_head'[i] = k
          PROVE  \E j \in Slots : First(tailq_head', j, k)
      <4>1. CASE \E j \in Slots : tailq_head[j] = k
        <5>1. PICK j \in Slots : First(tailq_head, j, k)
          BY <4>1 DEF HeadsAgree
        <5> QED BY <2>7, <5>1
      <4>2. CASE ~\E j \in Slots : tailq_head[j] = k
        <5>1. i = c
          BY <2>5, <3>1, <4>2
        <5>2. First(tailq_head', c, k)
          BY <2>1, <2>5, <3>1, <4>2, <5>1 DEF First, Slots
        <5> QED BY <2>1, <5>2
      <4> QED BY <4>1, <4>2
    <3>2. ASSUME NEW q \in TqProcs, NEW k \in Names, head'[q][k] # NoHead
          PROVE  (k \in LongNames /\ q = Primary) \/ (k \notin LongNames /\ First(tailq_head', head'[q][k], k))
      <4>1. CASE q = Primary /\ k = n
        <5>1. k \notin LongNames => First(tailq_head', c, n)
          BY <2>8, <4>1 DEF Stored
        <5> QED BY <2>5, <4>1, <5>1
      <4>2. CASE ~(q = Primary /\ k = n)
        <5>1. head'[q][k] = head[q][k] /\ head[q][k] \in Slots \cup {NoHead}
          BY <1>1, <2>1, <4>2
        <5> QED BY <2>7, <3>2, <5>1 DEF HeadsAgree
      <4> QED BY <4>1, <4>2
    <3>3. \A k \in Names : (\E i \in Slots : tailq_head'[i] = k) => \E i \in Slots : First(tailq_head', i, k)
      BY <3>1
    <3> QED BY <3>2, <3>3 DEF HeadsAgree, First
  <2> QED BY <2>1, <2>2, <2>6, <2>9, <1>1 DEF Update, Updated
<1>2. CASE ~(p = Primary /\ CanCreate(p, n))
  <2>1. UNCHANGED <<tailq_head, tq_count>> /\ head' = [head EXCEPT ![p][n] = Updated(p, n)]
    BY <1>2 DEF Update
  <2>2. /\ Updated(p, n) \in Slots \cup {NoHead}
        /\ p = Primary => Updated(p, n) = NoHead
        /\ Updated(p, n) # NoHead => First(tailq_head, Updated(p, n), n) /\ n \notin LongNames
    <3>1. p = Primary => Updated(p, n) = NoHead
      BY <1>2 DEF Updated
    <3>2. p # Primary => Updated(p, n) = Lookup(n)
      BY DEF Updated
    <3>3. Updated(p, n) # NoHead => First(tailq_head, Updated(p, n), n) /\ n \notin LongNames
      BY <3>1, <3>2, LookupFinds
    <3> QED BY <3>1, <3>3 DEF First
  <2>3. head' \in [TqProcs -> [Names -> Slots \cup {NoHead}]]
    BY <2>1, <2>2
  <2>4. head'[Primary] = head[Primary]
    <3>1. CASE p = Primary
      <4>1. head[p] = [head[p] EXCEPT ![n] = NoHead]
        OBVIOUS
      <4> QED BY <2>1, <2>2, <3>1, <4>1
    <3> QED BY <2>1, <3>1 DEF TqProcs
  <2>5. TableFilled'
    BY <2>1, <2>4 DEF TableFilled, TqProcs
  <2>6. HeadsAgree'
    <3>1. tailq_head' = tailq_head
      BY <2>1
    <3>2. ASSUME NEW q \in TqProcs, NEW k \in Names, head'[q][k] # NoHead
          PROVE  (k \in LongNames /\ q = Primary) \/ (k \notin LongNames /\ First(tailq_head, head'[q][k], k))
      <4>1. CASE q = p /\ k = n
        BY <2>1, <2>2, <3>2, <4>1
      <4>2. CASE ~(q = p /\ k = n)
        <5>1. head'[q][k] = head[q][k]
          BY <2>1, <4>2
        <5> QED BY <3>2, <5>1 DEF HeadsAgree
      <4> QED BY <4>1, <4>2
    <3>3. \A k \in Names : (\E i \in Slots : tailq_head'[i] = k) => \E i \in Slots : First(tailq_head, i, k)
      BY <2>1 DEF HeadsAgree
    <3> QED BY <3>1, <3>2, <3>3 DEF HeadsAgree
  <2> QED BY <2>1, <2>3, <2>5, <2>6
<1> QED BY <1>1, <1>2

LEMMA TqInitInv == TqInit => TqInv
<1> SUFFICES ASSUME TqInit PROVE TqInv
  OBVIOUS
<1>1. TqTypes
  BY DEF TqInit, TqTypes, NoHead
<1>2. TableFilled /\ HeadsAgree
  BY TailqsAssumption DEF TqInit, TableFilled, HeadsAgree, First, NoHead, Slots, TqProcs
<1>3. ElementsListed
  BY DEF TqInit, ElementsListed, Injective, Pending, Listed, Registered, TqProcs
<1> QED BY <1>1, <1>2, <1>3 DEF TqInv

LEMMA RegisteredListed ==
  \A p \in TqProcs : Registered(p) = Listed(elems[p]) /\ Registered(p)' = Listed(elems'[p])
BY DEF Registered, Listed

LEMMA AppendListed ==
  ASSUME NEW s \in Seq(Names), NEW n \in Names, n \notin Listed(s), Injective(s)
  PROVE  /\ Append(s, n) \in Seq(Names) /\ Injective(Append(s, n))
         /\ Listed(Append(s, n)) = Listed(s) \cup {n}
<1>1. /\ Append(s, n) \in Seq(Names) /\ Len(Append(s, n)) = Len(s) + 1 /\ Len(s) \in Nat
      /\ DOMAIN Append(s, n) = 1 .. Len(s) + 1 /\ DOMAIN s = 1 .. Len(s)
      /\ \A i \in 1 .. Len(s) : Append(s, n)[i] = s[i]
      /\ Append(s, n)[Len(s) + 1] = n
  OBVIOUS
<1> DEFINE a == Append(s, n)
<1> HIDE DEF a
<1>2. Injective(a)
  BY <1>1 DEF Injective, Listed, a
<1>3. Listed(a) = Listed(s) \cup {n}
  BY <1>1 DEF a, Listed
<1> QED BY <1>1, <1>2, <1>3 DEF a

LEMMA TailListed ==
  ASSUME NEW s \in Seq(Names), s # <<>>, Injective(s)
  PROVE  /\ Head(s) \in Names /\ Tail(s) \in Seq(Names) /\ Injective(Tail(s))
         /\ Head(s) \in Listed(s) /\ Listed(Tail(s)) = Listed(s) \ {Head(s)}
         /\ Tail(s) = <<>> <=> Listed(Tail(s)) = {}
<1>1. /\ Head(s) \in Names /\ Tail(s) \in Seq(Names) /\ Len(s) \in Nat \ {0}
      /\ DOMAIN s = 1 .. Len(s) /\ DOMAIN Tail(s) = 1 .. Len(s) - 1
      /\ Head(s) = s[1]
      /\ \A i \in 1 .. Len(s) - 1 : Tail(s)[i] = s[i + 1]
  OBVIOUS
<1> DEFINE r == Tail(s)
<1> HIDE DEF r
<1>2. Injective(r)
  BY <1>1 DEF Injective, r
<1>3. Listed(r) \subseteq Listed(s) \ {Head(s)}
  BY <1>1 DEF Injective, Listed, r
<1>4. ASSUME NEW i \in DOMAIN s, s[i] # Head(s) PROVE s[i] \in Listed(r)
  <2>1. i - 1 \in DOMAIN r /\ r[i - 1] = s[i]
    BY <1>1, <1>4 DEF r
  <2> QED BY <2>1 DEF Listed
<1>5. Listed(r) = Listed(s) \ {Head(s)} /\ Head(s) \in Listed(s)
  <2>1. Listed(s) \ {Head(s)} \subseteq Listed(r)
    <3> SUFFICES ASSUME NEW e \in Listed(s) \ {Head(s)} PROVE e \in Listed(r)
      OBVIOUS
    <3>1. PICK i \in DOMAIN s : e = s[i]
      BY DEF Listed
    <3> QED BY <1>4, <3>1
  <2>2. 1 \in DOMAIN s /\ Head(s) = s[1]
    BY <1>1
  <2>3. Head(s) \in Listed(s)
    BY <2>2 DEF Listed
  <2> QED BY <1>3, <2>1, <2>3
<1>6. r = <<>> <=> Listed(r) = {}
  <2>1. CASE r = <<>>
    BY <2>1 DEF Listed
  <2>2. CASE r # <<>>
    <3>1. 1 \in DOMAIN r
      BY <1>1, <2>2 DEF r
    <3> QED BY <2>2, <3>1 DEF Listed
  <2> QED BY <2>1, <2>2
<1> QED BY <1>1, <1>2, <1>5, <1>6 DEF r

LEMMA TqStepInv == TqInv /\ [TqNext]_tq_vars => TqInv'
<1> SUFFICES ASSUME TqInv, [TqNext]_tq_vars PROVE TqInv'
  OBVIOUS
<1>1. ASSUME NEW p \in TqProcs, NEW n \in Names, RegisterEarly(p, n) PROVE TqInv'
  <2>1. /\ elems' = [elems EXCEPT ![p] = Append(elems[p], n)]
        /\ UNCHANGED <<tailq_head, head, tq_count, todo, ready>> /\ ready[p] = "early"
        /\ n \notin Listed(elems[p])
    BY <1>1 DEF RegisterEarly, Registered, Listed
  <2>2. /\ Append(elems[p], n) \in Seq(Names) /\ Injective(Append(elems[p], n))
        /\ Listed(Append(elems[p], n)) = Listed(elems[p]) \cup {n}
    BY <2>1, AppendListed DEF TqInv, TqTypes, ElementsListed
  <2>3. TqTypes'
    BY <2>1, <2>2 DEF TqInv, TqTypes
  <2>4. TableFilled' /\ HeadsAgree'
    BY <2>1 DEF TqInv, TableFilled, HeadsAgree, First
  <2>5. \A q \in TqProcs : Registered(q)' = IF q = p THEN Registered(p) \cup {n} ELSE Registered(q)
    BY <2>1, <2>2, RegisteredListed DEF TqInv, TqTypes
  <2>6. \A q \in TqProcs : Pending(q)' = Pending(q) /\ Injective(elems'[q])
    BY <2>1, <2>2 DEF TqInv, TqTypes, Pending, ElementsListed
  <2>7. ElementsListed'
    BY <2>1, <2>5, <2>6 DEF TqInv, ElementsListed
  <2> QED BY <2>3, <2>4, <2>7 DEF TqInv
<1>2. ASSUME NEW p \in TqProcs, NEW n \in Names, RegisterLate(p, n) PROVE TqInv'
  <2>1. /\ ready[p] = "up" /\ n \notin Listed(elems[p]) /\ Update(p, n)
        /\ elems' = IF Updated(p, n) = NoHead THEN elems
                    ELSE [elems EXCEPT ![p] = Append(elems[p], n)]
        /\ UNCHANGED <<todo, ready>>
        /\ n \notin Registered(p) /\ head[p][n] = NoHead
    BY <1>2 DEF RegisterLate, Registered, Listed, TqInv, ElementsListed
  <2>2. /\ Append(elems[p], n) \in Seq(Names) /\ Injective(Append(elems[p], n))
        /\ Listed(Append(elems[p], n)) = Listed(elems[p]) \cup {n}
    BY <2>1, AppendListed DEF TqInv, TqTypes, ElementsListed
  <2>3. /\ tailq_head' \in [Slots -> {Stored(k) : k \in Names} \cup {NoName}]
        /\ head' = [head EXCEPT ![p][n] = Updated(p, n)]
        /\ head' \in [TqProcs -> [Names -> Slots \cup {NoHead}]]
        /\ tq_count' \in [TqProcs -> Int]
        /\ TableFilled' /\ HeadsAgree'
    BY <2>1, UpdateInv
  <2>4. TqTypes'
    BY <2>1, <2>2, <2>3 DEF TqInv, TqTypes
  <2>5. \A q \in TqProcs :
          /\ Registered(q)' = IF q = p /\ Updated(p, n) # NoHead THEN Registered(p) \cup {n}
                              ELSE Registered(q)
          /\ Pending(q)' = Pending(q) /\ Injective(elems'[q])
    BY <2>1, <2>2, RegisteredListed DEF TqInv, TqTypes, Pending, ElementsListed
  <2>6. /\ \A q \in TqProcs, k \in Names :
             head'[q][k] = IF q = p /\ k = n THEN Updated(p, n) ELSE head[q][k]
        /\ \A q \in TqProcs : Pending(q) \subseteq Registered(q)
        /\ \A q \in TqProcs : Registered(q) \subseteq Names
    BY <2>3 DEF TqInv, TqTypes, ElementsListed, Registered
  <2>7. ElementsListed'
    BY <2>1, <2>5, <2>6 DEF TqInv, ElementsListed
  <2> QED BY <2>3, <2>4, <2>7 DEF TqInv
<1>3. ASSUME NEW p \in TqProcs, TailqsInit(p) PROVE TqInv'
  <2>1. TqTypes'
    BY <1>3 DEF TailqsInit, TqInv, TqTypes
  <2>2. TableFilled'
    <3>1. CASE p = Primary
      <4>1. \A i \in Slots : ~(i < 0) /\ ~(i < -1)
        BY TailqsAssumption DEF Slots
      <4>2. \A i \in Slots : tailq_head[i] = NoName
        BY <1>3, <3>1, <4>1 DEF TailqsInit, TqInv, TableFilled
      <4> QED BY <1>3, <3>1, <4>1, <4>2, TailqsAssumption
              DEF TailqsInit, TqInv, TqTypes, TableFilled, TqProcs, ElementsListed
    <3>2. CASE p # Primary
      BY <1>3, <3>2 DEF TailqsInit, TqInv, TqTypes, TableFilled, TqProcs
    <3> QED BY <3>1, <3>2
  <2>3. HeadsAgree'
    BY <1>3 DEF TailqsInit, TqInv, HeadsAgree, First
  <2>4. \A q \in TqProcs :
          /\ Registered(q)' = Registered(q)
          /\ Pending(q)' = IF q = p THEN Registered(p) ELSE Pending(q)
          /\ Injective(todo'[q]) /\ Injective(elems'[q])
    BY <1>3, RegisteredListed DEF TailqsInit, TqInv, TqTypes, Pending, ElementsListed
  <2>5. ElementsListed'
    BY <1>3, <2>4 DEF TailqsInit, TqInv, TqTypes, ElementsListed
  <2> QED BY <2>1, <2>2, <2>3, <2>5 DEF TqInv
<1>4. ASSUME NEW p \in TqProcs, InitElement(p) PROVE TqInv'
  <2> DEFINE n == Head(todo[p])
             rest == Tail(todo[p])
             ok == Updated(p, n) # NoHead
  <2>1. /\ ready[p] = "init" /\ Update(p, n)
        /\ todo' = [todo EXCEPT ![p] = IF ok THEN rest ELSE <<>>]
        /\ ready' = [ready EXCEPT ![p] = CASE ~ok -> "failed"
                                           [] ok /\ rest = <<>> -> "up"
                                           [] OTHER -> "init"]
        /\ UNCHANGED elems
    BY <1>4 DEF InitElement
  <2>2. /\ n \in Names /\ rest \in Seq(Names) /\ Injective(rest) /\ n \in Pending(p)
        /\ Listed(rest) = Pending(p) \ {n}
        /\ rest = <<>> <=> Pending(p) \ {n} = {}
    <3>1. todo[p] \in Seq(Names) /\ todo[p] # <<>> /\ Injective(todo[p])
      BY <2>1 DEF TqInv, TqTypes, ElementsListed
    <3>2. /\ n \in Names /\ rest \in Seq(Names) /\ Injective(rest) /\ n \in Pending(p)
          /\ Listed(rest) = Pending(p) \ {n}
          /\ rest = <<>> <=> Listed(rest) = {}
      BY <3>1, TailListed DEF Pending
    <3> QED BY <3>2
  <2> HIDE DEF n, rest
  <2>3. head[p][n] = NoHead
    BY <2>2 DEF TqInv, ElementsListed
  <2>4. /\ ready'[p] = IF ~ok THEN "failed" ELSE IF rest = <<>> THEN "up" ELSE "init"
        /\ \A q \in TqProcs \ {p} : ready'[q] = ready[q]
        /\ ready' \in [TqProcs -> {"early", "init", "up", "failed"}]
    BY <2>1 DEF TqInv, TqTypes
  <2>5. /\ tailq_head' \in [Slots -> {Stored(k) : k \in Names} \cup {NoName}]
        /\ head' = [head EXCEPT ![p][n] = Updated(p, n)]
        /\ head' \in [TqProcs -> [Names -> Slots \cup {NoHead}]]
        /\ tq_count' \in [TqProcs -> Int]
        /\ TableFilled' /\ HeadsAgree'
    BY <2>1, <2>2, <2>3, <2>4, UpdateInv
  <2>6. TqTypes'
    BY <2>1, <2>2, <2>4, <2>5 DEF TqInv, TqTypes
  <2>7. \A q \in TqProcs :
          /\ Registered(q)' = Registered(q)
          /\ Pending(q)' = IF q # p THEN Pending(q) ELSE IF ok THEN Pending(p) \ {n} ELSE {}
          /\ Injective(todo'[q]) /\ Injective(elems'[q])
    <3>1. Listed(<<>>) = {} /\ Injective(<<>>)
      BY DEF Listed, Injective
    <3> QED BY <2>1, <2>2, <3>1, RegisteredListed DEF TqInv, TqTypes, Pending, ElementsListed
  <2>8. /\ \A q \in TqProcs, k \in Names :
             head'[q][k] = IF q = p /\ k = n THEN Updated(p, n) ELSE head[q][k]
        /\ \A q \in TqProcs : Registered(q) \subseteq Names
        /\ \A q \in TqProcs : todo'[q] = IF q # p THEN todo[q] ELSE IF ok THEN rest ELSE <<>>
    BY <2>1, <2>5 DEF TqInv, TqTypes, Registered
  <2>9. ElementsListed'
    BY <2>1, <2>2, <2>4, <2>7, <2>8 DEF TqInv, ElementsListed
  <2> QED BY <2>5, <2>6, <2>9 DEF TqInv
<1>5. CASE UNCHANGED tq_vars
  BY <1>5, RegisteredListed
     DEF tq_vars, TqInv, TqTypes, TableFilled, HeadsAgree, First, ElementsListed, Pending
<1> QED BY <1>1, <1>2, <1>3, <1>4, <1>5 DEF TqNext

(* For any processes, table size and names, those that are cut to names of *)
(* other libraries too: all processes that use a name use one list, only a *)
(* name that was cut shares its list with another name, the count is the   *)
(* number of slots in use and stays below RTE_MAX_TAILQ, and there is no   *)
(* null head in the list of a process that is up (eal_common_tailqs.c).    *)
THEOREM TailqsSafety == TqSpec => []TailqsSound
<1>1. TqInv => TailqsSound
  <2> SUFFICES ASSUME TqInv PROVE TailqsSound
    OBVIOUS
  <2>1. OneListPerName
    <3> SUFFICES ASSUME NEW p \in TqProcs, NEW q \in TqProcs, NEW n \in Names, NEW k \in Names,
                        head[p][n] # NoHead, head[q][k] # NoHead
                 PROVE  /\ n = k => head[p][n] = head[q][k]
                        /\ head[p][n] = head[q][k] =>
                             n = k \/ SharedByCut(p, n, q, k) \/ SharedByCut(q, k, p, n)
      BY DEF OneListPerName
    <3>1. /\ (n \in LongNames /\ p = Primary) \/ (n \notin LongNames /\ First(tailq_head, head[p][n], n))
          /\ (k \in LongNames /\ q = Primary) \/ (k \notin LongNames /\ First(tailq_head, head[q][k], k))
      BY DEF TqInv, HeadsAgree
    <3>2. ASSUME n = k
          PROVE  head[p][n] = head[q][k]
      BY <3>1, <3>2, TailqsAssumption DEF First, Slots
    <3>3. ASSUME head[p][n] = head[q][k], n # k
          PROVE  SharedByCut(p, n, q, k) \/ SharedByCut(q, k, p, n)
      <4>1. /\ p = Primary => tailq_head[head[p][n]] = Stored(n)
            /\ q = Primary => tailq_head[head[q][k]] = Stored(k)
            /\ ~(p = Primary /\ q = Primary)
        BY <3>3 DEF TqInv, TableFilled
      <4> QED BY <3>1, <3>3, <4>1 DEF First, Stored, SharedByCut
    <3> QED BY <3>2, <3>3
  <2>2. CountIsUsed
    BY TailqsAssumption DEF TqInv, TqTypes, TableFilled, CountIsUsed, Slots, TqProcs
  <2>3. ListedIsUsable
    <3>1. \A p \in TqProcs : ready[p] = "up" => Pending(p) = {}
      BY DEF TqInv, ElementsListed, Pending, Listed
    <3> QED BY <3>1 DEF TqInv, ElementsListed, ListedIsUsable
  <2> QED BY <2>1, <2>2, <2>3 DEF TailqsSound
<1> QED BY TqInitInv, TqStepInv, <1>1, PTL DEF TqSpec

-----------------------------------------------------------------------------
(* rte_eal_init (Startup.tla), for any number of processes, prefixes and   *)
(* calls: the record lock keeps the configuration of a primary its own,    *)
(* run_once keeps its memory from being set up twice, and the lock on the  *)
(* directory keeps its huge page file.                                     *)
Early == {"primary", "lock", "write", "hugeinfo", "clear", "unlink", "count", "memory", "map"}
Late == {"memory_done", "unlock", "finish", "running", "returned", "call"}
Clearing == {"clear", "unlink", "count", "memory", "map"}
Stages == Early \cup Late \cup {"off", "detect", "secondary", "wait", "log", "dead"}

StartTypes ==
  /\ stage \in [Procs -> Stages] /\ type \in [Procs -> {"primary", "secondary"}]
  /\ calls \in [Procs -> 0 .. MaxCalls] /\ run_once \in [Procs -> BOOLEAN]
  /\ cfg \in [Prefixes -> [exists : BOOLEAN, owner : Procs \cup {None}, magic : BOOLEAN]]
  /\ wr_lock \in [Prefixes -> Procs \cup {None}]
  /\ dirlock \in (Procs \X (0 .. MaxCalls)) \cup {None}
  /\ victims \in [Procs -> SUBSET Prefixes] /\ files \in SUBSET Prefixes
  /\ maps \in [Procs -> BOOLEAN]

(* Where a process can be: a primary takes the path of a primary, and      *)
(* run_once is set from the check on.                                      *)
PathOf(p) ==
  /\ stage[p] \in Early => type[p] = "primary"
  /\ stage[p] \in {"secondary", "wait"} => type[p] = "secondary"
  /\ stage[p] \in Clearing \cup {"hugeinfo"} => p \notin NoHuge
  /\ stage[p] \notin {"off", "detect", "call", "returned", "dead"} => run_once[p]
  /\ maps[p] => run_once[p] /\ stage[p] \in Late

(* Who clears the directory or creates a file in it has the lock.          *)
Holds(p) ==
  stage[p] \in Clearing \/ (stage[p] = "log" /\ type[p] = "primary" /\ p \notin NoHuge)
DirOf(p) == Holds(p) => dirlock = <<p, calls[p]>>

(* Who writes the configuration has its lock, and keeps it.                *)
ConfigOf(p) ==
  /\ stage[p] = "write" => wr_lock[PrefixOf[p]] = p
  /\ p \notin NoShconf /\ Initialised(p) =>
       cfg[PrefixOf[p]].owner = p /\ wr_lock[PrefixOf[p]] = p

(* What clear_hugedir is about to unlink is still unused.                  *)
FilesOf(p) ==
  /\ stage[p] = "unlink" => \A q \in Procs : maps[q] => PrefixOf[q] \notin victims[p]
  /\ maps[p] \/ stage[p] = "map" => PrefixOf[p] \in files

StartInv ==
  /\ StartTypes
  /\ \A p \in Procs : PathOf(p) /\ DirOf(p) /\ ConfigOf(p) /\ FilesOf(p)

(* A step of one process that leaves alone what is shared.                 *)
Alone(p) ==
  /\ cfg' = cfg /\ wr_lock' = wr_lock /\ dirlock' = dirlock /\ files' = files /\ maps' = maps
  /\ \A q \in Procs : q # p =>
       /\ stage'[q] = stage[q] /\ type'[q] = type[q] /\ calls'[q] = calls[q]
       /\ run_once'[q] = run_once[q] /\ victims'[q] = victims[q]

LEMMA OwnStep ==
  ASSUME StartInv, NEW p \in Procs, StartTypes', Alone(p),
         PathOf(p)', DirOf(p)', ConfigOf(p)', FilesOf(p)'
  PROVE  StartInv'
<1>1. ASSUME NEW q \in Procs, q # p PROVE PathOf(q)' /\ DirOf(q)' /\ ConfigOf(q)' /\ FilesOf(q)'
  BY <1>1 DEF Alone, StartInv, PathOf, DirOf, Holds, ConfigOf, Initialised, FilesOf
<1> QED BY <1>1 DEF StartInv

LEMMA CallInitInv ==
  ASSUME StartInv, NEW p \in Procs, CallInit(p)
  PROVE  StartInv'
<1>1. StartTypes /\ PathOf(p) /\ FilesOf(p) /\ stage[p] = "call"
  BY DEF StartInv, CallInit
<1>2. PICK v \in {"returned", "primary", "secondary", "log", "hugeinfo", "wait"} :
        /\ stage' = [stage EXCEPT ![p] = v]
        /\ \/ v = "returned" /\ run_once' = run_once
           \/ /\ ~run_once[p] /\ run_once' = [run_once EXCEPT ![p] = TRUE]
              /\ \/ p \notin NoShconf /\ v = type[p]
                 \/ p \in NoShconf /\ type[p] = "primary" /\ v = AfterConfig(p)
                 \/ p \in NoShconf /\ type[p] = "secondary" /\ v = "wait"
  <2>1. type[p] \in {"primary", "secondary"} /\ AfterConfig(p) \in {"log", "hugeinfo"}
    BY <1>1 DEF StartTypes, AfterConfig
  <2> QED BY <2>1 DEF CallInit, Goto
<1>3. /\ calls' = [calls EXCEPT ![p] = calls[p] + 1] /\ calls[p] < MaxCalls
      /\ type' = type /\ cfg' = cfg /\ wr_lock' = wr_lock /\ dirlock' = dirlock
      /\ files' = files /\ maps' = maps /\ victims' = victims
  BY DEF CallInit, shared
<1>4. v \in Stages
  BY DEF Stages, Early, Late
<1>5. StartTypes'
  <2>1. calls[p] + 1 \in 0 .. MaxCalls
    BY <1>1, <1>3, StartupAssumption DEF StartTypes
  <2> QED BY <1>1, <1>2, <1>3, <1>4, <2>1 DEF StartTypes
<1>6. PathOf(p)'
  BY <1>1, <1>2, <1>3 DEF StartTypes, PathOf, AfterConfig, Early, Late, Clearing
<1>7. DirOf(p)'
  BY <1>1, <1>2, <1>3 DEF StartTypes, DirOf, Holds, AfterConfig, Clearing
<1>8. ConfigOf(p)'
  BY <1>1, <1>2, <1>3 DEF StartTypes, ConfigOf, Initialised
<1>9. FilesOf(p)'
  BY <1>1, <1>2, <1>3 DEF StartTypes, FilesOf
<1>10. Alone(p)
  BY <1>1, <1>2, <1>3 DEF Alone, StartTypes
<1> QED BY <1>5, <1>6, <1>7, <1>8, <1>9, <1>10, OwnStep

LEMMA QuietInv ==
  ASSUME StartInv, NEW p \in Procs,
         \/ Begin(p) \/ WaitComplete(p) \/ TestFiles(p) \/ CountHugepages(p) \/ LogInit(p)
         \/ MemoryInit(p) \/ Finish(p) \/ Retry(p) \/ HugedirFails(p)
  PROVE  StartInv'
<1>0. StartTypes /\ PathOf(p) /\ DirOf(p) /\ ConfigOf(p) /\ FilesOf(p)
  BY DEF StartInv
<1>1. CASE Begin(p)
  <2>1. StartTypes' /\ Alone(p)
    BY <1>0, <1>1 DEF StartTypes, Alone, Begin, Goto, shared, Early, Late, Clearing, Stages
  <2>2. PathOf(p)' /\ DirOf(p)'
    BY <1>0, <1>1 DEF StartTypes, PathOf, DirOf, Holds, Begin, Goto, shared, Early, Late, Clearing, Stages
  <2>3. ConfigOf(p)' /\ FilesOf(p)'
    BY <1>0, <1>1 DEF StartTypes, PathOf, ConfigOf, Initialised, FilesOf, Begin, Goto, shared, Early, Late, Clearing, Stages
  <2> QED BY <2>1, <2>2, <2>3, OwnStep
<1>2. CASE WaitComplete(p)
  <2>1. StartTypes' /\ Alone(p)
    BY <1>0, <1>2 DEF StartTypes, Alone, WaitComplete, Goto, shared, Early, Late, Clearing, Stages
  <2>2. PathOf(p)' /\ DirOf(p)'
    BY <1>0, <1>2 DEF StartTypes, PathOf, DirOf, Holds, WaitComplete, Goto, shared, Early, Late, Clearing, Stages
  <2>3. ConfigOf(p)' /\ FilesOf(p)'
    BY <1>0, <1>2 DEF StartTypes, PathOf, ConfigOf, Initialised, FilesOf, WaitComplete, Goto, shared, Early, Late, Clearing, Stages
  <2> QED BY <2>1, <2>2, <2>3, OwnStep
<1>3. CASE TestFiles(p)
  <2>1. StartTypes' /\ Alone(p)
    BY <1>0, <1>3 DEF StartTypes, Alone, TestFiles, Goto, shared, InUse, Early, Late, Clearing, Stages
  <2>2. PathOf(p)' /\ DirOf(p)'
    BY <1>0, <1>3 DEF StartTypes, PathOf, DirOf, Holds, TestFiles, Goto, shared, InUse, Early, Late, Clearing, Stages
  <2>3. ConfigOf(p)' /\ FilesOf(p)'
    BY <1>0, <1>3 DEF StartTypes, PathOf, ConfigOf, Initialised, FilesOf, TestFiles, Goto, shared, InUse, Early, Late, Clearing, Stages
  <2> QED BY <2>1, <2>2, <2>3, OwnStep
<1>4. CASE CountHugepages(p)
  <2>1. StartTypes' /\ Alone(p)
    BY <1>0, <1>4 DEF StartTypes, Alone, CountHugepages, Goto, shared, EarlyError, Early, Late, Clearing, Stages
  <2>2. PathOf(p)' /\ DirOf(p)'
    BY <1>0, <1>4 DEF StartTypes, PathOf, DirOf, Holds, CountHugepages, Goto, shared, EarlyError, Early, Late, Clearing, Stages
  <2>3. ConfigOf(p)' /\ FilesOf(p)'
    BY <1>0, <1>4 DEF StartTypes, PathOf, ConfigOf, Initialised, FilesOf, CountHugepages, Goto, shared, EarlyError, Early, Late, Clearing, Stages
  <2> QED BY <2>1, <2>2, <2>3, OwnStep
<1>5. CASE LogInit(p)
  <2>1. StartTypes' /\ Alone(p)
    BY <1>0, <1>5 DEF StartTypes, Alone, LogInit, Goto, shared, EarlyError, Early, Late, Clearing, Stages
  <2>2. PathOf(p)' /\ DirOf(p)'
    BY <1>0, <1>5 DEF StartTypes, PathOf, DirOf, Holds, LogInit, Goto, shared, EarlyError, Early, Late, Clearing, Stages
  <2>3. ConfigOf(p)' /\ FilesOf(p)'
    BY <1>0, <1>5 DEF StartTypes, PathOf, ConfigOf, Initialised, FilesOf, LogInit, Goto, shared, EarlyError, Early, Late, Clearing, Stages
  <2> QED BY <2>1, <2>2, <2>3, OwnStep
<1>6. CASE MemoryInit(p)
  <2>1. StartTypes' /\ Alone(p)
    BY <1>0, <1>6 DEF StartTypes, Alone, MemoryInit, Goto, shared, LateError, Early, Late, Clearing, Stages
  <2>2. PathOf(p)' /\ DirOf(p)'
    BY <1>0, <1>6 DEF StartTypes, PathOf, DirOf, Holds, MemoryInit, Goto, shared, LateError, Early, Late, Clearing, Stages
  <2>3. ConfigOf(p)' /\ FilesOf(p)'
    BY <1>0, <1>6 DEF StartTypes, PathOf, ConfigOf, Initialised, FilesOf, MemoryInit, Goto, shared, LateError, Early, Late, Clearing, Stages
  <2> QED BY <2>1, <2>2, <2>3, OwnStep
<1>7. CASE Finish(p)
  <2>1. StartTypes' /\ Alone(p)
    BY <1>0, <1>7 DEF StartTypes, Alone, Finish, Goto, shared, LateError, Early, Late, Clearing, Stages
  <2>2. PathOf(p)' /\ DirOf(p)'
    BY <1>0, <1>7 DEF StartTypes, PathOf, DirOf, Holds, Finish, Goto, shared, LateError, Early, Late, Clearing, Stages
  <2>3. ConfigOf(p)' /\ FilesOf(p)'
    BY <1>0, <1>7 DEF StartTypes, PathOf, ConfigOf, Initialised, FilesOf, Finish, Goto, shared, LateError, Early, Late, Clearing, Stages
  <2> QED BY <2>1, <2>2, <2>3, OwnStep
<1>8. CASE Retry(p)
  <2>1. StartTypes' /\ Alone(p)
    BY <1>0, <1>8 DEF StartTypes, Alone, Retry, Goto, shared, Early, Late, Clearing, Stages
  <2>2. PathOf(p)' /\ DirOf(p)'
    BY <1>0, <1>8 DEF StartTypes, PathOf, DirOf, Holds, Retry, Goto, shared, Early, Late, Clearing, Stages
  <2>3. ConfigOf(p)' /\ FilesOf(p)'
    BY <1>0, <1>8 DEF StartTypes, PathOf, ConfigOf, Initialised, FilesOf, Retry, Goto, shared, Early, Late, Clearing, Stages
  <2> QED BY <2>1, <2>2, <2>3, OwnStep
<1>9. CASE HugedirFails(p)
  <2>1. StartTypes' /\ Alone(p)
    BY <1>0, <1>9 DEF StartTypes, Alone, HugedirFails, Goto, shared, Early, Late, Clearing, Stages
  <2>2. PathOf(p)' /\ DirOf(p)'
    BY <1>0, <1>9 DEF StartTypes, PathOf, DirOf, Holds, HugedirFails, Goto, shared, Early, Late, Clearing, Stages
  <2>3. ConfigOf(p)' /\ FilesOf(p)'
    BY <1>0, <1>9 DEF StartTypes, PathOf, ConfigOf, Initialised, FilesOf, HugedirFails, Goto, shared, Early, Late, Clearing, Stages
  <2> QED BY <2>1, <2>2, <2>3, OwnStep
<1> QED BY <1>1, <1>2, <1>3, <1>4, <1>5, <1>6, <1>7, <1>8, <1>9

-----------------------------------------------------------------------------
(* The steps that touch what is shared.                                    *)
Others(p) ==
  \A q \in Procs : q # p =>
    /\ stage'[q] = stage[q] /\ type'[q] = type[q] /\ calls'[q] = calls[q]
    /\ run_once'[q] = run_once[q] /\ victims'[q] = victims[q] /\ maps'[q] = maps[q]

LEMMA EndsInv ==
  ASSUME StartInv, NEW p \in Procs, Ends(p)
  PROVE  StartInv'
<1>1. StartTypes /\ StartTypes' /\ Others(p) /\ stage'[p] = "dead" /\ maps'[p] = FALSE
  BY DEF StartInv, StartTypes, Ends, Goto, Others, Stages
<1>2. ASSUME NEW q \in Procs PROVE PathOf(q)'
  BY <1>1 DEF StartInv, PathOf, Others, Early, Late, Clearing
<1>3. ASSUME NEW q \in Procs PROVE DirOf(q)'
  <2>1. CASE q = p
    BY <1>1, <2>1 DEF DirOf, Holds, Clearing
  <2>2. CASE q # p
    <3>1. Holds(q)' => Holds(q) /\ dirlock = <<q, calls[q]>>
      BY <1>1, <2>2 DEF StartInv, DirOf, Holds, Others
    <3>2. dirlock = <<q, calls[q]>> => dirlock' = dirlock
      BY <2>2 DEF Ends
    <3> QED BY <1>1, <2>2, <3>1, <3>2 DEF DirOf, Others
  <2> QED BY <2>1, <2>2
<1>4. ASSUME NEW q \in Procs PROVE ConfigOf(q)'
  <2>1. CASE q = p
    BY <1>1, <2>1 DEF ConfigOf, Initialised
  <2>2. CASE q # p
    <3>1. wr_lock[PrefixOf[q]] = q => wr_lock'[PrefixOf[q]] = q
      BY <2>2 DEF Ends, Prefixes
    <3>2. cfg' = cfg
      BY DEF Ends
    <3> QED BY <1>1, <2>2, <3>1, <3>2 DEF StartInv, ConfigOf, Initialised, Others
  <2> QED BY <2>1, <2>2
<1>5. ASSUME NEW q \in Procs PROVE FilesOf(q)'
  <2>1. \A m \in Procs : maps'[m] => maps[m]
    BY <1>1 DEF Others
  <2>2. files' = files
    BY DEF Ends
  <2> QED BY <1>1, <2>1, <2>2 DEF StartInv, FilesOf, Others
<1> QED BY <1>1, <1>2, <1>3, <1>4, <1>5 DEF StartInv

(* A step that only moves p and takes or leaves the lock of its prefix.    *)
LEMMA DetectInv ==
  ASSUME StartInv, NEW p \in Procs, eal_proc_type_detect(p)
  PROVE  StartInv'
<1> DEFINE prefix == PrefixOf[p]
<1>1. /\ StartTypes /\ PathOf(p) /\ stage[p] = "detect" /\ prefix \in Prefixes
      /\ calls' = calls /\ run_once' = run_once /\ cfg' = cfg /\ dirlock' = dirlock
      /\ victims' = victims /\ files' = files /\ maps' = maps
      /\ stage' = [stage EXCEPT ![p] = "call"]
  BY DEF StartInv, eal_proc_type_detect, Goto, Prefixes
<1>2. \/ wr_lock' = wr_lock
      \/ wr_lock[prefix] = None /\ wr_lock' = [wr_lock EXCEPT ![prefix] = p]
  BY DEF eal_proc_type_detect
<1>3. type' \in [Procs -> {"primary", "secondary"}] /\ \A q \in Procs : q # p => type'[q] = type[q]
  BY <1>1 DEF StartTypes, eal_proc_type_detect
<1>4. StartTypes' /\ Others(p) /\ stage'[p] = "call"
  BY <1>1, <1>2, <1>3 DEF StartTypes, Others, Stages, Late
<1>5. \A q \in Procs, y \in Prefixes : wr_lock[y] = q => wr_lock'[y] = q
  BY <1>1, <1>2, StartupAssumption DEF StartTypes
<1>6. ASSUME NEW q \in Procs PROVE PathOf(q)' /\ DirOf(q)'
  BY <1>1, <1>4 DEF StartInv, PathOf, DirOf, Holds, Others, Early, Late, Clearing
<1>7. ASSUME NEW q \in Procs PROVE ConfigOf(q)'
  <2>1. PrefixOf[q] \in Prefixes
    BY DEF Prefixes
  <2> QED BY <1>1, <1>4, <1>5, <2>1 DEF StartInv, ConfigOf, Initialised, Others
<1>8. ASSUME NEW q \in Procs PROVE FilesOf(q)'
  BY <1>1, <1>4 DEF StartInv, FilesOf, Others
<1> QED BY <1>4, <1>6, <1>7, <1>8 DEF StartInv

LEMMA ConfigStepInv ==
  ASSUME StartInv, NEW p \in Procs, OpenConfig(p) \/ LockConfig(p) \/ WriteConfig(p)
  PROVE  StartInv'
<1> DEFINE prefix == PrefixOf[p]
<1>0. StartTypes /\ PathOf(p) /\ ConfigOf(p) /\ prefix \in Prefixes
  BY DEF StartInv, Prefixes
<1>1. CASE LockConfig(p) /\ Ends(p)
  BY <1>1, EndsInv
<1>2. CASE OpenConfig(p) \/ WriteConfig(p) \/ (LockConfig(p) /\ ~Ends(p))
  <2>1. /\ stage[p] \in {"primary", "lock", "write"}
        /\ calls' = calls /\ run_once' = run_once /\ dirlock' = dirlock /\ type' = type
        /\ victims' = victims /\ files' = files /\ maps' = maps
    BY <1>2 DEF OpenConfig, LockConfig, WriteConfig
  <2>2. PICK v \in {"lock", "write", "log", "hugeinfo"} :
          /\ stage' = [stage EXCEPT ![p] = v]
          /\ v = "write" => stage[p] = "lock"
          /\ v \in {"log", "hugeinfo"} => stage[p] = "write" /\ v = AfterConfig(p)
    BY <1>2 DEF OpenConfig, LockConfig, WriteConfig, Goto, AfterConfig
  <2>3. /\ wr_lock' \in [Prefixes -> Procs \cup {None}]
        /\ cfg' \in [Prefixes -> [exists : BOOLEAN, owner : Procs \cup {None}, magic : BOOLEAN]]
    <3>1. wr_lock' \in [Prefixes -> Procs \cup {None}]
      BY <1>0, <1>2 DEF StartTypes, OpenConfig, LockConfig, WriteConfig
    <3>2. CASE OpenConfig(p)
      BY <1>0, <3>1, <3>2, ZenonT(40) DEF StartTypes, OpenConfig
    <3>3. CASE WriteConfig(p)
      BY <1>0, <3>1, <3>3 DEF StartTypes, WriteConfig
    <3>4. CASE LockConfig(p) /\ ~Ends(p)
      BY <1>0, <3>1, <3>4 DEF StartTypes, LockConfig
    <3> QED BY <1>2, <3>2, <3>3, <3>4
  <2>4. StartTypes' /\ Others(p)
    BY <1>0, <2>1, <2>2, <2>3 DEF StartTypes, Others, Stages, Early
  <2>5. \A q \in Procs, y \in Prefixes : wr_lock[y] = q => wr_lock'[y] = q
    BY <1>0, <1>2, StartupAssumption DEF StartTypes, OpenConfig, LockConfig, WriteConfig
  <2>6. /\ \A y \in Prefixes : cfg'[y].owner # cfg[y].owner => y = prefix /\ wr_lock[prefix] = p
        /\ stage[p] = "write" => cfg'[prefix].owner = p /\ wr_lock'[prefix] = p
        /\ v = "write" => wr_lock'[prefix] = p
    <3>1. CASE OpenConfig(p)
      BY <1>0, <2>2, <3>1 DEF StartTypes, OpenConfig
    <3>2. CASE WriteConfig(p)
      BY <1>0, <2>2, <3>2 DEF StartTypes, ConfigOf, WriteConfig
    <3>3. CASE LockConfig(p) /\ ~Ends(p)
      BY <1>0, <2>2, <3>3 DEF StartTypes, LockConfig
    <3> QED BY <1>2, <3>1, <3>2, <3>3
  <2>7. ASSUME NEW q \in Procs PROVE PathOf(q)'
    BY <1>0, <2>1, <2>2, <2>4 DEF StartInv, StartTypes, PathOf, Others, AfterConfig, Early, Late, Clearing
  <2>8. ASSUME NEW q \in Procs PROVE DirOf(q)'
    BY <1>0, <2>1, <2>2, <2>4 DEF StartInv, StartTypes, DirOf, Holds, Others, AfterConfig, Clearing
  <2>9. ASSUME NEW q \in Procs PROVE ConfigOf(q)'
    <3>1. CASE q = p
      BY <1>0, <2>2, <2>6, <3>1 DEF StartTypes, ConfigOf, Initialised
    <3>2. CASE q # p
      <4>1. PrefixOf[q] \in Prefixes
        BY DEF Prefixes
      <4>2. wr_lock[PrefixOf[q]] = q => cfg'[PrefixOf[q]].owner = cfg[PrefixOf[q]].owner
        BY <2>6, <3>2, <4>1
      <4> QED BY <2>4, <2>5, <3>2, <4>1, <4>2 DEF StartInv, ConfigOf, Initialised, Others
    <3> QED BY <3>1, <3>2
  <2>10. ASSUME NEW q \in Procs PROVE FilesOf(q)'
    BY <1>0, <2>1, <2>2, <2>4 DEF StartInv, StartTypes, FilesOf, Others
  <2> QED BY <2>4, <2>7, <2>8, <2>9, <2>10 DEF StartInv
<1> QED BY <1>1, <1>2

LEMMA AttachInv ==
  ASSUME StartInv, NEW p \in Procs, AttachConfig(p)
  PROVE  StartInv'
<1>0. StartTypes /\ PathOf(p) /\ DirOf(p) /\ ConfigOf(p) /\ FilesOf(p)
  BY DEF StartInv
<1>1. CASE Ends(p)
  BY <1>1, EndsInv
<1>2. CASE ~Ends(p)
  <2>1. StartTypes' /\ Alone(p)
    BY <1>0, <1>2 DEF StartTypes, Alone, AttachConfig, Goto, shared, Stages
  <2>2. PathOf(p)' /\ DirOf(p)'
    BY <1>0, <1>2 DEF StartTypes, PathOf, DirOf, Holds, AttachConfig, Goto, shared, Early, Late, Clearing
  <2>3. ConfigOf(p)' /\ FilesOf(p)'
    BY <1>0, <1>2 DEF StartTypes, PathOf, ConfigOf, Initialised, FilesOf, AttachConfig, Goto, shared, Late
  <2> QED BY <2>1, <2>2, <2>3, OwnStep
<1> QED BY <1>1, <1>2

-----------------------------------------------------------------------------
(* The directory of the huge pages: only one process is in it.             *)
LEMMA OneHolder ==
  ASSUME StartInv, NEW p \in Procs, NEW q \in Procs, Holds(p), Holds(q)
  PROVE  p = q
BY DEF StartInv, DirOf

LEMMA HolderKnown ==
  ASSUME StartInv, NEW p \in Procs, Holds(p)
  PROVE  dirlock # None
BY StartupAssumption DEF StartInv, DirOf, StartTypes

LEMMA LockHugedirInv ==
  ASSUME StartInv, NEW p \in Procs, LockHugedir(p)
  PROVE  StartInv'
<1>1. /\ StartTypes /\ PathOf(p) /\ stage[p] = "hugeinfo" /\ dirlock = None
      /\ dirlock' = <<p, calls[p]>> /\ stage' = [stage EXCEPT ![p] = "clear"]
      /\ type' = type /\ calls' = calls /\ run_once' = run_once /\ cfg' = cfg
      /\ wr_lock' = wr_lock /\ victims' = victims /\ files' = files /\ maps' = maps
  BY DEF StartInv, LockHugedir, Goto
<1>2. StartTypes' /\ Others(p) /\ stage'[p] = "clear"
  BY <1>1 DEF StartTypes, Others, Stages, Early
<1>3. ASSUME NEW q \in Procs PROVE PathOf(q)'
  BY <1>1, <1>2 DEF StartInv, PathOf, Others, Early, Late, Clearing
<1>4. ASSUME NEW q \in Procs PROVE DirOf(q)'
  <2>1. ~Holds(q)
    BY <1>1, HolderKnown
  <2> QED BY <1>1, <1>2, <2>1 DEF DirOf, Holds, Others
<1>5. ASSUME NEW q \in Procs PROVE ConfigOf(q)' /\ FilesOf(q)'
  BY <1>1, <1>2 DEF StartInv, ConfigOf, Initialised, FilesOf, Others
<1> QED BY <1>2, <1>3, <1>4, <1>5 DEF StartInv

LEMMA UnlinkFilesInv ==
  ASSUME StartInv, NEW p \in Procs, UnlinkFiles(p)
  PROVE  StartInv'
<1>1. /\ StartTypes /\ PathOf(p) /\ FilesOf(p) /\ stage[p] = "unlink"
      /\ files' = files \ victims[p] /\ stage' = [stage EXCEPT ![p] = "count"]
      /\ victims' = [victims EXCEPT ![p] = {}]
      /\ type' = type /\ calls' = calls /\ run_once' = run_once /\ cfg' = cfg
      /\ wr_lock' = wr_lock /\ dirlock' = dirlock /\ maps' = maps
  BY DEF StartInv, UnlinkFiles, Goto
<1>2. StartTypes' /\ Others(p) /\ stage'[p] = "count"
  BY <1>1 DEF StartTypes, Others, Stages, Early
<1>3. ASSUME NEW q \in Procs PROVE PathOf(q)' /\ DirOf(q)'
  BY <1>1, <1>2 DEF StartInv, PathOf, DirOf, Holds, Others, Early, Late, Clearing
<1>4. ASSUME NEW q \in Procs PROVE ConfigOf(q)'
  BY <1>1, <1>2 DEF StartInv, ConfigOf, Initialised, Others
<1>5. ASSUME NEW q \in Procs PROVE FilesOf(q)'
  <2>1. stage[q] # "map"
    BY <1>1, OneHolder DEF Holds, Clearing
  <2>2. maps[q] => PrefixOf[q] \in files /\ PrefixOf[q] \notin victims[p]
    BY <1>1 DEF StartInv, FilesOf
  <2>3. stage'[q] = "unlink" => stage[q] = "unlink" /\ victims'[q] = victims[q]
    BY <1>1, <1>2 DEF Others
  <2>4. stage'[q] # "map"
    BY <1>2, <2>1 DEF Others
  <2> QED BY <1>1, <2>2, <2>3, <2>4 DEF StartInv, FilesOf
<1> QED BY <1>2, <1>3, <1>4, <1>5 DEF StartInv

LEMMA CreateFileInv ==
  ASSUME StartInv, NEW p \in Procs, CreateFile(p)
  PROVE  StartInv'
<1>1. /\ StartTypes /\ PathOf(p) /\ stage[p] = "memory" /\ PrefixOf[p] \in Prefixes
      /\ files' = files \cup {PrefixOf[p]} /\ stage' = [stage EXCEPT ![p] = "map"]
      /\ type' = type /\ calls' = calls /\ run_once' = run_once /\ cfg' = cfg
      /\ wr_lock' = wr_lock /\ dirlock' = dirlock /\ maps' = maps /\ victims' = victims
  BY DEF StartInv, CreateFile, Goto, Prefixes
<1>2. StartTypes' /\ Others(p) /\ stage'[p] = "map"
  BY <1>1 DEF StartTypes, Others, Stages, Early
<1>3. ASSUME NEW q \in Procs PROVE PathOf(q)' /\ DirOf(q)'
  BY <1>1, <1>2 DEF StartInv, PathOf, DirOf, Holds, Others, Early, Late, Clearing
<1>4. ASSUME NEW q \in Procs PROVE ConfigOf(q)' /\ FilesOf(q)'
  BY <1>1, <1>2 DEF StartInv, ConfigOf, Initialised, FilesOf, Others
<1> QED BY <1>2, <1>3, <1>4 DEF StartInv

LEMMA MapFileInv ==
  ASSUME StartInv, NEW p \in Procs, MapFile(p)
  PROVE  StartInv'
<1>1. /\ StartTypes /\ PathOf(p) /\ FilesOf(p) /\ stage[p] = "map" /\ files' = files
      /\ type' = type /\ calls' = calls /\ run_once' = run_once /\ cfg' = cfg
      /\ wr_lock' = wr_lock /\ dirlock' = dirlock /\ victims' = victims
      /\ \/ maps' = maps /\ stage' = [stage EXCEPT ![p] = "returned"]
         \/ maps' = [maps EXCEPT ![p] = TRUE] /\ stage' = [stage EXCEPT ![p] = "memory_done"]
  BY DEF StartInv, MapFile, LateError, Goto, shared
<1>2. StartTypes' /\ Others(p) /\ stage'[p] \in {"returned", "memory_done"}
  BY <1>1 DEF StartTypes, Others, Stages, Late
<1>3. ASSUME NEW q \in Procs PROVE PathOf(q)' /\ DirOf(q)'
  <2>1. CASE q = p
    BY <1>1, <1>2, <2>1 DEF StartTypes, PathOf, DirOf, Holds, Early, Late, Clearing
  <2>2. CASE q # p
    BY <1>1, <1>2, <2>2 DEF StartInv, PathOf, DirOf, Holds, Others
  <2> QED BY <2>1, <2>2
<1>4. ASSUME NEW q \in Procs PROVE ConfigOf(q)'
  BY <1>1, <1>2 DEF StartInv, ConfigOf, Initialised, Others
<1>5. ASSUME NEW q \in Procs PROVE FilesOf(q)'
  <2>1. stage[q] # "unlink" /\ stage'[q] # "unlink"
    BY <1>1, <1>2, OneHolder DEF Holds, Clearing, Others
  <2> QED BY <1>1, <1>2, <2>1 DEF StartInv, FilesOf, Others
<1> QED BY <1>2, <1>3, <1>4, <1>5 DEF StartInv

LEMMA UnlockHugedirsInv ==
  ASSUME StartInv, NEW p \in Procs, UnlockHugedirs(p)
  PROVE  StartInv'
<1>1. /\ StartTypes /\ PathOf(p) /\ stage[p] = "unlock"
      /\ dirlock' = IF dirlock = <<p, calls[p]>> THEN None ELSE dirlock
      /\ stage' = [stage EXCEPT ![p] = "finish"]
      /\ type' = type /\ calls' = calls /\ run_once' = run_once /\ cfg' = cfg
      /\ wr_lock' = wr_lock /\ victims' = victims /\ files' = files /\ maps' = maps
  BY DEF StartInv, UnlockHugedirs, Goto
<1>2. StartTypes' /\ Others(p) /\ stage'[p] = "finish"
  BY <1>1 DEF StartTypes, Others, Stages, Late
<1>3. ASSUME NEW q \in Procs PROVE PathOf(q)'
  BY <1>1, <1>2 DEF StartInv, PathOf, Others, Early, Late, Clearing
<1>4. ASSUME NEW q \in Procs PROVE DirOf(q)'
  <2>1. CASE q = p
    BY <1>1, <1>2, <2>1 DEF DirOf, Holds, Clearing
  <2>2. CASE q # p
    <3>1. Holds(q)' => dirlock = <<q, calls[q]>>
      BY <1>2, <2>2 DEF StartInv, DirOf, Holds, Others
    <3> QED BY <1>1, <2>2, <3>1 DEF DirOf
  <2> QED BY <2>1, <2>2
<1>5. ASSUME NEW q \in Procs PROVE ConfigOf(q)' /\ FilesOf(q)'
  BY <1>1, <1>2 DEF StartInv, ConfigOf, Initialised, FilesOf, Others
<1> QED BY <1>2, <1>3, <1>4, <1>5 DEF StartInv

-----------------------------------------------------------------------------
LEMMA StartInitInv == StartInit => StartInv
<1> SUFFICES ASSUME StartInit PROVE StartInv
  OBVIOUS
<1>1. StartTypes
  BY StartupAssumption DEF StartInit, StartTypes, Stages
<1>2. ASSUME NEW p \in Procs PROVE PathOf(p) /\ DirOf(p) /\ ConfigOf(p) /\ FilesOf(p)
  BY DEF StartInit, PathOf, DirOf, Holds, ConfigOf, Initialised, FilesOf, Early, Late, Clearing
<1> QED BY <1>1, <1>2 DEF StartInv

LEMMA StartStepInv == StartInv /\ [StartNext]_start_vars => StartInv'
<1> SUFFICES ASSUME StartInv, [StartNext]_start_vars PROVE StartInv'
  OBVIOUS
<1>1. ASSUME NEW p \in Procs, StartStep(p) PROVE StartInv'
  BY <1>1, DetectInv, CallInitInv, ConfigStepInv, AttachInv, LockHugedirInv, UnlinkFilesInv,
     CreateFileInv, MapFileInv, UnlockHugedirsInv, QuietInv DEF StartStep
<1>2. ASSUME NEW p \in Procs, HugedirFails(p) \/ Begin(p) \/ Retry(p) \/ Crash(p) PROVE StartInv'
  BY <1>2, QuietInv, EndsInv DEF Crash
<1>3. CASE UNCHANGED start_vars
  <2>1. StartTypes'
    BY <1>3 DEF StartInv, StartTypes, start_vars
  <2>2. ASSUME NEW p \in Procs PROVE PathOf(p)' /\ DirOf(p)' /\ ConfigOf(p)' /\ FilesOf(p)'
    BY <1>3 DEF StartInv, start_vars, PathOf, DirOf, Holds, ConfigOf, Initialised, FilesOf
  <2> QED BY <2>1, <2>2 DEF StartInv
<1> QED BY <1>1, <1>2, <1>3 DEF StartNext

LEMMA StartAlways == StartSpec => []StartInv
BY StartInitInv, StartStepInv, PTL DEF StartSpec

(* However the detection of the process type races with the creation of    *)
(* the file, a primary that is initialised has the lock of the             *)
(* configuration of its prefix and is the one that wrote it                *)
(* (rte_eal_config_create, eal_proc_type_detect).                          *)
THEOREM ConfigStaysIntact == StartSpec => []ConfigIntact
<1>1. StartInv => ConfigIntact
  BY DEF StartInv, ConfigOf, ConfigIntact
<1> QED BY StartAlways, <1>1, PTL

(* The huge page file of a process is never unlinked by another one that   *)
(* clears the directory, neither once it is mapped nor between its         *)
(* creation and its lock: the lock on the directory covers both            *)
(* (clear_hugedir, map_all_hugepages).                                     *)
THEOREM FilesAreKept == StartSpec => []FileKept
<1>1. StartInv => FileKept
  BY DEF StartInv, FilesOf, FileKept
<1> QED BY StartAlways, <1>1, PTL

(* However often rte_eal_init is called and wherever it failed, the memory *)
(* of a process is set up at most once: the errors that clear run_once are *)
(* all before it.                                                          *)
THEOREM MemorySetUpOnce == StartSpec => []MemoryOnce
<1>1. StartInv => MemoryOnce
  BY DEF StartInv, PathOf, MemoryOnce, Late
<1> QED BY StartAlways, <1>1, PTL
=============================================================================
