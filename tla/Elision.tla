------------------------------- MODULE Elision ------------------------------
(***************************************************************************)
(* Lock elision (arch/x86/rte_spinlock.h, rte_rwlock.h): a critical        *)
(* section runs in a hardware transaction as long as the lock word is 0,   *)
(* and falls back on the lock.  The word is that of a reader-writer lock;  *)
(* rte_spinlock_lock_tm is the case of writers only.  The real locks are   *)
(* the subject of RwLock and Spinlock and take one step here.              *)
(*                                                                         *)
(* The hardware is external: a transaction is undone when another thread   *)
(* writes a word it has read, or for any other reason, at any time.        *)
(***************************************************************************)
EXTENDS Integers, FiniteSets

CONSTANTS
  TmThreads,
  MaxRetries,  \* RTE_RTM_MAX_RETRIES
  Values       \* BOUND: data is a number modulo this one
ASSUME ElisionAssumption ==
  IsFiniteSet(TmThreads) /\ MaxRetries \in Nat \ {0} /\ Values \in Nat \ {0, 1}

VARIABLES
  rtm,      \* rte_rtm_supported
  word,     \* rwl->cnt, or sl->locked
  data,     \* what the lock protects
  tm_pc,    \* where each thread is
  kind,     \* its call: "read", "write" or "try" (a writer that does not wait)
  tx,       \* the words its transaction has read; "none" outside of one
  retries,
  seen      \* the data it has read in its critical section

tm_vars == <<rtm, word, data, tm_pc, kind, tx, retries, seen>>

TmInit ==
  /\ rtm \in BOOLEAN
  /\ word = 0 /\ data = 0
  /\ tm_pc = [t \in TmThreads |-> "idle"]
  /\ kind = [t \in TmThreads |-> "read"]
  /\ tx = [t \in TmThreads |-> {"none"}]
  /\ retries = [t \in TmThreads |-> 0]
  /\ seen = [t \in TmThreads |-> 0]

InTx(t) == tx[t] # {"none"}

(* The state after thread t has gone to l and written the words W: the     *)
(* transactions of others that have read one of them are undone.           *)
Wrote(t, l, W, txOfT) ==
  LET undone == {u \in TmThreads \ {t} : tx[u] \cap W # {}}
  IN /\ tm_pc' = [u \in TmThreads |->
                    IF u = t THEN l ELSE IF u \in undone THEN "aborted" ELSE tm_pc[u]]
     /\ tx' = [u \in TmThreads |->
                 IF u = t THEN txOfT ELSE IF u \in undone THEN {"none"} ELSE tx[u]]

(* The _lock_tm and _trylock_tm functions.                                 *)
CallTm(t, k) ==
  /\ tm_pc[t] = "idle"
  /\ kind' = [kind EXCEPT ![t] = k]
  /\ retries' = [retries EXCEPT ![t] = MaxRetries]
  /\ tm_pc' = [tm_pc EXCEPT ![t] = IF rtm THEN "begin" ELSE "take"]
  /\ UNCHANGED <<rtm, word, data, tx, seen>>

(* Mutant: the retries are not counted.                                    *)
XBeginForEver(t) ==
  /\ tm_pc[t] = "begin"
  /\ tx' = [tx EXCEPT ![t] = {}]
  /\ tm_pc' = [tm_pc EXCEPT ![t] = "check"]
  /\ UNCHANGED <<rtm, word, data, kind, retries, seen>>

(* while (retries--) rte_xbegin()                                          *)
XBegin(t) ==
  /\ tm_pc[t] = "begin"
  /\ IF retries[t] > 0
       THEN /\ retries' = [retries EXCEPT ![t] = @ - 1]
            /\ tx' = [tx EXCEPT ![t] = {}]
            /\ tm_pc' = [tm_pc EXCEPT ![t] = "check"]
       ELSE /\ tm_pc' = [tm_pc EXCEPT ![t] = "take"]
            /\ UNCHANGED <<retries, tx>>
  /\ UNCHANGED <<rtm, word, data, kind, seen>>

(* Mutant: the lock is not looked at inside of the transaction.            *)
CheckNothing(t) ==
  /\ tm_pc[t] = "check"
  /\ tm_pc' = [tm_pc EXCEPT ![t] = "enter"]
  /\ UNCHANGED <<rtm, word, data, kind, tx, retries, seen>>

(* rte_xabort(RTE_XABORT_LOCK_BUSY) if the lock is taken, else return 1: *)
(* the word stays in what the transaction has read.                        *)
CheckLock(t) ==
  /\ tm_pc[t] = "check"
  /\ IF word # 0
       THEN /\ tx' = [tx EXCEPT ![t] = {"none"}]
            /\ tm_pc' = [tm_pc EXCEPT ![t] = "busy"]
       ELSE /\ tx' = [tx EXCEPT ![t] = {"word"}]
            /\ tm_pc' = [tm_pc EXCEPT ![t] = "enter"]
  /\ UNCHANGED <<rtm, word, data, kind, retries, seen>>

(* The hardware undoes a transaction.                                      *)
XAbort(t) ==
  /\ InTx(t)
  /\ tx' = [tx EXCEPT ![t] = {"none"}]
  /\ tm_pc' = [tm_pc EXCEPT ![t] = "aborted"]
  /\ UNCHANGED <<rtm, word, data, kind, retries, seen>>

(* The wait until the lock is free, and the status: it was busy, or the    *)
(* hardware says whether to try again.                                     *)
AfterAbort(t) ==
  /\ word = 0
  /\ \/ tm_pc[t] = "busy" /\ tm_pc' = [tm_pc EXCEPT ![t] = "begin"]
     \/ tm_pc[t] = "aborted" /\ \E l \in {"begin", "take"} : tm_pc' = [tm_pc EXCEPT ![t] = l]
  /\ UNCHANGED <<rtm, word, data, kind, tx, retries, seen>>

NextWord(t) == IF kind[t] = "read" THEN word + 1 ELSE -1

(* The fall-back.  A try that finds the lock taken gives up.               *)
TakeLock(t) ==
  /\ tm_pc[t] = "take"
  /\ \/ /\ IF kind[t] = "read" THEN word >= 0 ELSE word = 0
        /\ word' = NextWord(t)
        /\ Wrote(t, "enter", {"word"}, {"none"})
     \/ /\ kind[t] = "try" /\ word # 0
        /\ tm_pc' = [tm_pc EXCEPT ![t] = "idle"]
        /\ UNCHANGED <<word, tx>>
  /\ UNCHANGED <<rtm, data, kind, retries, seen>>

(* The critical section reads, and a writer then writes, the data.         *)
ReadData(t) ==
  /\ tm_pc[t] = "enter"
  /\ seen' = [seen EXCEPT ![t] = data]
  /\ tx' = [tx EXCEPT ![t] = IF InTx(t) THEN @ \cup {"data"} ELSE @]
  /\ tm_pc' = [tm_pc EXCEPT ![t] = "use"]
  /\ UNCHANGED <<rtm, word, data, kind, retries>>

NewData(t) == IF kind[t] = "read" THEN data ELSE (seen[t] + 1) % Values

(* What a transaction writes is seen when it commits.                      *)
UseData(t) ==
  /\ tm_pc[t] = "use"
  /\ IF InTx(t) \/ kind[t] = "read"
       THEN UNCHANGED <<data, tx>> /\ tm_pc' = [tm_pc EXCEPT ![t] = "leave"]
       ELSE data' = NewData(t) /\ Wrote(t, "leave", {"data"}, {"none"})
  /\ UNCHANGED <<rtm, word, kind, retries, seen>>

(* rte_rwlock_read_unlock, rte_rwlock_write_unlock                         *)
Released(t) == IF kind[t] = "read" THEN word - 1 ELSE 0

(* The _unlock_tm functions: only the word tells what there is to undo.    *)
UnlockTm(t) ==
  /\ tm_pc[t] = "leave"
  /\ IF word # 0
       THEN /\ word' = Released(t)
            /\ UNCHANGED data
            /\ Wrote(t, "idle", {"word"}, tx[t])
       ELSE /\ data' = NewData(t)
            /\ UNCHANGED word
            /\ Wrote(t, "idle", IF kind[t] = "read" THEN {} ELSE {"data"}, {"none"})
  /\ UNCHANGED <<rtm, kind, retries, seen>>

TmStep(t) ==
  \/ XBegin(t) \/ CheckLock(t) \/ AfterAbort(t) \/ TakeLock(t)
  \/ ReadData(t) \/ UseData(t) \/ UnlockTm(t)

TmNext ==
  \E t \in TmThreads : TmStep(t) \/ XAbort(t) \/ \E k \in {"read", "write", "try"} : CallTm(t, k)

TmSpec == TmInit /\ [][TmNext]_tm_vars

-----------------------------------------------------------------------------
(* What a thread has read in its critical section is still so when it uses *)
(* it, and until it leaves if it only reads: elided and real sections      *)
(* exclude each other, although an elided one leaves no trace in the lock. *)
SectionsIsolated ==
  \A t \in TmThreads :
    tm_pc[t] = "use" \/ (tm_pc[t] = "leave" /\ (InTx(t) \/ kind[t] = "read")) => data = seen[t]

(* A thread that leaves finds in the lock word whether it has taken the    *)
(* lock: rte_xend is never executed outside of a transaction, and no lock  *)
(* that somebody else has is released.                                     *)
UnlockKnows == \A t \in TmThreads : tm_pc[t] = "leave" => (word # 0 <=> ~InTx(t))

(* Somebody gets through, however often transactions are undone: the       *)
(* retries are used up and the lock is taken.                              *)
ElisionEnds ==
  \/ []<>(\A t \in TmThreads : tm_pc[t] \in {"idle", "leave"})
  \/ []<><<\E t \in TmThreads : tm_pc[t] # "idle" /\ tm_pc'[t] = "idle">>_tm_vars

(* Elided and real critical sections behave as if all had taken the lock,  *)
(* and each is left in the way it was entered (rte_spinlock_lock_tm,       *)
(* rte_rwlock_read_lock_tm and their unlocks).                             *)
ElisionSound == SectionsIsolated /\ UnlockKnows
=============================================================================
