------------------------------ MODULE Spinlock ------------------------------
(***************************************************************************)
(* rte_spinlock (arch/x86/rte_spinlock.h) and the recursive lock built on  *)
(* it (generic/rte_spinlock.h).  slr->user is read without the lock.       *)
(* The transactional (_tm) variants are the subject of Elision.             *)
(***************************************************************************)
EXTENDS Integers

CONSTANTS Tids,   \* thread ids, the values of rte_gettid
          NoUser,    \* -1
          MaxDepth   \* BOUND: how deep a thread nests its calls
ASSUME SpinlockAssumption ==
  /\ NoUser \notin Tids
  /\ MaxDepth \in Nat

VARIABLES
  locked,  \* slr->sl.locked
  user,    \* slr->user
  count,   \* slr->count
  at,      \* where each thread is
  held,    \* history: how often each thread has taken the lock
  try      \* the call under way is a trylock

spin_vars == <<locked, user, count, at, held, try>>

SpinLocations == {"idle", "user", "xchg", "spin", "own", "inc", "dec", "disown", "unlock"}

(* rte_spinlock_recursive_init                                             *)
SpinInit ==
  /\ locked = 0 /\ user = NoUser /\ count = 0
  /\ at = [t \in Tids |-> "idle"]
  /\ held = [t \in Tids |-> 0]
  /\ try = [t \in Tids |-> FALSE]

Move(t, l) == at' = [at EXCEPT ![t] = l]

(* rte_spinlock_recursive_lock and rte_spinlock_recursive_trylock          *)
CallLock(t, b) ==
  /\ at[t] = "idle"
  /\ held[t] < MaxDepth
  /\ Move(t, "user")
  /\ try' = [try EXCEPT ![t] = b]
  /\ UNCHANGED <<locked, user, count, held>>

(* Mutant: the owner is taken to be whoever does not find NoUser.          *)
AnyOwner(t) == user # NoUser

(* slr->user != id                                                         *)
IsOwner(t) == user = t

TestUser(t) ==
  /\ at[t] = "user"
  /\ Move(t, IF IsOwner(t) THEN "inc" ELSE "xchg")
  /\ UNCHANGED <<locked, user, count, held, try>>

(* xchg of 1; when it was 1 already a trylock gives up, a lock spins.      *)
Xchg(t) ==
  /\ at[t] = "xchg"
  /\ locked' = 1
  /\ \/ locked = 0 /\ Move(t, "own") /\ UNCHANGED try
     \/ locked = 1 /\ ~try[t] /\ Move(t, "spin") /\ UNCHANGED try
     \/ /\ locked = 1 /\ try[t] /\ Move(t, "idle")
        /\ try' = [try EXCEPT ![t] = FALSE]
  /\ UNCHANGED <<user, count, held>>

(* cmpl $0; jnz 2b                                                         *)
Spin(t) ==
  /\ at[t] = "spin"
  /\ locked = 0
  /\ Move(t, "xchg")
  /\ UNCHANGED <<locked, user, count, held, try>>

(* slr->user = id                                                          *)
Own(t) ==
  /\ at[t] = "own"
  /\ user' = t
  /\ Move(t, "inc")
  /\ UNCHANGED <<locked, count, held, try>>

(* slr->count++, and the call returns.                                     *)
Inc(t) ==
  /\ at[t] = "inc"
  /\ count' = count + 1
  /\ held' = [held EXCEPT ![t] = @ + 1]
  /\ try' = [try EXCEPT ![t] = FALSE]
  /\ Move(t, "idle")
  /\ UNCHANGED <<locked, user>>

(* rte_spinlock_recursive_unlock, by a thread that holds the lock.         *)
CallUnlock(t) ==
  /\ at[t] = "idle"
  /\ held[t] > 0
  /\ Move(t, "dec")
  /\ UNCHANGED <<locked, user, count, held, try>>

(* Mutant: the last unlock forgets to reset the user.                      *)
DecNoReset(t) ==
  /\ at[t] = "dec"
  /\ count' = count - 1
  /\ held' = [held EXCEPT ![t] = @ - 1]
  /\ Move(t, IF count - 1 = 0 THEN "unlock" ELSE "idle")
  /\ UNCHANGED <<locked, user, try>>

(* --(slr->count) == 0                                                     *)
Dec(t) ==
  /\ at[t] = "dec"
  /\ count' = count - 1
  /\ held' = [held EXCEPT ![t] = @ - 1]
  /\ Move(t, IF count - 1 = 0 THEN "disown" ELSE "idle")
  /\ UNCHANGED <<locked, user, try>>

(* slr->user = -1                                                          *)
Disown(t) ==
  /\ at[t] = "disown"
  /\ user' = NoUser
  /\ Move(t, "unlock")
  /\ UNCHANGED <<locked, count, held, try>>

(* rte_spinlock_unlock                                                     *)
Unlock(t) ==
  /\ at[t] = "unlock"
  /\ locked' = 0
  /\ Move(t, "idle")
  /\ UNCHANGED <<user, count, held, try>>

SpinStep(t) ==
  \/ TestUser(t) \/ Xchg(t) \/ Spin(t) \/ Own(t) \/ Inc(t)
  \/ Dec(t) \/ Disown(t) \/ Unlock(t)

SpinNext ==
  \E t \in Tids :
    SpinStep(t) \/ CallUnlock(t) \/ \E b \in BOOLEAN : CallLock(t, b)

SpinSpec == SpinInit /\ [][SpinNext]_spin_vars

(* Tids run, and a holder leaves its critical section.                  *)
SpinFairSpec ==
  SpinSpec /\ \A t \in Tids : WF_spin_vars(SpinStep(t)) /\ WF_spin_vars(CallUnlock(t))

-----------------------------------------------------------------------------
(* The type of the state.                                                  *)
SpinTypeOK ==
  /\ locked \in {0, 1}
  /\ user \in Tids \cup {NoUser}
  /\ count \in Nat
  /\ at \in [Tids -> SpinLocations]
  /\ held \in [Tids -> Nat]
  /\ try \in [Tids -> BOOLEAN]

(* A thread that has the spinlock, in or on its way in or out.             *)
Inside(t) == held[t] > 0 \/ at[t] \in {"own", "inc", "dec", "disown", "unlock"}

(* One thread at a time is inside, although user is read and count is      *)
(* changed without any test of the spinlock itself.                        *)
MutualExclusion == \A t, u \in Tids : Inside(t) /\ Inside(u) => t = u

(* count is the nesting depth of the thread inside, so the last unlock,    *)
(* and no earlier one, frees the lock; a free lock has no user.            *)
CountIsDepth ==
  /\ \A t \in Tids : Inside(t) => count = held[t] /\ locked = 1
  /\ (\A t \in Tids : ~Inside(t)) => count = 0 /\ locked = 0 /\ user = NoUser

(* The thread named by user is the one inside: a thread that reads its own *)
(* id there may skip the spinlock.                                         *)
UserIsInside ==
  \A t \in Tids :
    /\ user = t => Inside(t)
    /\ held[t] > 0 \/ at[t] \in {"inc", "dec", "disown"} => user = t
    /\ at[t] \in {"own", "unlock"} => user = NoUser

(* How often a thread has the lock at the places where that is decided.    *)
HeldAt ==
  \A t \in Tids :
    /\ at[t] \in {"xchg", "spin", "own", "disown", "unlock"} => held[t] = 0
    /\ at[t] = "dec" => held[t] > 0

SpinInv == SpinTypeOK /\ MutualExclusion /\ CountIsDepth /\ UserIsInside /\ HeldAt

(* A lock that is wanted is taken by somebody: no deadlock on a lock whose *)
(* holder nests, and none left behind by a trylock that gives up.          *)
SomebodyGetsIt ==
  \/ []<>(\A t \in Tids : at[t] \notin {"user", "xchg", "spin"})
  \/ []<><<\E t \in Tids : at[t] = "inc" /\ at'[t] = "idle">>_spin_vars
=============================================================================
