------------------------------ MODULE XdbRwLock ------------------------------
(***************************************************************************)
(* The read-write spin lock of lib/xdb_thread.c: one 32-bit counter, -1    *)
(* while a writer is inside, else the number of readers.  Acquiring loads  *)
(* the counter and then tries a weak compare-and-swap, two separate steps; *)
(* between them any other thread may move the counter.                     *)
(***************************************************************************)
EXTENDS Integers, FiniteSets

CONSTANT Threads    \* the threads that use this lock
CONSTANT NoThread   \* "no writer" in the abstract lock

ASSUME ThreadsAssumption == IsFiniteSet(Threads) /\ NoThread \notin Threads

VARIABLES count,    \* rwl->count
          pc,       \* where each thread is
          x         \* the local x of rdlock and wrlock: the value last loaded

lockVars == <<count, pc, x>>

\* rdLoad, wrLoad: at the top of the loop; rdCas, wrCas: x passed the test and
\* the compare-and-swap is next; reading, writing: the lock is held.
Locations == {"idle", "rdLoad", "rdCas", "reading", "wrLoad", "wrCas", "writing"}

Readers == {t \in Threads : pc[t] = "reading"}
Writers == {t \in Threads : pc[t] = "writing"}
Writer == IF Writers = {} THEN NoThread ELSE CHOOSE t \in Writers : TRUE
Waiting == {t \in Threads : pc[t] \in {"rdLoad", "rdCas", "wrLoad", "wrCas"}}

\* xdb_rwlock_init
LockInit ==
    /\ count = 0
    /\ pc = [t \in Threads |-> "idle"]
    /\ x = [t \in Threads |-> 0]

Goto(t, from, to) == pc[t] = from /\ pc' = [pc EXCEPT ![t] = to]

-------------------------------------------------------------------------------
\* Mutants of the actions below: bugs this code could have had.

\* rdlock that increments whatever is there, without comparing
M_RdCasBlind(t) ==
    /\ Goto(t, "rdCas", "reading")
    /\ count' = count + 1
    /\ UNCHANGED x

\* unlocking a reader stores a stale value instead of subtracting
M_RdUnlockStale(t) ==
    /\ Goto(t, "reading", "idle")
    /\ count' = x[t]
    /\ UNCHANGED x

\* an unlock that forgets the decrement
M_RdUnlockLeak(t) ==
    /\ Goto(t, "reading", "idle")
    /\ UNCHANGED <<count, x>>

\* wrlock that tests "not negative" instead of "zero"
M_WrLoadReaders(t) ==
    /\ x' = [x EXCEPT ![t] = count]
    /\ Goto(t, "wrLoad", IF count < 0 THEN "wrLoad" ELSE "wrCas")
    /\ UNCHANGED count

-------------------------------------------------------------------------------
CallRdLock(t) == Goto(t, "idle", "rdLoad") /\ UNCHANGED <<count, x>>
CallWrLock(t) == Goto(t, "idle", "wrLoad") /\ UNCHANGED <<count, x>>

\* A load that finds the lock unavailable yields and loads again.
RdLoad(t) ==
    /\ x' = [x EXCEPT ![t] = count]
    /\ Goto(t, "rdLoad", IF count < 0 THEN "rdLoad" ELSE "rdCas")
    /\ UNCHANGED count

WrLoad(t) ==
    /\ x' = [x EXCEPT ![t] = count]
    /\ Goto(t, "wrLoad", IF count # 0 THEN "wrLoad" ELSE "wrCas")
    /\ UNCHANGED count

RdCasOk(t) ==
    /\ count = x[t]
    /\ Goto(t, "rdCas", "reading")
    /\ count' = x[t] + 1
    /\ UNCHANGED x

WrCasOk(t) ==
    /\ count = x[t]
    /\ Goto(t, "wrCas", "writing")
    /\ count' = -1
    /\ UNCHANGED x

\* The compare-and-swap is weak: it may fail even when count = x[t].  A failed
\* one writes the value it saw into x and the loop starts again.
CasFail(t) ==
    /\ \/ Goto(t, "rdCas", "rdLoad")
       \/ Goto(t, "wrCas", "wrLoad")
    /\ x' = [x EXCEPT ![t] = count]
    /\ UNCHANGED count

RdUnlock(t) ==
    /\ Goto(t, "reading", "idle")
    /\ count' = count - 1
    /\ UNCHANGED x

WrUnlock(t) ==
    /\ Goto(t, "writing", "idle")
    /\ count' = 0
    /\ UNCHANGED x

CasOk(t) == RdCasOk(t) \/ WrCasOk(t)
Unlock(t) == RdUnlock(t) \/ WrUnlock(t)
Load(t) == RdLoad(t) \/ WrLoad(t)

LockNext == \E t \in Threads : \/ CallRdLock(t) \/ CallWrLock(t)
                           \/ Load(t) \/ CasOk(t) \/ CasFail(t) \/ Unlock(t)

LockSpec == LockInit /\ [][LockNext]_lockVars

(***************************************************************************)
(* Fairness: a running thread keeps running (loads, unlocks), and a weak   *)
(* compare-and-swap does not fail for ever.  Nothing orders the waiters,   *)
(* so a single thread is promised nothing: readers can starve a writer.    *)
(***************************************************************************)
LockFairness ==
    /\ \A t \in Threads : WF_lockVars(Load(t)) /\ WF_lockVars(Unlock(t))
                          /\ WF_lockVars(CasOk(t) \/ CasFail(t))
    /\ SF_lockVars(\E t \in Threads : CasOk(t))

-------------------------------------------------------------------------------
LockTypeOK ==
    /\ count \in Nat \union {-1}
    /\ pc \in [Threads -> Locations]
    /\ x \in [Threads -> Int]

\* A thread writes alone: the loads and swaps of xdb_rwlock_rdlock and
\* xdb_rwlock_wrlock never let a second thread in beside a writer.
MutualExclusion ==
    \A t \in Writers : Writers = {t} /\ Readers = {}

\* The counter says exactly who is inside, although a thread decides on a value
\* it loaded earlier; an unlock that lost or repeated a decrement would show here.
CounterExact ==
    count = IF Writers # {} THEN -1 ELSE Cardinality(Readers)

\* A loaded value that passed its test still satisfies the test at the swap.
LoadedOK ==
    \A t \in Threads : /\ pc[t] = "rdCas" => x[t] >= 0
                       /\ pc[t] = "wrCas" => x[t] = 0

\* The counter implements the abstract read-write lock.
AbsLock == INSTANCE XdbRwLockAbs WITH
          readers <- Readers,
          writer <- Writer
ImplementsRwLock == AbsLock!AbsSpec

\* While threads wait somebody gets the lock in the end: the lock is free of
\* deadlock (xdb_rwlock_rdlock, xdb_rwlock_wrlock), though not of starvation.
SomeoneEnters == (Waiting # {}) ~> (Readers \union Writers # {})
===============================================================================
