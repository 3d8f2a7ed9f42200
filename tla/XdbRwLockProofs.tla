--------------------------- MODULE XdbRwLockProofs ---------------------------
(***************************************************************************)
(* Proofs about the read-write spin lock of lib/xdb_thread.c, for any      *)
(* finite set of threads.                                                  *)
(***************************************************************************)
EXTENDS XdbRwLock, FiniteSetTheorems, TLAPS

\* The inductive invariant: mutual exclusion alone is not inductive, the
\* counter must be tied to who is inside, and a loaded value to the counter test.
IInv == LockTypeOK /\ MutualExclusion /\ CounterExact /\ LoadedOK

\* How many threads read is a natural number.
LEMMA ReadersCount ==
    ASSUME LockTypeOK
    PROVE  IsFiniteSet(Readers) /\ Cardinality(Readers) \in Nat
<1>1. Readers \subseteq Threads
  BY DEF Readers
<1>2. IsFiniteSet(Readers)
  BY <1>1, ThreadsAssumption, FS_Subset
<1> QED
  BY <1>2, FS_CardinalityType

\* The counter of an empty lock is zero, and only then.
LEMMA ZeroMeansEmpty ==
    ASSUME LockTypeOK, CounterExact
    PROVE  /\ count = 0 => Writers = {} /\ Readers = {}
           /\ count >= 0 => Writers = {}
           /\ count = -1 => Writers # {}
<1>1. IsFiniteSet(Readers) /\ Cardinality(Readers) \in Nat
  BY ReadersCount
<1>2. Cardinality(Readers) = 0 => Readers = {}
  BY <1>1, FS_EmptySet
<1> QED
  BY <1>1, <1>2 DEF CounterExact, LockTypeOK

\* Initially nobody is inside and the counter is 0.
LEMMA InitIInv == LockInit => IInv
<1> SUFFICES ASSUME LockInit PROVE IInv
  OBVIOUS
<1>1. Readers = {} /\ Writers = {}
  BY DEF LockInit, Readers, Writers
<1>2. Cardinality({}) = 0
  BY FS_EmptySet
<1> QED
  BY <1>1, <1>2 DEF LockInit, IInv, LockTypeOK, MutualExclusion, CounterExact, LoadedOK, Locations

\* Every step of a thread keeps the invariant.
LEMMA StepIInv == IInv /\ [LockNext]_lockVars => IInv'
<1> SUFFICES ASSUME IInv, [LockNext]_lockVars PROVE IInv'
  OBVIOUS
<1> USE DEF IInv
<1>0. IsFiniteSet(Readers) /\ Cardinality(Readers) \in Nat
  BY ReadersCount
<1>e. /\ count = 0 => Writers = {} /\ Readers = {}
      /\ count >= 0 => Writers = {}
  BY ZeroMeansEmpty
\* A step that moves a thread between places outside the lock.
<1>o. ASSUME NEW t \in Threads, UNCHANGED count,
             pc[t] \notin {"reading", "writing"},
             NEW l \in Locations \ {"reading", "writing"},
             pc' = [pc EXCEPT ![t] = l], LockTypeOK', LoadedOK'
      PROVE  IInv'
  <2>1. Readers' = Readers /\ Writers' = Writers
    BY <1>o DEF Readers, Writers, LockTypeOK
  <2> QED
    BY <1>o, <2>1 DEF MutualExclusion, CounterExact
<1>1. ASSUME NEW t \in Threads, CallRdLock(t) PROVE IInv'
  <2>1. LockTypeOK' /\ LoadedOK'
    BY <1>1 DEF CallRdLock, Goto, LockTypeOK, LoadedOK, Locations
  <2> QED
    BY <1>1, <1>o, <2>1 DEF CallRdLock, Goto, Locations
<1>2. ASSUME NEW t \in Threads, CallWrLock(t) PROVE IInv'
  <2>1. LockTypeOK' /\ LoadedOK'
    BY <1>2 DEF CallWrLock, Goto, LockTypeOK, LoadedOK, Locations
  <2> QED
    BY <1>2, <1>o, <2>1 DEF CallWrLock, Goto, Locations
<1>3. ASSUME NEW t \in Threads, RdLoad(t) PROVE IInv'
  <2>1. LockTypeOK' /\ LoadedOK'
    BY <1>3 DEF RdLoad, Goto, LockTypeOK, LoadedOK, Locations
  <2>2. (IF count < 0 THEN "rdLoad" ELSE "rdCas") \in Locations \ {"reading", "writing"}
    BY DEF Locations
  <2> QED
    BY <1>3, <1>o, <2>1, <2>2 DEF RdLoad, Goto
<1>4. ASSUME NEW t \in Threads, WrLoad(t) PROVE IInv'
  <2>1. LockTypeOK' /\ LoadedOK'
    BY <1>4 DEF WrLoad, Goto, LockTypeOK, LoadedOK, Locations
  <2>2. (IF count # 0 THEN "wrLoad" ELSE "wrCas") \in Locations \ {"reading", "writing"}
    BY DEF Locations
  <2> QED
    BY <1>4, <1>o, <2>1, <2>2 DEF WrLoad, Goto
<1>5. ASSUME NEW t \in Threads, RdCasOk(t) PROVE IInv'
  <2>1. LockTypeOK' /\ LoadedOK'
    BY <1>5 DEF RdCasOk, Goto, LockTypeOK, LoadedOK, Locations
  <2>2. Readers' = Readers \union {t} /\ t \notin Readers /\ Writers' = Writers
    BY <1>5 DEF RdCasOk, Goto, Readers, Writers, LockTypeOK
  <2>3. count >= 0 /\ count' = count + 1
    BY <1>5 DEF RdCasOk, Goto, LoadedOK
  <2>4. Cardinality(Readers') = Cardinality(Readers) + 1
    BY <1>0, <2>2, FS_AddElement
  <2> QED
    BY <1>e, <2>1, <2>2, <2>3, <2>4 DEF MutualExclusion, CounterExact
<1>6. ASSUME NEW t \in Threads, WrCasOk(t) PROVE IInv'
  <2>1. LockTypeOK' /\ LoadedOK'
    BY <1>6 DEF WrCasOk, Goto, LockTypeOK, LoadedOK, Locations
  <2>2. count = 0 /\ count' = -1
    BY <1>6 DEF WrCasOk, Goto, LoadedOK
  <2>3. Readers' = Readers /\ Writers' = Writers \union {t}
    BY <1>6 DEF WrCasOk, Goto, Readers, Writers, LockTypeOK
  <2> QED
    BY <1>e, <2>1, <2>2, <2>3 DEF MutualExclusion, CounterExact
<1>7. ASSUME NEW t \in Threads, CasFail(t) PROVE IInv'
  <2>1. LockTypeOK' /\ LoadedOK'
    BY <1>7 DEF CasFail, Goto, LockTypeOK, LoadedOK, Locations
  <2> QED
    BY <1>7, <1>o, <2>1 DEF CasFail, Goto, Locations
<1>8. ASSUME NEW t \in Threads, RdUnlock(t) PROVE IInv'
  <2>1. Readers' = Readers \ {t} /\ t \in Readers /\ Writers' = Writers
    BY <1>8 DEF RdUnlock, Goto, Readers, Writers, LockTypeOK
  <2>2. Writers = {} /\ count' = count - 1
    BY <1>8, <2>1 DEF RdUnlock, MutualExclusion
  <2>3. Cardinality(Readers') = Cardinality(Readers) - 1
    BY <1>0, <2>1, FS_RemoveElement
  <2>4. Cardinality(Readers) # 0
    BY <1>0, <2>1, FS_EmptySet
  <2>5. count' \in Nat
    BY <1>0, <2>2, <2>4 DEF CounterExact
  <2>6. LockTypeOK' /\ LoadedOK'
    BY <1>8, <2>5 DEF RdUnlock, Goto, LockTypeOK, LoadedOK, Locations
  <2> QED
    BY <1>0, <2>1, <2>2, <2>3, <2>6 DEF MutualExclusion, CounterExact
<1>9. ASSUME NEW t \in Threads, WrUnlock(t) PROVE IInv'
  <2>1. LockTypeOK' /\ LoadedOK'
    BY <1>9 DEF WrUnlock, Goto, LockTypeOK, LoadedOK, Locations
  <2>2. t \in Writers /\ Writers' = Writers \ {t} /\ Readers' = Readers
    BY <1>9 DEF WrUnlock, Goto, Readers, Writers, LockTypeOK
  <2>3. Readers = {} /\ Writers' = {} /\ count' = 0
    BY <1>9, <2>2 DEF WrUnlock, MutualExclusion
  <2>4. Cardinality({}) = 0
    BY FS_EmptySet
  <2> QED
    BY <2>1, <2>2, <2>3, <2>4 DEF MutualExclusion, CounterExact
<1>10. ASSUME UNCHANGED lockVars PROVE IInv'
  BY <1>10 DEF lockVars, LockTypeOK, MutualExclusion, CounterExact, LoadedOK, Readers, Writers
<1> QED
  BY <1>1, <1>2, <1>3, <1>4, <1>5, <1>6, <1>7, <1>8, <1>9, <1>10
  DEF LockNext, Load, CasOk, Unlock

\* The types, and with them the invariant, hold in every reachable state.
THEOREM RwLockInvariant == LockSpec => []IInv
BY InitIInv, StepIInv, PTL DEF LockSpec

\* The counter, the local copies and the program counters keep their types.
THEOREM RwLockTypes == LockSpec => []LockTypeOK
<1>1. IInv => LockTypeOK
  BY DEF IInv
<1> QED
  BY RwLockInvariant, <1>1, PTL

\* xdb_rwlock_wrlock admits one writer and no reader, whatever the number of threads.
THEOREM RwLockMutualExclusion == LockSpec => []MutualExclusion
<1>1. IInv => MutualExclusion
  BY DEF IInv
<1> QED
  BY RwLockInvariant, <1>1, PTL

\* rwl->count is -1 under a writer and the number of readers otherwise.
THEOREM RwLockCounterExact == LockSpec => []CounterExact
<1>1. IInv => CounterExact
  BY DEF IInv
<1> QED
  BY RwLockInvariant, <1>1, PTL

-------------------------------------------------------------------------------
\* A thread that writes is the abstract lock's writer; without one it has none.
LEMMA WriterIs ==
    ASSUME MutualExclusion
    PROVE  /\ Writers = {} => Writer = NoThread
           /\ \A t \in Writers : Writer = t
<1>1. ASSUME NEW t \in Writers PROVE Writer = t
  <2>1. Writers = {t}
    BY DEF MutualExclusion
  <2> QED
    BY <2>1 DEF Writer
<1> QED
  BY <1>1 DEF Writer

\* Every step of the counter lock is a step of the abstract lock or invisible in it.
LEMMA StepRefines ==
    IInv /\ IInv' /\ [LockNext]_lockVars => [AbsLock!AbsNext]_(AbsLock!absVars)
<1> SUFFICES ASSUME IInv, IInv', [LockNext]_lockVars PROVE [AbsLock!AbsNext]_(AbsLock!absVars)
  OBVIOUS
<1> USE DEF IInv, AbsLock!AbsNext, AbsLock!absVars
<1>a. /\ Writers = {} => Writer = NoThread
      /\ \A t \in Writers : Writer = t
  BY WriterIs
<1>b. /\ Writers' = {} => Writer' = NoThread
      /\ \A t \in Writers' : Writer' = t
  <2>1. MutualExclusion' => (Writers' = {} => Writer' = NoThread)
    BY DEF Writer
  <2>2. ASSUME NEW t \in Writers' PROVE Writer' = t
    <3>1. Writers' = {t}
      BY <2>2 DEF MutualExclusion
    <3> QED
      BY <3>1 DEF Writer
  <2> QED
    BY <2>1, <2>2
<1>e. /\ count = 0 => Writers = {} /\ Readers = {}
      /\ count >= 0 => Writers = {}
  BY ZeroMeansEmpty
<1>1. ASSUME NEW t \in Threads,
             \/ CallRdLock(t) \/ CallWrLock(t) \/ RdLoad(t) \/ WrLoad(t) \/ CasFail(t)
      PROVE  UNCHANGED <<Readers, Writer>>
  <2>1. Readers' = Readers /\ Writers' = Writers
    BY <1>1 DEF CallRdLock, CallWrLock, RdLoad, WrLoad, CasFail, Goto, Readers, Writers, LockTypeOK
  <2> QED
    BY <2>1 DEF Writer
<1>2. ASSUME NEW t \in Threads, RdCasOk(t) PROVE AbsLock!BeginRead(t)
  <2>1. Readers' = Readers \union {t} /\ t \notin Readers /\ Writers' = Writers
    BY <1>2 DEF RdCasOk, Goto, Readers, Writers, LockTypeOK
  <2>2. Writers = {}
    BY <1>2, <1>e DEF RdCasOk, Goto, LoadedOK
  <2> QED
    BY <1>a, <1>b, <2>1, <2>2 DEF AbsLock!BeginRead
<1>3. ASSUME NEW t \in Threads, RdUnlock(t) PROVE AbsLock!EndRead(t)
  <2>1. Readers' = Readers \ {t} /\ t \in Readers /\ Writers' = Writers
    BY <1>3 DEF RdUnlock, Goto, Readers, Writers, LockTypeOK
  <2> QED
    BY <2>1 DEF AbsLock!EndRead, Writer
<1>4. ASSUME NEW t \in Threads, WrCasOk(t) PROVE AbsLock!BeginWrite(t)
  <2>1. Readers' = Readers /\ t \in Writers'
    BY <1>4 DEF WrCasOk, Goto, Readers, Writers, LockTypeOK
  <2>2. Readers = {} /\ Writers = {}
    BY <1>4, <1>e DEF WrCasOk, Goto, LoadedOK
  <2> QED
    BY <1>a, <1>b, <2>1, <2>2 DEF AbsLock!BeginWrite
<1>5. ASSUME NEW t \in Threads, WrUnlock(t) PROVE AbsLock!EndWrite(t)
  <2>1. t \in Writers /\ Writers' = Writers \ {t} /\ Readers' = Readers
    BY <1>5 DEF WrUnlock, Goto, Readers, Writers, LockTypeOK
  <2>2. Writers' = {}
    BY <2>1 DEF MutualExclusion
  <2> QED
    BY <1>a, <1>b, <2>1, <2>2 DEF AbsLock!EndWrite
<1>6. ASSUME UNCHANGED lockVars PROVE UNCHANGED <<Readers, Writer>>
  BY <1>6 DEF lockVars, Readers, Writers, Writer
<1> QED
  BY <1>1, <1>2, <1>3, <1>4, <1>5, <1>6 DEF LockNext, Load, CasOk, Unlock

\* The lock starts free in the abstract lock too.
LEMMA InitRefines == LockInit => AbsLock!AbsInit
BY DEF LockInit, AbsLock!AbsInit, Readers, Writers, Writer

\* The spin lock implements the abstract read-write lock: whatever a user of a
\* table lock may assume of readers and writers, xdb_rwlock_* provides.
THEOREM RwLockRefinement == LockSpec => ImplementsRwLock
BY InitIInv, StepIInv, InitRefines, StepRefines, PTL
   DEF LockSpec, ImplementsRwLock, AbsLock!AbsSpec
===============================================================================
