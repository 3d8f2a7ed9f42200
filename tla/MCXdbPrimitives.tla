---------------------------- MODULE MCXdbPrimitives ----------------------------
(* The primitives that everything else stands on, which share nothing: in a     *)
(* behaviour three threads use a lock, two readers and a writer racing in every *)
(* way; or a store that starts with one block grows twice, to four; or three    *)
(* rows, one of them for the new version of another, keep strings of two size   *)
(* classes in two blocks each.                                                  *)
EXTENDS XdbRwLock, XdbStore, XdbVdata

VARIABLE part   \* what this behaviour uses

MCClassOf == [t \in Texts |-> IF t = 1 THEN 1 ELSE 2]

allVars == <<lockVars, vars, vdataVars, part>>

PrimitivesInit ==
    LockInit /\ Init /\ VdataInit /\ part \in {"lock", "store", "strings"}

PrimitivesNext ==
    \/ part = "lock" /\ LockNext /\ UNCHANGED <<vars, vdataVars, part>>
    \/ part = "store" /\ Next /\ UNCHANGED <<lockVars, vdataVars, part>>
    \/ part = "strings" /\ VdataNext /\ UNCHANGED <<lockVars, vars, part>>

PrimitivesSpec == PrimitivesInit /\ [][PrimitivesNext]_allVars /\ LockFairness
===============================================================================
