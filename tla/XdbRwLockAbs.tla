----------------------------- MODULE XdbRwLockAbs -----------------------------
(***************************************************************************)
(* What CrossDB expects from a read-write lock: any number of readers or   *)
(* one writer.  The table locks and the storage locks of every table are   *)
(* such locks.  XdbRwLock shows that the atomic counter implements this.   *)
(***************************************************************************)
CONSTANT Threads
CONSTANT NoThread

VARIABLES readers,   \* the threads inside a read section
          writer     \* the thread inside a write section, or NoThread

absVars == <<readers, writer>>

AbsInit == readers = {} /\ writer = NoThread

BeginRead(t) ==
    /\ writer = NoThread
    /\ t \notin readers
    /\ readers' = readers \union {t}
    /\ UNCHANGED writer

EndRead(t) ==
    /\ t \in readers
    /\ readers' = readers \ {t}
    /\ UNCHANGED writer

BeginWrite(t) ==
    /\ writer = NoThread
    /\ readers = {}
    /\ writer' = t
    /\ UNCHANGED readers

EndWrite(t) ==
    /\ writer = t
    /\ writer' = NoThread
    /\ UNCHANGED readers

AbsNext == \E t \in Threads : \/ BeginRead(t) \/ EndRead(t)
                              \/ BeginWrite(t) \/ EndWrite(t)

AbsSpec == AbsInit /\ [][AbsNext]_absVars
===============================================================================
