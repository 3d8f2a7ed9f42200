----------------------------- MODULE XdbTransAbs -----------------------------
(***************************************************************************)
(* What a CrossDB transaction promises on tables that are not bypassed:    *)
(* one writer per table works on a private copy of the table's content,    *)
(* and a commit replaces the content of all the tables it wrote at once,   *)
(* a rollback of none.  Primary keys are unique in every content.          *)
(***************************************************************************)
CONSTANTS Conns, NoConn, Tables, Records

VARIABLES db,     \* the committed content of every table, a set of records
          work,   \* the content its writer works on; db[t] when nobody writes
          owner   \* the connection that may write the table, or NoConn

absVars == <<db, work, owner>>

UniqueKeys(S) == \A a, b \in S : a.key = b.key => a = b

AbsInit ==
    /\ db = [t \in Tables |-> {}]
    /\ work = [t \in Tables |-> {}]
    /\ owner = [t \in Tables |-> NoConn]

Acquire(c, t) ==
    /\ owner[t] = NoConn
    /\ owner' = [owner EXCEPT ![t] = c]
    /\ UNCHANGED <<db, work>>

Write(c, t) ==
    /\ owner[t] = c
    /\ \E S \in SUBSET Records : UniqueKeys(S) /\ work' = [work EXCEPT ![t] = S]
    /\ UNCHANGED <<db, owner>>

Publish(c) ==
    /\ db' = [t \in Tables |-> IF owner[t] = c THEN work[t] ELSE db[t]]
    /\ UNCHANGED <<work, owner>>

Discard(c) ==
    /\ work' = [t \in Tables |-> IF owner[t] = c THEN db[t] ELSE work[t]]
    /\ UNCHANGED <<db, owner>>

Release(c) ==
    /\ \A t \in Tables : owner[t] = c => work[t] = db[t]
    /\ owner' = [t \in Tables |-> IF owner[t] = c THEN NoConn ELSE owner[t]]
    /\ UNCHANGED <<db, work>>

AbsNext == \E c \in Conns : \/ \E t \in Tables : Acquire(c, t) \/ Write(c, t)
                            \/ Publish(c) \/ Discard(c) \/ Release(c)

AbsSpec == AbsInit /\ [][AbsNext]_absVars
===============================================================================
