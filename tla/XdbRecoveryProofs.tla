-------------------------- MODULE XdbRecoveryProofs --------------------------
(***************************************************************************)
(* Proofs about commit, flush, crash and repair, for tables, logs and      *)
(* numbers of crashes of any size: for every behaviour of the              *)
(* specification, with flushes at every moment and writing after every     *)
(* recovery.  Of a table that a recovery left unfit to be written (sound   *)
(* is FALSE) they say nothing.                                             *)
(***************************************************************************)
EXTENDS XdbRecovery, SequenceTheorems, TLAPS

\* The table's store, with the lemmas about its free list.
Blk == INSTANCE XdbStoreProofs

-------------------------------------------------------------------------------
(* The inductive invariant.                                                 *)

Conts == Vals \union {Junk}
Entries == [new : UNION {[D -> Conts] : D \in SUBSET Rows}, del : SUBSET Rows]

\* A database that is open to its writer, and one that is not.
Serving == {"idle", "logged", "walk", "rollback"}
Opening == {"down", "repair", "redo", "redone", "opened"}

Types ==
    /\ pc \in Serving \union Opening
    /\ ctrl \in [Rows -> {FREE, COMMIT, TRANS}]
    /\ row \in [Rows -> Conts]
    /\ active \in Seq(Entries) /\ backup \in Seq(Entries) /\ redo \in Seq(Entries)
    /\ new \subseteq Rows /\ del \subseteq Rows
    /\ pending \subseteq Rows \X Conts
    /\ tblDirty \in BOOLEAN /\ dbDirty \in BOOLEAN /\ switched \in BOOLEAN
    /\ torn \in BOOLEAN /\ sound \in BOOLEAN
    /\ flush \in {"none", "tables", "log"}

\* What the last entry of a log about a row says is what the commits leave of it ...
Says(log) ==
    \A r \in Rows : \A i \in LastFor(log, r) : \A v \in Conts :
        <<r, v>> \in pending <=> r \in DOMAIN log[i].new /\ v = log[i].new[r]

\* ... and a row the log is silent about is already as they leave it.
Untouched(log) ==
    \A r \in Rows : LastFor(log, r) = {} =>
        \A v \in Conts : <<r, v>> \in Visible <=> <<r, v>> \in pending

Explains(log) == Says(log) /\ Untouched(log)

\* The store of the table is exact.
StoreInv == Blk!IInv /\ scan = 0

\* A flush that began inside the commit has emptied the logs.
Emptied == torn /\ LogToRedo = <<>>

\* The last entry of the log is that of the running commit: it names the rows
\* that the commit has not walked yet.
Walking ==
    /\ active # <<>>
    /\ new \subseteq DOMAIN active[Len(active)].new
    /\ del \subseteq active[Len(active)].del

\* The flush that has taken the entry of the running commit away leaves it in
\* the backup log at first.
Taken ==
    /\ torn /\ active = <<>>
    /\ Emptied \/ \A r \in new \union del : LastFor(LogToRedo, r) # {}

\* What is seen when the running commit has walked its rows.
Leaves == pending = {p \in Visible : p[1] \notin del} \union {<<r, row[r]>> : r \in new}

\* While the database serves.
UpFacts ==
    /\ StoreInv
    /\ Explains(LogToRedo) \/ Emptied
    /\ \A r \in new : ctrl[r] = TRANS
    /\ \A r \in del : ctrl[r] = COMMIT
    /\ pc \in {"idle", "rollback"} => ~torn /\ acked = pending /\ Visible = pending
    /\ pc = "rollback" => del = {}
    /\ pc = "logged" => Visible = acked
    /\ pc \in {"logged", "walk"} => PartOfCommit /\ Leaves /\ (Walking \/ Taken)
    /\ pc = "walk" => torn \/ dbDirty

\* What is still to redo is about rows of the log only.
Within == \A r \in Rows : LastFor(LogToRedo, r) = {} => LastFor(redo, r) = {}

\* The commit that was cut off stays a part of itself.
Cut == Emptied /\ PartOfCommit

\* What an opened database shows.
Content == IF torn THEN PartOfCommit ELSE Visible \in {acked, pending}

\* From a crash until the database serves again.
DownFacts ==
    /\ new = {} /\ del = {}
    /\ pc # "redone" => flush = "none"
    /\ pc # "repair" => scan = 0
    /\ pc = "down" => IF dbDirty THEN Explains(LogToRedo) \/ Cut ELSE Content
    /\ pc = "repair" => dbDirty /\ (Explains(LogToRedo) \/ Cut)
    /\ pc = "redo" => /\ dbDirty
                      /\ \/ Explains(LogToRedo) /\ Explains(redo) /\ Within
                         \/ Cut /\ redo = <<>>
    /\ pc = "redone" => (Says(LogToRedo) /\ Visible = pending) \/ Cut
    /\ pc = "opened" => ~dbDirty /\ Content

UpInv == pc \in Serving => UpFacts
DownInv == pc \in Opening => DownFacts
RecInv == Types /\ UpInv /\ DownInv

\* Of a table that is unfit to be written only the types are known.
Inv == Types /\ (sound => UpInv /\ DownInv)

-------------------------------------------------------------------------------
(* The last word of a log about a row.                                      *)

\* The rows an entry is about.
Names(e) == e.del \union DOMAIN e.new

LEMMA LastIs ==
    ASSUME NEW log, NEW r
    PROVE  \A i : i \in LastFor(log, r) <=>
                    /\ i \in DOMAIN log /\ r \in Names(log[i])
                    /\ \A j \in DOMAIN log : r \in Names(log[j]) => j <= i
BY DEF LastFor, Names

\* An entry is a record of a function on rows and a set of rows.
LEMMA EntryType ==
    ASSUME NEW e \in Entries
    PROVE  /\ DOMAIN e.new \subseteq Rows /\ e.del \subseteq Rows
           /\ \A r \in DOMAIN e.new : e.new[r] \in Conts
BY DEF Entries

\* If some entry is about a row, then one is the last to be.
LEMMA LastExists ==
    ASSUME NEW log \in Seq(Entries), NEW r, NEW i \in DOMAIN log, r \in Names(log[i])
    PROVE  LastFor(log, r) # {}
<1> DEFINE S == {Len(log) - j : j \in {k \in DOMAIN log : r \in Names(log[k])}}
<1>1. DOMAIN log = 1..Len(log) /\ Len(log) \in Nat
  OBVIOUS
<1>2. S \subseteq Nat /\ S # {}
  BY <1>1
<1>3. PICK m \in S : \A k \in S : m <= k
  <2> HIDE DEF S
  <2> QED
    BY <1>2, RecoveryAssumption, Blk!LeastNumber DEF Blk!StoreAssumption
<1>4. PICK j \in DOMAIN log : r \in Names(log[j]) /\ m = Len(log) - j
  OBVIOUS
<1>5. ASSUME NEW k \in DOMAIN log, r \in Names(log[k]) PROVE k <= j
  <2>1. Len(log) - k \in S
    BY <1>5
  <2>2. Len(log) - j <= Len(log) - k
    BY <1>3, <1>4, <2>1
  <2> QED
    BY <1>1, <2>2
<1>6. j \in LastFor(log, r)
  BY <1>4, <1>5, LastIs
<1> QED
  BY <1>6

\* A log is silent about a row exactly if no entry is about it.
LEMMA Silent ==
    ASSUME NEW log \in Seq(Entries), NEW r
    PROVE  LastFor(log, r) = {} <=> \A i \in DOMAIN log : r \notin Names(log[i])
BY LastExists, LastIs

\* One more entry has the last word about its rows.
LEMMA LastAppend ==
    ASSUME NEW log \in Seq(Entries), NEW e \in Entries, NEW r
    PROVE  /\ LastFor(Append(log, e), r) =
                 IF r \in Names(e) THEN {Len(log) + 1} ELSE LastFor(log, r)
           /\ Append(log, e)[Len(log) + 1] = e
           /\ \A i \in DOMAIN log : Append(log, e)[i] = log[i]
<1>1. /\ DOMAIN log = 1..Len(log) /\ Len(log) \in Nat
      /\ DOMAIN Append(log, e) = 1..(Len(log) + 1)
      /\ Append(log, e)[Len(log) + 1] = e
      /\ \A i \in 1..Len(log) : Append(log, e)[i] = log[i]
  OBVIOUS
<1> DEFINE app == Append(log, e)
<1> HIDE DEF app
<1>2. ASSUME NEW i
      PROVE  i \in LastFor(app, r) <=>
                 i \in IF r \in Names(e) THEN {Len(log) + 1} ELSE LastFor(log, r)
  <2>1. i \in LastFor(app, r) <=>
           /\ i \in DOMAIN app /\ r \in Names(app[i])
           /\ \A j \in DOMAIN app : r \in Names(app[j]) => j <= i
    BY LastIs
  <2>2. i \in LastFor(log, r) <=>
           /\ i \in DOMAIN log /\ r \in Names(log[i])
           /\ \A j \in DOMAIN log : r \in Names(log[j]) => j <= i
    BY LastIs
  <2>3. CASE r \in Names(e)
    BY <1>1, <2>1, <2>3 DEF app
  <2>4. CASE r \notin Names(e)
    BY <1>1, <2>1, <2>2, <2>4 DEF app
  <2> QED
    BY <2>3, <2>4
<1> QED
  BY <1>1, <1>2 DEF app

\* The last word of the second of two logs is that of both.
LEMMA LastSecond ==
    ASSUME NEW one \in Seq(Entries), NEW two \in Seq(Entries), NEW r, NEW i \in LastFor(two, r)
    PROVE  Len(one) + i \in LastFor(one \o two, r) /\ (one \o two)[Len(one) + i] = two[i]
<1>1. /\ DOMAIN one = 1..Len(one) /\ DOMAIN two = 1..Len(two) /\ Len(one) \in Nat /\ Len(two) \in Nat
      /\ one \o two \in Seq(Entries) /\ Len(one \o two) = Len(one) + Len(two)
      /\ DOMAIN (one \o two) = 1..(Len(one) + Len(two))
      /\ \A j \in 1..(Len(one) + Len(two)) :
            (one \o two)[j] = IF j <= Len(one) THEN one[j] ELSE two[j - Len(one)]
  BY ConcatProperties
<1>2. i \in 1..Len(two) /\ r \in Names(two[i]) /\ \A j \in 1..Len(two) : r \in Names(two[j]) => j <= i
  BY <1>1, LastIs
<1>3. Len(one) + i \in 1..(Len(one) + Len(two)) /\ (one \o two)[Len(one) + i] = two[i]
  BY <1>1, <1>2
<1>4. ASSUME NEW j \in 1..(Len(one) + Len(two)), r \in Names((one \o two)[j]) PROVE j <= Len(one) + i
  <2>1. CASE j <= Len(one)
    BY <1>1, <1>2, <2>1
  <2>2. CASE ~(j <= Len(one))
    <3>1. j - Len(one) \in 1..Len(two) /\ r \in Names(two[j - Len(one)])
      BY <1>1, <1>4, <2>2
    <3>2. j - Len(one) <= i
      BY <1>2, <3>1
    <3> QED
      BY <1>1, <1>2, <3>2
  <2> QED
    BY <2>1, <2>2
<1> QED
  BY <1>1, <1>2, <1>3, <1>4, LastIs

\* Dropping the first entry of a log.
LEMMA LastTail ==
    ASSUME NEW log \in Seq(Entries), log # <<>>, NEW r
    PROVE  /\ r \notin Names(Head(log)) =>
                 (LastFor(Tail(log), r) = {} <=> LastFor(log, r) = {})
           /\ \A i \in LastFor(Tail(log), r) :
                 i + 1 \in LastFor(log, r) /\ Tail(log)[i] = log[i + 1]
<1>1. /\ DOMAIN log = 1..Len(log) /\ Len(log) \in Nat \ {0} /\ Head(log) = log[1]
      /\ Tail(log) \in Seq(Entries) /\ DOMAIN Tail(log) = 1..(Len(log) - 1)
      /\ \A i \in 1..(Len(log) - 1) : Tail(log)[i] = log[i + 1]
  BY HeadTailProperties, EmptySeq
<1>2. ASSUME NEW i \in LastFor(Tail(log), r)
      PROVE  i + 1 \in LastFor(log, r) /\ Tail(log)[i] = log[i + 1]
  <2>1. /\ i \in 1..(Len(log) - 1) /\ r \in Names(Tail(log)[i])
        /\ \A j \in 1..(Len(log) - 1) : r \in Names(Tail(log)[j]) => j <= i
    BY <1>1, LastIs
  <2>2. ASSUME NEW j \in 1..Len(log), r \in Names(log[j]) PROVE j <= i + 1
    <3>1. j = 1 \/ j - 1 \in 1..(Len(log) - 1)
      BY <1>1
    <3>2. CASE j = 1
      BY <2>1, <3>2
    <3>3. CASE j - 1 \in 1..(Len(log) - 1)
      <4>1. Tail(log)[j - 1] = log[j]
        BY <1>1, <3>3
      <4>2. j - 1 <= i
        BY <2>1, <2>2, <3>3, <4>1
      <4> QED
        BY <2>1, <4>2
    <3> QED
      BY <3>1, <3>2, <3>3
  <2>3. i + 1 \in 1..Len(log) /\ Tail(log)[i] = log[i + 1]
    BY <1>1, <2>1
  <2> QED
    BY <1>1, <2>1, <2>2, <2>3, LastIs
<1>3. ASSUME r \notin Names(Head(log)), LastFor(Tail(log), r) = {} PROVE LastFor(log, r) = {}
  <2>1. \A i \in 1..(Len(log) - 1) : r \notin Names(Tail(log)[i])
    BY <1>1, <1>3, Silent
  <2>2. ASSUME NEW i \in 1..Len(log) PROVE r \notin Names(log[i])
    <3>1. i = 1 \/ (i - 1 \in 1..(Len(log) - 1) /\ Tail(log)[i - 1] = log[i])
      BY <1>1
    <3> QED
      BY <1>1, <1>3, <2>1, <3>1
  <2> QED
    BY <1>1, <2>2, Silent
<1> QED
  BY <1>2, <1>3

\* Taking a row out of the first entry of a log.
LEMMA LastShrink ==
    ASSUME NEW log \in Seq(Entries), log # <<>>, NEW e \in Entries, NEW q,
           Names(e) \subseteq Names(log[1]), Names(log[1]) \subseteq Names(e) \union {q}, NEW r,
           NEW short, short = [log EXCEPT ![1] = e]
    PROVE  /\ short \in Seq(Entries)
           /\ \A i \in LastFor(short, r) : /\ i \in LastFor(log, r)
                                           /\ short[i] = IF i = 1 THEN e ELSE log[i]
           /\ r # q \/ r \in Names(e) => (LastFor(short, r) = {} <=> LastFor(log, r) = {})
           /\ LastFor(log, r) = {} => LastFor(short, r) = {}
           /\ 1 \notin LastFor(log, r) => LastFor(short, r) = LastFor(log, r)
<1>1. /\ DOMAIN log = 1..Len(log) /\ Len(log) \in Nat \ {0} /\ 1 \in DOMAIN log
      /\ short \in Seq(Entries) /\ DOMAIN short = DOMAIN log
      /\ \A i \in DOMAIN log : short[i] = IF i = 1 THEN e ELSE log[i]
  BY EmptySeq
<1>2. ASSUME NEW i \in LastFor(short, r) PROVE i \in LastFor(log, r)
  <2>1. i \in DOMAIN log /\ r \in Names(short[i]) /\ \A j \in DOMAIN log : r \in Names(short[j]) => j <= i
    BY <1>1, LastIs
  <2>2. r \in Names(log[i])
    BY <1>1, <2>1
  <2>3. ASSUME NEW j \in DOMAIN log, r \in Names(log[j]) PROVE j <= i
    <3>1. CASE j = 1
      BY <1>1, <2>1, <3>1
    <3>2. CASE j # 1
      BY <1>1, <2>1, <2>3, <3>2
    <3> QED
      BY <3>1, <3>2
  <2> QED
    BY <2>1, <2>2, <2>3, LastIs
<1>3. ASSUME r # q \/ r \in Names(e) PROVE LastFor(short, r) = {} <=> LastFor(log, r) = {}
  <2>1. \A i \in DOMAIN log : r \in Names(short[i]) <=> r \in Names(log[i])
    BY <1>1, <1>3
  <2> QED
    BY <1>1, <2>1, Silent
<1>4. ASSUME LastFor(log, r) = {} PROVE LastFor(short, r) = {}
  <2>1. \A i \in DOMAIN log : r \in Names(short[i]) => r \in Names(log[i])
    BY <1>1
  <2> QED
    BY <1>1, <1>4, <2>1, Silent
<1>5. ASSUME 1 \notin LastFor(log, r), NEW i \in LastFor(log, r) PROVE i \in LastFor(short, r)
  <2>1. i \in DOMAIN log /\ r \in Names(log[i]) /\ \A j \in DOMAIN log : r \in Names(log[j]) => j <= i
    BY LastIs
  <2>2. i # 1 /\ r \in Names(short[i])
    BY <1>1, <1>5, <2>1
  <2>3. \A j \in DOMAIN log : r \in Names(short[j]) => r \in Names(log[j])
    BY <1>1
  <2> QED
    BY <1>1, <2>1, <2>2, <2>3, LastIs
<1>6. 1 \notin LastFor(log, r) => LastFor(short, r) = LastFor(log, r)
  BY <1>2, <1>5
<1>7. ASSUME NEW i \in LastFor(short, r) PROVE short[i] = IF i = 1 THEN e ELSE log[i]
  <2>1. i \in DOMAIN log
    BY <1>1, LastIs
  <2> QED
    BY <1>1, <2>1
<1> QED
  BY <1>1, <1>2, <1>3, <1>4, <1>6, <1>7

\* Replaying a log that explains the table gives what the commits leave.
LEMMA Replays ==
    ASSUME Types, NEW log \in Seq(Entries), Explains(log)
    PROVE  Replayed(log) = pending
<1>1. ASSUME NEW p \in Visible
      PROVE  p[1] \in Rows /\ row[p[1]] \in Conts /\ p = <<p[1], row[p[1]]>>
  BY <1>1 DEF Visible, Types
<1>2. ASSUME NEW p \in Replayed(log) PROVE p \in pending
  <2>1. CASE p \in Visible /\ LastFor(log, p[1]) = {}
    BY <1>1, <2>1 DEF Explains, Untouched
  <2>2. CASE \E r \in Rows : \E i \in LastFor(log, r) : r \in DOMAIN log[i].new /\ p = <<r, log[i].new[r]>>
    <3>0. PICK r \in Rows : \E i \in LastFor(log, r) : r \in DOMAIN log[i].new /\ p = <<r, log[i].new[r]>>
      BY <2>2
    <3>1. PICK i \in LastFor(log, r) : r \in DOMAIN log[i].new /\ p = <<r, log[i].new[r]>>
      BY <3>0
    <3>2. i \in DOMAIN log
      BY LastIs
    <3>3. log[i].new[r] \in Conts
      BY <3>1, <3>2, EntryType
    <3> QED
      BY <3>1, <3>3 DEF Explains, Says
  <2> QED
    BY <1>2, <2>1, <2>2 DEF Replayed
<1>3. ASSUME NEW p \in pending PROVE p \in Replayed(log)
  <2>1. PICK r \in Rows, v \in Conts : p = <<r, v>>
    BY DEF Types
  <2>2. CASE LastFor(log, r) = {}
    <3>1. <<r, v>> \in Visible /\ <<r, v>>[1] = r
      BY <2>1, <2>2 DEF Explains, Untouched
    <3> QED
      BY <2>1, <2>2, <3>1 DEF Replayed
  <2>3. CASE LastFor(log, r) # {}
    <3>1. PICK i \in LastFor(log, r) : TRUE
      BY <2>3
    <3>2. r \in DOMAIN log[i].new /\ v = log[i].new[r]
      BY <2>1, <3>1 DEF Explains, Says
    <3> QED
      BY <2>1, <3>1, <3>2 DEF Replayed
  <2> QED
    BY <2>2, <2>3
<1> QED
  BY <1>2, <1>3

-------------------------------------------------------------------------------
(* The store below the table.                                               *)

LEMMA StoreNames ==
    /\ Blk!StoreAssumption /\ Blk!Blocks = Rows
    /\ Blk!FREE = FREE /\ Blk!COMMIT = COMMIT /\ Blk!TRANS = TRANS /\ Blk!DIRTY = "dirty"
BY RecoveryAssumption
   DEF Blk!StoreAssumption, Blk!Blocks, Rows, Blk!FREE, FREE, Blk!COMMIT, COMMIT,
       Blk!TRANS, TRANS, Blk!DIRTY

\* The three values of a control byte that the table shows are different.
LEMMA Controls == FREE # COMMIT /\ FREE # TRANS /\ COMMIT # TRANS
BY DEF FREE, COMMIT, TRANS

\* A new store is exact.
LEMMA StoreInit == Init => StoreInv
<1>1. Init => Blk!Init
  BY StoreNames DEF Init, Store!Init, Blk!Init, Blk!Blocks, Store!Blocks, Store!FREE, Blk!FREE
<1> QED
  BY <1>1, StoreNames, Blk!InitIInv DEF StoreInv, Init, Store!Init

\* An INSERT takes a free block, and the list stays exact.
LEMMA StoreInsert ==
    ASSUME StoreInv, NEW r \in Rows, NEW v, InsertRow(r, v)
    PROVE  StoreInv' /\ ctrl[r] = FREE
<1> USE StoreNames, Controls
<1>t. Blk!TypeOK /\ Blk!FreshAreFree /\ scan = 0 /\ scan' = 0
  BY DEF StoreInv, Blk!IInv, InsertRow
<1>e. /\ head # 0 => head \in Blk!FreeBlocks /\ nxt[head] \in 0..MaxCap
      /\ head = 0 => Blk!FreeBlocks = {} /\ tail = 0
  BY Blk!ListEnds DEF StoreInv
<1>c. ctrl' = [ctrl EXCEPT ![r] = TRANS] /\ nxt' = [nxt EXCEPT ![r] = Data]
  BY DEF InsertRow
<1>1. CASE head # 0 /\ r = head /\ Store!Pop(r) /\ UNCHANGED <<maxid, cap>>
  <2>1. head \in Blk!FreeBlocks /\ head \in 1..maxid /\ ctrl[head] = FREE /\ Blk!Pop(head)
    BY <1>1, <1>e DEF Blk!FreeBlocks, Store!Pop, Blk!Pop
  <2>2. Blk!TypeOK'
    BY <1>1, <1>t, <1>e, <1>c, <2>1 DEF Blk!TypeOK, Store!Pop
  <2>3. Blk!FreshAreFree'
    BY <1>1, <1>t, <1>c, <2>1 DEF Blk!FreshAreFree, Blk!TypeOK
  <2>4. Blk!FreeBlocks' = Blk!FreeBlocks \ {head}
    BY <1>1, <1>t, <1>c, <2>1 DEF Blk!FreeBlocks, Blk!TypeOK
  <2>5. Blk!FreeListExact'
    BY <1>1, <1>c, <2>1, <2>2, <2>4, Blk!PopExact DEF StoreInv
  <2> QED
    BY <1>1, <1>t, <2>1, <2>2, <2>3, <2>5 DEF StoreInv, Blk!IInv
<1>2. CASE head = 0 /\ Store!Room /\ r = maxid + 1 /\ maxid' = maxid + 1 /\ UNCHANGED <<head, tail, cap>>
  <2>1. maxid + 1 \in Rows /\ maxid + 1 <= cap /\ ctrl[r] = FREE
    BY <1>2, <1>t DEF Store!Room, Blk!TypeOK, Blk!FreshAreFree
  <2>2. Blk!TypeOK'
    BY <1>2, <1>t, <1>c, <2>1 DEF Blk!TypeOK
  <2>3. Blk!FreshAreFree'
    BY <1>2, <1>t, <1>c, <2>1 DEF Blk!FreshAreFree, Blk!TypeOK, Rows
  <2>4. Blk!FreeBlocks' = {}
    BY <1>2, <1>t, <1>c, <1>e, <2>1 DEF Blk!FreeBlocks, Blk!TypeOK
  <2>5. Blk!FreeListExact'
    BY <1>2, <1>e, <2>4, Blk!EmptyList
  <2> QED
    BY <1>t, <2>1, <2>2, <2>3, <2>5 DEF StoreInv, Blk!IInv
<1> QED
  BY <1>1, <1>2 DEF InsertRow

\* A row that is not free goes to the end of the list.
LEMMA StoreFree ==
    ASSUME StoreInv, NEW r \in Rows, ctrl[r] # FREE, FreeRow(r), UNCHANGED scan
    PROVE  StoreInv'
<1> USE StoreNames, Controls
<1>t. Blk!TypeOK /\ Blk!FreshAreFree /\ scan = 0 /\ scan' = 0 /\ MaxCap \in Nat
  BY RecoveryAssumption DEF StoreInv, Blk!IInv
<1>c. ctrl' = [ctrl EXCEPT ![r] = FREE] /\ Blk!LinkFree(r) /\ UNCHANGED <<maxid, cap>>
  BY DEF FreeRow, Store!LinkFree, Blk!LinkFree
<1>1. r \in 1..maxid /\ r \notin Blk!FreeBlocks
  BY <1>t DEF Blk!FreeBlocks, Blk!FreshAreFree, Blk!TypeOK, Rows
<1>2. Blk!TypeOK'
  BY <1>t, <1>c, <1>1 DEF Blk!LinkFree, Blk!TypeOK, Rows
<1>3. Blk!FreshAreFree'
  BY <1>t, <1>c DEF Blk!FreshAreFree, Blk!TypeOK
<1>4. Blk!FreeBlocks' = Blk!FreeBlocks \union {r}
  BY <1>t, <1>c, <1>1 DEF Blk!FreeBlocks, Blk!TypeOK
<1>5. Blk!FreeListExact'
  BY <1>c, <1>1, <1>2, <1>4, Blk!LinkExact DEF StoreInv
<1> QED
  BY <1>t, <1>2, <1>3, <1>5 DEF StoreInv, Blk!IInv

\* The list does not see a row change from one use to another.
LEMMA StoreKeep ==
    ASSUME StoreInv, UNCHANGED <<head, tail, maxid, cap, nxt, scan>>,
           ctrl' \in [Rows -> {FREE, COMMIT, TRANS}],
           \A q \in Rows : ctrl'[q] = FREE <=> ctrl[q] = FREE
    PROVE  StoreInv'
<1> USE StoreNames, Controls
<1>t. Blk!TypeOK /\ Blk!FreshAreFree /\ scan = 0 /\ scan' = 0 /\ MaxCap \in Nat
  BY RecoveryAssumption DEF StoreInv, Blk!IInv
<1>1. Blk!TypeOK' /\ Blk!FreshAreFree'
  BY <1>t DEF Blk!FreshAreFree, Blk!TypeOK
<1>2. \A q \in 1..maxid : q \in Rows
  BY <1>t DEF Blk!TypeOK, Rows
<1>3. Blk!FreeBlocks' = Blk!FreeBlocks
  BY <1>2 DEF Blk!FreeBlocks
<1>4. Blk!FreeListExact'
  BY <1>3, Blk!SameList DEF StoreInv, Blk!IInv
<1> QED
  BY <1>t, <1>1, <1>4 DEF StoreInv, Blk!IInv

-------------------------------------------------------------------------------
(* What a reader sees.                                                      *)

LEMMA SameSeen ==
    ASSUME \A q \in Rows : /\ ctrl'[q] = COMMIT <=> ctrl[q] = COMMIT
                           /\ ctrl[q] = COMMIT => row'[q] = row[q]
    PROVE  Visible' = Visible
BY DEF Visible

\* One row changes.
LEMMA OtherSeen ==
    ASSUME NEW r \in Rows,
           \A q \in Rows : q # r => /\ ctrl'[q] = COMMIT <=> ctrl[q] = COMMIT
                                    /\ ctrl[q] = COMMIT => row'[q] = row[q]
    PROVE  Visible' = {p \in Visible : p[1] # r}
                        \union (IF ctrl'[r] = COMMIT THEN {<<r, row'[r]>>} ELSE {})
<1>1. ASSUME NEW p \in Visible'
      PROVE  p \in {s \in Visible : s[1] # r}
                     \union (IF ctrl'[r] = COMMIT THEN {<<r, row'[r]>>} ELSE {})
  BY <1>1 DEF Visible
<1>2. ASSUME NEW p \in Visible, p[1] # r PROVE p \in Visible'
  BY <1>2 DEF Visible
<1>3. ctrl'[r] = COMMIT => <<r, row'[r]>> \in Visible'
  BY DEF Visible
<1> QED
  BY <1>1, <1>2, <1>3

\* A pair that is seen is a row and its content.
LEMMA SeenIs ==
    ASSUME NEW r, NEW v
    PROVE  <<r, v>> \in Visible <=> r \in Rows /\ ctrl[r] = COMMIT /\ v = row[r]
BY DEF Visible

-------------------------------------------------------------------------------
(* Types.                                                                   *)

LEMMA SeenTypes == Types => Visible \subseteq Rows \X Conts
BY DEF Types, Visible

\* The entry of a commit.
CommitEntry == [new |-> [r \in new |-> row[r]], del |-> del]

LEMMA CommitEntryType ==
    ASSUME Types
    PROVE  /\ CommitEntry \in Entries /\ Names(CommitEntry) = new \union del
           /\ CommitEntry.new = [r \in new |-> row[r]] /\ CommitEntry.del = del
<1>1. [r \in new |-> row[r]] \in [new -> Conts] /\ new \in SUBSET Rows
  BY DEF Types
<1> QED
  BY <1>1 DEF Types, CommitEntry, Entries, Names

\* The first entry to redo, and what is left of it when a row is done.
Undeleted(r) == [Head(redo) EXCEPT !.del = @ \ {r}]
Unwritten(r) == [Head(redo) EXCEPT !.new = [q \in DOMAIN @ \ {r} |-> @[q]]]

LEMMA RedoEntryType ==
    ASSUME Types, redo # <<>>, NEW r
    PROVE  /\ Head(redo) \in Entries /\ Head(redo) = redo[1] /\ 1 \in DOMAIN redo
           /\ Undeleted(r) \in Entries /\ Unwritten(r) \in Entries
           /\ Undeleted(r).new = Head(redo).new /\ Undeleted(r).del = Head(redo).del \ {r}
           /\ Unwritten(r).del = Head(redo).del
           /\ Unwritten(r).new = [q \in DOMAIN Head(redo).new \ {r} |-> Head(redo).new[q]]
           /\ [redo EXCEPT ![1].del = @ \ {r}] = [redo EXCEPT ![1] = Undeleted(r)]
           /\ [redo EXCEPT ![1].new = [q \in DOMAIN @ \ {r} |-> @[q]]]
                = [redo EXCEPT ![1] = Unwritten(r)]
<1>1. Head(redo) \in Entries /\ Head(redo) = redo[1] /\ 1 \in DOMAIN redo
  BY EmptySeq, HeadTailProperties DEF Types
<1>2. PICK D \in SUBSET Rows : Head(redo).new \in [D -> Conts] /\ Head(redo).del \in SUBSET Rows
  BY <1>1 DEF Entries
<1>3. [q \in D \ {r} |-> Head(redo).new[q]] \in [D \ {r} -> Conts]
  BY <1>2
<1>4. Undeleted(r) \in Entries /\ Undeleted(r).new = Head(redo).new /\ Undeleted(r).del = Head(redo).del \ {r}
  BY <1>1, <1>2 DEF Undeleted, Entries
<1>5. /\ Unwritten(r) \in Entries /\ Unwritten(r).del = Head(redo).del
      /\ Unwritten(r).new = [q \in DOMAIN Head(redo).new \ {r} |-> Head(redo).new[q]]
  BY <1>1, <1>2, <1>3 DEF Unwritten, Entries
<1>6. [redo EXCEPT ![1].del = @ \ {r}] = [redo EXCEPT ![1] = Undeleted(r)]
  BY <1>1 DEF Undeleted
<1>7. [redo EXCEPT ![1].new = [q \in DOMAIN @ \ {r} |-> @[q]]] = [redo EXCEPT ![1] = Unwritten(r)]
  BY <1>1 DEF Unwritten
<1> QED
  BY <1>1, <1>4, <1>5, <1>6, <1>7

LEMMA StepTypes == Types /\ [Next]_vars => Types'
<1> SUFFICES ASSUME Types, [Next]_vars PROVE Types'
  OBVIOUS
<1>f. ASSUME NEW r \in Rows, FreeRow(r) PROVE ctrl' \in [Rows -> {FREE, COMMIT, TRANS}] /\ row' \in [Rows -> Conts]
  BY <1>f DEF Serving, Opening, FreeRow, Types, Conts
<1>1. ASSUME NEW r \in Rows, NEW v \in Vals, InsertRow(r, v) PROVE Types'
  BY <1>1 DEF Serving, Opening, InsertRow, SetDirty, Types, Conts, logVars, flushVars, history
<1>2. ASSUME NEW r \in Rows, DeleteRow(r) PROVE Types'
  BY <1>2 DEF Serving, Opening, DeleteRow, SetDirty, Types, storeVars, logVars, flushVars, history
<1>3. CASE Commit
  <2>1. active' \in Seq(Entries)
    BY <1>3, CommitEntryType DEF Serving, Opening, Commit, Logged, CommitEntry, Types
  <2>2. pending' \subseteq Rows \X Conts
    BY <1>3, SeenTypes DEF Serving, Opening, Commit, Types
  <2> QED
    BY <1>3, <2>1, <2>2 DEF Serving, Opening, Commit, Types, storeVars, dirtyVars, txVars, flushVars
<1>4. CASE Rollback \/ MarkDirty \/ Return
  BY <1>4 DEF Serving, Opening, Rollback, MarkDirty, Return, SetDirty, Types, storeVars, logVars, dirtyVars,
              txVars, flushVars, history
<1>5. ASSUME NEW r \in Rows, CommitNew(r) PROVE Types'
  BY <1>5 DEF Serving, Opening, CommitNew, Types, logVars, dirtyVars, flushVars, history
<1>6. ASSUME NEW r \in Rows, CommitDel(r) \/ RollbackNew(r) PROVE Types'
  <2>1. FreeRow(r)
    BY <1>6 DEF Serving, Opening, CommitDel, RollbackNew
  <2> QED
    BY <1>6, <1>f, <2>1 DEF Serving, Opening, CommitDel, RollbackNew, Types, logVars, dirtyVars, flushVars, history
<1>7. CASE FlushBegin
  BY <1>7 DEF Serving, Opening, FlushBegin, Types, storeVars, logVars, txVars, history
<1>8. CASE FlushTable
  BY <1>8 DEF Serving, Opening, FlushTable, Types, storeVars, logVars, txVars, history
<1>17. CASE FlushEnd
  <2>1. dbDirty' \in BOOLEAN
    BY <1>17 DEF Serving, Opening, FlushEnd, Types
  <2>2. active' \in Seq(Entries) /\ backup' \in Seq(Entries)
    BY <1>17, EmptySeq DEF Serving, Opening, FlushEnd, Recycle, logVars, Types
  <2> QED
    BY <1>17, <2>1, <2>2 DEF Serving, Opening, FlushEnd, Types, storeVars, txVars, history
<1>9. CASE Crash
  BY <1>9, EmptySeq DEF Serving, Opening, Crash, Types, logVars, dirtyVars, history
<1>10. CASE Open
  <2>1. LogToRedo \in Seq(Entries)
    BY ConcatProperties DEF Serving, Opening, Types, LogToRedo
  <2>2. UNCHANGED ctrl /\ (redo' = redo \/ redo' = LogToRedo)
    BY <1>10 DEF Serving, Opening, Open, Store!RepairBegin, storeVars
  <2> QED
    BY <1>10, <2>1, <2>2 DEF Serving, Opening, Open, Types, logVars, dirtyVars, txVars, flushVars, history
<1>11. CASE RepairRow
  <2>1. LogToRedo \in Seq(Entries)
    BY ConcatProperties DEF Serving, Opening, Types, LogToRedo
  <2>2. ctrl' \in [Rows -> {FREE, COMMIT, TRANS}]
    BY <1>11 DEF Serving, Opening, RepairRow, Store!RepairRow, Store!FREE, FREE, Types
  <2>3. row' \in [Rows -> Conts]
    BY <1>11 DEF Serving, Opening, RepairRow, Types, Conts
  <2>4. redo' = redo \/ redo' = LogToRedo
    BY <1>11 DEF Serving, Opening, RepairRow
  <2> QED
    BY <1>11, <2>1, <2>2, <2>3, <2>4 DEF Serving, Opening, RepairRow, Types, logVars, dirtyVars, txVars, flushVars, history
<1>12. CASE RedoRow
  <2>0. redo # <<>> /\ UNCHANGED <<logVars, dirtyVars, pc, txVars, flushVars, history>>
    BY <1>12 DEF Serving, Opening, RedoRow
  <2>1. redo' \in Seq(Entries) /\ ctrl' \in [Rows -> {FREE, COMMIT, TRANS}] /\ row' \in [Rows -> Conts]
    <3>1. ASSUME NEW r \in Rows, redo' = [redo EXCEPT ![1].del = @ \ {r}], FreeRow(r) PROVE <2>1!:
      <4>0. redo' = [redo EXCEPT ![1] = Undeleted(r)]
        BY <2>0, <3>1, RedoEntryType, Zenon
      <4>e. Undeleted(r) \in Entries
        BY <2>0, RedoEntryType, Zenon
      <4>1. redo' \in Seq(Entries)
        BY <2>0, <4>0, <4>e, EmptySeq DEF Serving, Opening, Types
      <4> QED
        BY <1>f, <3>1, <4>1
    <3>2. ASSUME NEW r \in Rows, r \in DOMAIN Head(redo).new,
                 redo' = [redo EXCEPT ![1].new = [q \in DOMAIN @ \ {r} |-> @[q]]],
                 RedoNew(r, Head(redo).new[r]) PROVE <2>1!:
      <4>0. redo' = [redo EXCEPT ![1] = Unwritten(r)]
        BY <2>0, <3>2, RedoEntryType, Zenon
      <4>e. Unwritten(r) \in Entries
        BY <2>0, RedoEntryType, Zenon
      <4>1. redo' \in Seq(Entries)
        BY <2>0, <4>0, <4>e, EmptySeq DEF Serving, Opening, Types
      <4>2. Head(redo).new[r] \in Conts
        BY <2>0, <3>2, RedoEntryType, EntryType
      <4> QED
        BY <3>2, <4>1, <4>2 DEF Serving, Opening, RedoNew, Types
    <3>3. CASE redo' = RestOf(redo) /\ UNCHANGED <<storeVars, row>>
      BY <2>0, <3>3, HeadTailProperties DEF Serving, Opening, RestOf, storeVars, Types
    <3> QED
      BY <1>12, <3>1, <3>2, <3>3 DEF Serving, Opening, RedoRow, Least
  <2> QED
    BY <2>0, <2>1 DEF Serving, Opening, Types, logVars, dirtyVars, txVars, flushVars, history
<1>13. CASE RedoEnd
  BY <1>13 DEF Serving, Opening, RedoEnd, Types, storeVars, logVars, dirtyVars, txVars, flushVars, history
<1>14. CASE RepairEnd
  BY <1>14 DEF Serving, Opening, RepairEnd, Types, storeVars, dirtyVars, txVars, flushVars, history
<1>15. CASE Serve
  BY <1>15, SeenTypes DEF Serving, Opening, Serve, Types, storeVars, logVars, dirtyVars, txVars, flushVars
<1>16. CASE UNCHANGED vars
  BY <1>16 DEF Serving, Opening, vars, Types, storeVars, logVars, dirtyVars, txVars, flushVars, history
<1> QED
  BY <1>1, <1>2, <1>3, <1>4, <1>5, <1>6, <1>7, <1>8, <1>9, <1>10, <1>11, <1>12, <1>13,
     <1>14, <1>15, <1>16, <1>17 DEF Serving, Opening, Next, Walk, Flush, Recover

-------------------------------------------------------------------------------
(* Steps while the database serves.                                         *)

\* Neither the logs, nor what is seen, nor what is meant changes.
LEMMA SameLog ==
    ASSUME UNCHANGED <<active, backup, pending>>, Visible' = Visible
    PROVE  /\ (Explains(LogToRedo))' <=> Explains(LogToRedo)
           /\ LogToRedo' = LogToRedo
BY DEF Explains, Says, Untouched, LogToRedo, LastFor

LEMMA LogType == Types => LogToRedo \in Seq(Entries)
BY ConcatProperties DEF Types, LogToRedo

\* A row on the way of the running commit is in the last entry of the log.
LEMMA LastNamed ==
    ASSUME Types, Walking, NEW r \in new \union del
    PROVE  LastFor(active, r) # {} /\ LastFor(LogToRedo, r) # {}
<1>1. Len(active) \in DOMAIN active /\ r \in Names(active[Len(active)])
  BY EmptySeq DEF Types, Walking, Names
<1>2. LastFor(active, r) # {}
  BY <1>1, LastExists DEF Types
<1> QED
  BY <1>2, LastSecond DEF Types, LogToRedo

LEMMA WalkedNamed ==
    ASSUME Types, Walking \/ Taken, ~Emptied, NEW r \in new \union del
    PROVE  LastFor(LogToRedo, r) # {}
BY LastNamed DEF Taken

\* A commit that has fewer rows to walk still has its entry.
LEMMA WalkOn ==
    ASSUME Walking \/ Taken, UNCHANGED <<active, backup, torn>>,
           new' \subseteq new, del' \subseteq del
    PROVE  Walking' \/ Taken'
<1>1. LogToRedo' = LogToRedo
  BY DEF LogToRedo
<1>2. CASE Walking
  BY <1>2 DEF Walking
<1>3. CASE Taken
  BY <1>1, <1>3 DEF Taken, Emptied, LastFor
<1> QED
  BY <1>2, <1>3

LEMMA UpInsert ==
    ASSUME Types, UpFacts, NEW r \in Rows, NEW v \in Vals, InsertRow(r, v)
    PROVE  UpFacts'
<1> USE Controls
<1>1. StoreInv' /\ ctrl[r] = FREE
  BY StoreInsert DEF UpFacts
<1>2. /\ ctrl' = [ctrl EXCEPT ![r] = TRANS] /\ row' = [row EXCEPT ![r] = v]
      /\ new' = new \union {r} /\ pc = "idle"
      /\ UNCHANGED <<scan, active, backup, pc, del, acked, pending, torn>>
  BY DEF InsertRow, Running, logVars, history
<1>3. Visible' = Visible
  BY <1>1, <1>2, SameSeen DEF Types
<1>4. \A q \in new' : ctrl'[q] = TRANS
  BY <1>2 DEF Types, UpFacts
<1>5. \A q \in del' : ctrl'[q] = COMMIT
  BY <1>1, <1>2 DEF Types, UpFacts
<1> QED
  BY <1>1, <1>2, <1>3, <1>4, <1>5, SameLog DEF UpFacts, Emptied

LEMMA UpDelete ==
    ASSUME Types, UpFacts, NEW r \in Rows, DeleteRow(r)
    PROVE  UpFacts'
<1>2. /\ del' = del \union {r} /\ pc = "idle" /\ ctrl[r] = COMMIT
      /\ UNCHANGED <<storeVars, row, active, backup, pc, new, acked, pending, torn>>
  BY DEF DeleteRow, Running, logVars, history
<1>3. Visible' = Visible /\ UNCHANGED ctrl
  BY <1>2 DEF storeVars, Visible
<1>4. StoreInv'
  BY <1>2, StoreKeep DEF Types, UpFacts, storeVars
<1> QED
  BY <1>2, <1>3, <1>4, SameLog DEF UpFacts, Emptied

\* The entry of a commit says what the commit leaves of its rows.
LEMMA UpCommit ==
    ASSUME Types, UpFacts, Commit
    PROVE  UpFacts'
<1> USE Controls
<1> DEFINE e == CommitEntry
<1>0. /\ e \in Entries /\ Names(e) = new \union del
      /\ e.new = [r \in new |-> row[r]] /\ e.del = del
  BY CommitEntryType
<1> HIDE DEF e
<1>2. /\ pc = "idle" /\ pc' = "logged" /\ active' = Append(active, e)
      /\ pending' = {p \in Visible : p[1] \notin del} \union {<<r, row[r]>> : r \in new}
      /\ UNCHANGED <<storeVars, row, backup, new, del, acked, torn>>
  BY DEF Commit, Running, Logged, e, CommitEntry, txVars
<1>3. Visible' = Visible
  BY <1>2 DEF storeVars, Visible
<1>4. StoreInv' /\ UNCHANGED ctrl
  BY <1>2, StoreKeep DEF Types, UpFacts, storeVars
<1>5. acked = pending /\ Visible = pending /\ ~torn
  BY <1>2 DEF UpFacts
<1>6. LogToRedo' = Append(LogToRedo, e)
  <2>1. backup \o Append(active, e) = Append(backup \o active, e)
    <3>1. active \in Seq(Entries) /\ backup \in Seq(Entries)
      BY DEF Types
    <3> QED
      BY <1>0, <3>1, SeqEqual, ConcatProperties, AppendProperties
  <2> QED
    BY <1>2, <2>1 DEF LogToRedo
<1>t. LogToRedo \in Seq(Entries) /\ Says(LogToRedo)
  BY <1>5, LogType DEF UpFacts, Explains, Emptied
<1>p. ASSUME NEW r \in Rows, NEW v
      PROVE  /\ r \in new => (<<r, v>> \in pending' <=> v = row[r])
             /\ r \in del => <<r, v>> \notin pending'
             /\ r \notin new \union del => (<<r, v>> \in pending' <=> <<r, v>> \in pending)
  <2>1. r \in new => <<r, v>> \notin Visible
    BY SeenIs DEF UpFacts
  <2>2. r \in del => r \notin new
    BY DEF UpFacts
  <2>3. <<r, v>>[1] = r /\ (<<r, v>> \in pending' <=>
            (<<r, v>> \in Visible /\ r \notin del) \/ (r \in new /\ v = row[r]))
    BY <1>2
  <2> QED
    BY <1>5, <2>1, <2>2, <2>3
<1>7. Says(LogToRedo)'
  <2>1. SUFFICES ASSUME NEW r \in Rows, NEW i \in LastFor(Append(LogToRedo, e), r), NEW v \in Conts
                 PROVE  <<r, v>> \in pending' <=> /\ r \in DOMAIN Append(LogToRedo, e)[i].new
                                               /\ v = Append(LogToRedo, e)[i].new[r]
    BY <1>6 DEF Says, LastFor
  <2>2. CASE r \in Names(e)
    <3>1. Append(LogToRedo, e)[i] = e
      BY <1>0, <1>t, <2>1, <2>2, LastAppend
    <3> QED
      BY <1>0, <1>p, <2>2, <3>1
  <2>3. CASE r \notin Names(e)
    <3>1. i \in LastFor(LogToRedo, r)
      BY <1>0, <1>t, <2>1, <2>3, LastAppend
    <3>2. Append(LogToRedo, e)[i] = LogToRedo[i]
      BY <1>0, <1>t, <3>1, LastAppend, LastIs
    <3> QED
      BY <1>0, <1>p, <1>t, <2>3, <3>1, <3>2 DEF Says
  <2> QED
    BY <2>2, <2>3
<1>8. Untouched(LogToRedo)'
  <2>1. SUFFICES ASSUME NEW r \in Rows, LastFor(Append(LogToRedo, e), r) = {}, NEW v \in Conts
                 PROVE  <<r, v>> \in Visible <=> <<r, v>> \in pending'
    BY <1>3, <1>6 DEF Untouched, LastFor
  <2>2. r \notin Names(e)
    <3>1. r \in Names(e) => LastFor(Append(LogToRedo, e), r) = {Len(LogToRedo) + 1}
      BY <1>0, <1>t, LastAppend
    <3> QED
      BY <2>1, <3>1
  <2> QED
    BY <1>0, <1>5, <1>p, <2>2
<1>9. Walking'
  <2>1. active' # <<>> /\ active'[Len(active')] = e
    BY <1>0, <1>2, AppendProperties DEF Types
  <2> QED
    BY <1>0, <1>2, <2>1 DEF Walking
<1>10. Leaves' /\ PartOfCommit'
  BY <1>2, <1>3, <1>5 DEF Leaves, PartOfCommit
<1> QED
  BY <1>2, <1>3, <1>4, <1>5, <1>7, <1>8, <1>9, <1>10 DEF UpFacts, Explains

\* A rollback is of a transaction nobody has seen anything of.
LEMMA UpRollback ==
    ASSUME Types, UpFacts, Rollback
    PROVE  UpFacts'
<1>2. /\ del' = {} /\ pc = "idle" /\ pc' = "rollback"
      /\ UNCHANGED <<storeVars, row, active, backup, new, acked, pending, torn>>
  BY DEF Rollback, Running, logVars, history
<1>3. Visible' = Visible /\ UNCHANGED ctrl
  BY <1>2 DEF storeVars, Visible
<1>4. StoreInv'
  BY <1>2, StoreKeep DEF Types, UpFacts, storeVars
<1> QED
  BY <1>2, <1>3, <1>4, SameLog DEF UpFacts, Emptied

LEMMA UpMarkDirty ==
    ASSUME Types, UpFacts, MarkDirty
    PROVE  UpFacts'
<1>2. /\ pc = "logged" /\ pc' = "walk" /\ dbDirty'
      /\ UNCHANGED <<storeVars, row, active, backup, new, del, acked, pending, torn>>
  BY DEF MarkDirty, SetDirty, logVars, txVars, history
<1>3. Visible' = Visible /\ UNCHANGED ctrl
  BY <1>2 DEF storeVars, Visible
<1>4. StoreInv'
  BY <1>2, StoreKeep DEF Types, UpFacts, storeVars
<1>5. Walking' \/ Taken'
  BY <1>2, WalkOn DEF UpFacts
<1>6. Leaves' /\ PartOfCommit'
  BY <1>2, <1>3 DEF UpFacts, Leaves, PartOfCommit
<1> QED
  BY <1>2, <1>3, <1>4, <1>5, <1>6, SameLog DEF UpFacts, Emptied

\* An empty log explains a table that is as it is meant to be.
LEMMA EmptyExplains ==
    ASSUME LogToRedo = <<>>, Visible = pending
    PROVE  Explains(LogToRedo)
<1>1. \A r : LastFor(LogToRedo, r) = {}
  BY LastIs
<1> QED
  BY <1>1 DEF Explains, Says, Untouched

LEMMA UpReturn ==
    ASSUME Types, UpFacts, Return
    PROVE  UpFacts'
<1>2. /\ pc \in {"walk", "rollback"} /\ pc' = "idle" /\ new = {} /\ del = {}
      /\ acked' = pending /\ torn' = FALSE
      /\ UNCHANGED <<storeVars, row, active, backup, new, del, pending>>
  BY DEF Return, logVars, txVars
<1>3. Visible' = Visible /\ UNCHANGED ctrl
  BY <1>2 DEF storeVars, Visible
<1>4. StoreInv'
  BY <1>2, StoreKeep DEF Types, UpFacts, storeVars
<1>5. Visible = pending
  BY <1>2 DEF UpFacts, Leaves
<1>6. Explains(LogToRedo)
  BY <1>5, EmptyExplains DEF UpFacts, Emptied
<1> QED
  BY <1>2, <1>3, <1>4, <1>5, <1>6, SameLog DEF UpFacts

\* A walk changes one row, which the log is not silent about.
LEMMA WalkExplained ==
    ASSUME Types, Explains(LogToRedo) \/ Emptied, Walking \/ Taken,
           NEW r \in new \union del,
           UNCHANGED <<active, backup, pending, torn>>,
           \A p : p[1] # r => (p \in Visible' <=> p \in Visible)
    PROVE  (Explains(LogToRedo))' \/ Emptied'
<1>4. LogToRedo' = LogToRedo
  BY DEF LogToRedo
<1>0. CASE Emptied
  BY <1>0, <1>4 DEF Emptied
<1> SUFFICES ASSUME ~Emptied PROVE (Explains(LogToRedo))'
  BY <1>0
<1>1. LastFor(LogToRedo, r) # {}
  BY WalkedNamed
<1>2. \A q, v : q # r => (<<q, v>> \in Visible' <=> <<q, v>> \in Visible)
  OBVIOUS
<1>3. Says(LogToRedo)'
  BY DEF Explains, Says, LogToRedo, LastFor
<1>5. Untouched(LogToRedo)'
  <2>1. SUFFICES ASSUME NEW q \in Rows, LastFor(LogToRedo, q) = {}, NEW v \in Conts
                 PROVE  <<q, v>> \in Visible' <=> <<q, v>> \in pending
    BY <1>4 DEF Untouched, LastFor
  <2>2. q # r
    BY <1>1, <2>1
  <2> QED
    BY <1>2, <2>1, <2>2 DEF Explains, Untouched
<1> QED
  BY <1>3, <1>5 DEF Explains

LEMMA UpCommitNew ==
    ASSUME Types, UpFacts, NEW r \in Rows, CommitNew(r)
    PROVE  UpFacts'
<1> USE Controls
<1>2. /\ pc = "walk" /\ r \in new /\ ctrl' = [ctrl EXCEPT ![r] = COMMIT] /\ new' = new \ {r}
      /\ UNCHANGED <<head, tail, maxid, cap, nxt, scan, row, active, backup, pc, del,
                     acked, pending, torn, dbDirty>>
  BY DEF CommitNew, Least, logVars, dirtyVars, history
<1>3. /\ ctrl[r] = TRANS /\ ctrl \in [Rows -> {FREE, COMMIT, TRANS}] /\ r \notin del
      /\ Leaves /\ PartOfCommit /\ (Walking \/ Taken)
  BY <1>2 DEF UpFacts, Types
<1>4. Visible' = {p \in Visible : p[1] # r} \union {<<r, row[r]>>}
  <2>1. ctrl'[r] = COMMIT
    BY <1>2, <1>3
  <2> QED
    BY <1>2, <1>3, <2>1, OtherSeen
<1>5. \A p \in Visible : p[1] # r
  BY <1>3 DEF Visible
<1>6. StoreInv'
  BY <1>2, <1>3, StoreKeep DEF UpFacts
<1>7. Leaves'
  <2>1. <<r, row[r]>>[1] = r
    OBVIOUS
  <2>2. pending = {p \in Visible : p[1] \notin del} \union {<<q, row[q]>> : q \in new}
    BY <1>3 DEF Leaves
  <2>3. pending = {p \in Visible' : p[1] \notin del} \union {<<q, row[q]>> : q \in new \ {r}}
    BY <1>2, <1>3, <1>4, <1>5, <2>1, <2>2
  <2> QED
    BY <1>2, <2>3 DEF Leaves
<1>8. \A p : p[1] # r => (p \in Visible' <=> p \in Visible)
  BY <1>4
<1>9. (Explains(LogToRedo))' \/ Emptied'
  BY <1>2, <1>3, <1>8, WalkExplained DEF UpFacts
<1>10. (\A q \in new' : ctrl'[q] = TRANS) /\ (\A q \in del' : ctrl'[q] = COMMIT)
  BY <1>2, <1>3 DEF UpFacts, Types
<1>11. Walking' \/ Taken'
  BY <1>2, <1>3, WalkOn
<1>12. PartOfCommit'
  <2>1. <<r, row[r]>> \in pending /\ Visible' = Visible \union {<<r, row[r]>>}
    BY <1>2, <1>3, <1>4, <1>5 DEF Leaves
  <2> QED
    BY <1>2, <1>3, <2>1 DEF PartOfCommit
<1> QED
  BY <1>2, <1>6, <1>7, <1>9, <1>10, <1>11, <1>12 DEF UpFacts

LEMMA UpCommitDel ==
    ASSUME Types, UpFacts, NEW r \in Rows, CommitDel(r)
    PROVE  UpFacts'
<1> USE Controls
<1>2. /\ pc = "walk" /\ r \in del /\ new = {} /\ FreeRow(r) /\ del' = del \ {r}
      /\ UNCHANGED <<scan, active, backup, pc, new, acked, pending, torn, dbDirty>>
  BY DEF CommitDel, Least, logVars, dirtyVars, history
<1>3. /\ ctrl[r] = COMMIT /\ ctrl \in [Rows -> {FREE, COMMIT, TRANS}]
      /\ Leaves /\ PartOfCommit /\ (Walking \/ Taken)
      /\ row \in [Rows -> Conts]
      /\ ctrl' = [ctrl EXCEPT ![r] = FREE] /\ row' = [row EXCEPT ![r] = Junk]
  BY <1>2 DEF UpFacts, Types, FreeRow
<1>4. Visible' = {p \in Visible : p[1] # r}
  <2>1. ctrl'[r] # COMMIT
    BY <1>3
  <2> QED
    BY <1>3, <2>1, OtherSeen
<1>6. StoreInv'
  BY <1>2, <1>3, StoreFree DEF UpFacts
<1>7. Leaves'
  <2>2. pending = {p \in Visible : p[1] \notin del}
    BY <1>2, <1>3 DEF Leaves
  <2>3. pending = {p \in Visible' : p[1] \notin del \ {r}}
    BY <1>4, <2>2, <1>2
  <2> QED
    BY <1>2, <2>3 DEF Leaves
<1>8. \A p : p[1] # r => (p \in Visible' <=> p \in Visible)
  BY <1>4
<1>9. (Explains(LogToRedo))' \/ Emptied'
  BY <1>2, <1>3, <1>8, WalkExplained DEF UpFacts
<1>10. (\A q \in new' : ctrl'[q] = TRANS) /\ (\A q \in del' : ctrl'[q] = COMMIT)
  BY <1>2, <1>3 DEF UpFacts, Types
<1>11. Walking' \/ Taken'
  BY <1>2, <1>3, WalkOn
<1>12. PartOfCommit'
  <2>1. \A p \in pending : p[1] # r
    BY <1>2, <1>3 DEF Leaves
  <2> QED
    BY <1>2, <1>3, <1>4, <2>1 DEF PartOfCommit
<1> QED
  BY <1>2, <1>6, <1>7, <1>9, <1>10, <1>11, <1>12 DEF UpFacts

LEMMA UpRollbackNew ==
    ASSUME Types, UpFacts, NEW r \in Rows, RollbackNew(r)
    PROVE  UpFacts'
<1> USE Controls
<1>2. /\ pc = "rollback" /\ r \in new /\ FreeRow(r) /\ new' = new \ {r}
      /\ UNCHANGED <<scan, active, backup, pc, del, acked, pending, torn>>
  BY DEF RollbackNew, Least, logVars, history
<1>3. /\ ctrl[r] = TRANS /\ ctrl \in [Rows -> {FREE, COMMIT, TRANS}] /\ row \in [Rows -> Conts]
      /\ ctrl' = [ctrl EXCEPT ![r] = FREE] /\ row' = [row EXCEPT ![r] = Junk] /\ del = {}
  BY <1>2 DEF UpFacts, Types, FreeRow
<1>4. Visible' = Visible
  BY <1>3, SameSeen
<1>6. StoreInv'
  BY <1>2, <1>3, StoreFree DEF UpFacts
<1>10. \A q \in new' : ctrl'[q] = TRANS
  BY <1>2, <1>3 DEF UpFacts, Types
<1> QED
  BY <1>2, <1>3, <1>4, <1>6, <1>10, SameLog DEF UpFacts, Emptied

-------------------------------------------------------------------------------
(* The flush, on both sides of a crash.                                     *)

\* xdb_wal_switch moves entries from one log to the other, in their order.
LEMMA FlushSteps ==
    ASSUME RecInv, FlushBegin \/ FlushTable
    PROVE  UpInv' /\ DownInv'
<1>2. /\ UNCHANGED <<storeVars, row, pc, new, del, acked, pending>>
      /\ torn => torn'
      /\ FlushBegin /\ pc \in {"logged", "walk"} => torn'
      /\ pc \notin {"logged", "walk"} => (torn' <=> torn)
  <2>1. UNCHANGED <<storeVars, row, pc, new, del, acked, pending>>
    BY DEF FlushBegin, FlushTable, txVars, history
  <2>2. CASE FlushBegin
    <3>1. torn' <=> torn \/ pc \in {"logged", "walk"}
      BY <2>2, Zenon DEF FlushBegin
    <3> QED
      BY <2>1, <3>1, Zenon
  <2>3. CASE FlushTable /\ ~FlushBegin
    <3>1. UNCHANGED torn
      BY <2>3 DEF FlushTable, history
    <3> QED
      BY <2>1, <2>3, <3>1, Zenon
  <2> QED
    BY <2>2, <2>3
<1>3. Visible' = Visible /\ UNCHANGED <<ctrl, scan>>
  BY <1>2 DEF storeVars, Visible
<1>4. StoreInv => StoreInv'
  BY <1>2, StoreKeep DEF RecInv, Types, storeVars
<1>t. active \in Seq(Entries) /\ backup \in Seq(Entries) /\ torn \in BOOLEAN /\ Types
  BY DEF RecInv, Types
<1>5. LogToRedo' = LogToRedo
  <2>2. active \o <<>> = active /\ <<>> \o active = active
    BY <1>t, ConcatEmptySeq
  <2> QED
    BY <2>2 DEF FlushBegin, FlushTable, logVars, LogToRedo
<1>6. Says(LogToRedo)' <=> Says(LogToRedo)
  BY <1>2, <1>5 DEF Says, LastFor
<1>7. Untouched(LogToRedo)' <=> Untouched(LogToRedo)
  BY <1>2, <1>3, <1>5 DEF Untouched, LastFor
<1>8. \/ UNCHANGED <<active, backup, dbDirty, torn>>
      \/ /\ FlushBegin /\ pc \in Serving \union {"redone"}
         /\ \/ UNCHANGED <<active, backup>>
            \/ backup = <<>> /\ active' = <<>>
  BY DEF FlushBegin, FlushTable, MayFlush, Serving, logVars, history
<1>9. flush # "none" \/ FlushBegin
  BY DEF FlushTable
<1>e. Emptied => Emptied'
  BY <1>2, <1>5 DEF Emptied
<1>w. PartOfCommit' <=> PartOfCommit
  BY <1>2, <1>3 DEF PartOfCommit
<1>10. ASSUME pc \in Serving PROVE UpInv' /\ DownInv'
  <2>0. UpFacts /\ pc' \in Serving /\ pc' \notin Opening
    BY <1>2, <1>10 DEF RecInv, UpInv, Serving, Opening
  <2>1. pc \in {"logged", "walk"} => Walking' \/ Taken'
    <3>1. SUFFICES ASSUME pc \in {"logged", "walk"}, Walking \/ Taken PROVE Walking' \/ Taken'
      BY <2>0 DEF UpFacts
    <3>2. CASE UNCHANGED <<active, backup>>
      <4>1. CASE Walking
        BY <1>2, <3>2, <4>1 DEF Walking
      <4>2. CASE Taken
        BY <1>2, <1>5, <1>e, <3>2, <4>2 DEF Taken, LastFor
      <4> QED
        BY <3>1, <4>1, <4>2
    <3>3. CASE FlushBegin /\ backup = <<>> /\ active' = <<>>
      <4>1. torn'
        BY <1>2, <3>1, <3>3
      <4>2. Emptied \/ \A r \in new \union del : LastFor(LogToRedo, r) # {}
        BY <1>t, <3>1, WalkedNamed
      <4> QED
        BY <1>2, <1>5, <1>e, <3>3, <4>1, <4>2 DEF Taken, LastFor
    <3> QED
      BY <1>8, <3>2, <3>3
  <2>2. Leaves => Leaves'
    BY <1>2, <1>3 DEF Leaves
  <2>3. pc \in {"idle", "rollback"} => (torn' <=> torn)
    BY <1>2
  <2>4. pc = "walk" => torn' \/ dbDirty'
    BY <1>2, <1>8, <2>0 DEF UpFacts
  <2>5. UpFacts'
    BY <1>2, <1>3, <1>4, <1>6, <1>7, <1>e, <1>w, <2>0, <2>1, <2>2, <2>3, <2>4 DEF UpFacts, Explains
  <2> QED
    BY <2>0, <2>5 DEF UpInv, DownInv
<1>11. ASSUME pc \in Opening PROVE UpInv' /\ DownInv'
  <2>0. DownFacts /\ pc' \in Opening /\ pc' \notin Serving
    BY <1>2, <1>11 DEF RecInv, DownInv, Serving, Opening
  <2>1. pc = "redone"
    BY <1>8, <1>9, <1>11, <2>0 DEF DownFacts, FlushBegin, MayFlush, Opening
  <2>2. Cut => Cut'
    BY <1>e, <1>w DEF Cut
  <2>3. DownFacts'
    BY <1>2, <1>3, <1>6, <2>0, <2>1, <2>2 DEF DownFacts
  <2> QED
    BY <2>0, <2>3 DEF UpInv, DownInv
<1> QED
  BY <1>10, <1>11 DEF RecInv, Types

\* Recycling the backup log forgets entries whose rows are all as they say, or
\* those of the commit that the flush began in.
LEMMA FlushEnds ==
    ASSUME RecInv, FlushEnd
    PROVE  UpInv' /\ DownInv'
<1>2. /\ flush = "log" /\ active' = active /\ (backup' = backup \/ backup' = <<>>)
      /\ (dbDirty' <=> (dbDirty /\ ~(switched /\ active = <<>>)))
      /\ UNCHANGED <<storeVars, row, pc, new, del, acked, pending, torn>>
  BY DEF FlushEnd, Recycle, logVars, txVars, history
<1>3. Visible' = Visible /\ UNCHANGED <<ctrl, scan>>
  BY <1>2 DEF storeVars, Visible
<1>4. StoreInv => StoreInv'
  BY <1>2, StoreKeep DEF RecInv, Types, storeVars
<1>5. active \in Seq(Entries) /\ backup \in Seq(Entries) /\ Types
  BY DEF RecInv, Types
<1>6. LogToRedo' = LogToRedo \/ LogToRedo' = active
  BY <1>2, <1>5, ConcatEmptySeq DEF LogToRedo
<1>a. LogToRedo = <<>> => active = <<>>
  BY <1>5, ConcatProperties, EmptySeq DEF LogToRedo
<1>7. Says(LogToRedo) => Says(active)
  <2> SUFFICES ASSUME Says(LogToRedo), NEW r \in Rows, NEW i \in LastFor(active, r), NEW v \in Conts
               PROVE  <<r, v>> \in pending <=> r \in DOMAIN active[i].new /\ v = active[i].new[r]
    BY DEF Says
  <2>1. Len(backup) + i \in LastFor(LogToRedo, r) /\ LogToRedo[Len(backup) + i] = active[i]
    BY <1>5, LastSecond DEF LogToRedo
  <2> QED
    BY <2>1 DEF Says
<1>8. Says(LogToRedo) => Says(LogToRedo)'
  <2>1. Says(LogToRedo)' <=> \A r \in Rows : \A i \in LastFor(LogToRedo', r) : \A v \in Conts :
                <<r, v>> \in pending <=> r \in DOMAIN LogToRedo'[i].new /\ v = LogToRedo'[i].new[r]
    BY <1>2 DEF Says, LastFor
  <2>2. CASE LogToRedo' = LogToRedo
    BY <2>1, <2>2 DEF Says
  <2>3. CASE LogToRedo' = active
    <3>1. Says(active) <=> \A r \in Rows : \A i \in LastFor(active, r) : \A v \in Conts :
                <<r, v>> \in pending <=> r \in DOMAIN active[i].new /\ v = active[i].new[r]
      BY DEF Says
    <3>2. Says(active) <=> Says(LogToRedo)'
      BY <2>1, <2>3, <3>1
    <3> QED
      BY <1>7, <3>2
  <2> QED
    BY <1>6, <2>2, <2>3
<1>e. Emptied => Emptied'
  BY <1>2, <1>6, <1>a DEF Emptied
<1>w. PartOfCommit' <=> PartOfCommit
  BY <1>2, <1>3 DEF PartOfCommit
<1>10. ASSUME pc \in Serving PROVE UpInv' /\ DownInv'
  <2>0. UpFacts /\ pc' \in Serving /\ pc' \notin Opening
    BY <1>2, <1>10 DEF RecInv, UpInv, Serving, Opening
  <2>1. (Explains(LogToRedo))' \/ Emptied'
    <3>1. SUFFICES ASSUME Explains(LogToRedo), ~Emptied' PROVE Untouched(LogToRedo)'
      BY <1>8, <1>e, <2>0 DEF UpFacts, Explains
    <3>2. SUFFICES ASSUME NEW r \in Rows, LastFor(LogToRedo', r) = {}, NEW v \in Conts
                   PROVE  <<r, v>> \in Visible <=> <<r, v>> \in pending
      BY <1>2, <1>3 DEF Untouched, LastFor
    <3>3. CASE LogToRedo' = LogToRedo
      BY <3>1, <3>2, <3>3 DEF Explains, Untouched
    <3>4. CASE LogToRedo' = active /\ pc \in {"idle", "rollback"}
      BY <2>0, <3>4 DEF UpFacts
    <3>5. CASE LogToRedo' = active /\ pc \in {"logged", "walk"}
      <4>1. Walking /\ Leaves
        <5>1. Taken => Emptied'
          BY <1>2, <3>5 DEF Taken, Emptied
        <5> QED
          BY <2>0, <3>1, <3>5, <5>1 DEF UpFacts
      <4>2. r \notin new \union del
        BY <1>5, <3>2, <3>5, <4>1, LastNamed
      <4>3. <<r, v>>[1] = r /\ pending = {p \in Visible : p[1] \notin del} \union {<<q, row[q]>> : q \in new}
        BY <4>1 DEF Leaves
      <4> QED
        BY <4>2, <4>3
    <3> QED
      BY <1>6, <1>10, <3>3, <3>4, <3>5 DEF Serving
  <2>2. Walking \/ Taken => Walking' \/ Taken'
    <3>1. Walking => Walking'
      BY <1>2 DEF Walking
    <3>2. Taken /\ LogToRedo' = active => Taken'
      BY <1>2 DEF Taken, Emptied
    <3>3. Taken /\ LogToRedo' = LogToRedo => Taken'
      BY <1>2, <1>e DEF Taken, LastFor
    <3> QED
      BY <1>6, <3>1, <3>2, <3>3
  <2>3. Leaves => Leaves'
    BY <1>2, <1>3 DEF Leaves
  <2>4. pc = "walk" => torn' \/ dbDirty'
    BY <1>2, <2>0 DEF UpFacts, Walking, Taken
  <2>5. UpFacts'
    BY <1>2, <1>3, <1>4, <1>w, <2>0, <2>1, <2>2, <2>3, <2>4 DEF UpFacts
  <2> QED
    BY <2>0, <2>5 DEF UpInv, DownInv
<1>11. ASSUME pc \in Opening PROVE UpInv' /\ DownInv'
  <2>0. DownFacts /\ pc' \in Opening /\ pc' \notin Serving
    BY <1>2, <1>11 DEF RecInv, DownInv, Serving, Opening
  <2>1. pc = "redone"
    BY <1>2, <2>0 DEF DownFacts
  <2>2. Cut => Cut'
    BY <1>e, <1>w DEF Cut
  <2>3. DownFacts'
    BY <1>2, <1>3, <1>8, <2>0, <2>1, <2>2 DEF DownFacts
  <2> QED
    BY <2>0, <2>3 DEF UpInv, DownInv
<1> QED
  BY <1>10, <1>11 DEF RecInv, Types

-------------------------------------------------------------------------------
(* Crash, open, repair, redo.                                               *)

\* What is seen and what is meant stay as they are.
LEMMA SameCut ==
    ASSUME UNCHANGED <<active, backup, acked, pending, torn>>, Visible' = Visible
    PROVE  (Cut' <=> Cut) /\ (Content' <=> Content)
BY DEF Cut, Emptied, Content, PartOfCommit, LogToRedo

\* A step that keeps the facts of an opening database keeps the invariant.
LEMMA OpeningStep ==
    ASSUME pc' \in Opening, DownFacts'
    PROVE  UpInv' /\ DownInv'
BY DEF UpInv, DownInv, Serving, Opening

LEMMA OpeningNow ==
    ASSUME RecInv, pc \in Opening
    PROVE  Types /\ DownFacts
BY DEF RecInv, DownInv

\* Wherever the process dies, a dirty database finds its content in the log, and
\* a clean one in its rows.
LEMMA CrashSteps ==
    ASSUME RecInv, Crash
    PROVE  UpInv' /\ DownInv'
<1>2. /\ pc \notin {"down", "opened"} /\ pc' = "down" /\ new' = {} /\ del' = {} /\ flush' = "none"
      /\ scan' = 0
      /\ UNCHANGED <<ctrl, row, active, backup, dbDirty, acked, pending, torn>>
  BY DEF Crash, logVars, dirtyVars, history
<1>3. Visible' = Visible
  BY <1>2 DEF Visible
<1>4. IF dbDirty THEN Explains(LogToRedo) \/ Cut ELSE Content
  <2>1. CASE pc \in Serving
    <3>1. UpFacts
      BY <2>1 DEF RecInv, UpInv
    <3>2. torn => pc \in {"logged", "walk"} /\ PartOfCommit
      BY <2>1, <3>1 DEF UpFacts, Serving
    <3>3. ~torn /\ ~dbDirty => Visible \in {acked, pending}
      BY <2>1, <3>1 DEF UpFacts, Serving
    <3> QED
      BY <3>1, <3>2, <3>3 DEF UpFacts, Cut, Emptied, Content
  <2>2. CASE pc \in Opening
    <3>1. DownFacts
      BY <2>2 DEF RecInv, DownInv
    <3>2. Visible = pending => Untouched(LogToRedo) /\ Content
      BY DEF Untouched, Content, PartOfCommit
    <3>3. Cut => Content
      BY DEF Cut, Emptied, Content
    <3> QED
      BY <1>2, <2>2, <3>1, <3>2, <3>3 DEF DownFacts, Explains, Opening
  <2> QED
    BY <2>1, <2>2 DEF RecInv, Types
<1>5. DownFacts'
  BY <1>2, <1>3, <1>4, SameLog, SameCut DEF DownFacts
<1> QED
  BY <1>2, <1>5, OpeningStep DEF Opening

\* What opening leaves of a log that explains the table, to be redone.
LEMMA RedoAll ==
    ASSUME UNCHANGED <<active, backup, pending>>, Visible' = Visible,
           Explains(LogToRedo), redo' = LogToRedo
    PROVE  Explains(redo)' /\ Within'
<1>1. Says(redo)'
  BY DEF Explains, Says, LastFor
<1>2. Untouched(redo)'
  BY DEF Explains, Untouched, LastFor
<1>3. LogToRedo' = LogToRedo
  BY DEF LogToRedo
<1>4. Within'
  BY <1>3 DEF Within, LastFor
<1> QED
  BY <1>1, <1>2, <1>4 DEF Explains

LEMMA OpenSteps ==
    ASSUME RecInv, Open
    PROVE  UpInv' /\ DownInv'
<1>1. /\ pc = "down"
      /\ UNCHANGED <<ctrl, row, active, backup, dbDirty, new, del, flush, acked, pending, torn>>
  BY DEF Open, storeVars, Store!RepairBegin, logVars, dirtyVars, txVars, flushVars, history
<1>0. DownFacts
  BY <1>1, OpeningNow DEF Opening
<1>2. Visible' = Visible
  BY <1>1 DEF Visible
<1>3. /\ (Explains(LogToRedo))' <=> Explains(LogToRedo)
      /\ (Cut' <=> Cut) /\ (Content' <=> Content)
  BY <1>1, <1>2, SameLog, SameCut
<1>4. CASE ~dbDirty /\ pc' = "opened" /\ UNCHANGED storeVars
  <2>1. DownFacts'
    BY <1>0, <1>1, <1>3, <1>4 DEF DownFacts, storeVars
  <2> QED
    BY <1>4, <2>1, OpeningStep DEF Opening
<1>5. CASE dbDirty /\ pc' = "repair"
  <2>1. DownFacts'
    BY <1>0, <1>1, <1>3, <1>5 DEF DownFacts
  <2> QED
    BY <1>5, <2>1, OpeningStep DEF Opening
<1>6. CASE dbDirty /\ pc' = "redo" /\ redo' = LogToRedo /\ UNCHANGED storeVars
  <2>1. Explains(LogToRedo) => Explains(redo)' /\ Within'
    BY <1>1, <1>2, <1>6, RedoAll
  <2>2. Cut => redo' = <<>>
    BY <1>6 DEF Cut, Emptied
  <2>3. DownFacts'
    BY <1>0, <1>1, <1>3, <1>6, <2>1, <2>2 DEF DownFacts, storeVars
  <2> QED
    BY <1>6, <2>3, OpeningStep DEF Opening
<1> QED
  BY <1>4, <1>5, <1>6 DEF Open

\* The repair frees only rows that nobody sees.
LEMMA RepairSteps ==
    ASSUME RecInv, RepairRow
    PROVE  UpInv' /\ DownInv'
<1> USE Controls
<1>1. /\ pc = "repair"
      /\ UNCHANGED <<active, backup, dbDirty, new, del, flush, acked, pending, torn>>
  BY DEF RepairRow, logVars, dirtyVars, txVars, flushVars, history
<1>0. Types /\ DownFacts
  BY <1>1, OpeningNow DEF Opening
<1>2. Visible' = Visible
  <2>1. ctrl \in [Rows -> {FREE, COMMIT, TRANS}] /\ row \in [Rows -> Conts]
    BY <1>0 DEF Types
  <2>2. \/ ctrl[scan] = COMMIT /\ UNCHANGED ctrl
        \/ ctrl[scan] # COMMIT /\ ctrl' = [ctrl EXCEPT ![scan] = FREE]
    BY DEF RepairRow, Store!RepairRow, Store!COMMIT, COMMIT, Store!FREE, FREE
  <2>3. row' = [row EXCEPT ![scan] = IF ctrl[scan] = COMMIT THEN @ ELSE Junk]
    BY DEF RepairRow
  <2> QED
    BY <2>1, <2>2, <2>3, SameSeen
<1>3. /\ (Explains(LogToRedo))' <=> Explains(LogToRedo)
      /\ Cut' <=> Cut
  BY <1>1, <1>2, SameLog, SameCut
<1>4. CASE pc' = pc
  <2>1. DownFacts'
    BY <1>0, <1>1, <1>3, <1>4 DEF DownFacts
  <2> QED
    BY <1>1, <1>4, <2>1, OpeningStep DEF Opening
<1>5. CASE pc' = "redo" /\ redo' = LogToRedo /\ scan = maxid
  <2>1. Explains(LogToRedo) => Explains(redo)' /\ Within'
    BY <1>1, <1>2, <1>5, RedoAll
  <2>2. Cut => redo' = <<>>
    BY <1>5 DEF Cut, Emptied
  <2>3. scan' = 0
    BY <1>5 DEF RepairRow, Store!RepairRow
  <2>4. DownFacts'
    BY <1>0, <1>1, <1>3, <1>5, <2>1, <2>2, <2>3 DEF DownFacts
  <2> QED
    BY <1>5, <2>4, OpeningStep DEF Opening
<1> QED
  BY <1>4, <1>5 DEF RepairRow

\* The logs and what is meant stay: only what is seen may change.
LEMMA LogStays ==
    ASSUME UNCHANGED <<active, backup, pending>>
    PROVE  /\ Says(LogToRedo)' <=> Says(LogToRedo)
           /\ Untouched(LogToRedo)' <=>
                 \A q \in Rows : LastFor(LogToRedo, q) = {} =>
                     \A v \in Conts : <<q, v>> \in Visible' <=> <<q, v>> \in pending
<1>1. LogToRedo' = LogToRedo
  BY DEF LogToRedo
<1> QED
  BY <1>1 DEF Says, Untouched, LastFor

\* What is left to redo is another log.
LEMMA RedoBecomes ==
    ASSUME UNCHANGED pending
    PROVE  /\ Says(redo)' <=>
                 \A q \in Rows : \A i \in LastFor(redo', q) : \A v \in Conts :
                     <<q, v>> \in pending <=> q \in DOMAIN redo'[i].new /\ v = redo'[i].new[q]
           /\ Untouched(redo)' <=>
                 \A q \in Rows : LastFor(redo', q) = {} =>
                     \A v \in Conts : <<q, v>> \in Visible' <=> <<q, v>> \in pending
BY DEF Says, Untouched, LastFor

\* Of the first entry to redo, e is what remains without the word about row r ...
Without(e, r) ==
    /\ r \in Names(redo[1]) /\ Names(e) \subseteq Names(redo[1])
    /\ Names(redo[1]) \subseteq Names(e) \union {r}
    /\ \A q \in Rows : q # r \/ r \in Names(e) =>
          /\ q \in DOMAIN e.new <=> q \in DOMAIN redo[1].new
          /\ q \in DOMAIN e.new => e.new[q] = redo[1].new[q]

\* ... which the row follows, unless another word about it remains.
Follows(e, r) ==
    /\ \A q, v : q # r => (<<q, v>> \in Visible' <=> <<q, v>> \in Visible)
    /\ r \notin Names(e) => \A v \in Conts :
          <<r, v>> \in Visible' <=> r \in DOMAIN redo[1].new /\ v = redo[1].new[r]

\* Redoing a row makes it what the log says of it, or what a later entry changes.
LEMMA RedoOne ==
    ASSUME Types, DownFacts, pc = "redo", redo # <<>>, NEW r \in Rows, NEW e \in Entries,
           redo' = [redo EXCEPT ![1] = e], Without(e, r), Follows(e, r),
           UNCHANGED <<active, backup, pending>>
    PROVE  Explains(redo)' /\ Within' /\ (Explains(LogToRedo))'
<1> PICK short : short = redo'
  OBVIOUS
<1>0. Explains(redo) /\ Within /\ Explains(LogToRedo) /\ redo \in Seq(Entries)
  BY DEF DownFacts, Types
<1>1. ASSUME NEW q
      PROVE  /\ \A i \in LastFor(short, q) : i \in LastFor(redo, q) /\ short[i] = IF i = 1 THEN e ELSE redo[i]
             /\ q # r \/ q \in Names(e) => (LastFor(short, q) = {} <=> LastFor(redo, q) = {})
             /\ LastFor(redo, q) = {} => LastFor(short, q) = {}
             /\ 1 \notin LastFor(redo, q) => LastFor(short, q) = LastFor(redo, q)
             /\ short \in Seq(Entries)
  <2>1. Names(e) \subseteq Names(redo[1]) /\ Names(redo[1]) \subseteq Names(e) \union {r}
    BY DEF Without
  <2>2. redo # <<>> /\ redo \in Seq(Entries) /\ short = [redo EXCEPT ![1] = e]
    BY <1>0
  <2> QED
    BY <2>1, <2>2, LastShrink, Zenon
<1>2. \A q, v : q # r => (<<q, v>> \in Visible' <=> <<q, v>> \in Visible)
  BY DEF Follows
<1>3. Says(redo)'
  <2>1. SUFFICES ASSUME NEW q \in Rows, NEW i \in LastFor(redo', q), NEW v \in Conts
                 PROVE  <<q, v>> \in pending <=> q \in DOMAIN redo'[i].new /\ v = redo'[i].new[q]
    BY RedoBecomes
  <2>2. i \in LastFor(redo, q) /\ short[i] = IF i = 1 THEN e ELSE redo[i]
    BY <1>1
  <2>3. <<q, v>> \in pending <=> q \in DOMAIN redo[i].new /\ v = redo[i].new[q]
    BY <1>0, <2>2 DEF Explains, Says
  <2>4. CASE i # 1
    BY <2>2, <2>3, <2>4
  <2>5. CASE i = 1
    <3>1. q \in Names(e)
      BY <2>2, <2>5, LastIs
    <3> QED
      BY <2>2, <2>3, <2>5, <3>1 DEF Without
  <2> QED
    BY <2>4, <2>5
<1>4. Untouched(redo)'
  <2>1. SUFFICES ASSUME NEW q \in Rows, LastFor(redo', q) = {}, NEW v \in Conts
                 PROVE  <<q, v>> \in Visible' <=> <<q, v>> \in pending
    BY RedoBecomes
  <2>2. CASE q # r
    BY <1>0, <1>1, <1>2, <2>1, <2>2 DEF Explains, Untouched
  <2>3. CASE q = r
    <3>1. 1 \in DOMAIN redo /\ redo[1] \in Entries
      BY <1>0, EmptySeq
    <3>2. LastFor(redo, r) # {}
      BY <1>0, <3>1, LastExists DEF Without
    <3>3. 1 \in LastFor(redo, r)
      BY <1>1, <2>1, <2>3, <3>2
    <3>4. r \notin Names(e)
      BY <1>1, <2>1, <2>3, <3>2
    <3> QED
      BY <1>0, <2>3, <3>3, <3>4 DEF Explains, Says, Follows
  <2> QED
    BY <2>2, <2>3
<1>5. LogToRedo' = LogToRedo
  BY DEF LogToRedo
<1>6. Within'
  <2>1. \A q \in Rows : LastFor(LogToRedo, q) = {} => LastFor(short, q) = {}
    BY <1>0, <1>1 DEF Within
  <2> QED
    BY <1>5, <2>1 DEF Within, LastFor
<1>7. Says(LogToRedo)'
  BY <1>0, LogStays DEF Explains
<1>8. Untouched(LogToRedo)'
  <2>1. SUFFICES ASSUME NEW q \in Rows, LastFor(LogToRedo, q) = {}, NEW v \in Conts
                 PROVE  <<q, v>> \in Visible' <=> <<q, v>> \in pending
    BY LogStays
  <2>2. 1 \in DOMAIN redo
    BY <1>0, EmptySeq
  <2>3. q # r
    BY <1>0, <2>1, <2>2, LastExists DEF Within, Without
  <2> QED
    BY <1>0, <1>2, <2>1, <2>3 DEF Explains, Untouched
<1> QED
  BY <1>3, <1>4, <1>6, <1>7, <1>8 DEF Explains

\* One step of the redo.
LEMMA RedoSteps ==
    ASSUME RecInv, RedoRow
    PROVE  UpInv' /\ DownInv'
<1> USE Controls
<1>1. /\ pc = "redo" /\ pc' = "redo" /\ redo # <<>>
      /\ UNCHANGED <<active, backup, dbDirty, new, del, flush, scan, acked, pending>>
  BY DEF RedoRow, RedoNew, storeVars, logVars, dirtyVars, txVars, flushVars, history
<1>0. DownFacts
  BY <1>1, OpeningNow DEF Opening
<1>2. /\ ctrl \in [Rows -> {FREE, COMMIT, TRANS}] /\ row \in [Rows -> Conts]
      /\ redo \in Seq(Entries) /\ Types
  BY DEF RecInv, Types
<1>3. /\ Head(redo) \in Entries /\ Head(redo) = redo[1]
      /\ DOMAIN Head(redo).new \subseteq Rows /\ Head(redo).del \subseteq Rows
  BY <1>1, <1>2, RedoEntryType, EntryType
<1>4. ASSUME NEW r \in Rows, r \in Head(redo).del, FreeRow(r),
             redo' = [redo EXCEPT ![1].del = @ \ {r}]
      PROVE  Explains(redo)' /\ Within' /\ (Explains(LogToRedo))'
  <2> PICK e : e = Undeleted(r)
    OBVIOUS
  <2>1. e \in Entries /\ e.new = redo[1].new /\ e.del = redo[1].del \ {r} /\ redo' = [redo EXCEPT ![1] = e]
    BY <1>1, <1>2, <1>3, <1>4, RedoEntryType, Zenon
  <2>2. ctrl' = [ctrl EXCEPT ![r] = FREE] /\ row' = [row EXCEPT ![r] = Junk]
    BY <1>4 DEF FreeRow
  <2>3. Visible' = {p \in Visible : p[1] # r}
    <3>1. ctrl'[r] # COMMIT
      BY <1>2, <2>2
    <3> QED
      BY <1>2, <2>2, <3>1, OtherSeen
  <2>4. Without(e, r)
    BY <1>3, <1>4, <2>1 DEF Names, Without
  <2>5. Follows(e, r)
    <3>1. r \in Names(e) <=> r \in DOMAIN redo[1].new
      BY <1>3, <2>1 DEF Names
    <3>2. \A q, v : <<q, v>> \in Visible' <=> <<q, v>> \in Visible /\ q # r
      BY <2>3
    <3> QED
      BY <3>1, <3>2 DEF Follows
  <2> QED
    BY <1>0, <1>1, <1>2, <2>1, <2>4, <2>5, RedoOne
<1>5. ASSUME NEW r \in Rows, r \in DOMAIN Head(redo).new, Head(redo).del = {},
             redo' = [redo EXCEPT ![1].new = [q \in DOMAIN @ \ {r} |-> @[q]]],
             RedoNew(r, Head(redo).new[r])
      PROVE  Explains(redo)' /\ Within' /\ (Explains(LogToRedo))'
  <2> PICK e : e = Unwritten(r)
    OBVIOUS
  <2>0. /\ e \in Entries /\ e.del = Head(redo).del /\ redo' = [redo EXCEPT ![1] = e]
        /\ e.new = [q \in DOMAIN Head(redo).new \ {r} |-> Head(redo).new[q]]
    BY <1>1, <1>2, <1>5, RedoEntryType, Zenon
  <2>1. /\ e \in Entries /\ e.del = redo[1].del /\ redo' = [redo EXCEPT ![1] = e]
        /\ e.new = [q \in DOMAIN redo[1].new \ {r} |-> redo[1].new[q]]
    BY <1>3, <2>0
  <2>2. ctrl' = [ctrl EXCEPT ![r] = COMMIT] /\ row' = [row EXCEPT ![r] = redo[1].new[r]]
    BY <1>3, <1>5 DEF RedoNew
  <2>3. Visible' = {p \in Visible : p[1] # r} \union {<<r, redo[1].new[r]>>}
    <3>1. ctrl'[r] = COMMIT /\ row'[r] = redo[1].new[r]
      BY <1>2, <2>2
    <3> QED
      BY <1>2, <2>2, <3>1, OtherSeen
  <2>4. Without(e, r)
    BY <1>3, <1>5, <2>1 DEF Names, Without
  <2>5. Follows(e, r)
    <3>1. \A q, v : <<q, v>> \in Visible' <=>
             (<<q, v>> \in Visible /\ q # r) \/ (q = r /\ v = redo[1].new[r])
      BY <2>3
    <3> QED
      BY <1>3, <1>5, <3>1 DEF Follows
  <2> QED
    BY <1>0, <1>1, <1>2, <2>1, <2>4, <2>5, RedoOne
<1>6. ASSUME Head(redo).del = {}, DOMAIN Head(redo).new = {}, redo' = Tail(redo),
             UNCHANGED <<storeVars, row>>
      PROVE  Explains(redo)' /\ Within' /\ (Explains(LogToRedo))'
  <2>1. Visible' = Visible
    BY <1>6 DEF storeVars, Visible
  <2>2. Explains(redo) /\ Within /\ Explains(LogToRedo)
    BY <1>0, <1>1 DEF DownFacts
  <2>3. (Explains(LogToRedo))'
    BY <1>1, <2>1, <2>2, SameLog
  <2>4. ASSUME NEW q
        PROVE  /\ LastFor(Tail(redo), q) = {} <=> LastFor(redo, q) = {}
               /\ \A i \in LastFor(Tail(redo), q) :
                     i + 1 \in LastFor(redo, q) /\ Tail(redo)[i] = redo[i + 1]
    <3>1. q \notin Names(Head(redo))
      BY <1>6 DEF Names
    <3> QED
      BY <1>1, <1>2, <3>1, LastTail
  <2>5. Says(redo)'
    <3>1. SUFFICES ASSUME NEW q \in Rows, NEW i \in LastFor(redo', q), NEW v \in Conts
                   PROVE  <<q, v>> \in pending <=> q \in DOMAIN redo'[i].new /\ v = redo'[i].new[q]
      BY <1>1, RedoBecomes
    <3>2. i + 1 \in LastFor(redo, q) /\ redo'[i] = redo[i + 1]
      BY <1>6, <2>4
    <3> QED
      BY <2>2, <3>2 DEF Explains, Says
  <2>6. Untouched(redo)'
    <3>1. SUFFICES ASSUME NEW q \in Rows, LastFor(redo', q) = {}, NEW v \in Conts
                   PROVE  <<q, v>> \in Visible <=> <<q, v>> \in pending
      BY <1>1, <2>1, RedoBecomes
    <3> QED
      BY <1>6, <2>2, <2>4, <3>1 DEF Explains, Untouched
  <2>7. Within'
    <3>1. LogToRedo' = LogToRedo
      BY <1>1 DEF LogToRedo
    <3>2. \A q \in Rows : LastFor(LogToRedo, q) = {} => LastFor(Tail(redo), q) = {}
      BY <2>2, <2>4 DEF Within
    <3> QED
      BY <1>6, <3>1, <3>2 DEF Within, LastFor
  <2> QED
    BY <2>3, <2>5, <2>6, <2>7 DEF Explains
<1>7. Explains(redo)' /\ Within' /\ (Explains(LogToRedo))'
  BY <1>4, <1>5, <1>6 DEF RedoRow, Least, RestOf
<1>8. DownFacts'
  BY <1>0, <1>1, <1>7 DEF DownFacts
<1> QED
  BY <1>1, <1>8, OpeningStep DEF Opening

\* A log that has been redone to its end leaves nothing to explain.
LEMMA RedoEnds ==
    ASSUME RecInv, RedoEnd
    PROVE  UpInv' /\ DownInv'
<1>1. /\ pc = "redo" /\ redo = <<>> /\ pc' = "redone"
      /\ UNCHANGED <<storeVars, row, active, backup, dbDirty, new, del, flush, redo,
                     acked, pending, torn>>
  BY DEF RedoEnd, logVars, dirtyVars, txVars, flushVars, history
<1>0. Types /\ DownFacts
  BY <1>1, OpeningNow DEF Opening
<1>2. Visible' = Visible
  BY <1>1 DEF storeVars, Visible
<1>3. (Explains(redo) /\ Says(LogToRedo)) \/ Cut
  BY <1>0, <1>1 DEF DownFacts, Explains
<1>4. Explains(redo) => Visible = pending
  <2>1. \A r : LastFor(redo, r) = {}
    BY <1>1, LastIs
  <2>2. Explains(redo) => \A r \in Rows, v \in Conts : <<r, v>> \in Visible <=> <<r, v>> \in pending
    BY <2>1 DEF Explains, Untouched
  <2>3. Visible \subseteq Rows \X Conts /\ pending \subseteq Rows \X Conts
    BY <1>0, SeenTypes DEF Types
  <2> QED
    BY <2>2, <2>3
<1>5. (Says(LogToRedo)' <=> Says(LogToRedo)) /\ (Cut' <=> Cut)
  BY <1>1, <1>2, LogStays, SameCut
<1>6. DownFacts'
  BY <1>0, <1>1, <1>2, <1>3, <1>4, <1>5 DEF DownFacts, storeVars
<1> QED
  BY <1>1, <1>6, OpeningStep DEF Opening

\* After the last flush of a repair the logs have nothing left to say.
LEMMA RepairEnds ==
    ASSUME RecInv, RepairEnd
    PROVE  UpInv' /\ DownInv'
<1>1. /\ pc = "redone" /\ ~dbDirty /\ flush = "none" /\ pc' = "opened"
      /\ UNCHANGED <<storeVars, row, dbDirty, new, del, flush, acked, pending, torn>>
  BY DEF RepairEnd, dirtyVars, txVars, flushVars, history
<1>0. DownFacts
  BY <1>1, OpeningNow DEF Opening
<1>2. Visible' = Visible
  BY <1>1 DEF storeVars, Visible
<1>3. Content
  BY <1>0, <1>1 DEF DownFacts, Cut, Emptied, Content, PartOfCommit
<1>4. Content'
  BY <1>1, <1>2, <1>3 DEF Content, PartOfCommit
<1>5. DownFacts'
  BY <1>0, <1>1, <1>4 DEF DownFacts, storeVars
<1> QED
  BY <1>1, <1>5, OpeningStep DEF Opening

\* A log that redone would change nothing says of every row what is seen of it.
LEMMA SaysWhatIsSeen ==
    ASSUME NEW log \in Seq(Entries), Replayed(log) = Visible,
           NEW r \in Rows, NEW i \in LastFor(log, r), NEW v \in Conts
    PROVE  <<r, v>> \in Visible <=> r \in DOMAIN log[i].new /\ v = log[i].new[r]
<1>1. ASSUME NEW k \in LastFor(log, r) PROVE k = i
  <2>1. /\ i \in DOMAIN log /\ k \in DOMAIN log /\ k <= i /\ i <= k
        /\ DOMAIN log = 1..Len(log) /\ Len(log) \in Nat
    BY LastIs
  <2> QED
    BY <2>1
<1>2. ASSUME <<r, v>> \in Visible PROVE r \in DOMAIN log[i].new /\ v = log[i].new[r]
  <2> PICK p : p = <<r, v>>
    OBVIOUS
  <2>0. p[1] = r /\ LastFor(log, r) # {} /\ p \in Replayed(log)
    BY <1>2
  <2>1. \E q \in Rows : \E k \in LastFor(log, q) : q \in DOMAIN log[k].new /\ p = <<q, log[k].new[q]>>
    BY <2>0 DEF Replayed
  <2> QED
    BY <1>1, <2>1
<1>3. ASSUME r \in DOMAIN log[i].new, v = log[i].new[r] PROVE <<r, v>> \in Visible
  BY <1>3 DEF Replayed
<1> QED
  BY <1>2, <1>3

\* A table that is fit to be written serves as before the crash.
LEMMA ServeSteps ==
    ASSUME RecInv, Serve, FitToWrite
    PROVE  UpInv' /\ DownInv'
<1>1. /\ pc = "opened" /\ pc' = "idle" /\ acked' = Visible /\ pending' = Visible /\ torn' = FALSE
      /\ UNCHANGED <<storeVars, row, active, backup, dbDirty, new, del, flush>>
  BY DEF Serve, logVars, dirtyVars, txVars, flushVars
<1>0. Types /\ DownFacts
  BY <1>1, OpeningNow DEF Opening
<1>2. Visible' = Visible /\ UNCHANGED ctrl
  BY <1>1 DEF storeVars, Visible
<1>3. StoreInv'
  <2>1. Blk!TypeOK /\ Blk!FreshAreFree
    BY DEF FitToWrite, Store!TypeOK, Blk!TypeOK, Store!FreshAreFree, Blk!FreshAreFree,
           Store!Blocks, Blk!Blocks, Store!FREE, Blk!FREE, Store!COMMIT, Blk!COMMIT,
           Store!TRANS, Blk!TRANS, Store!DIRTY, Blk!DIRTY
  <2>2. Blk!FreeListExact
    <3>1. Store!FreeBlocks = Blk!FreeBlocks /\ Store!Blocks = Blk!Blocks
      BY DEF Store!FreeBlocks, Blk!FreeBlocks, Store!Blocks, Blk!Blocks, Store!FREE, Blk!FREE
    <3>2. \A n, q : Store!IsFreeList(n, q) <=> Blk!IsFreeList(n, q)
      BY <3>1 DEF Store!IsFreeList, Blk!IsFreeList
    <3> DEFINE n == Store!Cardinality(Store!FreeBlocks)
    <3>3. \E q \in [1..n -> Store!Blocks] : Store!IsFreeList(n, q)
      BY DEF FitToWrite, Store!FreeListExact
    <3>4. n = Blk!Cardinality(Blk!FreeBlocks)
      BY <3>1, Zenon DEF Store!Cardinality, Blk!Cardinality
    <3> HIDE DEF n
    <3>5. \E q \in [1..n -> Blk!Blocks] : Blk!IsFreeList(n, q)
      BY <3>1, <3>2, <3>3
    <3> QED
      BY <3>4, <3>5 DEF Blk!FreeListExact
  <2>3. scan = 0
    BY <1>0, <1>1 DEF DownFacts
  <2>4. StoreInv
    BY <2>1, <2>2, <2>3 DEF StoreInv, Blk!IInv
  <2> QED
    BY <1>0, <1>1, <2>4, StoreKeep DEF Types, storeVars
<1>4. (Explains(LogToRedo))'
  <2>1. LogToRedo' = LogToRedo
    BY <1>1 DEF LogToRedo
  <2>2. \A r \in Rows : \A i \in LastFor(LogToRedo, r) : \A v \in Conts :
           <<r, v>> \in Visible <=> r \in DOMAIN LogToRedo[i].new /\ v = LogToRedo[i].new[r]
    BY <1>0, LogType, SaysWhatIsSeen DEF FitToWrite
  <2>3. Says(LogToRedo)'
    BY <1>1, <2>1, <2>2 DEF Says, LastFor
  <2>4. Untouched(LogToRedo)'
    BY <1>1, <1>2 DEF Untouched
  <2> QED
    BY <2>3, <2>4 DEF Explains
<1>5. UpFacts'
  BY <1>0, <1>1, <1>2, <1>3, <1>4 DEF UpFacts, DownFacts
<1> QED
  BY <1>1, <1>5 DEF UpInv, DownInv, Serving, Opening

-------------------------------------------------------------------------------
(* The invariant, and what it is for.                                       *)

LEMMA InitRec == Init => RecInv
<1> SUFFICES ASSUME Init PROVE RecInv
  OBVIOUS
<1>1. StoreInv
  BY StoreInit
<1>2. Types
  BY EmptySeq DEF Init, Types, Serving, Conts, Store!Init, Store!FREE, FREE, Store!Blocks, Rows
<1>3. Visible = {}
  BY Controls DEF Init, Visible, Store!Init, Store!FREE, FREE, Store!Blocks, Rows
<1>4. LogToRedo = <<>>
  BY DEF Init, LogToRedo
<1>5. \A r : LastFor(<<>>, r) = {}
  BY LastIs
<1>6. Explains(LogToRedo)
  BY <1>3, <1>4, <1>5 DEF Init, Explains, Says, Untouched
<1> QED
  BY <1>1, <1>2, <1>3, <1>6 DEF Init, RecInv, UpInv, DownInv, UpFacts, Opening

\* A step that keeps the facts of a serving database keeps the invariant.
LEMMA ServingStep ==
    ASSUME pc' \in Serving, UpFacts'
    PROVE  UpInv' /\ DownInv'
BY DEF UpInv, DownInv, Serving, Opening

\* Every step keeps the invariant, as long as the table is fit to be written.
LEMMA StepRec ==
    ASSUME RecInv, [Next]_vars, Serve => FitToWrite
    PROVE  UpInv' /\ DownInv'
<1>0. Types
  BY DEF RecInv
<1>u. ASSUME pc \in Serving PROVE UpFacts
  BY <1>u DEF RecInv, UpInv
<1>1. ASSUME NEW r \in Rows, NEW v \in Vals, InsertRow(r, v) PROVE UpInv' /\ DownInv'
  <2>1. pc \in Serving /\ pc' \in Serving
    BY <1>1 DEF InsertRow, Running, Serving
  <2> QED
    BY <1>0, <1>u, <1>1, <2>1, UpInsert, ServingStep
<1>2. ASSUME NEW r \in Rows, DeleteRow(r) PROVE UpInv' /\ DownInv'
  <2>1. pc \in Serving /\ pc' \in Serving
    BY <1>2 DEF DeleteRow, Running, Serving
  <2> QED
    BY <1>0, <1>u, <1>2, <2>1, UpDelete, ServingStep
<1>3. CASE Commit \/ Rollback
  <2>1. pc \in Serving /\ pc' \in Serving
    BY <1>3 DEF Commit, Rollback, Running, Serving
  <2> QED
    BY <1>0, <1>u, <1>3, <2>1, UpCommit, UpRollback, ServingStep
<1>4. CASE MarkDirty \/ Return
  <2>1. pc \in Serving /\ pc' \in Serving
    BY <1>4 DEF MarkDirty, Return, Serving
  <2> QED
    BY <1>0, <1>u, <1>4, <2>1, UpMarkDirty, UpReturn, ServingStep
<1>6. ASSUME NEW r \in Rows, CommitNew(r) \/ CommitDel(r) \/ RollbackNew(r) PROVE UpInv' /\ DownInv'
  <2>1. pc \in Serving /\ pc' \in Serving
    BY <1>6 DEF CommitNew, CommitDel, RollbackNew, Serving
  <2> QED
    BY <1>0, <1>u, <1>6, <2>1, UpCommitNew, UpCommitDel, UpRollbackNew, ServingStep
<1>7. CASE Flush
  BY <1>7, FlushSteps, FlushEnds DEF Flush
<1>8. CASE Crash
  BY <1>8, CrashSteps
<1>9. CASE Recover
  BY <1>9, OpenSteps, RepairSteps, RedoSteps, RedoEnds, RepairEnds, ServeSteps DEF Recover
<1>10. CASE UNCHANGED vars
  <2>1. /\ UNCHANGED <<head, tail, maxid, cap, nxt, ctrl, scan, row, active, backup, dbDirty, pc,
                       new, del, flush, redo, acked, pending, torn>>
        /\ Visible' = Visible
    BY <1>10 DEF vars, storeVars, logVars, dirtyVars, txVars, flushVars, history, Visible
  <2>2. StoreInv => StoreInv'
    BY <1>0, <2>1, StoreKeep DEF Types
  <2>3. /\ (Explains(LogToRedo))' <=> Explains(LogToRedo)
        /\ (Cut' <=> Cut) /\ (Content' <=> Content)
    BY <2>1, SameLog, SameCut
  <2>4. /\ Says(LogToRedo)' <=> Says(LogToRedo)
        /\ Explains(redo) => Explains(redo)'
        /\ Within => Within'
        /\ Emptied => Emptied'
    BY <2>1 DEF Explains, Says, Untouched, Within, Emptied, LogToRedo, LastFor
  <2>5. /\ Walking \/ Taken => Walking' \/ Taken'
        /\ Leaves => Leaves'
        /\ PartOfCommit => PartOfCommit'
    BY <2>1, WalkOn DEF Leaves, PartOfCommit
  <2>6. UpInv'
    BY <2>1, <2>2, <2>3, <2>4, <2>5 DEF RecInv, UpInv, UpFacts
  <2>7. DownInv'
    BY <2>1, <2>3, <2>4 DEF RecInv, DownInv, DownFacts
  <2> QED
    BY <2>6, <2>7
<1> QED
  BY <1>1, <1>2, <1>3, <1>4, <1>6, <1>7, <1>8, <1>9, <1>10 DEF Next, Walk

\* Unfitness stays.
LEMMA SoundStays ==
    ASSUME [Next]_vars, sound'
    PROVE  sound /\ (Serve => FitToWrite)
<1>1. CASE Serve
  BY <1>1 DEF Serve
<1>2. ASSUME ~Serve PROVE sound' = sound
  <2>1. CASE Flush
    BY <2>1 DEF Flush, FlushBegin, FlushTable, FlushEnd, history
  <2>2. CASE Walk
    BY <2>2 DEF Walk, MarkDirty, Return, CommitNew, CommitDel, RollbackNew, history
  <2>3. CASE Recover
    BY <1>2, <2>3 DEF Recover, Open, RepairRow, RedoRow, RedoEnd, RepairEnd, history
  <2>4. CASE UNCHANGED vars
    BY <2>4 DEF vars, history
  <2> QED
    BY <2>1, <2>2, <2>3, <2>4
       DEF Next, InsertRow, DeleteRow, Commit, Rollback, Crash, history
<1> QED
  BY <1>1, <1>2

LEMMA RecoveryInvariant == Spec => []Inv
<1>1. Init => Inv
  BY InitRec DEF RecInv, Inv
<1>2. Inv /\ [Next]_vars => Inv'
  <2> SUFFICES ASSUME Inv, [Next]_vars PROVE Inv'
    OBVIOUS
  <2>1. Types'
    BY StepTypes DEF Inv
  <2>2. ASSUME sound' PROVE UpInv' /\ DownInv'
    BY <2>2, SoundStays, StepRec DEF Inv, RecInv
  <2> QED
    BY <2>1, <2>2 DEF Inv
<1> QED
  BY <1>1, <1>2, PTL DEF Spec

\* What crashes leave.  Whatever the step of a commit, of a flush or of an earlier
\* repair at which the process died, and however often it did, an opened database
\* shows every commit that returned, and of the one that was running everything or
\* nothing, or a part if a flush began inside it: unless an earlier recovery left
\* the table unfit to be written.
THEOREM RecoveryContent == Spec => []RecoveredContent
<1>1. Inv => RecoveredContent
  BY DEF Inv, DownInv, DownFacts, Content, RecoveredContent, Opening
<1> QED
  BY <1>1, RecoveryInvariant, PTL

\* What the log is.  While the database is marked dirty, redoing both logs over the
\* rows as they are, half-walked commits and half-done repairs included, gives the
\* content after the last commit in the log, unless a flush that began inside that
\* commit has emptied them.
THEOREM RecoveryLog == Spec => []LogExplains
<1>1. Inv => LogExplains
  <2> SUFFICES ASSUME Inv, sound
               PROVE  IF dbDirty THEN Replayed(LogToRedo) = pending \/ (torn /\ LogToRedo = <<>>)
                      ELSE pc \in {"idle", "logged", "rollback"} => Visible = acked
    BY DEF LogExplains
  <2>0. Types /\ (pc \in Serving => UpFacts) /\ (pc \in Opening => DownFacts)
    BY DEF Inv, UpInv, DownInv
  <2>1. CASE dbDirty
    <3>1. Explains(LogToRedo) \/ Emptied
      <4>1. Visible = pending => Untouched(LogToRedo)
        BY DEF Untouched
      <4>2. pc \in Serving \union Opening
        BY <2>0 DEF Types
      <4> QED
        BY <2>0, <2>1, <4>1, <4>2 DEF UpFacts, DownFacts, Opening, Cut, Explains
    <3> QED
      BY <2>0, <2>1, <3>1, Replays, LogType DEF Emptied
  <2>2. CASE ~dbDirty
    BY <2>0, <2>2 DEF UpFacts, Serving
  <2> QED
    BY <2>1, <2>2
<1> QED
  BY <1>1, RecoveryInvariant, PTL

\* While the database serves, the free list of the table is exact: a commit, a
\* rollback and their walks free a row only once, and so does every reopening after
\* which the table was fit to be written.
THEOREM RecoveryStore == Spec => [](sound /\ pc \in Serving => Blk!FreeListExact)
<1>1. Inv => (sound /\ pc \in Serving => Blk!FreeListExact)
  BY DEF Inv, UpInv, UpFacts, StoreInv, Blk!IInv
<1> QED
  BY <1>1, RecoveryInvariant, PTL
==============================================================================
