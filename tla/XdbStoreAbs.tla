----------------------------- MODULE XdbStoreAbs -----------------------------
(***************************************************************************)
(* What the users of a block store rely on: a row id handed out belongs to *)
(* one caller until it is given back, and ids given back are reused in the *)
(* order they came, before the store grows.  A repair takes every id away  *)
(* from its holder except the committed ones, and hands them back.         *)
(***************************************************************************)
EXTENDS Naturals, Sequences

VARIABLES queue,   \* the free ids, the next one to reuse first
          held,    \* the ids in the hands of a caller
          limbo,   \* during a repair: ids taken back and not yet queued
          high     \* the largest id ever handed out

absVars == <<queue, held, limbo, high>>

AbsInit == queue = <<>> /\ held = {} /\ limbo = {} /\ high = 0

Take ==
    /\ limbo = {}
    /\ \/ /\ queue # <<>>
          /\ held' = held \union {Head(queue)}
          /\ queue' = Tail(queue)
          /\ UNCHANGED high
       \/ /\ queue = <<>>
          /\ high' = high + 1
          /\ held' = held \union {high + 1}
          /\ UNCHANGED queue
    /\ UNCHANGED limbo

GiveBack(r) ==
    /\ limbo = {}
    /\ r \in held
    /\ held' = held \ {r}
    /\ queue' = Append(queue, r)
    /\ UNCHANGED <<limbo, high>>

TakeAway(kept) ==
    /\ limbo = {}
    /\ kept \subseteq held
    /\ held' = kept
    /\ limbo' = (1..high) \ kept
    /\ queue' = <<>>
    /\ UNCHANGED high

Reclaim(r) ==
    /\ r \in limbo
    /\ limbo' = limbo \ {r}
    /\ queue' = Append(queue, r)
    /\ UNCHANGED <<held, high>>

AbsNext == \/ Take
           \/ \E r \in 1..high : GiveBack(r) \/ Reclaim(r)
           \/ \E kept \in SUBSET held : TakeAway(kept)

AbsSpec == AbsInit /\ [][AbsNext]_absVars
===============================================================================
