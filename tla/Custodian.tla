----------------------------- MODULE Custodian -----------------------------
(***************************************************************************)
(* What a KronosApp promises of the objects it puts to sleep, with the     *)
(* object and the record of its level changed in one step: a level that is *)
(* taken is kept, the level kept is not replaced, and what is given back   *)
(* is what was taken.  The promise holds until `lost', when the separate   *)
(* writes of the implementation have come apart.                           *)
(***************************************************************************)
EXTENDS Integers

CONSTANTS
  Objects,  \* the objects in custody
  Levels    \* the levels an object may have; 0 is asleep

None == -1  \* no such object, no level

VARIABLES
  level,    \* the level of each object
  owed,     \* the level taken from an object and not given back
  kept,     \* the level that is on record for an object
  lost      \* has the promise ended?

vars == <<level, owed, kept, lost>>

TypeOK ==
  /\ level \in [Objects -> Levels \cup {None}]
  /\ owed \in [Objects -> Levels \cup {None}]
  /\ kept \in [Objects -> Levels \cup {None}]
  /\ lost \in BOOLEAN

Init ==
  /\ level \in [Objects -> Levels \cup {None}]
  /\ owed = [o \in Objects |-> None]
  /\ kept = [o \in Objects |-> None]
  /\ lost = FALSE

\* A user creates, scales or deletes an object: nothing is owed to it any more.
UserSets(o) ==
  /\ \E v \in Levels \cup {None} : level' = [level EXCEPT ![o] = v]
  /\ owed' = [owed EXCEPT ![o] = None]
  /\ kept' = kept

\* An object is put to sleep, and its level is on record at once.
Take(o) ==
  /\ owed[o] = None
  /\ level[o] \in Levels \ {0}
  /\ level' = [level EXCEPT ![o] = 0]
  /\ owed' = [owed EXCEPT ![o] = level[o]]
  /\ kept' = [kept EXCEPT ![o] = level[o]]

\* A sleeping object gets back the level that was taken.
GiveBack(o) ==
  /\ owed[o] # None
  /\ level[o] = 0
  /\ level' = [level EXCEPT ![o] = owed[o]]
  /\ owed' = [owed EXCEPT ![o] = None]
  /\ kept' = kept

\* An object that nothing is owed to, because a user set it in its sleep or the
\* pass is a repetition, is set to a level once recorded for it.
SetAgain(o) ==
  /\ owed[o] = None
  /\ level[o] # None
  /\ \E v \in Levels : level' = [level EXCEPT ![o] = v]
  /\ UNCHANGED <<owed, kept>>

\* Levels are put on record or struck off: none is replaced by another, and
\* none that is owed is struck off.
Record ==
  /\ kept' \in [Objects -> Levels \cup {None}]
  /\ \A o \in Objects : kept[o] # None =>
       \/ kept'[o] = kept[o]
       \/ kept'[o] = None /\ owed[o] = None
  /\ UNCHANGED <<level, owed>>

Custody ==
  /\ ~lost /\ ~lost'
  /\ \/ \E o \in Objects : UserSets(o) \/ Take(o) \/ GiveBack(o) \/ SetAgain(o)
     \/ Record

\* Nothing is promised of the step that ends the promise, and after it.
Lose == lost' = TRUE

Next == Custody \/ Lose

Spec == Init /\ [][Next]_vars

\* What it is all for: while the promise holds, an object that waits for its
\* level is asleep, and the record has exactly that level.
Kept ==
  ~lost => \A o \in Objects : owed[o] # None => level[o] = 0 /\ kept[o] = owed[o]
============================================================================
