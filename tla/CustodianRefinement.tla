------------------------ MODULE CustodianRefinement ------------------------
(***************************************************************************)
(* The controller implements Custodian.  What is on record for an object   *)
(* is its level in the secret or, while the pass that took it has not yet  *)
(* saved it, in the list that pass will save; the promise ends when one of *)
(* the windows marked by `exposed' is hit.                                 *)
(***************************************************************************)
EXTENDS Reconciler

KeptLevels == [o \in Objects |-> IF o \in unsaved THEN tosave[o] ELSE secret.data[o]]

C == INSTANCE Custodian WITH Levels <- Levels, kept <- KeptLevels, lost <- exposed

\* Every step of users, caches, crashes and passes, on whatever stale copies, is
\* a step of the custodian or leaves levels and records alone: the separate
\* writes of objects and secret look like one.
ImplementsCustodian == C!Spec

\* So an object that waits for its level is asleep, and on record with exactly
\* the level that was taken, until a marked window is hit.
SleepersAreKept == C!Kept

----------------------------------------------------------------------------
(* Why it does: what stale copies of the secret can still say.             *)

\* An object that waits for its level sleeps, and if its level is not saved yet,
\* the list has it and the pass's copy of the secret has nothing for it.
SleepersSleep ==
  \A o \in Objects :
    /\ owed[o] # None => level[o] = 0
    /\ o \in unsaved => lsecret[o] = None
    /\ o \in unsaved /\ owed[o] # None => tosave[o] = owed[o]

\* A cached secret, however old, that has a level for a waiting object has the
\* one it waits for; and so has the pass's copy.
CopiesAgree ==
  \A o \in Objects : owed[o] # None /\ o \notin unsaved =>
    /\ csecret.data[o] \in {None, owed[o]}
    /\ pc \in {"status", "sleep", "wake"} => lsecret[o] \in {None, owed[o]}

\* While the pass's copy of the secret is current, the cache may lag behind it
\* only in the kinds that this pass has saved.
CacheBehindPass ==
  secret.data = lsecret =>
    /\ pc = "status" => csecret.data = lsecret
    /\ pc = "sleep" =>
         \A o \in Objects : KindOf[o] >= kind => csecret.data[o] = lsecret[o]

\* What is to be woken has a level to be woken to, what is to be put to sleep
\* has none.
ListsMatch ==
  /\ pc = "sleep" => left \subseteq Recorded(lsecret)
  /\ pc = "sleep" => todo \cap Recorded(lsecret) = {}
  /\ pc = "wake" => todo \subseteq Recorded(lsecret)

Fidelity ==
  /\ ListsMatch
  /\ ~exposed => SleepersSleep /\ CopiesAgree /\ CacheBehindPass
============================================================================
