----------------------------- MODULE MCTwoApps -----------------------------
(***************************************************************************)
(* TwoApps on the instances of MCReconciler: both KronosApps include every *)
(* object.                                                                 *)
(***************************************************************************)
EXTENDS MCReconciler, TwoApps

\* A constraint on the states that are explored further.  A holiday differs from
\* the sleep window only in the status that is written; and of what comes after
\* stale data or a lost level the invariants say nothing, or what they say of one
\* KronosApp in the runs of MCReconciler.
Explored ==
  /\ clock # "holiday" /\ bclock # "holiday"
  /\ ~disturbed /\ ~exposed /\ ~bexposed
============================================================================
