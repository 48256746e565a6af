---------------------------- MODULE MCReconciler ----------------------------
(***************************************************************************)
(* Instances of Reconciler for TLC.  The objects are named by strings; the *)
(* one called "job" is a CronJob, "db" a StatefulSet, others Deployments.  *)
(***************************************************************************)
EXTENDS Reconciler

KindByName == [o \in Objects |-> CASE o = "job" -> CronJob
                                   [] o = "db" -> StatefulSet
                                   [] OTHER -> Deployment]

\* A KronosApp that follows its schedule.
Scheduled(objects) ==
  [included |-> objects, valid |-> TRUE, forceSleep |-> FALSE, forceWake |-> FALSE]

ForcedAwake(objects) == [Scheduled(objects) EXCEPT !.forceWake = TRUE]

\* The user leaves the KronosApp as it is.
WholeSpec == {Scheduled(Objects)}

\* The user forces the KronosApp awake, or breaks its schedule.
FlagSpecs == {Scheduled(Objects), ForcedAwake(Objects),
              [Scheduled(Objects) EXCEPT !.valid = FALSE]}

\* The user takes an object out of includedObjects, or puts it back.
ScopeSpecs == {Scheduled(Objects), Scheduled({"web"})}
============================================================================
