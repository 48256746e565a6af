------------------------------ MODULE Cluster ------------------------------
(***************************************************************************)
(* What surrounds one KronosApp controller: the API server's store, the    *)
(* informer caches behind the manager's client, the users who edit what is *)
(* stored, and the wall clock.  Every read of the controller is a read of  *)
(* a cache (mgr.GetClient(), cmd/main.go), every write goes to the store.  *)
(*                                                                         *)
(* A Deployment, StatefulSet or ReplicaSet has a replica count, a CronJob  *)
(* has a suspend flag.  Both are one number here, the object's level: the  *)
(* replica count, or 0 for a suspended CronJob and 1 for a running one.    *)
(* Level 0 is asleep.                                                      *)
(***************************************************************************)
EXTENDS Integers, FiniteSets

CONSTANTS
  Objects,    \* the objects of the supported kinds
  KindOf,     \* the kind of each object
  MaxLevel,   \* bound: the largest replica count a user sets
  AppSpecs,   \* the KronosApp specs a user may write
  MaxEdits    \* bound: how many edits users and the clock make

\* The kinds in the order in which putIncludedObjectsToSleep takes them.
Deployment  == 1
StatefulSet == 2
CronJob     == 3
ReplicaSet  == 4
Kinds       == 1..4

None       == -1             \* no such object, no saved level
Levels     == 0..MaxLevel
MaybeLevel == -1..MaxLevel

\* The part of a KronosAppSpec a reconcile pass tells apart: which objects the
\* includedObjects match, whether NewSleepSchedule and ValidateIncludedObjects
\* accept it, and the two force flags.
AppSpecType == [included : SUBSET Objects, valid : BOOLEAN,
                forceSleep : BOOLEAN, forceWake : BOOLEAN]

ASSUME ClusterAssumption ==
  /\ KindOf \in [Objects -> Kinds]
  /\ MaxLevel \in Nat \ {0}
  /\ AppSpecs \subseteq AppSpecType
  /\ MaxEdits \in Nat

\* What the schedule alone says of the present moment: outside the sleep
\* window, inside it (or on a day that is not listed), or on a holiday.
ClockType == {"awake", "asleep", "holiday"}

\* The levels an object may have; a CronJob is running or suspended.
LevelsOf(o) == IF KindOf[o] = CronJob THEN -1..1 ELSE MaybeLevel

NoData   == [o \in Objects |-> None]
NoSpec   == [included |-> {}, valid |-> FALSE,
             forceSleep |-> FALSE, forceWake |-> FALSE]
NoApp    == [exists |-> FALSE, spec |-> NoSpec]
NoSecret == [exists |-> FALSE, data |-> NoData]

AppType    == [exists : BOOLEAN, spec : AppSpecType]
SecretType == [exists : BOOLEAN, data : [Objects -> MaybeLevel]]

VARIABLES
  level,    \* the store: the level of each object, None if there is none
  clevel,   \* the caches of the four kinds of objects
  secret,   \* the store: the KronosApp's secret, a saved level per object
  csecret,  \* the secret cache
  app,      \* the store: the KronosApp
  capp,     \* the KronosApp cache
  clock,    \* what the schedule says now
  edits,    \* edits made so far
  \* history variables, read by no action of the controller
  owed,     \* the level the controller took from an object and has not restored
  exposed   \* has a window in which a saved level can be lost been hit?

storeVars   == <<level, secret, app>>
cacheVars   == <<clevel, csecret, capp>>
historyVars == <<owed, exposed>>

ClusterTypeOK ==
  /\ level \in [Objects -> MaybeLevel]
  /\ clevel \in [Objects -> MaybeLevel]
  /\ secret \in SecretType
  /\ csecret \in SecretType
  /\ app \in AppType
  /\ capp \in AppType
  /\ clock \in ClockType
  /\ edits \in Nat
  /\ owed \in [Objects -> MaybeLevel]
  /\ exposed \in BOOLEAN

\* The manager starts: its caches are a fresh listing of the store.  The
\* KronosApp has just been created and has no secret yet.
ClusterInit ==
  /\ level \in [Objects -> MaybeLevel]
  /\ \A o \in Objects : level[o] \in LevelsOf(o)
  /\ \E s \in AppSpecs : app = [exists |-> TRUE, spec |-> s]
  /\ secret = NoSecret
  /\ clevel = level
  /\ csecret = secret
  /\ capp = app
  /\ clock \in ClockType
  /\ edits = 0
  /\ owed = [o \in Objects |-> None]
  /\ exposed = FALSE

----------------------------------------------------------------------------
(* Users and the clock.                                                    *)

Edit == edits < MaxEdits /\ edits' = edits + 1

\* A user creates, scales or deletes an object.  The level it had before is
\* no longer anybody's to restore.
EditObject(o, v) ==
  /\ Edit
  /\ v # level[o]
  /\ level' = [level EXCEPT ![o] = v]
  /\ owed' = [owed EXCEPT ![o] = None]
  /\ UNCHANGED <<secret, app, cacheVars, clock, exposed>>

\* A user creates or edits the KronosApp; the force flags are spec fields.
EditApp(s) ==
  /\ Edit
  /\ app # [exists |-> TRUE, spec |-> s]
  /\ app' = [exists |-> TRUE, spec |-> s]
  /\ UNCHANGED <<level, secret, cacheVars, clock, historyVars>>

\* A user deletes the KronosApp: it has no finalizer, so it is gone at once.
DeleteApp ==
  /\ Edit
  /\ app.exists
  /\ app' = NoApp
  /\ UNCHANGED <<level, secret, cacheVars, clock, historyVars>>

\* A user deletes the secret, with whatever levels it holds.
DeleteSecret ==
  /\ Edit
  /\ secret.exists
  /\ secret' = NoSecret
  /\ exposed' = (exposed \/ secret.data # NoData)
  /\ UNCHANGED <<level, app, cacheVars, clock, owed>>

TimePasses(c) ==
  /\ Edit
  /\ c # clock
  /\ clock' = c
  /\ UNCHANGED <<storeVars, cacheVars, historyVars>>

Users ==
  \/ \E o \in Objects : \E v \in LevelsOf(o) : EditObject(o, v)
  \/ \E s \in AppSpecs : EditApp(s)
  \/ DeleteApp
  \/ DeleteSecret
  \/ \E c \in ClockType : TimePasses(c)

----------------------------------------------------------------------------
(* The informers.  A cache catches up with the store some time after each  *)
(* write; the KronosApp's informer also feeds the work queue, see the      *)
(* module Reconciler.                                                      *)

SyncObject(o) ==
  /\ clevel[o] # level[o]
  /\ clevel' = [clevel EXCEPT ![o] = level[o]]
  /\ UNCHANGED <<storeVars, csecret, capp, clock, edits, historyVars>>

SyncSecret ==
  /\ csecret # secret
  /\ csecret' = secret
  /\ UNCHANGED <<storeVars, clevel, capp, clock, edits, historyVars>>
============================================================================
