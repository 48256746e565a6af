------------------------------ MODULE TwoApps ------------------------------
(***************************************************************************)
(* Two KronosApps, A and B, that include the same objects.  Each has its   *)
(* spec, secret, schedule and place in the work queue; the objects, their  *)
(* caches and the one worker, which runs one pass at a time, they share.   *)
(* Nothing in the code tells either of the other: what one finds asleep,   *)
(* it saves as asleep.                                                     *)
(*                                                                         *)
(* A is the Reconciler that this module extends, B a second instance of    *)
(* it, whose own variables are those with a b before their names.          *)
(***************************************************************************)
EXTENDS Reconciler

VARIABLES
  bsecret, bcsecret, bapp, bcapp, bclock, bowed, bexposed,
  bqueued, btimer, bstalled, bstatus, bpc,
  blapp, blsleep, blholiday, blsecret, bkind, btodo, bleft, btosave,
  bfailed, banyFailed, bunsaved,
  \* history variables
  wanted,   \* the level that users gave each object
  first,    \* of two KronosApps that hold a level of an object: who took it first
  crossed,  \* has that one ever let go of its level before the other?
  disturbed \* has a pass worked from stale data, or a user changed a held object?

B == INSTANCE Reconciler WITH
       secret <- bsecret, csecret <- bcsecret, app <- bapp, capp <- bcapp,
       clock <- bclock, owed <- bowed, exposed <- bexposed,
       queued <- bqueued, timer <- btimer, stalled <- bstalled,
       status <- bstatus, pc <- bpc,
       lapp <- blapp, lsleep <- blsleep, lholiday <- blholiday,
       lsecret <- blsecret, kind <- bkind, todo <- btodo, left <- bleft,
       tosave <- btosave, failed <- bfailed, anyFailed <- banyFailed,
       unsaved <- bunsaved

passVars  == <<queueVars, status, pc, localVars>>
bpassVars == <<bqueued, btimer, bstalled, bstatus, bpc, blapp, blsleep, blholiday, blsecret,
               bkind, btodo, bleft, btosave, bfailed, banyFailed, bunsaved>>
ownVars   == <<secret, csecret, app, capp, clock, owed, exposed, passVars>>
bownVars  == <<bsecret, bcsecret, bapp, bcapp, bclock, bowed, bexposed, bpassVars>>
orderVars == <<wanted, first, crossed, disturbed>>
twoVars   == <<level, clevel, edits, faults, ownVars, bownVars, orderVars>>

\* A KronosApp holds a level of the object: it is saved, or listed to be saved.
Holds(o)  == secret.data[o] # None \/ tosave[o] # None
BHolds(o) == bsecret.data[o] # None \/ btosave[o] # None

TwoAppsTypeOK ==
  /\ TypeOK /\ B!TypeOK
  /\ wanted \in [Objects -> MaybeLevel]
  /\ first \in [Objects -> {"A", "B", "nobody"}]
  /\ crossed \in BOOLEAN /\ disturbed \in BOOLEAN

TwoAppsInit ==
  /\ Init /\ B!Init
  /\ wanted = level
  /\ first = [o \in Objects |-> "nobody"]
  /\ crossed = FALSE /\ disturbed = FALSE

----------------------------------------------------------------------------
(* Who holds what since when.                                              *)

\* Whoever held a level when the other took one is the first.
WhoWasFirst ==
  first' = [o \in Objects |->
              IF ~(Holds(o)' /\ BHolds(o)') THEN "nobody"
              ELSE IF first[o] # "nobody" THEN first[o]
              ELSE IF Holds(o) THEN "A" ELSE "B"]

Crosses ==
  \E o \in Objects :
    \/ first[o] = "A" /\ ~Holds(o)' /\ BHolds(o)'
    \/ first[o] = "B" /\ Holds(o)' /\ ~BHolds(o)'

\* A pass starts from a secret that is not the stored one, or lists an object at
\* a level that is not the stored one.
StaleStart ==
  /\ pc = "status" /\ pc' \in {"sleep", "wake"}
  /\ \/ lsecret # secret.data
     \/ \E o \in Objects : lsecret[o] = None /\ tosave'[o] \notin {None, level[o]}

BStaleStart ==
  /\ bpc = "status" /\ bpc' \in {"sleep", "wake"}
  /\ \/ blsecret # bsecret.data
     \/ \E o \in Objects : blsecret[o] = None /\ btosave'[o] \notin {None, level[o]}

Remember ==
  /\ WhoWasFirst
  /\ crossed' = (crossed \/ Crosses)
  /\ disturbed' = (disturbed \/ StaleStart \/ BStaleStart)
  /\ UNCHANGED wanted

----------------------------------------------------------------------------
(* The steps.                                                              *)

\* The worker's step is one of a pass of A, or of B, never while a pass of the
\* other is under way.
WorkerA == Worker /\ bpc = "idle" /\ UNCHANGED bownVars /\ Remember
WorkerB == B!Worker /\ pc = "idle" /\ UNCHANGED ownVars /\ Remember

\* The timers, and the watches of each KronosApp and its secret.
QueueA ==
  /\ \/ TimerFires \/ SyncApp
     \/ SyncSecret /\ UNCHANGED <<passVars, faults>>
  /\ UNCHANGED bownVars /\ Remember

QueueB ==
  /\ \/ B!TimerFires \/ B!SyncApp
     \/ B!SyncSecret /\ UNCHANGED <<bpassVars, faults>>
  /\ UNCHANGED ownVars /\ Remember

\* Each KronosApp's users, and its schedule.
UsersOfA ==
  /\ \/ \E s \in AppSpecs : EditApp(s)
     \/ DeleteApp \/ DeleteSecret
     \/ \E c \in ClockType : TimePasses(c)
  /\ UNCHANGED <<passVars, faults>>
  /\ UNCHANGED bownVars /\ Remember

UsersOfB ==
  /\ \/ \E s \in AppSpecs : B!EditApp(s)
     \/ B!DeleteApp \/ B!DeleteSecret
     \/ \E c \in ClockType : B!TimePasses(c)
  /\ UNCHANGED <<bpassVars, faults>>
  /\ UNCHANGED ownVars /\ Remember

\* A user creates, scales or deletes an object.
ObjectIsEdited(o) ==
  /\ \E v \in LevelsOf(o) :
       EditObject(o, v) /\ B!EditObject(o, v) /\ wanted' = [wanted EXCEPT ![o] = v]
  /\ disturbed' = (disturbed \/ Holds(o) \/ BHolds(o))
  /\ UNCHANGED <<passVars, bpassVars, faults, first, crossed>>

ObjectIsSynced(o) ==
  /\ SyncObject(o) /\ B!SyncObject(o)
  /\ UNCHANGED <<passVars, bpassVars, faults, orderVars>>

\* One process runs both.
BothCrash == Crash /\ B!Crash /\ Remember

TwoAppsNext ==
  \/ WorkerA \/ WorkerB \/ QueueA \/ QueueB \/ UsersOfA \/ UsersOfB
  \/ \E o \in Objects : ObjectIsEdited(o) \/ ObjectIsSynced(o)
  \/ BothCrash

TwoAppsSpec == TwoAppsInit /\ [][TwoAppsNext]_twoVars

----------------------------------------------------------------------------
(* Safety                                                                  *)

\* Whatever the other does to the objects, each KronosApp keeps the levels that it
\* took: its secret, or its running pass, has every level that it owes.
EachRecoverable == Recoverable /\ B!Recoverable

\* What a KronosApp that finds objects asleep does not upset, as long as it lets go
\* of them before the one that put them to sleep: when nobody holds a level of an
\* object any more, the object is as its users want it.  Windows that lie inside
\* one another are safe, and so are those that lie apart.
GivenBackWhenNested ==
  ~crossed /\ ~disturbed /\ ~exposed /\ ~bexposed =>
    \A o \in Objects : ~Holds(o) /\ ~BHolds(o) => level[o] = wanted[o]

----------------------------------------------------------------------------
(* What the documentation says, and the code does not do.                  *)

\* README.md:9: "putting resources to sleep and waking them up".  When both
\* KronosApps have let go of an object, it is as its users want it, whichever of
\* the windows ends first.
GivenBackWhenCrossed ==
  ~disturbed /\ ~exposed /\ ~bexposed =>
    \A o \in Objects : ~Holds(o) /\ ~BHolds(o) => level[o] = wanted[o]
============================================================================
