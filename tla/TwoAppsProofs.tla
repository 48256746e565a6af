--------------------------- MODULE TwoAppsProofs ---------------------------
(***************************************************************************)
(* Two KronosApps over the same objects, for any objects, specs, faults    *)
(* and edits: neither loses a level to the other, and while their sleeps   *)
(* are nested, every object that nobody holds is as its users want it.     *)
(*                                                                         *)
(* To either, whatever the other does is a change of objects and of        *)
(* nothing else.  What ReconcilerProofs and HoldingProofs say of one       *)
(* KronosApp is said of A by extending them, and of B by an instance.      *)
(***************************************************************************)
EXTENDS TwoApps, HoldingProofs

BH == INSTANCE HoldingProofs WITH
        secret <- bsecret, csecret <- bcsecret, app <- bapp, capp <- bcapp,
        clock <- bclock, owed <- bowed, exposed <- bexposed,
        queued <- bqueued, timer <- btimer, stalled <- bstalled,
        status <- bstatus, pc <- bpc,
        lapp <- blapp, lsleep <- blsleep, lholiday <- blholiday,
        lsecret <- blsecret, kind <- bkind, todo <- btodo, left <- bleft,
        tosave <- btosave, failed <- bfailed, anyFailed <- banyFailed,
        unsaved <- bunsaved

----------------------------------------------------------------------------
(* B and BH are instances of the same definitions.                         *)

LEMMA Assumed == BH!ClusterAssumption /\ BH!ReconcilerAssumption
BY ClusterAssumption, ReconcilerAssumption
   DEF ClusterAssumption, ReconcilerAssumption, BH!ClusterAssumption,
       BH!ReconcilerAssumption, BH!Kinds, Kinds, BH!AppSpecType, AppSpecType,
       BH!Calls, Calls

LEMMA SameStates ==
  /\ B!TypeOK <=> BH!TypeOK
  /\ B!Recoverable <=> BH!Recoverable
  /\ B!Init => BH!Init
BY DEF B!None, BH!None, B!Levels, BH!Levels, B!MaybeLevel, BH!MaybeLevel, B!NoData,
       BH!NoData, B!NoSpec, BH!NoSpec, B!NoApp, BH!NoApp, B!NoSecret,
       BH!NoSecret, B!Kinds, BH!Kinds, B!CronJob, BH!CronJob, B!LevelsOf,
       BH!LevelsOf, B!AppSpecType, BH!AppSpecType, B!AppType, BH!AppType,
       B!SecretType, BH!SecretType, B!ClockType, BH!ClockType, B!Calls,
       BH!Calls, B!Statuses, BH!Statuses, B!NoStatus, BH!NoStatus,
       B!ClusterTypeOK, BH!ClusterTypeOK, B!QueueTypeOK, BH!QueueTypeOK,
       B!PassTypeOK, BH!PassTypeOK, B!TypeOK, BH!TypeOK, B!Recoverable,
       BH!Recoverable, B!storeVars, BH!storeVars, B!cacheVars, BH!cacheVars,
       B!historyVars, BH!historyVars, B!localVars, BH!localVars,
       B!queueVars, BH!queueVars, B!vars, BH!vars, B!ClusterInit,
       BH!ClusterInit, B!Init, BH!Init

LEMMA SameWorker == B!Worker => BH!Worker
BY DEF B!None, BH!None, B!Levels, BH!Levels, B!MaybeLevel, BH!MaybeLevel, B!NoData,
       BH!NoData, B!NoSpec, BH!NoSpec, B!NoApp, BH!NoApp, B!NoSecret,
       BH!NoSecret, B!Kinds, BH!Kinds, B!CronJob, BH!CronJob, B!LevelsOf,
       BH!LevelsOf, B!AppSpecType, BH!AppSpecType, B!AppType, BH!AppType,
       B!SecretType, BH!SecretType, B!ClockType, BH!ClockType, B!Calls,
       BH!Calls, B!Statuses, BH!Statuses, B!NoStatus, BH!NoStatus, B!Worker,
       BH!Worker, B!Fetch, BH!Fetch, B!Branch, BH!Branch, B!Sleep, BH!Sleep,
       B!Wake, BH!Wake, B!FetchNotFound, BH!FetchNotFound, B!FetchNoSecret,
       BH!FetchNoSecret, B!CreateSecret, BH!CreateSecret, B!PrepareFails,
       BH!PrepareFails, B!Decide, BH!Decide, B!SetStatus, BH!SetStatus,
       B!SetStatusFails, BH!SetStatusFails, B!StartSleep, BH!StartSleep,
       B!ListFails, BH!ListFails, B!StartWake, BH!StartWake,
       B!NothingToWake, BH!NothingToWake, B!AlreadyAsleep, BH!AlreadyAsleep,
       B!PutToSleep, BH!PutToSleep, B!PutToSleepFails, BH!PutToSleepFails,
       B!Restore, BH!Restore, B!RestoreFails, BH!RestoreFails, B!AtLeftover,
       BH!AtLeftover, B!WakeLeftover, BH!WakeLeftover, B!WakeLeftoverFails,
       BH!WakeLeftoverFails, B!AtSave, BH!AtSave, B!SaveObjectsData,
       BH!SaveObjectsData, B!SaveFails, BH!SaveFails, B!SkipKind,
       BH!SkipKind, B!SleepDone, BH!SleepDone, B!SleepDoneWithFailures,
       BH!SleepDoneWithFailures, B!WakeObject, BH!WakeObject,
       B!WakeObjectFails, BH!WakeObjectFails, B!PurgeSecretData,
       BH!PurgeSecretData, B!PurgeFails, BH!PurgeFails, B!Dequeue,
       BH!Dequeue, B!Fault, BH!Fault, B!Rejected, BH!Rejected, B!Return,
       BH!Return, B!ReturnError, BH!ReturnError, B!ReturnRequeueAfter,
       BH!ReturnRequeueAfter, B!IsHoliday, BH!IsHoliday, B!IsTimeToSleep,
       BH!IsTimeToSleep, B!GetNewKronosAppStatus, BH!GetNewKronosAppStatus,
       B!Recorded, BH!Recorded, B!Listed, BH!Listed, B!LevelToSave,
       BH!LevelToSave, B!InKind, BH!InKind, B!KindListed, BH!KindListed,
       B!WithKind, BH!WithKind, B!storeVars, BH!storeVars, B!cacheVars,
       BH!cacheVars, B!historyVars, BH!historyVars, B!localVars,
       BH!localVars, B!queueVars, BH!queueVars, B!vars, BH!vars

LEMMA SameEnvironment ==
  /\ B!TimerFires => BH!TimerFires
  /\ B!SyncApp => BH!SyncApp
  /\ B!SyncSecret => BH!SyncSecret
  /\ B!DeleteApp => BH!DeleteApp
  /\ B!DeleteSecret => BH!DeleteSecret
  /\ B!Crash => BH!Crash
  /\ \A s \in AppSpecs : B!EditApp(s) => BH!EditApp(s)
  /\ \A c \in ClockType : B!TimePasses(c) => BH!TimePasses(c)
  /\ \A o \in Objects : B!SyncObject(o) => BH!SyncObject(o)
  /\ \A o \in Objects : \A v \in LevelsOf(o) :
       B!EditObject(o, v) => BH!EditObject(o, v) /\ v \in BH!LevelsOf(o)
BY DEF LevelsOf, CronJob, MaybeLevel,
       B!None, BH!None, B!Levels, BH!Levels, B!MaybeLevel, BH!MaybeLevel, B!NoData,
       BH!NoData, B!NoSpec, BH!NoSpec, B!NoApp, BH!NoApp, B!NoSecret,
       BH!NoSecret, B!Kinds, BH!Kinds, B!CronJob, BH!CronJob, B!LevelsOf,
       BH!LevelsOf, B!AppSpecType, BH!AppSpecType, B!AppType, BH!AppType,
       B!SecretType, BH!SecretType, B!ClockType, BH!ClockType, B!Calls,
       BH!Calls, B!Statuses, BH!Statuses, B!NoStatus, BH!NoStatus,
       B!TimerFires, BH!TimerFires, B!SyncApp, BH!SyncApp, B!SyncSecret,
       BH!SyncSecret, B!SyncObject, BH!SyncObject, B!EditObject,
       BH!EditObject, B!EditApp, BH!EditApp, B!DeleteApp, BH!DeleteApp,
       B!DeleteSecret, BH!DeleteSecret, B!TimePasses, BH!TimePasses, B!Edit,
       BH!Edit, B!Crash, BH!Crash, B!storeVars, BH!storeVars, B!cacheVars,
       BH!cacheVars, B!historyVars, BH!historyVars, B!localVars,
       BH!localVars, B!queueVars, BH!queueVars, B!vars, BH!vars,
       B!Fault, BH!Fault, B!Return, BH!Return

\* The levels and what marks their absence are the same for both.
LEMMA SameLevels ==
  BH!MaybeLevel = MaybeLevel /\ BH!None = None /\ BH!ClockType = ClockType
BY DEF BH!MaybeLevel, MaybeLevel, BH!None, None, BH!ClockType, ClockType

----------------------------------------------------------------------------
(* Whose step a step is.                                                   *)

OfA == /\ WorkerA \/ QueueA \/ UsersOfA
       /\ UNCHANGED bownVars

OfB == /\ WorkerB \/ QueueB \/ UsersOfB
       /\ UNCHANGED ownVars

OfBoth == BothCrash \/ \E o \in Objects : ObjectIsEdited(o) \/ ObjectIsSynced(o)

LEMMA WhoseStep == TwoAppsNext => OfA \/ OfB \/ OfBoth
BY DEF TwoAppsNext, OfA, OfB, OfBoth, WorkerA, QueueA, UsersOfA, WorkerB, QueueB, UsersOfB

LEMMA StepsOfA == OfA => Next
BY DEF OfA, WorkerA, QueueA, UsersOfA, Next, Environment, Users, passVars

LEMMA StepsOfB == OfB => BH!Next
<1> SUFFICES ASSUME OfB PROVE BH!Next
  OBVIOUS
<1> USE SameLevels DEF BH!Next, BH!Environment, BH!Users
<1>1. UNCHANGED bpassVars => UNCHANGED <<BH!queueVars, bstatus, bpc, BH!localVars>>
  BY DEF bpassVars, BH!queueVars, BH!localVars
<1>2. CASE WorkerB
  BY <1>2, SameWorker DEF WorkerB
<1>3. CASE QueueB
  BY <1>1, <1>3, SameEnvironment DEF QueueB
<1>4. CASE UsersOfB
  BY <1>1, <1>4, SameEnvironment DEF UsersOfB
<1> QED
  BY <1>2, <1>3, <1>4 DEF OfB

LEMMA StepsOfBoth == OfBoth => Next /\ BH!Next
<1> SUFFICES ASSUME OfBoth PROVE Next /\ BH!Next
  OBVIOUS
<1>1. UNCHANGED bpassVars => UNCHANGED <<BH!queueVars, bstatus, bpc, BH!localVars>>
  BY DEF bpassVars, BH!queueVars, BH!localVars
<1>2. CASE BothCrash
  BY <1>2, SameEnvironment DEF BothCrash, Next, BH!Next
<1>3. ASSUME NEW o \in Objects, ObjectIsEdited(o) \/ ObjectIsSynced(o)
      PROVE  Next /\ BH!Next
  BY <1>1, <1>3, SameEnvironment
     DEF ObjectIsEdited, ObjectIsSynced, Next, Environment, Users, passVars,
         BH!Next, BH!Environment, BH!Users
<1> QED
  BY <1>2, <1>3 DEF OfBoth

----------------------------------------------------------------------------
(* Types and custody of both.                                              *)

Together == TypeOK /\ Custody /\ BH!TypeOK /\ BH!Custody

LEMMA TogetherInit == TwoAppsInit => Together
BY TypeInit, CustodyInit, SameStates, Assumed, BH!TypeInit, BH!CustodyInit
   DEF TwoAppsInit, Together, BH!TypeInit, BH!CustodyInit

LEMMA OwnStep ==
  ASSUME Together, Next
  PROVE  TypeOK' /\ Custody'
BY TypeStep, CustodyStep DEF Together

LEMMA OtherStep ==
  ASSUME Together, BH!Next
  PROVE  BH!TypeOK' /\ BH!Custody'
BY Assumed, BH!TypeStep, BH!CustodyStep DEF Together, BH!TypeStep, BH!CustodyStep

\* A's steps are a change of objects to B, and B's to A.
LEMMA TogetherStep ==
  ASSUME Together, [TwoAppsNext]_twoVars
  PROVE  Together'
<1>1. CASE OfA
  <2>1. TypeOK' /\ Custody'
    BY <1>1, StepsOfA, OwnStep
  <2>2. UNCHANGED bownVars
    BY <1>1 DEF OfA
  <2>3. BH!TypeOK'
    BY <2>1, <2>2, SameLevels
       DEF Together, TypeOK, ClusterTypeOK, QueueTypeOK, bownVars, bpassVars, BH!TypeOK,
           BH!ClusterTypeOK, BH!QueueTypeOK, BH!PassTypeOK
  <2>4. BH!Custody'
    BY <2>2, Assumed, BH!CustodyKept DEF Together, bownVars, bpassVars, BH!CustodyKept
  <2> QED
    BY <2>1, <2>3, <2>4 DEF Together
<1>2. CASE OfB
  <2>1. BH!TypeOK' /\ BH!Custody'
    BY <1>2, StepsOfB, OtherStep
  <2>2. UNCHANGED ownVars
    BY <1>2 DEF OfB
  <2>3. TypeOK'
    BY <2>1, <2>2, SameLevels
       DEF Together, BH!TypeOK, BH!ClusterTypeOK, BH!QueueTypeOK, ownVars, passVars,
           queueVars, localVars, TypeOK, ClusterTypeOK, QueueTypeOK, PassTypeOK
  <2>4. Custody'
    BY <2>2, CustodyKept DEF Together, ownVars, passVars, localVars
  <2> QED
    BY <2>1, <2>3, <2>4 DEF Together
<1>3. CASE OfBoth
  BY <1>3, StepsOfBoth, OwnStep, OtherStep DEF Together
<1>4. CASE UNCHANGED twoVars
  <2>1. UNCHANGED vars
    BY <1>4 DEF twoVars, ownVars, passVars, vars, storeVars, cacheVars, historyVars
  <2>2. UNCHANGED BH!vars
    BY <1>4 DEF twoVars, bownVars, bpassVars, BH!vars, BH!storeVars, BH!cacheVars,
                BH!historyVars, BH!queueVars, BH!localVars
  <2> QED
    BY <2>1, <2>2, TypeStep, CustodyStep, Assumed, BH!TypeStep, BH!CustodyStep
       DEF Together, BH!TypeStep, BH!CustodyStep
<1> QED
  BY <1>1, <1>2, <1>3, <1>4, WhoseStep

LEMMA TogetherHolds == TwoAppsSpec => []Together
<1>1. Together /\ [TwoAppsNext]_twoVars => Together'
  BY TogetherStep
<1> QED
  BY <1>1, TogetherInit, PTL DEF TwoAppsSpec

\* Whatever another KronosApp does to the same objects, the levels that a KronosApp
\* has taken are in its secret or on their way there.  This holds of each.
THEOREM SafeFromAnother == TwoAppsSpec => []EachRecoverable
<1>1. Together => EachRecoverable
  BY SameStates DEF Together, Custody, BH!Custody, EachRecoverable
<1> QED
  BY <1>1, TogetherHolds, PTL

----------------------------------------------------------------------------
(* While sleeps are nested.                                                *)

\* Nothing has come apart that GivenBackWhenNested excepts.
Calm == ~crossed /\ ~disturbed /\ ~exposed /\ ~bexposed

\* One pass runs at a time.
Apart == pc = "idle" \/ bpc = "idle"

\* An object of which nobody holds a level is as it is wanted.  Who holds one alone
\* holds the level that is wanted, and the object has it or sleeps, the latter only
\* when that level is not loose.  Of two who hold one, the first holds the level
\* that is wanted, and not loosely; the other holds that, or the 0 of its sleep.
Nested(o) ==
  /\ Held(o) = None /\ BH!Held(o) = None => level[o] = wanted[o]
  /\ Held(o) # None /\ BH!Held(o) = None =>
       /\ Held(o) = wanted[o] /\ level[o] \in {wanted[o], 0}
       /\ Loose(o) => level[o] = wanted[o]
  /\ Held(o) = None /\ BH!Held(o) # None =>
       /\ BH!Held(o) = wanted[o] /\ level[o] \in {wanted[o], 0}
       /\ BH!Loose(o) => level[o] = wanted[o]
  /\ Held(o) # None /\ BH!Held(o) # None =>
       /\ {Held(o), BH!Held(o), level[o]} \subseteq {wanted[o], 0}
       /\ \/ first[o] = "A" /\ Held(o) = wanted[o] /\ ~Loose(o)
          \/ first[o] = "B" /\ BH!Held(o) = wanted[o] /\ ~BH!Loose(o)
  /\ Held(o) = None \/ BH!Held(o) = None => first[o] = "nobody"

\* The inductive invariant.
InCalm ==
  Calm => /\ Apart
          /\ Tidy /\ Orderly /\ BH!Tidy /\ BH!Orderly
          /\ \A o \in Objects : Nested(o)

OrderType ==
  /\ wanted \in [Objects -> MaybeLevel]
  /\ first \in [Objects -> {"A", "B", "nobody"}]
  /\ crossed \in BOOLEAN /\ disturbed \in BOOLEAN

\* To hold a level is to have it in the secret or listed.
LEMMA HoldsIsHeld ==
  ASSUME NEW o \in Objects
  PROVE  /\ Holds(o) <=> Held(o) # None
         /\ BHolds(o) <=> BH!Held(o) # None
         /\ Holds(o)' <=> Held(o)' # None
         /\ BHolds(o)' <=> BH!Held(o)' # None
BY SameLevels DEF Holds, BHolds, Held, BH!Held

LEMMA OrderStep ==
  ASSUME Together, OrderType, [TwoAppsNext]_twoVars
  PROVE  OrderType'
<1> USE DEF OrderType
<1>1. CASE Remember
  BY <1>1 DEF Remember, WhoWasFirst
<1>2. ASSUME NEW o \in Objects, ObjectIsEdited(o) PROVE OrderType'
  BY <1>2, LevelTypes DEF ObjectIsEdited
<1>3. CASE UNCHANGED orderVars
  BY <1>3 DEF orderVars
<1> QED
  BY <1>1, <1>2, <1>3
     DEF TwoAppsNext, WorkerA, WorkerB, QueueA, QueueB, UsersOfA, UsersOfB, BothCrash,
         ObjectIsSynced, twoVars

\* Calm, once lost, does not come back.
LEMMA CalmBefore ==
  ASSUME Together, OrderType, [TwoAppsNext]_twoVars, Calm'
  PROVE  Calm
<1>1. exposed => exposed'
  <2>1. CASE OfA \/ OfBoth
    BY <2>1, StepsOfA, StepsOfBoth, MarkStays DEF Together
  <2>2. CASE OfB \/ UNCHANGED twoVars
    BY <2>2 DEF OfB, ownVars, twoVars
  <2> QED
    BY <2>1, <2>2, WhoseStep
<1>2. bexposed => bexposed'
  <2>1. CASE OfB \/ OfBoth
    BY <2>1, StepsOfB, StepsOfBoth, Assumed, BH!MarkStays DEF Together, BH!MarkStays
  <2>2. CASE OfA \/ UNCHANGED twoVars
    BY <2>2 DEF OfA, bownVars, twoVars
  <2> QED
    BY <2>1, <2>2, WhoseStep
<1>3. (crossed => crossed') /\ (disturbed => disturbed')
  BY DEF TwoAppsNext, WorkerA, WorkerB, QueueA, QueueB, UsersOfA, UsersOfB, BothCrash,
         ObjectIsEdited, ObjectIsSynced, Remember, twoVars, orderVars, OrderType
<1> QED
  BY <1>1, <1>2, <1>3 DEF Calm, Together, TypeOK, BH!TypeOK, ClusterTypeOK,
     BH!ClusterTypeOK, OrderType

----------------------------------------------------------------------------
(* One object, and a step of one of the two.                               *)

\* What a KronosApp without a running pass holds, it holds in its secret.
LEMMA IdleHolds ==
  ASSUME Together, NEW o \in Objects
  PROVE  /\ Tidy /\ pc = "idle" => (Held(o) # None => ~Loose(o))
         /\ BH!Tidy /\ bpc = "idle" => (BH!Held(o) # None => ~BH!Loose(o))
BY SameLevels DEF Tidy, BH!Tidy, Held, BH!Held, Loose, BH!Loose, NoData, BH!NoData

LEMMA NestedTurnOfA ==
  ASSUME NEW o \in Objects, OrderType, Nested(o), Turn(o), Remember, ~crossed',
         BH!Held(o)' = BH!Held(o), BH!Loose(o)' <=> BH!Loose(o),
         BH!Held(o) # None => ~BH!Loose(o)
  PROVE  Nested(o)'
<1>1. /\ wanted'[o] = wanted[o]
      /\ first'[o] = IF ~(Held(o)' # None /\ BH!Held(o)' # None) THEN "nobody"
                     ELSE IF first[o] # "nobody" THEN first[o]
                     ELSE IF Held(o) # None THEN "A" ELSE "B"
  BY HoldsIsHeld DEF Remember, WhoWasFirst
<1>2. ~(first[o] = "A" /\ Held(o)' = None /\ BH!Held(o)' # None)
  BY HoldsIsHeld DEF Remember, Crosses, OrderType
<1>3. CASE Held(o) = None
  BY <1>1, <1>3 DEF Nested, Turn
<1>4. CASE Held(o) # None /\ Held(o)' # None
  BY <1>1, <1>4 DEF Nested, Turn
<1>5. CASE Held(o) # None /\ Held(o)' = None
  BY <1>1, <1>2, <1>5 DEF Nested, Turn
<1> QED
  BY <1>3, <1>4, <1>5

LEMMA NestedTurnOfB ==
  ASSUME NEW o \in Objects, OrderType, Nested(o), BH!Turn(o), Remember, ~crossed',
         Held(o)' = Held(o), Loose(o)' <=> Loose(o),
         Held(o) # None => ~Loose(o)
  PROVE  Nested(o)'
<1>1. /\ wanted'[o] = wanted[o]
      /\ first'[o] = IF ~(Held(o)' # None /\ BH!Held(o)' # None) THEN "nobody"
                     ELSE IF first[o] # "nobody" THEN first[o]
                     ELSE IF Held(o) # None THEN "A" ELSE "B"
  BY HoldsIsHeld DEF Remember, WhoWasFirst
<1>2. ~(first[o] = "B" /\ Held(o)' # None /\ BH!Held(o)' = None)
  BY HoldsIsHeld DEF Remember, Crosses, OrderType
<1>3. CASE BH!Held(o) = None
  BY <1>1, <1>3, SameLevels DEF Nested, BH!Turn
<1>4. CASE BH!Held(o) # None /\ BH!Held(o)' # None
  BY <1>1, <1>4, SameLevels DEF Nested, BH!Turn
<1>5. CASE BH!Held(o) # None /\ BH!Held(o)' = None
  BY <1>1, <1>2, <1>5, SameLevels DEF Nested, BH!Turn
<1> QED
  BY <1>3, <1>4, <1>5

\* A step that takes nothing, lets nothing go and leaves the object as it is.
LEMMA NestedAside ==
  ASSUME NEW o \in Objects, OrderType, Nested(o), Remember, level' = level,
         Held(o)' = Held(o), Loose(o)' <=> Loose(o),
         BH!Held(o)' = BH!Held(o), BH!Loose(o)' <=> BH!Loose(o)
  PROVE  Nested(o)'
<1>1. wanted'[o] = wanted[o] /\ first'[o] = first[o]
  BY HoldsIsHeld DEF Remember, WhoWasFirst, Nested, OrderType
<1> QED
  BY <1>1 DEF Nested

----------------------------------------------------------------------------
(* A step of A while B has no pass under way, and of B while A has none.    *)

LEMMA WorkerAStep ==
  ASSUME Together, OrderType, Calm, Calm', InCalm, WorkerA
  PROVE  InCalm'
<1>1. /\ Worker /\ bpc = "idle" /\ UNCHANGED bownVars /\ Remember
      /\ Tidy /\ Orderly /\ BH!Tidy /\ BH!Orderly /\ ~exposed' /\ ~crossed'
      /\ TypeOK /\ Custody
  BY DEF WorkerA, InCalm, Calm, Together
<1>2. FreshStart
  BY <1>1, SameLevels DEF FreshStart, Remember, StaleStart, Calm
<1>3. Turns /\ Tidy' /\ Orderly'
  BY <1>1, <1>2, WorkerTurns
<1>4. /\ BH!Tidy' /\ BH!Orderly' /\ Apart'
      /\ \A o \in Objects : BH!Held(o)' = BH!Held(o) /\ (BH!Loose(o)' <=> BH!Loose(o))
  BY <1>1 DEF bownVars, bpassVars, BH!Tidy, BH!Orderly, BH!Held, BH!Loose, BH!Recorded,
              BH!NoData, Apart
<1>5. ASSUME NEW o \in Objects PROVE Nested(o)'
  <2>1. Nested(o) /\ Turn(o) /\ (BH!Held(o) # None => ~BH!Loose(o))
    BY <1>1, <1>3, IdleHolds DEF InCalm, Turns
  <2> QED
    BY <1>1, <1>4, <2>1, NestedTurnOfA
<1> QED
  BY <1>3, <1>4, <1>5 DEF InCalm

LEMMA WorkerBStep ==
  ASSUME Together, OrderType, Calm, Calm', InCalm, WorkerB
  PROVE  InCalm'
<1>1. /\ BH!Worker /\ pc = "idle" /\ UNCHANGED ownVars /\ Remember
      /\ Tidy /\ Orderly /\ BH!Tidy /\ BH!Orderly /\ ~bexposed' /\ ~crossed'
      /\ BH!TypeOK /\ BH!Custody
  BY SameWorker DEF WorkerB, InCalm, Calm, Together
<1>2. BH!FreshStart
  BY <1>1, SameLevels DEF BH!FreshStart, Remember, BStaleStart, Calm
<1>3. BH!Turns /\ BH!Tidy' /\ BH!Orderly'
  BY <1>1, <1>2, Assumed, BH!WorkerTurns DEF BH!WorkerTurns
<1>4. /\ Tidy' /\ Orderly' /\ Apart'
      /\ \A o \in Objects : Held(o)' = Held(o) /\ (Loose(o)' <=> Loose(o))
  BY <1>1 DEF ownVars, passVars, localVars, Tidy, Orderly, Held, Loose, Recorded,
              NoData, Apart
<1>5. ASSUME NEW o \in Objects PROVE Nested(o)'
  <2>1. Nested(o) /\ BH!Turn(o) /\ (Held(o) # None => ~Loose(o))
    BY <1>1, <1>3, IdleHolds DEF InCalm, BH!Turns
  <2> QED
    BY <1>1, <1>4, <2>1, NestedTurnOfB
<1> QED
  BY <1>3, <1>4, <1>5 DEF InCalm

----------------------------------------------------------------------------
(* Steps beside the passes: they may come while either has one under way.  *)

LEMMA AsideAStep ==
  ASSUME Together, OrderType, Calm, Calm', InCalm, QueueA \/ UsersOfA
  PROVE  InCalm'
<1>1. /\ UNCHANGED bownVars /\ Remember
      /\ Tidy /\ Orderly /\ BH!Tidy /\ BH!Orderly /\ ~exposed'
      /\ TypeOK /\ Custody
  BY DEF QueueA, UsersOfA, InCalm, Calm, Together
<1>2. /\ Tidy' /\ Orderly' /\ UNCHANGED <<level, pc>>
      /\ \A o \in Objects : Held(o)' = Held(o) /\ (Loose(o)' <=> Loose(o))
  BY <1>1, OthersHold DEF QueueA, UsersOfA, passVars
<1>3. /\ BH!Tidy' /\ BH!Orderly' /\ Apart'
      /\ \A o \in Objects : BH!Held(o)' = BH!Held(o) /\ (BH!Loose(o)' <=> BH!Loose(o))
  BY <1>1, <1>2 DEF bownVars, bpassVars, BH!Tidy, BH!Orderly, BH!Held, BH!Loose,
                    BH!Recorded, BH!NoData, Apart, InCalm
<1>4. \A o \in Objects : Nested(o)'
  BY <1>1, <1>2, <1>3, NestedAside DEF InCalm
<1> QED
  BY <1>2, <1>3, <1>4 DEF InCalm

LEMMA AsideBStep ==
  ASSUME Together, OrderType, Calm, Calm', InCalm, QueueB \/ UsersOfB
  PROVE  InCalm'
<1>1. /\ UNCHANGED ownVars /\ Remember
      /\ Tidy /\ Orderly /\ BH!Tidy /\ BH!Orderly /\ ~bexposed'
      /\ BH!TypeOK /\ BH!Custody
  BY DEF QueueB, UsersOfB, InCalm, Calm, Together
<1>2. /\ BH!Tidy' /\ BH!Orderly' /\ UNCHANGED <<level, bpc>>
      /\ \A o \in Objects : BH!Held(o)' = BH!Held(o) /\ (BH!Loose(o)' <=> BH!Loose(o))
  <2>1. UNCHANGED bpassVars => UNCHANGED <<bpc, BH!localVars>>
    BY DEF bpassVars, BH!localVars
  <2>2. \/ BH!TimerFires \/ BH!SyncApp
        \/ /\ \/ BH!SyncSecret \/ BH!DeleteApp \/ BH!DeleteSecret
              \/ \E s \in AppSpecs : BH!EditApp(s)
              \/ \E c \in ClockType : BH!TimePasses(c)
           /\ UNCHANGED <<bpc, BH!localVars>>
    BY <2>1, SameEnvironment DEF QueueB, UsersOfB
  <2> QED
    BY <1>1, <2>2, SameLevels, Assumed, BH!OthersHold DEF BH!OthersHold
<1>3. /\ Tidy' /\ Orderly' /\ Apart'
      /\ \A o \in Objects : Held(o)' = Held(o) /\ (Loose(o)' <=> Loose(o))
  BY <1>1, <1>2 DEF ownVars, passVars, localVars, Tidy, Orderly, Held, Loose, Recorded,
                    NoData, Apart, InCalm
<1>4. \A o \in Objects : Nested(o)'
  BY <1>1, <1>2, <1>3, NestedAside DEF InCalm
<1> QED
  BY <1>2, <1>3, <1>4 DEF InCalm

\* A user who changes an object that somebody holds disturbs the calm; who changes
\* another wants it as it is then.
LEMMA EditStep ==
  ASSUME Together, OrderType, Calm, Calm', InCalm, NEW o \in Objects, ObjectIsEdited(o)
  PROVE  InCalm'
<1>1. PICK v \in LevelsOf(o) :
        EditObject(o, v) /\ wanted' = [wanted EXCEPT ![o] = v]
  BY DEF ObjectIsEdited
<1>2. /\ level'[o] = v /\ wanted'[o] = v
      /\ \A x \in Objects \ {o} : level'[x] = level[x] /\ wanted'[x] = wanted[x]
  BY <1>1 DEF EditObject, Together, TypeOK, ClusterTypeOK, OrderType
<1>3. /\ UNCHANGED <<secret, pc, localVars>>
      /\ UNCHANGED <<bsecret, bpc, bpassVars>> /\ first' = first
  BY DEF ObjectIsEdited, EditObject, B!EditObject, passVars, bpassVars
<1>4. \A x \in Objects :
        /\ Held(x)' = Held(x) /\ (Loose(x)' <=> Loose(x))
        /\ BH!Held(x)' = BH!Held(x) /\ (BH!Loose(x)' <=> BH!Loose(x))
  BY <1>3 DEF Held, Loose, BH!Held, BH!Loose, localVars, bpassVars
<1>5. Held(o) = None /\ BH!Held(o) = None
  BY HoldsIsHeld DEF ObjectIsEdited, Calm
<1>6. secret.data[o] = None /\ bsecret.data[o] = None
  BY <1>5, SameLevels DEF Held, BH!Held
<1>7. Tidy' /\ BH!Tidy' /\ Apart'
  BY <1>3 DEF localVars, bpassVars, Tidy, BH!Tidy, Recorded, BH!Recorded, NoData,
              BH!NoData, Apart, InCalm
<1>8. Orderly' /\ BH!Orderly'
  BY <1>2, <1>3, <1>6, SameLevels DEF localVars, bpassVars, Orderly, BH!Orderly, InCalm
<1>9. ASSUME NEW x \in Objects PROVE Nested(x)'
  BY <1>2, <1>3, <1>4, <1>5 DEF Nested, InCalm
<1> QED
  BY <1>7, <1>8, <1>9 DEF InCalm

\* What the invariant reads stays as it is.
LEMMA CalmAside ==
  ASSUME InCalm, Calm,
         UNCHANGED <<level, secret, pc, localVars, bsecret, bpc, bpassVars, orderVars>>
  PROVE  InCalm'
<1>1. \A x \in Objects :
        /\ Held(x)' = Held(x) /\ (Loose(x)' <=> Loose(x))
        /\ BH!Held(x)' = BH!Held(x) /\ (BH!Loose(x)' <=> BH!Loose(x))
  BY DEF Held, Loose, BH!Held, BH!Loose, localVars, bpassVars
<1>2. Tidy' /\ BH!Tidy' /\ Apart' /\ Orderly' /\ BH!Orderly'
  BY DEF localVars, bpassVars, Tidy, BH!Tidy, Recorded, BH!Recorded, NoData, BH!NoData,
         Orderly, BH!Orderly, Apart, InCalm
<1>3. ASSUME NEW x \in Objects PROVE Nested(x)'
  BY <1>1 DEF Nested, InCalm, orderVars
<1> QED
  BY <1>2, <1>3 DEF InCalm

\* A crash ends the pass of the one that has a pass under way.
LEMMA CrashStep ==
  ASSUME Together, OrderType, Calm, Calm', InCalm, BothCrash
  PROVE  InCalm'
<1>1. /\ Crash /\ BH!Crash /\ Remember /\ ~exposed' /\ ~bexposed' /\ ~crossed'
      /\ Tidy /\ Orderly /\ BH!Tidy /\ BH!Orderly
  BY SameEnvironment DEF BothCrash, Calm, InCalm
<1>2. Turns /\ Tidy' /\ Orderly' /\ level' = level /\ pc' = "idle"
  BY <1>1, CrashTurns DEF Together
<1>3. BH!Turns /\ BH!Tidy' /\ BH!Orderly' /\ bpc' = "idle"
  BY <1>1, Assumed, BH!CrashTurns DEF Together, BH!CrashTurns
<1>4. ASSUME NEW o \in Objects, bpc = "idle" PROVE Nested(o)'
  <2>1. bsecret' = bsecret /\ btosave = BH!NoData /\ bunsaved = {}
    BY <1>1, <1>4 DEF BH!Crash, BH!storeVars, BH!Tidy, Together, BH!Custody
  <2>2. btosave' = BH!NoData /\ bunsaved' = {}
    BY <1>1 DEF BH!Crash, BH!Return
  <2>3. BH!Held(o)' = BH!Held(o) /\ (BH!Loose(o)' <=> BH!Loose(o))
    BY <2>1, <2>2 DEF BH!Held, BH!Loose
  <2>4. Nested(o) /\ Turn(o) /\ (BH!Held(o) # None => ~BH!Loose(o))
    BY <1>1, <1>2, <1>4, IdleHolds DEF InCalm, Turns
  <2> QED
    BY <1>1, <2>3, <2>4, NestedTurnOfA
<1>5. ASSUME NEW o \in Objects, pc = "idle" PROVE Nested(o)'
  <2>1. secret' = secret /\ tosave = NoData /\ unsaved = {}
    BY <1>1, <1>5 DEF Crash, storeVars, Tidy, Together, Custody
  <2>2. tosave' = NoData /\ unsaved' = {}
    BY <1>1 DEF Crash, Return
  <2>3. Held(o)' = Held(o) /\ (Loose(o)' <=> Loose(o))
    BY <2>1, <2>2 DEF Held, Loose, NoData
  <2>4. Nested(o) /\ BH!Turn(o) /\ (Held(o) # None => ~Loose(o))
    BY <1>1, <1>3, <1>5, IdleHolds DEF InCalm, BH!Turns
  <2> QED
    BY <1>1, <2>3, <2>4, NestedTurnOfB
<1> QED
  BY <1>2, <1>3, <1>4, <1>5 DEF InCalm, Apart

----------------------------------------------------------------------------
(* All steps.                                                              *)

LEMMA CalmInit == TwoAppsInit => OrderType /\ InCalm
<1> SUFFICES ASSUME TwoAppsInit PROVE OrderType /\ InCalm
  OBVIOUS
<1>1. Init /\ BH!Init /\ wanted = level
  BY SameStates DEF TwoAppsInit
<1>2. OrderType
  BY <1>1, TypeInit DEF TwoAppsInit, OrderType, TypeOK, ClusterTypeOK
<1>3. Apart /\ Tidy /\ Orderly /\ BH!Tidy /\ BH!Orderly
  BY <1>1 DEF Init, BH!Init, Apart, Tidy, Orderly, BH!Tidy, BH!Orderly
<1>4. ASSUME NEW o \in Objects PROVE Nested(o)
  <2>1. Held(o) = None
    BY <1>1 DEF Init, ClusterInit, NoSecret, NoData, Held
  <2>2. BH!Held(o) = None
    BY <1>1, SameLevels DEF BH!Init, BH!ClusterInit, BH!NoSecret, BH!NoData, BH!Held
  <2> QED
    BY <1>1, <2>1, <2>2 DEF Nested, TwoAppsInit
<1> QED
  BY <1>2, <1>3, <1>4 DEF InCalm

LEMMA CalmStep ==
  ASSUME Together, OrderType, InCalm, [TwoAppsNext]_twoVars
  PROVE  InCalm'
<1> SUFFICES ASSUME Calm' PROVE InCalm'
  BY DEF InCalm
<1> USE CalmBefore
<1>1. CASE WorkerA \/ WorkerB
  BY <1>1, WorkerAStep, WorkerBStep
<1>2. CASE QueueA \/ UsersOfA
  BY <1>2, AsideAStep
<1>3. CASE QueueB \/ UsersOfB
  BY <1>3, AsideBStep
<1>4. ASSUME NEW o \in Objects, ObjectIsEdited(o) PROVE InCalm'
  BY <1>4, EditStep
<1>5. ASSUME NEW o \in Objects, ObjectIsSynced(o) PROVE InCalm'
  <2>1. UNCHANGED <<level, secret, bsecret, passVars, bpassVars, orderVars>>
    BY <1>5 DEF ObjectIsSynced, SyncObject, B!SyncObject, storeVars, B!storeVars
  <2> QED
    BY <2>1, CalmAside DEF passVars, bpassVars
<1>6. CASE BothCrash
  BY <1>6, CrashStep
<1>7. CASE UNCHANGED twoVars
  BY <1>7, CalmAside DEF twoVars, ownVars, bownVars, passVars, bpassVars
<1> QED
  BY <1>1, <1>2, <1>3, <1>4, <1>5, <1>6, <1>7 DEF TwoAppsNext

LEMMA InCalmHolds == TwoAppsSpec => [](Together /\ OrderType /\ InCalm)
<1>1. TwoAppsInit => Together /\ OrderType /\ InCalm
  BY TogetherInit, CalmInit
<1>2. Together /\ OrderType /\ InCalm /\ [TwoAppsNext]_twoVars
        => (Together /\ OrderType /\ InCalm)'
  BY TogetherStep, OrderStep, CalmStep
<1> QED
  BY <1>1, <1>2, PTL DEF TwoAppsSpec

\* Both KronosApps, and what is remembered of them, are of their types.
THEOREM TwoAppsTyped == TwoAppsSpec => []TwoAppsTypeOK
<1>1. Together /\ OrderType => TwoAppsTypeOK
  BY SameStates DEF Together, OrderType, TwoAppsTypeOK
<1> QED
  BY <1>1, InCalmHolds, PTL

\* As long as the KronosApp that took a level first does not let go of it first, and
\* no pass works from stale data and no level is lost, an object of which nobody
\* holds a level any more has the level that its users gave it.
THEOREM GivenBackNested == TwoAppsSpec => []GivenBackWhenNested
<1>1. Together /\ OrderType /\ InCalm => GivenBackWhenNested
  BY HoldsIsHeld DEF InCalm, Calm, Nested, GivenBackWhenNested
<1> QED
  BY <1>1, InCalmHolds, PTL
============================================================================
