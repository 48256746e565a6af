----------------------------- MODULE Reconciler -----------------------------
(***************************************************************************)
(* KronosAppReconciler: the work queue of one KronosApp and the passes of  *)
(* Reconcile over it.  A pass reads the caches, decides between sleep and  *)
(* wake, writes the status and then either puts the included objects to    *)
(* sleep, kind by kind, saving their levels in the secret after each kind, *)
(* or restores every saved level and purges the secret.                    *)
(*                                                                         *)
(* One step of the module is one call that writes to the store, with the   *)
(* reads and the local work before it; users, the clock, the informers and *)
(* a crash may come between any two.  The manager runs one pass at a time. *)
(*                                                                         *)
(* The store accepts an update only of the version that was read.  A       *)
(* version is stale here when its content differs from the store's; when   *)
(* the content is the same but the version is not, the update is rejected  *)
(* by a fault of that call.                                                *)
(***************************************************************************)
EXTENDS Cluster

CONSTANTS
  FaultyCalls,  \* which calls may fail although the store could accept them
  MaxFaults     \* bound: how many such failures and crashes there are

Calls == {"crash", "create", "status", "list", "sleep", "wake", "save", "purge"}

ASSUME ReconcilerAssumption ==
  /\ FaultyCalls \subseteq Calls
  /\ MaxFaults \in Nat

VARIABLES
  queued,   \* is the request in the work queue?
  timer,    \* is a RequeueAfter pending?
  status,   \* the store: status.status and status.reason of the KronosApp
  pc,       \* where the pass is
  lapp,     \* kronosApp, the pass's copy
  lsleep,   \* ok, the answer of IsTimeToSleep
  lholiday, \* isHoliday
  lsecret,  \* secret.Data, the pass's copy
  kind,     \* the kind being put to sleep, 5 after the last
  todo,     \* the objects still to put to sleep, or still to wake
  left,     \* savedResources that no listed object has claimed
  tosave,   \* the level to save of each listed object
  failed,   \* failedObjects of this kind is not empty
  anyFailed,\* failedObjectsSleepActions is not empty
  faults,   \* faults so far
  \* history variables
  unsaved,  \* objects this pass put to sleep and has not saved yet
  stalled   \* did the last pass end without asking for another?

localVars == <<lapp, lsleep, lholiday, lsecret, kind, todo, left, tosave,
               failed, anyFailed, unsaved>>
queueVars == <<queued, timer, stalled>>
vars == <<storeVars, cacheVars, clock, edits, historyVars, queueVars, status,
          pc, localVars, faults>>

Statuses ==
  [status : {"Asleep", "Awake"},
   reason : {"ForceSleep", "ForceWake", "Holiday", "Scheduled"}]
NoStatus == [status |-> "", reason |-> ""]

QueueTypeOK ==
  /\ queued \in BOOLEAN
  /\ timer \in BOOLEAN
  /\ stalled \in BOOLEAN
  /\ status \in Statuses \cup {NoStatus}
  /\ faults \in Nat

PassTypeOK ==
  /\ pc \in {"idle", "create", "status", "sleep", "wake"}
  /\ lapp \in AppType
  /\ lsleep \in BOOLEAN
  /\ lholiday \in BOOLEAN
  /\ lsecret \in [Objects -> MaybeLevel]
  /\ kind \in 1..5
  /\ todo \in SUBSET Objects
  /\ left \in SUBSET Objects
  /\ tosave \in [Objects -> MaybeLevel]
  /\ failed \in BOOLEAN
  /\ anyFailed \in BOOLEAN
  /\ unsaved \in SUBSET Objects

TypeOK == ClusterTypeOK /\ QueueTypeOK /\ PassTypeOK

----------------------------------------------------------------------------
(* Pure parts of the pass.                                                 *)

IsHoliday(c) == c = "holiday"

\* A holiday wins over both flags, forceSleep over forceWake, and a flag over
\* the schedule.
IsTimeToSleep(s, c) ==
  \/ IsHoliday(c)
  \/ s.forceSleep
  \/ ~s.forceWake /\ c = "asleep"

GetNewKronosAppStatus(s, sleep, holiday) ==
  IF sleep
    THEN [status |-> "Asleep",
          reason |-> IF s.forceSleep THEN "ForceSleep"
                     ELSE IF holiday THEN "Holiday" ELSE "Scheduled"]
    ELSE [status |-> "Awake",
          reason |-> IF s.forceWake THEN "ForceWake" ELSE "Scheduled"]

\* The objects of which the saved data hold a level.
Recorded(data) == {o \in Objects : data[o] # None}

\* FetchIncludedObjects: the included objects the caches know.
Listed(s) == {o \in s.included : clevel[o] # None}

InKind(k) == {o \in Objects : KindOf[o] = k}

\* A bug: a list of one object is taken for an empty one.
KindListed_OffByOne ==
  Cardinality({o \in InKind(kind) : tosave[o] # None}) > 1

\* includedObjects.<Kind> is not nil.
KindListed == \E o \in InKind(kind) : tosave[o] # None

\* A bug: the secret is rewritten with the list of this kind only.
WithKind_Alone(data, k, saved) ==
  [o \in Objects |-> IF KindOf[o] = k THEN saved[o] ELSE None]

\* secret.Data after secret.Data[kind] is set to the list of this kind.
WithKind(data, k, saved) ==
  [o \in Objects |-> IF KindOf[o] = k THEN saved[o] ELSE data[o]]

----------------------------------------------------------------------------
(* How calls fail and passes end.                                          *)

Fault(call) ==
  /\ call \in FaultyCalls
  /\ faults < MaxFaults
  /\ faults' = faults + 1

\* UpdateClient on o cannot succeed: the object is gone or was read stale.
Rejected(o) == level[o] = None \/ clevel[o] # level[o]

\* The pass's variables go out of scope.
Return ==
  /\ pc' = "idle"
  /\ lapp' = NoApp /\ lsleep' = FALSE /\ lholiday' = FALSE
  /\ lsecret' = NoData
  /\ kind' = 1
  /\ todo' = {} /\ left' = {}
  /\ tosave' = NoData
  /\ failed' = FALSE /\ anyFailed' = FALSE
  /\ unsaved' = {}

\* A bug: the error is logged and not returned.
ReturnError_Swallowed ==
  /\ Return
  /\ exposed' = (exposed \/ unsaved # {})
  /\ UNCHANGED <<queueVars>>

\* return ctrl.Result{}, err: the queue retries with back-off.
ReturnError ==
  /\ Return
  /\ queued' = TRUE
  /\ exposed' = (exposed \/ unsaved # {})
  /\ UNCHANGED <<timer, stalled>>

\* A bug: return ctrl.Result{}, nil.
ReturnRequeueAfter_NoTimer == Return /\ UNCHANGED queueVars

\* return ctrl.Result{RequeueAfter: requeueTime}, nil
ReturnRequeueAfter ==
  /\ Return
  /\ timer' = TRUE
  /\ UNCHANGED <<queued, stalled>>

Init ==
  /\ ClusterInit
  /\ queued = TRUE
  /\ timer = FALSE
  /\ stalled = FALSE
  /\ status = NoStatus
  /\ pc = "idle"
  /\ lapp = NoApp /\ lsleep = FALSE /\ lholiday = FALSE
  /\ lsecret = NoData
  /\ kind = 1
  /\ todo = {} /\ left = {}
  /\ tosave = NoData
  /\ failed = FALSE /\ anyFailed = FALSE
  /\ unsaved = {}
  /\ faults = 0

----------------------------------------------------------------------------
(* The start of a pass: fetch the KronosApp and its secret.                *)

Dequeue ==
  /\ pc = "idle"
  /\ queued
  /\ stalled' = FALSE

\* The KronosApp is gone: the error is returned, so the request comes back.
FetchNotFound ==
  /\ Dequeue
  /\ ~capp.exists
  /\ UNCHANGED <<storeVars, cacheVars, clock, edits, historyVars, queued,
                 timer, status, pc, localVars, faults>>

FetchNoSecret ==
  /\ Dequeue
  /\ capp.exists
  /\ ~csecret.exists
  /\ queued' = FALSE
  /\ pc' = "create"
  /\ UNCHANGED <<storeVars, cacheVars, clock, edits, historyVars, timer,
                 status, localVars, faults>>

\* createSecret, then registerSecret, whatever createSecret returned.  The
\* latter updates the KronosApp with a longer status.secretCreated, which the
\* store drops because status is a subresource.  Then Requeue.
CreateSecret ==
  /\ pc = "create"
  /\ \/ /\ secret' = IF secret.exists THEN secret
                     ELSE [exists |-> TRUE, data |-> NoData]
        /\ UNCHANGED faults
     \/ Fault("create") /\ UNCHANGED secret
  /\ pc' = "idle"
  /\ queued' = TRUE
  /\ UNCHANGED <<level, app, cacheVars, clock, edits, historyVars, timer,
                 stalled, status, localVars>>

\* NewSleepSchedule or ValidateIncludedObjects rejects the spec, or the first
\* FetchIncludedObjects fails: the error is returned before any write.
PrepareFails ==
  /\ Dequeue
  /\ capp.exists /\ csecret.exists
  /\ \/ ~capp.spec.valid /\ UNCHANGED faults
     \/ Fault("list")
  /\ UNCHANGED <<storeVars, cacheVars, clock, edits, historyVars, queued,
                 timer, status, pc, localVars>>

Decide ==
  /\ Dequeue
  /\ capp.exists /\ csecret.exists
  /\ capp.spec.valid
  /\ queued' = FALSE
  /\ pc' = "status"
  /\ lapp' = capp
  /\ lsecret' = csecret.data
  /\ lholiday' = IsHoliday(clock)
  /\ lsleep' = IsTimeToSleep(capp.spec, clock)
  /\ UNCHANGED <<storeVars, cacheVars, clock, edits, historyVars, timer,
                 status, kind, todo, left, tosave, failed, anyFailed, unsaved,
                 faults>>

----------------------------------------------------------------------------
(* SetNewKronosAppStatus comes before any object is touched, and only the  *)
(* version of the KronosApp that the pass decided on is accepted.          *)

SetStatus ==
  /\ pc = "status"
  /\ app = lapp
  /\ status' = GetNewKronosAppStatus(lapp.spec, lsleep, lholiday)

SetStatusFails ==
  /\ pc = "status"
  /\ \/ app # lapp /\ UNCHANGED faults
     \/ Fault("status")
  /\ ReturnError
  /\ UNCHANGED <<storeVars, cacheVars, clock, edits, owed, status>>

\* A bug: checkOccurenceInSavedData finds nothing, so that sleeping objects are
\* saved again with the level they sleep at.
LevelToSave_Listed(o) == clevel[o]

\* A bug: sleptResourcesToSave is not appended to the list.
LevelToSave_NewOnly(o) == IF o \in Recorded(lsecret) THEN None ELSE clevel[o]

\* A listed object that is saved keeps its saved level, any other is saved with
\* the level that is listed.
LevelToSave(o) == IF o \in Recorded(lsecret) THEN lsecret[o] ELSE clevel[o]

\* List the included objects and match them with the saved ones: those not yet
\* saved are put to sleep, those saved but not listed are woken.
StartSleep ==
  /\ SetStatus
  /\ lsleep
  /\ pc' = "sleep"
  /\ kind' = 1
  /\ tosave' = [o \in Objects |->
                  IF o \in Listed(lapp.spec) THEN LevelToSave(o) ELSE None]
  /\ todo' = Listed(lapp.spec) \ Recorded(lsecret)
  /\ left' = Recorded(lsecret) \ Listed(lapp.spec)
  /\ UNCHANGED <<storeVars, cacheVars, clock, edits, historyVars, queueVars,
                 lapp, lsleep, lholiday, lsecret, failed, anyFailed, unsaved,
                 faults>>

ListFails ==
  /\ SetStatus
  /\ lsleep
  /\ Fault("list")
  /\ ReturnError
  /\ UNCHANGED <<storeVars, cacheVars, clock, edits, owed>>

\* WakeUpResources on every saved object.
StartWake ==
  /\ SetStatus
  /\ ~lsleep
  /\ Recorded(lsecret) # {}
  /\ pc' = "wake"
  /\ todo' = Recorded(lsecret)
  /\ UNCHANGED <<storeVars, cacheVars, clock, edits, historyVars, queueVars,
                 lapp, lsleep, lholiday, lsecret, kind, left, tosave, failed,
                 anyFailed, unsaved, faults>>

\* CheckIfSecretContainsData finds none: only the timer is set.
NothingToWake ==
  /\ SetStatus
  /\ ~lsleep
  /\ Recorded(lsecret) = {}
  /\ ReturnRequeueAfter
  /\ UNCHANGED <<storeVars, cacheVars, clock, edits, historyVars, faults>>

----------------------------------------------------------------------------
(* putIncludedObjectsToSleep                                               *)

\* An object whose listed level is 0 is saved as it is and not written to.
AlreadyAsleep(o) ==
  /\ pc = "sleep" /\ o \in todo /\ KindOf[o] = kind
  /\ tosave[o] = 0
  /\ todo' = todo \ {o}
  /\ failed' = FALSE
  /\ UNCHANGED <<storeVars, cacheVars, clock, edits, historyVars, queueVars,
                 status, pc, lapp, lsleep, lholiday, lsecret, kind, left,
                 tosave, anyFailed, unsaved, faults>>

\* The level saved is the one listed, the level taken is the one stored now.
PutToSleep(o) ==
  /\ pc = "sleep" /\ o \in todo /\ KindOf[o] = kind
  /\ tosave[o] # 0
  /\ ~Rejected(o)
  /\ level' = [level EXCEPT ![o] = 0]
  /\ todo' = todo \ {o}
  /\ failed' = FALSE
  /\ unsaved' = unsaved \cup {o}
  /\ owed' = [owed EXCEPT ![o] = IF level[o] = 0 THEN owed[o] ELSE level[o]]
  /\ exposed' = (exposed \/ level[o] # tosave[o])
  /\ UNCHANGED <<secret, app, cacheVars, clock, edits, queueVars, status, pc,
                 lapp, lsleep, lholiday, lsecret, kind, left, tosave,
                 anyFailed, faults>>

\* The object stays in the list to save.  failedObjects holds the failure of
\* the last object of the kind only: each call overwrites it.
PutToSleepFails(o) ==
  /\ pc = "sleep" /\ o \in todo /\ KindOf[o] = kind
  /\ tosave[o] # 0
  /\ \/ Rejected(o) /\ UNCHANGED faults
     \/ Fault("sleep")
  /\ todo' = todo \ {o}
  /\ failed' = TRUE
  /\ UNCHANGED <<storeVars, cacheVars, clock, edits, historyVars, queueVars,
                 status, pc, lapp, lsleep, lholiday, lsecret, kind, left,
                 tosave, anyFailed, unsaved>>

\* A bug: an object is woken to one replica.
Restore_One(o) ==
  /\ ~Rejected(o)
  /\ level' = [level EXCEPT ![o] = 1]
  /\ owed' = [owed EXCEPT ![o] = IF owed[o] = 1 THEN None ELSE owed[o]]

\* Wake writes the saved level back.
Restore(o) ==
  /\ ~Rejected(o)
  /\ level' = [level EXCEPT ![o] = lsecret[o]]
  /\ owed' = [owed EXCEPT ![o] = IF lsecret[o] = owed[o] THEN None ELSE owed[o]]

RestoreFails(o) ==
  \/ Rejected(o) /\ UNCHANGED faults
  \/ Fault("wake")

\* A saved object that is no longer included is woken.
AtLeftover(o) ==
  /\ pc = "sleep"
  /\ KindListed
  /\ todo \cap InKind(kind) = {}
  /\ o \in left /\ KindOf[o] = kind

WakeLeftover(o) ==
  /\ AtLeftover(o)
  /\ Restore(o)
  /\ left' = left \ {o}
  /\ UNCHANGED <<secret, app, cacheVars, clock, edits, exposed, queueVars,
                 status, pc, lapp, lsleep, lholiday, lsecret, kind, todo,
                 tosave, failed, anyFailed, unsaved, faults>>

WakeLeftoverFails(o) ==
  /\ AtLeftover(o)
  /\ RestoreFails(o)
  /\ ReturnError
  /\ UNCHANGED <<storeVars, cacheVars, clock, edits, owed, status>>

\* A bug: the changes are written before the leftovers are woken.
AtSave_Early ==
  /\ pc = "sleep"
  /\ kind \in Kinds
  /\ KindListed
  /\ todo \cap InKind(kind) = {}

AtSave ==
  /\ pc = "sleep"
  /\ kind \in Kinds
  /\ KindListed
  /\ todo \cap InKind(kind) = {}
  /\ left \cap InKind(kind) = {}

\* WriteChanges: the whole secret is overwritten with the pass's copy, without
\* a version check.
SaveObjectsData ==
  /\ AtSave
  /\ secret.exists
  /\ secret' = [secret EXCEPT !.data = WithKind(lsecret, kind, tosave)]
  /\ lsecret' = WithKind(lsecret, kind, tosave)
  /\ exposed' = (exposed \/ secret.data # lsecret)
  /\ unsaved' = unsaved \ InKind(kind)
  /\ anyFailed' = (anyFailed \/ failed)
  /\ failed' = FALSE
  /\ kind' = kind + 1
  /\ UNCHANGED <<level, app, cacheVars, clock, edits, owed, queueVars, status,
                 pc, lapp, lsleep, lholiday, todo, left, tosave, faults>>

SaveFails ==
  /\ AtSave
  /\ \/ ~secret.exists /\ UNCHANGED faults
     \/ Fault("save")
  /\ ReturnError
  /\ UNCHANGED <<storeVars, cacheVars, clock, edits, owed, status>>

\* A bug: the walk over the kinds does not stop at the last.
SkipKind_Endless ==
  /\ pc = "sleep"
  /\ ~KindListed
  /\ kind' = kind + 1
  /\ UNCHANGED <<storeVars, cacheVars, clock, edits, historyVars, queueVars,
                 status, pc, lapp, lsleep, lholiday, lsecret, todo, left,
                 tosave, failed, anyFailed, unsaved, faults>>

\* Nothing of this kind is included: its saved objects are left alone.
SkipKind ==
  /\ pc = "sleep"
  /\ kind \in Kinds
  /\ ~KindListed
  /\ kind' = kind + 1
  /\ UNCHANGED <<storeVars, cacheVars, clock, edits, historyVars, queueVars,
                 status, pc, lapp, lsleep, lholiday, lsecret, todo, left,
                 tosave, failed, anyFailed, unsaved, faults>>

SleepDone ==
  /\ pc = "sleep"
  /\ kind = 5
  /\ ~anyFailed
  /\ ReturnRequeueAfter
  /\ UNCHANGED <<storeVars, cacheVars, clock, edits, historyVars, status, faults>>

\* return ctrl.Result{}, nil: nothing brings the request back.
SleepDoneWithFailures ==
  /\ pc = "sleep"
  /\ kind = 5
  /\ anyFailed
  /\ Return
  /\ stalled' = TRUE
  /\ UNCHANGED <<storeVars, cacheVars, clock, edits, historyVars, queued,
                 timer, status, faults>>

----------------------------------------------------------------------------
(* WakeUpResources and purgeSecretData                                     *)

WakeObject(o) ==
  /\ pc = "wake" /\ o \in todo
  /\ Restore(o)
  /\ todo' = todo \ {o}
  /\ UNCHANGED <<secret, app, cacheVars, clock, edits, exposed, queueVars,
                 status, pc, lapp, lsleep, lholiday, lsecret, kind, left,
                 tosave, failed, anyFailed, unsaved, faults>>

WakeObjectFails(o) ==
  /\ pc = "wake" /\ o \in todo
  /\ RestoreFails(o)
  /\ ReturnError
  /\ UNCHANGED <<storeVars, cacheVars, clock, edits, owed, status>>

\* A bug: the version is dropped, as SaveObjectsData does, and what another pass
\* has saved since is purged with the rest.
PurgeSecretData_Unversioned ==
  /\ pc = "wake" /\ todo = {}
  /\ secret.exists
  /\ secret' = [secret EXCEPT !.data = NoData]
  /\ ReturnRequeueAfter
  /\ UNCHANGED <<level, app, cacheVars, clock, edits, historyVars, status, faults>>

\* purgeSecretData keeps the version it read, so a stale copy is rejected.
PurgeSecretData ==
  /\ pc = "wake" /\ todo = {}
  /\ secret.exists /\ secret.data = lsecret
  /\ secret' = [secret EXCEPT !.data = NoData]
  /\ ReturnRequeueAfter
  /\ UNCHANGED <<level, app, cacheVars, clock, edits, historyVars, status, faults>>

PurgeFails ==
  /\ pc = "wake" /\ todo = {}
  /\ \/ ~(secret.exists /\ secret.data = lsecret) /\ UNCHANGED faults
     \/ Fault("purge")
  /\ ReturnError
  /\ UNCHANGED <<storeVars, cacheVars, clock, edits, owed, status>>

----------------------------------------------------------------------------
(* The work queue and the process.                                         *)

TimerFires ==
  /\ timer
  /\ timer' = FALSE
  /\ queued' = TRUE
  /\ UNCHANGED <<storeVars, cacheVars, clock, edits, historyVars, stalled,
                 status, pc, localVars, faults>>

\* A watch event updates the cache; creation, deletion and a new generation
\* pass GenerationChangedPredicate and queue the request.
SyncApp ==
  /\ capp # app
  /\ capp' = app
  /\ queued' = TRUE
  /\ UNCHANGED <<storeVars, clevel, csecret, clock, edits, historyVars, timer,
                 stalled, status, pc, localVars, faults>>

\* The process dies and starts again: queue, timer and the pass are lost, the
\* caches are listed anew and the KronosApp, if there is one, is queued.
Crash ==
  /\ Fault("crash")
  /\ Return
  /\ exposed' = (exposed \/ unsaved # {})
  /\ clevel' = level /\ csecret' = secret /\ capp' = app
  /\ queued' = app.exists
  /\ timer' = FALSE
  /\ stalled' = FALSE
  /\ UNCHANGED <<storeVars, clock, edits, owed, status>>

Fetch == FetchNotFound \/ FetchNoSecret \/ CreateSecret \/ PrepareFails \/ Decide

Branch == SetStatusFails \/ StartSleep \/ ListFails \/ StartWake \/ NothingToWake

Sleep ==
  \/ \E o \in Objects :
       \/ AlreadyAsleep(o) \/ PutToSleep(o) \/ PutToSleepFails(o)
       \/ WakeLeftover(o) \/ WakeLeftoverFails(o)
  \/ SaveObjectsData \/ SaveFails \/ SkipKind
  \/ SleepDone \/ SleepDoneWithFailures

Wake ==
  \/ \E o \in Objects : WakeObject(o) \/ WakeObjectFails(o)
  \/ PurgeSecretData \/ PurgeFails

Worker == Fetch \/ Branch \/ Sleep \/ Wake

Environment ==
  /\ Users \/ (\E o \in Objects : SyncObject(o)) \/ SyncSecret
  /\ UNCHANGED <<queueVars, status, pc, localVars, faults>>

Next == Worker \/ Environment \/ TimerFires \/ SyncApp \/ Crash

Spec == Init /\ [][Next]_vars

\* A worker goroutine takes what is queued, the queue releases what is due and
\* the watches deliver: none of them needs anything but time.
Fairness ==
  /\ WF_vars(Worker)
  /\ WF_vars(TimerFires)
  /\ WF_vars(SyncApp)
  /\ WF_vars(Environment /\ SyncSecret)
  /\ \A o \in Objects : WF_vars(Environment /\ SyncObject(o))

FairSpec == Spec /\ Fairness

----------------------------------------------------------------------------
(* Safety                                                                  *)

\* A level that the controller took from an object and has not given back is
\* saved in the secret, or is on its way there: the pass that took it is still
\* running and will save that level.  putIncludedObjectsToSleep writes objects
\* and secret in separate calls; `exposed' marks the ways in which the calls
\* come apart: the pass ends or the process dies between the two, the listed
\* level is not the one taken, the secret is overwritten from a stale copy, or
\* a user deletes it.  There is no other way to lose a level.
Recoverable ==
  ~exposed =>
    \A o \in Objects : owed[o] # None =>
      \/ secret.data[o] = owed[o]
      \/ o \in unsaved /\ tosave[o] = owed[o]

\* During putIncludedObjectsToSleep, while nothing has come apart: what is still
\* unsaved belongs to this kind's list, the list agrees with the saved levels,
\* and a saved object that is neither listed nor left over has been woken.
SleepCustody ==
  /\ \A o \in unsaved : tosave[o] # None /\ KindOf[o] = kind
  /\ \A o \in todo : tosave[o] # None
  /\ \A o \in left : tosave[o] = None
  /\ \A o \in Objects :
       lsecret[o] # None /\ tosave[o] # None => tosave[o] = lsecret[o]
  /\ secret.data = lsecret /\ ~exposed =>
       \A o \in Objects :
         lsecret[o] # None /\ tosave[o] = None /\ o \notin left => owed[o] = None

\* During WakeUpResources: what has been woken is no longer owed.
WakeCustody ==
  /\ lsecret # NoData
  /\ secret.data = lsecret /\ ~exposed => \A o \in Objects \ todo : owed[o] = None

\* Why Recoverable holds: the inductive invariant behind it.
Custody ==
  /\ Recoverable
  /\ pc # "sleep" => unsaved = {}
  /\ ~secret.exists => secret.data = NoData
  /\ pc = "sleep" => SleepCustody
  /\ pc = "wake" => WakeCustody

\* A saved level is dropped only once the object no longer waits for it, and is
\* never replaced by another level: a second pass over sleeping objects does
\* not save the 0 it finds.
RecordStable ==
  [][~exposed' =>
       \A o \in Objects : secret.data[o] # None =>
         \/ secret'.data[o] = secret.data[o]
         \/ secret'.data[o] = None /\ owed'[o] = None]_vars

\* When the controller changes the level of an object it owes one, it gives
\* back exactly what it took.
RestoresWhatWasTaken ==
  [][~exposed' /\ UNCHANGED edits =>
       \A o \in Objects :
         owed[o] # None /\ level'[o] # level[o] => level'[o] = owed[o]]_vars

\* A KronosApp the controller knows of is being reconciled, queued or has a
\* RequeueAfter pending, except after a pass whose sleep writes failed.
NotForgotten == pc = "idle" /\ capp.exists /\ ~queued /\ ~timer => stalled

----------------------------------------------------------------------------
(* Liveness, under FairSpec                                                *)

Wants(asleep) ==
  /\ app.exists /\ app.spec.valid
  /\ IsTimeToSleep(app.spec, clock) = asleep

\* Every object that is saved still exists.
SavedExist == \A o \in Objects : secret.data[o] # None => level[o] # None

AllGivenBack == \A o \in Objects : owed[o] = None /\ secret.data[o] = None

\* No object that exists waits for a level that was taken from it.
NoneKeptAsleep == \A o \in Objects : level[o] # None => owed[o] = None

AllAsleep ==
  \A o \in Objects : o \in app.spec.included /\ level[o] # None => level[o] = 0

\* Once the KronosApp stays awake, every level taken is given back and the
\* secret is emptied, whatever conflicts, stale reads, failures and crashes
\* came before: Reconcile returns its errors and the queue tries again.  The
\* exceptions are a saved object that is deleted, on which WakeUpResources
\* fails for ever, and a pass that swallowed failed sleep writes.
WakesUp ==
  <>[](Wants(FALSE) /\ ~exposed /\ ~stalled /\ SavedExist) => <>[]AllGivenBack

\* Once the KronosApp stays asleep, every included object is in the secret for
\* good: whatever order list, write and save come in, none is overlooked.
AllSaved ==
  \A o \in app.spec.included : level[o] # None => secret.data[o] # None

EverySleeperSaved ==
  <>[](Wants(TRUE) /\ secret.exists /\ ~stalled /\ SavedExist) => <>[]AllSaved

----------------------------------------------------------------------------
(* What the documentation says, and the code does not do.                  *)

\* README.md:9: resources are put to sleep "based on specific criteria".  A
\* write that fails once is tried again.
SleepIsRetried == <>[](Wants(TRUE) /\ secret.exists) => <>[]AllAsleep

\* README.md:9: "... and waking them up".  The objects that did go to sleep are
\* woken when the window ends, also if the write to another one has failed.
WakesUpRegardless ==
  <>[](Wants(FALSE) /\ ~exposed /\ SavedExist) => <>[]NoneKeptAsleep

\* README.md:9: "... and waking them up".  An object that was deleted in its sleep
\* does not keep the others asleep.
OthersAreWoken ==
  <>[](Wants(FALSE) /\ ~exposed /\ ~stalled) => <>[]NoneKeptAsleep

\* README.md:9: "... and waking them up".  A pass that wakes puts no object to sleep.
WakeNeverSleeps ==
  [][pc = "wake" /\ UNCHANGED edits =>
       \A o \in Objects : level[o] > 0 => level'[o] > 0]_vars

\* README.md:152: forceWake "Immediately wakes up resources that are scheduled
\* to be asleep".
ForceWakeWakes ==
  pc = "status" /\ lapp.spec.forceWake /\ ~lapp.spec.forceSleep => ~lsleep

\* The level of an object survives its sleep: it is in the secret, or the pass
\* that took it is about to save it.
NeverLost ==
  \A o \in Objects : owed[o] # None =>
    \/ secret.data[o] = owed[o]
    \/ o \in unsaved /\ tosave[o] = owed[o]
============================================================================
