-------------------------- MODULE ReconcilerProofs --------------------------
(***************************************************************************)
(* Theorems about Reconciler for any objects, kinds, replica counts and    *)
(* KronosApps, any interleaving of users, caches, failures and crashes.    *)
(***************************************************************************)
EXTENDS Reconciler, TLAPS

LEMMA LevelTypes ==
  /\ None \in MaybeLevel
  /\ 0 \in MaybeLevel
  /\ NoData \in [Objects -> MaybeLevel]
  /\ NoApp \in AppType
  /\ NoSecret \in SecretType
  /\ \A o \in Objects : LevelsOf(o) \subseteq MaybeLevel
BY ClusterAssumption, SMT
   DEF None, MaybeLevel, NoData, NoApp, AppType, NoSecret, SecretType, LevelsOf,
       NoSpec, AppSpecType

\* The status is one of those that GetNewKronosAppStatus makes.
LEMMA StatusType ==
  ASSUME NEW s \in AppSpecType, NEW sleep \in BOOLEAN, NEW holiday \in BOOLEAN
  PROVE  GetNewKronosAppStatus(s, sleep, holiday) \in Statuses
<1>1. s.forceSleep \in BOOLEAN /\ s.forceWake \in BOOLEAN
  BY DEF AppSpecType
<1>2. CASE sleep
  BY <1>1, <1>2, SMT DEF GetNewKronosAppStatus, Statuses
<1>3. CASE ~sleep
  BY <1>1, <1>3, SMT DEF GetNewKronosAppStatus, Statuses
<1> QED
  BY <1>2, <1>3

\* A pass that ends leaves its variables well typed.
LEMMA ReturnType == Return => PassTypeOK'
<1> SUFFICES ASSUME Return PROVE PassTypeOK'
  OBVIOUS
<1>1. lapp' \in AppType
  BY LevelTypes DEF Return
<1>2. lsecret' \in [Objects -> MaybeLevel]
  BY LevelTypes DEF Return
<1>3. tosave' \in [Objects -> MaybeLevel]
  BY LevelTypes DEF Return
<1>4. kind' \in 1..5
  BY DEF Return
<1>5. pc' \in {"idle", "create", "status", "sleep", "wake"}
  BY DEF Return
<1>6. todo' \in SUBSET Objects /\ left' \in SUBSET Objects /\ unsaved' \in SUBSET Objects
  BY DEF Return
<1>7. lsleep' \in BOOLEAN /\ lholiday' \in BOOLEAN /\ failed' \in BOOLEAN
        /\ anyFailed' \in BOOLEAN
  BY DEF Return
<1> QED
  BY <1>1, <1>2, <1>3, <1>4, <1>5, <1>6, <1>7 DEF PassTypeOK

LEMMA FaultType ==
  ASSUME NEW call, Fault(call), faults \in Nat
  PROVE  faults' \in Nat
BY DEF Fault

LEMMA ReturnErrorType ==
  ASSUME TypeOK, ReturnError
  PROVE  PassTypeOK' /\ queued' \in BOOLEAN /\ timer' \in BOOLEAN
           /\ stalled' \in BOOLEAN /\ exposed' \in BOOLEAN
BY ReturnType DEF ReturnError, TypeOK, QueueTypeOK, ClusterTypeOK

LEMMA SetStatusType ==
  ASSUME TypeOK, SetStatus
  PROVE  status' \in Statuses \cup {NoStatus}
<1>1. lapp.spec \in AppSpecType /\ lsleep \in BOOLEAN /\ lholiday \in BOOLEAN
  BY DEF TypeOK, PassTypeOK, AppType
<1> QED
  BY <1>1, StatusType DEF SetStatus

\* The list to save, and the secret it goes to, hold levels.
LEMMA ListTypes ==
  ASSUME TypeOK
  PROVE  /\ \A o \in Objects : LevelToSave(o) \in MaybeLevel
         /\ \A k \in Kinds :
              WithKind(lsecret, k, tosave) \in [Objects -> MaybeLevel]
BY DEF TypeOK, ClusterTypeOK, PassTypeOK, LevelToSave, WithKind

\* Users, clock and informers touch only the variables of Cluster.
LEMMA TypeEnvironment ==
  ASSUME TypeOK, Environment
  PROVE  TypeOK'
<1> USE LevelTypes, ClusterAssumption
    DEF ClusterTypeOK, storeVars, cacheVars, historyVars, Edit
<1>1. SUFFICES ClusterTypeOK'
  BY DEF Environment, TypeOK, QueueTypeOK, PassTypeOK, queueVars, localVars
<1> ClusterTypeOK
  BY DEF TypeOK
<1>2. ASSUME NEW o \in Objects, NEW v \in LevelsOf(o), EditObject(o, v)
      PROVE  ClusterTypeOK'
  BY <1>2 DEF EditObject
<1>3. ASSUME NEW s \in AppSpecs, EditApp(s)
      PROVE  ClusterTypeOK'
  BY <1>3 DEF EditApp, AppType
<1>4. CASE DeleteApp
  BY <1>4 DEF DeleteApp
<1>5. CASE DeleteSecret
  BY <1>5 DEF DeleteSecret
<1>6. ASSUME NEW c \in ClockType, TimePasses(c)
      PROVE  ClusterTypeOK'
  BY <1>6 DEF TimePasses
<1>7. ASSUME NEW o \in Objects, SyncObject(o)
      PROVE  ClusterTypeOK'
  BY <1>7 DEF SyncObject
<1>8. CASE SyncSecret
  BY <1>8 DEF SyncSecret
<1> QED
  BY <1>2, <1>3, <1>4, <1>5, <1>6, <1>7, <1>8 DEF Environment, Users


LEMMA TypeInit == Init => TypeOK
<1> SUFFICES ASSUME Init PROVE TypeOK
  OBVIOUS
<1>1. ClusterTypeOK
  <2>1. \A s \in AppSpecs : [exists |-> TRUE, spec |-> s] \in AppType
    BY ClusterAssumption DEF AppType
  <2> QED
    BY <2>1, LevelTypes DEF Init, ClusterInit, ClusterTypeOK
<1>2. QueueTypeOK
  BY DEF Init, QueueTypeOK
<1>3. PassTypeOK
  <2>1. lapp \in AppType /\ lsecret \in [Objects -> MaybeLevel]
          /\ tosave \in [Objects -> MaybeLevel]
    BY LevelTypes DEF Init
  <2>2. pc \in {"idle", "create", "status", "sleep", "wake"} /\ kind \in 1..5
    BY DEF Init
  <2>3. todo \in SUBSET Objects /\ left \in SUBSET Objects /\ unsaved \in SUBSET Objects
    BY DEF Init
  <2>4. lsleep \in BOOLEAN /\ lholiday \in BOOLEAN /\ failed \in BOOLEAN
          /\ anyFailed \in BOOLEAN
    BY DEF Init
  <2> QED
    BY <2>1, <2>2, <2>3, <2>4 DEF PassTypeOK
<1> QED
  BY <1>1, <1>2, <1>3 DEF TypeOK

LEMMA TypeStep ==
  ASSUME TypeOK, [Next]_vars
  PROVE  TypeOK'
<1> USE LevelTypes
    DEF TypeOK, ClusterTypeOK, QueueTypeOK, PassTypeOK,
        storeVars, cacheVars, historyVars, queueVars, localVars
<1>1. CASE FetchNotFound
  BY <1>1 DEF FetchNotFound, Dequeue
<1>2. CASE FetchNoSecret
  BY <1>2 DEF FetchNoSecret, Dequeue
<1>3. CASE CreateSecret
  <2>1. secret' \in SecretType
    <3>1. [exists |-> TRUE, data |-> NoData] \in SecretType
      BY DEF SecretType
    <3> QED
      BY <1>3, <3>1 DEF CreateSecret
  <2> QED
    BY <1>3, <2>1, FaultType DEF CreateSecret
<1>4. CASE PrepareFails
  BY <1>4, FaultType DEF PrepareFails, Dequeue
<1>5. CASE Decide
  BY <1>5 DEF Decide, Dequeue, IsTimeToSleep, IsHoliday, AppType, SecretType
<1>6. CASE SetStatusFails
  BY <1>6, ReturnErrorType, FaultType DEF SetStatusFails
<1>7. CASE StartSleep
  <2>1. tosave' \in [Objects -> MaybeLevel]
    BY <1>7, ListTypes DEF StartSleep
  <2>2. todo' \in SUBSET Objects /\ left' \in SUBSET Objects
    BY <1>7 DEF StartSleep, Recorded, Listed, AppType, AppSpecType
  <2> QED
    BY <1>7, <2>1, <2>2, SetStatusType DEF StartSleep
<1>8. CASE ListFails
  BY <1>8, SetStatusType, ReturnErrorType, FaultType DEF ListFails
<1>9. CASE StartWake
  BY <1>9, SetStatusType DEF StartWake, Recorded
<1>10. CASE NothingToWake
  BY <1>10, SetStatusType, ReturnType DEF NothingToWake, ReturnRequeueAfter
<1>11. CASE SaveObjectsData
  <2>1. kind \in Kinds /\ lsecret' = WithKind(lsecret, kind, tosave)
    BY <1>11 DEF SaveObjectsData, AtSave
  <2>2. lsecret' \in [Objects -> MaybeLevel]
    BY <2>1, ListTypes
  <2>3. secret' \in SecretType
    BY <1>11, <2>1, <2>2 DEF SaveObjectsData, SecretType
  <2>4. kind' \in 1..5
    BY <1>11, <2>1 DEF SaveObjectsData, Kinds
  <2> QED
    BY <1>11, <2>2, <2>3, <2>4 DEF SaveObjectsData
<1>12. CASE SaveFails
  BY <1>12, ReturnErrorType, FaultType DEF SaveFails
<1>13. CASE SkipKind
  BY <1>13 DEF SkipKind, Kinds
<1>14. CASE SleepDone
  BY <1>14, ReturnType DEF SleepDone, ReturnRequeueAfter
<1>15. CASE SleepDoneWithFailures
  BY <1>15, ReturnType DEF SleepDoneWithFailures
<1>16. CASE PurgeSecretData
  BY <1>16, ReturnType DEF PurgeSecretData, ReturnRequeueAfter, SecretType
<1>17. CASE PurgeFails
  BY <1>17, ReturnErrorType, FaultType DEF PurgeFails
<1>18. CASE TimerFires
  BY <1>18 DEF TimerFires
<1>19. CASE SyncApp
  BY <1>19 DEF SyncApp
<1>20. CASE Crash
  BY <1>20, ReturnType, FaultType DEF Crash, AppType
<1>21. ASSUME NEW o \in Objects, AlreadyAsleep(o) PROVE TypeOK'
  BY <1>21 DEF AlreadyAsleep
<1>22. ASSUME NEW o \in Objects, PutToSleep(o) PROVE TypeOK'
  BY <1>22 DEF PutToSleep
<1>23. ASSUME NEW o \in Objects, PutToSleepFails(o) PROVE TypeOK'
  BY <1>23, FaultType DEF PutToSleepFails
<1>24. ASSUME NEW o \in Objects, WakeLeftover(o) PROVE TypeOK'
  BY <1>24 DEF WakeLeftover, Restore
<1>25. ASSUME NEW o \in Objects, WakeLeftoverFails(o) PROVE TypeOK'
  BY <1>25, ReturnErrorType, FaultType DEF WakeLeftoverFails, RestoreFails
<1>26. ASSUME NEW o \in Objects, WakeObject(o) PROVE TypeOK'
  BY <1>26 DEF WakeObject, Restore
<1>27. ASSUME NEW o \in Objects, WakeObjectFails(o) PROVE TypeOK'
  BY <1>27, ReturnErrorType, FaultType DEF WakeObjectFails, RestoreFails
<1>28. CASE Environment
  BY <1>28, TypeEnvironment
<1>29. CASE UNCHANGED vars
  BY <1>29 DEF vars
<1> QED
  BY <1>1, <1>2, <1>3, <1>4, <1>5, <1>6, <1>7, <1>8, <1>9, <1>10, <1>11,
     <1>12, <1>13, <1>14, <1>15, <1>16, <1>17, <1>18, <1>19, <1>20, <1>21,
     <1>22, <1>23, <1>24, <1>25, <1>26, <1>27, <1>28, <1>29
     DEF Next, Worker, Fetch, Branch, Sleep, Wake

\* Every variable has its type in every reachable state.
THEOREM TypeCorrect == Spec => []TypeOK
<1>1. TypeOK /\ [Next]_vars => TypeOK'
  BY TypeStep
<1> QED
  BY <1>1, TypeInit, PTL DEF Spec

----------------------------------------------------------------------------
(* No level is lost.  Custody is inductive: most steps leave alone what it *)
(* speaks of or end the pass, and the others are taken one by one.         *)

\* A step that only shortens the list of objects to put to sleep.
LEMMA CustodyKept ==
  ASSUME Custody,
         UNCHANGED <<secret, owed, exposed, pc, lsecret, left, tosave, kind, unsaved>>,
         todo' \subseteq todo,
         pc = "wake" => todo' = todo
  PROVE  Custody'
BY DEF Custody, Recoverable, SleepCustody, WakeCustody

\* A step that ends the pass, with nothing unsaved or exposed by it.
LEMMA CustodyAtReturn ==
  ASSUME Custody, Return, UNCHANGED <<secret, owed>>,
         exposed => exposed', unsaved # {} => exposed'
  PROVE  Custody'
BY DEF Custody, Recoverable, Return

LEMMA CustodyAtReturnError ==
  ASSUME TypeOK, Custody, ReturnError, UNCHANGED <<secret, owed>>
  PROVE  Custody'
<1>1. Return /\ exposed' = (exposed \/ unsaved # {})
  BY DEF ReturnError
<1> QED
  BY <1>1, CustodyAtReturn

\* At the last kind every list has been saved.
LEMMA NothingUnsaved ==
  ASSUME TypeOK, Custody, pc = "sleep", kind = 5
  PROVE  unsaved = {}
<1>1. \A o \in Objects : KindOf[o] # 5
  BY ClusterAssumption DEF ClusterAssumption, Kinds
<1> QED
  BY <1>1 DEF Custody, SleepCustody, TypeOK, PassTypeOK

\* Giving a level back.
LEMMA CustodyRestore ==
  ASSUME TypeOK, Custody, NEW o \in Objects, Restore(o),
         UNCHANGED <<secret, exposed, pc, lsecret, tosave, kind, unsaved>>,
         \/ /\ pc = "sleep"
            /\ o \in left /\ left' = left \ {o} /\ todo' = todo
         \/ /\ pc = "wake"
            /\ todo' = todo \ {o} /\ left' = left
  PROVE  Custody'
<1>1. /\ \A x \in Objects \ {o} : owed'[x] = owed[x]
      /\ owed'[o] = IF lsecret[o] = owed[o] THEN None ELSE owed[o]
  BY DEF Restore, TypeOK, ClusterTypeOK
<1>2. o \notin unsaved
  BY DEF Custody, SleepCustody
<1>3. secret.data = lsecret /\ ~exposed => owed'[o] = None
  BY <1>1, <1>2 DEF Custody, Recoverable
<1>4. Recoverable'
  BY <1>1 DEF Custody, Recoverable
<1>5. CASE pc = "sleep"
  <2>1. SleepCustody'
    BY <1>1, <1>3, <1>5 DEF Custody, SleepCustody
  <2> QED
    BY <1>4, <1>5, <2>1 DEF Custody
<1>6. CASE pc = "wake"
  <2>1. WakeCustody'
    BY <1>1, <1>3, <1>6 DEF Custody, WakeCustody
  <2> QED
    BY <1>4, <1>6, <2>1 DEF Custody
<1> QED
  BY <1>5, <1>6

LEMMA CustodyStartSleep ==
  ASSUME TypeOK, Custody, StartSleep
  PROVE  Custody'
<1>1. /\ pc = "status" /\ pc' = "sleep" /\ kind' = 1
      /\ UNCHANGED <<secret, owed, exposed, lsecret, unsaved>>
  BY DEF StartSleep, SetStatus, historyVars, storeVars
<1>2. unsaved = {}
  BY <1>1 DEF Custody
<1>3. ASSUME NEW o \in Objects
      PROVE  /\ o \in Listed(lapp.spec) =>
                  /\ tosave'[o] # None
                  /\ lsecret[o] # None => tosave'[o] = lsecret[o]
             /\ o \notin Listed(lapp.spec) => tosave'[o] = None
  BY DEF StartSleep, Listed, LevelToSave, Recorded
<1>4. todo' \subseteq Listed(lapp.spec) /\ left' \cap Listed(lapp.spec) = {}
  BY DEF StartSleep
<1>5. left' \subseteq Objects /\ todo' \subseteq Objects
  BY DEF StartSleep, Recorded, Listed, TypeOK, PassTypeOK, AppType, AppSpecType
<1>6. ASSUME NEW o \in Objects, lsecret[o] # None, o \notin Listed(lapp.spec)
      PROVE  o \in left'
  BY <1>6 DEF StartSleep, Recorded
<1>7. SleepCustody'
  BY <1>1, <1>2, <1>3, <1>4, <1>5, <1>6 DEF SleepCustody
<1>8. Recoverable'
  BY <1>1, <1>2 DEF Custody, Recoverable
<1> QED
  BY <1>1, <1>7, <1>8 DEF Custody

LEMMA CustodyStartWake ==
  ASSUME TypeOK, Custody, StartWake
  PROVE  Custody'
<1>1. /\ pc = "status" /\ pc' = "wake" /\ todo' = Recorded(lsecret)
      /\ UNCHANGED <<secret, owed, exposed, lsecret, unsaved, tosave>>
  BY DEF StartWake, SetStatus, historyVars, storeVars
<1>2. unsaved = {}
  BY <1>1 DEF Custody
<1>3. lsecret # NoData
  BY DEF StartWake, Recorded, NoData
<1>4. secret.data = lsecret /\ ~exposed =>
        \A o \in Objects \ Recorded(lsecret) : owed[o] = None
  BY <1>2 DEF Custody, Recoverable, Recorded
<1>5. WakeCustody'
  BY <1>1, <1>3, <1>4 DEF WakeCustody
<1> QED
  BY <1>1, <1>2, <1>5 DEF Custody, Recoverable

\* The level that goes on the way to the secret is the one that is taken, or
\* the step is marked.
LEMMA CustodyPutToSleep ==
  ASSUME TypeOK, Custody, NEW o \in Objects, PutToSleep(o)
  PROVE  Custody'
<1>1. /\ pc = "sleep" /\ o \in todo /\ KindOf[o] = kind /\ todo' = todo \ {o}
      /\ unsaved' = unsaved \cup {o}
      /\ exposed' = (exposed \/ level[o] # tosave[o])
      /\ UNCHANGED <<secret, pc, lsecret, kind, left, tosave>>
  BY DEF PutToSleep
<1>2. SleepCustody /\ Recoverable
  BY <1>1 DEF Custody
<1>3. tosave[o] # None /\ tosave[o] # 0
  BY <1>1, <1>2 DEF PutToSleep, SleepCustody
<1>4. /\ \A x \in Objects \ {o} : owed'[x] = owed[x]
      /\ ~exposed' => owed'[o] = tosave[o]
  BY <1>1, <1>3 DEF PutToSleep, TypeOK, ClusterTypeOK
<1>5. ~exposed' => ~exposed
  BY <1>1 DEF TypeOK, ClusterTypeOK
<1>6. Recoverable'
  BY <1>1, <1>2, <1>4, <1>5 DEF Recoverable
<1>7. SleepCustody'
  BY <1>1, <1>2, <1>3, <1>4, <1>5 DEF SleepCustody
<1> QED
  BY <1>1, <1>6, <1>7 DEF Custody

\* Writing a kind's list from a copy that was not stale.
LEMMA CustodySave ==
  ASSUME TypeOK, Custody, SaveObjectsData
  PROVE  Custody'
<1>1. /\ pc = "sleep" /\ kind \in Kinds /\ kind' = kind + 1
      /\ left \cap InKind(kind) = {}
      /\ secret.exists
      /\ unsaved' = unsaved \ InKind(kind)
      /\ exposed' = (exposed \/ secret.data # lsecret)
      /\ lsecret' = WithKind(lsecret, kind, tosave)
      /\ secret' = [secret EXCEPT !.data = WithKind(lsecret, kind, tosave)]
      /\ UNCHANGED <<pc, owed, todo, left, tosave>>
  BY DEF SaveObjectsData, AtSave
<1>2. secret'.exists /\ secret'.data = lsecret'
  BY <1>1 DEF TypeOK, ClusterTypeOK, SecretType
<1>3. \A o \in Objects :
        lsecret'[o] = IF KindOf[o] = kind THEN tosave[o] ELSE lsecret[o]
  BY <1>1 DEF WithKind
<1>4. SleepCustody /\ Recoverable
  BY <1>1 DEF Custody
<1>5. unsaved' = {}
  BY <1>1, <1>4 DEF SleepCustody, InKind, TypeOK, PassTypeOK
<1>6. ~exposed' => ~exposed /\ secret.data = lsecret
  BY <1>1 DEF TypeOK, ClusterTypeOK
<1>7. ASSUME ~exposed', NEW o \in Objects, owed[o] # None
      PROVE  secret'.data[o] = owed[o]
  <2>1. CASE o \in unsaved /\ tosave[o] = owed[o]
    BY <1>2, <1>3, <1>4, <2>1 DEF SleepCustody
  <2>2. CASE secret.data[o] = owed[o] /\ KindOf[o] # kind
    BY <1>2, <1>3, <1>6, <1>7, <2>2
  <2>3. CASE secret.data[o] = owed[o] /\ KindOf[o] = kind
    <3>1. lsecret[o] = owed[o] /\ o \notin left
      BY <1>1, <1>6, <1>7, <2>3 DEF InKind
    <3>2. tosave[o] # None
      BY <1>4, <1>6, <1>7, <3>1 DEF SleepCustody
    <3> QED
      BY <1>2, <1>3, <1>4, <1>7, <2>3, <3>1, <3>2 DEF SleepCustody
  <2> QED
    BY <1>4, <1>6, <1>7, <2>1, <2>2, <2>3 DEF Recoverable
<1>8. Recoverable'
  BY <1>1, <1>7 DEF Recoverable
<1>9. SleepCustody'
  BY <1>1, <1>3, <1>4, <1>5, <1>6 DEF SleepCustody
<1> QED
  BY <1>1, <1>2, <1>5, <1>8, <1>9 DEF Custody

\* A kind of which nothing is listed has nothing unsaved.
LEMMA CustodySkip ==
  ASSUME TypeOK, Custody, SkipKind
  PROVE  Custody'
<1>1. /\ pc = "sleep" /\ ~KindListed
      /\ UNCHANGED <<secret, owed, exposed, pc, lsecret, todo, left, tosave, unsaved>>
  BY DEF SkipKind, historyVars, storeVars
<1>2. SleepCustody /\ Recoverable
  BY <1>1 DEF Custody
<1>3. unsaved = {}
  BY <1>1, <1>2 DEF SleepCustody, KindListed, InKind, TypeOK, PassTypeOK
<1> QED
  BY <1>1, <1>2, <1>3 DEF Custody, SleepCustody, Recoverable

\* The secret is emptied when nothing is owed any more.
LEMMA CustodyPurge ==
  ASSUME TypeOK, Custody, PurgeSecretData
  PROVE  Custody'
<1>1. /\ pc = "wake" /\ todo = {} /\ secret.exists /\ secret.data = lsecret
      /\ secret' = [secret EXCEPT !.data = NoData]
      /\ pc' = "idle" /\ unsaved' = {}
      /\ UNCHANGED <<owed, exposed>>
  BY DEF PurgeSecretData, ReturnRequeueAfter, Return, historyVars
<1>2. secret'.exists
  BY <1>1 DEF TypeOK, ClusterTypeOK, SecretType
<1>3. ~exposed => \A o \in Objects : owed[o] = None
  BY <1>1 DEF Custody, WakeCustody
<1> QED
  BY <1>1, <1>2, <1>3 DEF Custody, Recoverable

LEMMA CustodyCreateSecret ==
  ASSUME TypeOK, Custody, CreateSecret
  PROVE  Custody'
<1>1. /\ pc = "create" /\ pc' = "idle"
      /\ UNCHANGED <<owed, exposed, unsaved, tosave>>
  BY DEF CreateSecret, historyVars, localVars
<1>2. \/ secret' = secret
      \/ ~secret.exists /\ secret' = [exists |-> TRUE, data |-> NoData]
  BY DEF CreateSecret
<1>3. secret'.data = secret.data /\ (~secret'.exists => ~secret.exists)
  BY <1>2 DEF Custody
<1> QED
  BY <1>1, <1>3 DEF Custody, Recoverable

LEMMA CustodyEnvironment ==
  ASSUME TypeOK, Custody, Environment
  PROVE  Custody'
<1>1. UNCHANGED <<pc, lsecret, todo, left, tosave, kind, unsaved>>
  BY DEF Environment, localVars
<1>2. ASSUME NEW o \in Objects, NEW v \in LevelsOf(o), EditObject(o, v)
      PROVE  Custody'
  <2>1. UNCHANGED <<secret, exposed>>
    BY <1>2 DEF EditObject
  <2>2. \A x \in Objects : owed'[x] = owed[x] \/ owed'[x] = None
    BY <1>2 DEF EditObject, TypeOK, ClusterTypeOK
  <2> QED
    BY <1>1, <2>1, <2>2 DEF Custody, Recoverable, SleepCustody, WakeCustody
<1>3. CASE DeleteSecret
  <2>1. /\ secret' = NoSecret
        /\ exposed' = (exposed \/ secret.data # NoData)
        /\ owed' = owed
    BY <1>3 DEF DeleteSecret
  <2>2. secret'.data = NoData
    BY <2>1 DEF NoSecret
  <2>3. ~exposed' => ~exposed /\ secret.data = NoData
    BY <2>1 DEF TypeOK, ClusterTypeOK
  <2> QED
    BY <1>1, <2>1, <2>2, <2>3 DEF Custody, Recoverable, SleepCustody, WakeCustody
<1>4. CASE UNCHANGED <<secret, owed, exposed>>
  BY <1>1, <1>4, CustodyKept
<1>5. \/ \E o \in Objects : \E v \in LevelsOf(o) : EditObject(o, v)
      \/ DeleteSecret
      \/ UNCHANGED <<secret, owed, exposed>>
  BY DEF Environment, Users, EditApp, DeleteApp, TimePasses, SyncObject, SyncSecret,
         storeVars, historyVars
<1> QED
  BY <1>2, <1>3, <1>4, <1>5

LEMMA CustodyInit == Init => Custody
BY DEF Init, ClusterInit, Custody, Recoverable, NoSecret

LEMMA CustodyStep ==
  ASSUME TypeOK, Custody, [Next]_vars
  PROVE  Custody'
<1> USE DEF storeVars, historyVars, localVars
<1>1. CASE FetchNotFound \/ PrepareFails
  BY <1>1, CustodyKept DEF FetchNotFound, PrepareFails
<1>2. CASE FetchNoSecret \/ Decide
  BY <1>2 DEF FetchNoSecret, Decide, Dequeue, Custody, Recoverable
<1>3. CASE CreateSecret
  BY <1>3, CustodyCreateSecret
<1>4. CASE SetStatusFails \/ ListFails \/ SaveFails \/ PurgeFails
  BY <1>4, CustodyAtReturnError DEF SetStatusFails, ListFails, SaveFails, PurgeFails
<1>5. CASE StartSleep
  BY <1>5, CustodyStartSleep
<1>6. CASE StartWake
  BY <1>6, CustodyStartWake
<1>7. CASE NothingToWake
  <2>1. unsaved = {}
    BY <1>7 DEF NothingToWake, SetStatus, Custody
  <2> QED
    BY <1>7, <2>1, CustodyAtReturn DEF NothingToWake, ReturnRequeueAfter
<1>8. ASSUME NEW o \in Objects, AlreadyAsleep(o) \/ PutToSleepFails(o)
      PROVE  Custody'
  BY <1>8, CustodyKept DEF AlreadyAsleep, PutToSleepFails
<1>9. ASSUME NEW o \in Objects, PutToSleep(o)
      PROVE  Custody'
  BY <1>9, CustodyPutToSleep
<1>10. ASSUME NEW o \in Objects, WakeLeftover(o) \/ WakeObject(o)
       PROVE  Custody'
  BY <1>10, CustodyRestore DEF WakeLeftover, AtLeftover, WakeObject
<1>11. ASSUME NEW o \in Objects, WakeLeftoverFails(o) \/ WakeObjectFails(o)
       PROVE  Custody'
  BY <1>11, CustodyAtReturnError DEF WakeLeftoverFails, WakeObjectFails
<1>12. CASE SaveObjectsData
  BY <1>12, CustodySave
<1>13. CASE SkipKind
  BY <1>13, CustodySkip
<1>14. CASE SleepDone \/ SleepDoneWithFailures
  <2>1. unsaved = {}
    BY <1>14, NothingUnsaved DEF SleepDone, SleepDoneWithFailures
  <2> QED
    BY <1>14, <2>1, CustodyAtReturn
       DEF SleepDone, SleepDoneWithFailures, ReturnRequeueAfter
<1>15. CASE PurgeSecretData
  BY <1>15, CustodyPurge
<1>16. CASE TimerFires \/ SyncApp
  BY <1>16, CustodyKept DEF TimerFires, SyncApp
<1>17. CASE Crash
  BY <1>17, CustodyAtReturn DEF Crash
<1>18. CASE Environment
  BY <1>18, CustodyEnvironment
<1>19. CASE UNCHANGED vars
  BY <1>19, CustodyKept DEF vars
<1> QED
  BY <1>1, <1>2, <1>3, <1>4, <1>5, <1>6, <1>7, <1>8, <1>9, <1>10, <1>11, <1>12,
     <1>13, <1>14, <1>15, <1>16, <1>17, <1>18, <1>19
     DEF Next, Worker, Fetch, Branch, Sleep, Wake

\* Custody holds in every reachable state.
THEOREM CustodyHolds == Spec => []Custody
<1>1. TypeOK /\ Custody /\ [Next]_vars => Custody'
  BY CustodyStep
<1> QED
  BY <1>1, CustodyInit, TypeCorrect, PTL DEF Spec

\* Every level taken from an object and not given back is in the secret or about
\* to be saved by the pass that took it, unless one of the marked windows was
\* hit: for every set of objects and kinds, every replica count, any number of
\* edits, failures, crashes and stale reads.
THEOREM LevelsAreRecoverable == Spec => []Recoverable
<1>1. Custody => Recoverable
  BY DEF Custody
<1> QED
  BY <1>1, CustodyHolds, PTL
----------------------------------------------------------------------------
(* A saved level does not change.                                          *)

\* The steps that write the secret are four.
LEMMA SecretWriters ==
  ASSUME [Next]_vars
  PROVE  \/ secret' = secret
         \/ CreateSecret
         \/ SaveObjectsData
         \/ PurgeSecretData
         \/ Environment /\ DeleteSecret
<1> USE DEF storeVars
<1>1. CASE Fetch
  BY <1>1 DEF Fetch, FetchNotFound, FetchNoSecret, PrepareFails, Decide
<1>2. CASE Branch
  BY <1>2 DEF Branch, SetStatusFails, StartSleep, ListFails, StartWake, NothingToWake
<1>3. CASE Sleep
  BY <1>3 DEF Sleep, AlreadyAsleep, PutToSleep, PutToSleepFails, WakeLeftover,
              WakeLeftoverFails, SaveFails, SkipKind, SleepDone, SleepDoneWithFailures
<1>4. CASE Wake
  BY <1>4 DEF Wake, WakeObject, WakeObjectFails, PurgeFails
<1>5. CASE Environment
  BY <1>5 DEF Environment, Users, EditObject, EditApp, DeleteApp, TimePasses,
              SyncObject, SyncSecret
<1>6. CASE TimerFires \/ SyncApp \/ Crash
  BY <1>6 DEF TimerFires, SyncApp, Crash
<1>7. CASE UNCHANGED vars
  BY <1>7 DEF vars
<1> QED
  BY <1>1, <1>2, <1>3, <1>4, <1>5, <1>6, <1>7 DEF Next, Worker

\* A saved level is kept as it is until its object no longer waits for it.
LEMMA RecordKept ==
  ASSUME TypeOK, Custody, [Next]_vars, ~exposed',
         NEW o \in Objects, secret.data[o] # None
  PROVE  \/ secret'.data[o] = secret.data[o]
         \/ secret'.data[o] = None /\ owed'[o] = None
<1>1. CASE secret' = secret
  BY <1>1
<1>2. CASE CreateSecret
  <2>1. secret.exists
    BY DEF Custody, NoData
  <2> QED
    BY <1>2, <2>1 DEF CreateSecret
<1>3. CASE SaveObjectsData
  <2>1. /\ pc = "sleep" /\ ~exposed /\ secret.data = lsecret /\ owed' = owed
        /\ left \cap InKind(kind) = {}
        /\ secret'.data = WithKind(lsecret, kind, tosave)
    BY <1>3 DEF SaveObjectsData, AtSave, TypeOK, ClusterTypeOK, SecretType
  <2>2. SleepCustody
    BY <2>1 DEF Custody
  <2>3. secret'.data[o] = IF KindOf[o] = kind THEN tosave[o] ELSE lsecret[o]
    BY <2>1 DEF WithKind
  <2> QED
    BY <2>1, <2>2, <2>3 DEF SleepCustody, InKind
<1>4. CASE PurgeSecretData
  <2>1. /\ pc = "wake" /\ todo = {} /\ secret.data = lsecret /\ ~exposed
        /\ owed' = owed /\ secret'.data = NoData
    BY <1>4 DEF PurgeSecretData, historyVars, TypeOK, ClusterTypeOK, SecretType
  <2>2. owed[o] = None
    BY <2>1 DEF Custody, WakeCustody
  <2> QED
    BY <2>1, <2>2 DEF NoData
<1>5. CASE Environment /\ DeleteSecret
  BY <1>5 DEF DeleteSecret, NoData
<1> QED
  BY <1>1, <1>2, <1>3, <1>4, <1>5, SecretWriters

\* No step replaces a saved level, or drops one that is owed, outside the marked
\* windows.
THEOREM RecordsAreStable == Spec => RecordStable
<1>1. TypeOK /\ Custody /\ [Next]_vars =>
        [~exposed' =>
           \A o \in Objects : secret.data[o] # None =>
             \/ secret'.data[o] = secret.data[o]
             \/ secret'.data[o] = None /\ owed'[o] = None]_vars
  BY RecordKept
<1> QED
  BY <1>1, TypeCorrect, CustodyHolds, PTL DEF Spec, RecordStable
----------------------------------------------------------------------------
(* The request is not lost.                                                *)

\* Every pass but one with failed sleep writes leaves the request queued or a
\* timer pending, and every watch event and restart queues it again.
THEOREM NeverForgotten == Spec => []NotForgotten
<1>1. Init => NotForgotten
  BY DEF Init, NotForgotten
<1>2. TypeOK /\ NotForgotten /\ [Next]_vars => NotForgotten'
  <2> SUFFICES ASSUME TypeOK, NotForgotten, [Next]_vars PROVE NotForgotten'
    OBVIOUS
  <2> USE DEF NotForgotten, queueVars, cacheVars
  <2>1. CASE Fetch
    BY <2>1 DEF Fetch, Dequeue, FetchNotFound, FetchNoSecret, CreateSecret,
                PrepareFails, Decide
  <2>2. CASE Branch
    BY <2>2 DEF Branch, SetStatusFails, StartSleep, ListFails, StartWake,
                NothingToWake, ReturnError, ReturnRequeueAfter
  <2>3. CASE Sleep
    BY <2>3 DEF Sleep, AlreadyAsleep, PutToSleep, PutToSleepFails, AtLeftover,
                WakeLeftover, WakeLeftoverFails, AtSave, SaveObjectsData, SaveFails,
                SkipKind, SleepDone, SleepDoneWithFailures, ReturnError,
                ReturnRequeueAfter
  <2>4. CASE Wake
    BY <2>4 DEF Wake, WakeObject, WakeObjectFails, PurgeSecretData, PurgeFails,
                ReturnError, ReturnRequeueAfter
  <2>5. CASE Environment
    BY <2>5 DEF Environment, Users, EditObject, EditApp, DeleteApp, DeleteSecret,
                TimePasses, SyncObject, SyncSecret
  <2>6. CASE TimerFires \/ SyncApp \/ Crash
    BY <2>6 DEF TimerFires, SyncApp, Crash, TypeOK, ClusterTypeOK, AppType
  <2>7. CASE UNCHANGED vars
    BY <2>7 DEF vars
  <2> QED
    BY <2>1, <2>2, <2>3, <2>4, <2>5, <2>6, <2>7 DEF Next, Worker
<1> QED
  BY <1>1, <1>2, TypeCorrect, PTL DEF Spec
============================================================================
