-------------------------- MODULE CustodianProofs --------------------------
(***************************************************************************)
(* The controller implements Custodian, for any objects, kinds, replica    *)
(* counts and KronosApps.  Fidelity, with the Custody of ReconcilerProofs, *)
(* is inductive; a step that satisfies both maps to a step of Custodian.   *)
(***************************************************************************)
EXTENDS CustodianRefinement, ReconcilerProofs

\* A step that leaves levels, secrets and copies alone and shortens the lists.
LEMMA FidelityKept ==
  ASSUME Fidelity,
         UNCHANGED <<level, owed, exposed, secret, csecret, pc, lsecret, kind,
                     tosave, unsaved>>,
         todo' \subseteq todo, left' \subseteq left
  PROVE  Fidelity'
<1>1. ListsMatch'
  BY DEF Fidelity, ListsMatch, Recorded
<1>2. ~exposed' => SleepersSleep' /\ CopiesAgree' /\ CacheBehindPass'
  BY DEF Fidelity, SleepersSleep, CopiesAgree, CacheBehindPass
<1> QED
  BY <1>1, <1>2 DEF Fidelity

\* A step that ends the pass; a crash lists the secret anew.
LEMMA FidelityAtReturn ==
  ASSUME TypeOK, Custody, Fidelity, Return, UNCHANGED <<level, owed, secret>>,
         csecret' = csecret \/ csecret' = secret,
         exposed' = (exposed \/ unsaved # {})
  PROVE  Fidelity'
<1>1. ListsMatch'
  BY DEF Return, ListsMatch
<1>2. ASSUME ~exposed'
      PROVE  SleepersSleep' /\ CopiesAgree' /\ CacheBehindPass'
  <2>1. ~exposed /\ unsaved = {}
    BY <1>2
  <2>2. pc' = "idle" /\ unsaved' = {}
    BY DEF Return
  <2>3. \A o \in Objects : owed[o] # None => secret.data[o] = owed[o]
    BY <2>1 DEF Custody, Recoverable
  <2>4. SleepersSleep /\ CopiesAgree
    BY <2>1 DEF Fidelity
  <2> QED
    BY <2>1, <2>2, <2>3, <2>4 DEF SleepersSleep, CopiesAgree, CacheBehindPass
<1> QED
  BY <1>1, <1>2 DEF Fidelity

LEMMA FidelityAtReturnError ==
  ASSUME TypeOK, Custody, Fidelity, ReturnError,
         UNCHANGED <<level, owed, secret, csecret>>
  PROVE  Fidelity'
BY FidelityAtReturn DEF ReturnError

\* A pass that ends with nothing unsaved.
LEMMA FidelityAtQuietReturn ==
  ASSUME TypeOK, Custody, Fidelity, Return, unsaved = {},
         UNCHANGED <<level, owed, secret, csecret, exposed>>
  PROVE  Fidelity'
BY FidelityAtReturn DEF TypeOK, ClusterTypeOK

LEMMA FidelityInit == Init => Fidelity
BY DEF Init, ClusterInit, Fidelity, ListsMatch, SleepersSleep, CopiesAgree,
       CacheBehindPass

\* The pass takes its copy of the secret from the cache.
LEMMA FidelityDecide ==
  ASSUME TypeOK, Custody, Fidelity, Decide
  PROVE  Fidelity'
<1>1. /\ pc = "idle" /\ pc' = "status" /\ lsecret' = csecret.data
      /\ UNCHANGED <<level, owed, exposed, secret, csecret, tosave, unsaved>>
  BY DEF Decide, Dequeue, storeVars, cacheVars, historyVars
<1>2. unsaved = {}
  BY <1>1 DEF Custody
<1> QED
  BY <1>1, <1>2
     DEF Fidelity, ListsMatch, SleepersSleep, CopiesAgree, CacheBehindPass

LEMMA FidelityStartSleep ==
  ASSUME TypeOK, Custody, Fidelity, StartSleep
  PROVE  Fidelity'
<1>1. /\ pc = "status" /\ pc' = "sleep" /\ kind' = 1
      /\ left' \subseteq Recorded(lsecret) /\ todo' \cap Recorded(lsecret) = {}
      /\ UNCHANGED <<level, owed, exposed, secret, csecret, lsecret, unsaved>>
  BY DEF StartSleep, SetStatus, storeVars, cacheVars, historyVars
<1>2. unsaved = {}
  BY <1>1 DEF Custody
<1>3. ListsMatch'
  BY <1>1 DEF ListsMatch, Recorded
<1> QED
  BY <1>1, <1>2, <1>3 DEF Fidelity, SleepersSleep, CopiesAgree, CacheBehindPass

LEMMA FidelityStartWake ==
  ASSUME TypeOK, Custody, Fidelity, StartWake
  PROVE  Fidelity'
<1>1. /\ pc = "status" /\ pc' = "wake" /\ todo' = Recorded(lsecret)
      /\ UNCHANGED <<level, owed, exposed, secret, csecret, lsecret, unsaved, tosave>>
  BY DEF StartWake, SetStatus, storeVars, cacheVars, historyVars
<1> QED
  BY <1>1 DEF Fidelity, ListsMatch, Recorded, SleepersSleep, CopiesAgree,
              CacheBehindPass

LEMMA FidelityPutToSleep ==
  ASSUME TypeOK, Custody, Fidelity, NEW o \in Objects, PutToSleep(o)
  PROVE  Fidelity'
<1>1. /\ pc = "sleep" /\ o \in todo /\ todo' = todo \ {o}
      /\ tosave[o] # 0 /\ level' = [level EXCEPT ![o] = 0]
      /\ owed' = [owed EXCEPT ![o] = IF level[o] = 0 THEN owed[o] ELSE level[o]]
      /\ unsaved' = unsaved \cup {o}
      /\ exposed' = (exposed \/ level[o] # tosave[o])
      /\ UNCHANGED <<secret, csecret, pc, lsecret, kind, left, tosave>>
  BY DEF PutToSleep, cacheVars
<1>2. lsecret[o] = None
  BY <1>1 DEF Fidelity, ListsMatch, Recorded
<1>3. ListsMatch'
  BY <1>1 DEF Fidelity, ListsMatch, Recorded
<1>4. ASSUME ~exposed'
      PROVE  SleepersSleep' /\ CopiesAgree' /\ CacheBehindPass'
  <2>1. ~exposed /\ level[o] = tosave[o]
    BY <1>1, <1>4
  <2>2. SleepersSleep /\ CopiesAgree /\ CacheBehindPass
    BY <2>1 DEF Fidelity
  <2>3. /\ level'[o] = 0 /\ owed'[o] = tosave[o]
        /\ \A x \in Objects \ {o} : level'[x] = level[x] /\ owed'[x] = owed[x]
    BY <1>1, <2>1 DEF TypeOK, ClusterTypeOK
  <2>4. SleepersSleep'
    BY <1>1, <1>2, <2>2, <2>3 DEF SleepersSleep
  <2>5. CopiesAgree'
    BY <1>1, <2>2, <2>3 DEF CopiesAgree
  <2>6. CacheBehindPass'
    BY <1>1, <2>2 DEF CacheBehindPass
  <2> QED
    BY <2>4, <2>5, <2>6
<1> QED
  BY <1>3, <1>4 DEF Fidelity

\* Giving a level back: the pass's copy has the level the object waits for.
LEMMA FidelityRestore ==
  ASSUME TypeOK, Custody, Fidelity, NEW o \in Objects, Restore(o),
         UNCHANGED <<secret, csecret, exposed, pc, lsecret, tosave, kind, unsaved>>,
         pc \in {"sleep", "wake"},
         lsecret[o] # None, o \notin unsaved,
         todo' \subseteq todo, left' \subseteq left
  PROVE  /\ Fidelity'
         /\ ~exposed => owed[o] \in {None, lsecret[o]} /\ owed'[o] = None
<1>1. /\ \A x \in Objects \ {o} : level'[x] = level[x] /\ owed'[x] = owed[x]
      /\ level'[o] = lsecret[o]
      /\ owed'[o] = IF lsecret[o] = owed[o] THEN None ELSE owed[o]
  BY DEF Restore, TypeOK, ClusterTypeOK
<1>2. ListsMatch'
  BY DEF Fidelity, ListsMatch, Recorded
<1>3. ASSUME ~exposed
      PROVE  owed[o] \in {None, lsecret[o]} /\ owed'[o] = None
  BY <1>1, <1>3 DEF Fidelity, CopiesAgree
<1>4. ASSUME ~exposed
      PROVE  SleepersSleep' /\ CopiesAgree' /\ CacheBehindPass'
  BY <1>1, <1>3, <1>4 DEF Fidelity, SleepersSleep, CopiesAgree, CacheBehindPass
<1> QED
  BY <1>2, <1>3, <1>4 DEF Fidelity

\* What is restored is recorded in the pass's copy, and was saved before it.
LEMMA RestoredIsRecorded ==
  ASSUME TypeOK, Custody, Fidelity, NEW o \in Objects,
         \/ pc = "sleep" /\ o \in left
         \/ pc = "wake" /\ o \in todo
  PROVE  lsecret[o] # None /\ o \notin unsaved
<1>1. lsecret[o] # None
  BY DEF Fidelity, ListsMatch, Recorded
<1>2. o \notin unsaved
  BY DEF Custody, SleepCustody
<1> QED
  BY <1>1, <1>2

LEMMA FidelitySave ==
  ASSUME TypeOK, Custody, Fidelity, SaveObjectsData
  PROVE  Fidelity'
<1>1. /\ pc = "sleep" /\ kind \in Kinds /\ kind' = kind + 1
      /\ todo \cap InKind(kind) = {} /\ left \cap InKind(kind) = {}
      /\ unsaved' = unsaved \ InKind(kind)
      /\ exposed' = (exposed \/ secret.data # lsecret)
      /\ lsecret' = WithKind(lsecret, kind, tosave)
      /\ secret' = [secret EXCEPT !.data = WithKind(lsecret, kind, tosave)]
      /\ UNCHANGED <<pc, level, owed, csecret, todo, left, tosave>>
  BY DEF SaveObjectsData, AtSave, cacheVars
<1>2. secret'.data = lsecret'
  BY <1>1 DEF TypeOK, ClusterTypeOK, SecretType
<1>3. \A o \in Objects : KindOf[o] # kind => lsecret'[o] = lsecret[o]
  BY <1>1 DEF WithKind
<1>4. unsaved' = {} /\ \A o \in unsaved : KindOf[o] = kind
  BY <1>1 DEF Custody, SleepCustody, InKind, TypeOK, PassTypeOK
<1>5. ListsMatch'
  BY <1>1, <1>3 DEF Fidelity, ListsMatch, Recorded, InKind, TypeOK, PassTypeOK
<1>6. ASSUME ~exposed'
      PROVE  SleepersSleep' /\ CopiesAgree' /\ CacheBehindPass'
  <2>1. ~exposed /\ secret.data = lsecret
    BY <1>1, <1>6
  <2>2. SleepersSleep /\ CopiesAgree /\ CacheBehindPass
    BY <2>1 DEF Fidelity
  <2>3. Recoverable'
    BY CustodySave DEF Custody
  <2>4. \A o \in Objects : owed[o] # None => lsecret'[o] = owed[o]
    BY <1>1, <1>2, <1>4, <1>6, <2>3 DEF Recoverable
  <2>5. \A o \in unsaved : csecret.data[o] = None
    BY <1>1, <1>4, <2>1, <2>2
       DEF SleepersSleep, CacheBehindPass, TypeOK, PassTypeOK, Kinds
  <2>6. CopiesAgree'
    BY <1>1, <1>4, <2>2, <2>4, <2>5 DEF CopiesAgree
  <2>7. SleepersSleep'
    BY <1>1, <1>4, <2>2 DEF SleepersSleep
  <2>8. CacheBehindPass'
    <3>1. \A o \in Objects : KindOf[o] \in Kinds
      BY ClusterAssumption DEF ClusterAssumption
    <3> QED
      BY <1>1, <1>3, <2>1, <2>2, <3>1 DEF CacheBehindPass, Kinds
  <2> QED
    BY <2>6, <2>7, <2>8
<1> QED
  BY <1>5, <1>6 DEF Fidelity

LEMMA FidelitySkip ==
  ASSUME TypeOK, Custody, Fidelity, SkipKind
  PROVE  Fidelity'
<1>1. /\ pc = "sleep" /\ kind \in Kinds /\ kind' = kind + 1
      /\ UNCHANGED <<level, owed, exposed, secret, csecret, pc, lsecret, todo,
                     left, tosave, unsaved>>
  BY DEF SkipKind, storeVars, cacheVars, historyVars
<1>2. \A o \in Objects : KindOf[o] \in Kinds
  BY ClusterAssumption DEF ClusterAssumption
<1>3. CacheBehindPass => CacheBehindPass'
  BY <1>1, <1>2 DEF CacheBehindPass, Kinds
<1> QED
  BY <1>1, <1>3 DEF Fidelity, ListsMatch, Recorded, SleepersSleep, CopiesAgree

LEMMA FidelityPurge ==
  ASSUME TypeOK, Custody, Fidelity, PurgeSecretData
  PROVE  Fidelity'
<1>1. /\ pc = "wake" /\ todo = {} /\ secret.data = lsecret
      /\ pc' = "idle" /\ unsaved' = {}
      /\ UNCHANGED <<level, csecret, owed, exposed>>
  BY DEF PurgeSecretData, ReturnRequeueAfter, Return, historyVars, cacheVars
<1>2. ~exposed => \A o \in Objects : owed[o] = None
  BY <1>1 DEF Custody, WakeCustody
<1> QED
  BY <1>1, <1>2 DEF Fidelity, ListsMatch, SleepersSleep, CopiesAgree, CacheBehindPass

LEMMA FidelityCreateSecret ==
  ASSUME TypeOK, Custody, Fidelity, CreateSecret
  PROVE  Fidelity'
<1>1. /\ pc = "create" /\ pc' = "idle"
      /\ UNCHANGED <<level, csecret, owed, exposed, unsaved>>
  BY DEF CreateSecret, historyVars, localVars, cacheVars
<1>2. unsaved = {}
  BY <1>1 DEF Custody
<1> QED
  BY <1>1, <1>2 DEF Fidelity, ListsMatch, SleepersSleep, CopiesAgree, CacheBehindPass

LEMMA FidelityEnvironment ==
  ASSUME TypeOK, Custody, Fidelity, Environment
  PROVE  Fidelity'
<1>1. UNCHANGED <<pc, lsecret, todo, left, tosave, kind, unsaved>>
  BY DEF Environment, localVars
<1>2. ASSUME NEW o \in Objects, NEW v \in LevelsOf(o), EditObject(o, v)
      PROVE  Fidelity'
  <2>1. UNCHANGED <<secret, csecret, exposed>>
    BY <1>2 DEF EditObject, cacheVars
  <2>2. /\ owed'[o] = None
        /\ \A x \in Objects \ {o} : level'[x] = level[x] /\ owed'[x] = owed[x]
    BY <1>2 DEF EditObject, TypeOK, ClusterTypeOK
  <2>3. ListsMatch'
    BY <1>1 DEF Fidelity, ListsMatch, Recorded
  <2>4. ~exposed => SleepersSleep' /\ CopiesAgree' /\ CacheBehindPass'
    BY <1>1, <2>1, <2>2 DEF Fidelity, SleepersSleep, CopiesAgree, CacheBehindPass
  <2> QED
    BY <2>1, <2>3, <2>4 DEF Fidelity
<1>3. CASE DeleteSecret
  <2>1. /\ secret' = NoSecret
        /\ exposed' = (exposed \/ secret.data # NoData)
        /\ UNCHANGED <<level, owed, csecret>>
    BY <1>3 DEF DeleteSecret, cacheVars
  <2>2. secret'.data = NoData
    BY <2>1 DEF NoSecret
  <2>3. ~exposed' => ~exposed /\ secret'.data = secret.data
    BY <2>1, <2>2
  <2>4. ListsMatch'
    BY <1>1 DEF Fidelity, ListsMatch, Recorded
  <2>5. ~exposed' => SleepersSleep' /\ CopiesAgree' /\ CacheBehindPass'
    BY <1>1, <2>1, <2>3 DEF Fidelity, SleepersSleep, CopiesAgree, CacheBehindPass
  <2> QED
    BY <2>4, <2>5 DEF Fidelity
<1>4. CASE SyncSecret
  <2>1. csecret' = secret /\ UNCHANGED <<level, owed, exposed, secret>>
    BY <1>4 DEF SyncSecret, storeVars, historyVars
  <2>2. ListsMatch'
    BY <1>1 DEF Fidelity, ListsMatch, Recorded
  <2>3. ~exposed => SleepersSleep' /\ CopiesAgree' /\ CacheBehindPass'
    BY <1>1, <2>1
       DEF Fidelity, SleepersSleep, CopiesAgree, CacheBehindPass, Custody, Recoverable
  <2> QED
    BY <2>1, <2>2, <2>3 DEF Fidelity
<1>5. CASE UNCHANGED <<level, secret, csecret, owed, exposed>>
  BY <1>1, <1>5, FidelityKept
<1>6. \/ \E o \in Objects : \E v \in LevelsOf(o) : EditObject(o, v)
      \/ DeleteSecret
      \/ SyncSecret
      \/ UNCHANGED <<level, secret, csecret, owed, exposed>>
  BY DEF Environment, Users, EditApp, DeleteApp, TimePasses, SyncObject,
         storeVars, cacheVars, historyVars
<1> QED
  BY <1>2, <1>3, <1>4, <1>5, <1>6

LEMMA FidelityStep ==
  ASSUME TypeOK, Custody, Fidelity, [Next]_vars
  PROVE  Fidelity'
<1> USE DEF storeVars, cacheVars, historyVars, localVars
<1>1. CASE FetchNotFound \/ PrepareFails
  BY <1>1, FidelityKept DEF FetchNotFound, PrepareFails
<1>2. CASE FetchNoSecret
  BY <1>2
     DEF FetchNoSecret, Dequeue, Fidelity, ListsMatch, SleepersSleep, CopiesAgree,
         CacheBehindPass
<1>3. CASE CreateSecret
  BY <1>3, FidelityCreateSecret
<1>4. CASE Decide
  BY <1>4, FidelityDecide
<1>5. CASE SetStatusFails \/ ListFails \/ SaveFails \/ PurgeFails
  BY <1>5, FidelityAtReturnError DEF SetStatusFails, ListFails, SaveFails, PurgeFails
<1>6. CASE StartSleep
  BY <1>6, FidelityStartSleep
<1>7. CASE StartWake
  BY <1>7, FidelityStartWake
<1>8. CASE NothingToWake
  <2>1. unsaved = {}
    BY <1>8 DEF NothingToWake, SetStatus, Custody
  <2> QED
    BY <1>8, <2>1, FidelityAtQuietReturn DEF NothingToWake, ReturnRequeueAfter
<1>9. ASSUME NEW o \in Objects, AlreadyAsleep(o) \/ PutToSleepFails(o)
      PROVE  Fidelity'
  BY <1>9, FidelityKept DEF AlreadyAsleep, PutToSleepFails
<1>10. ASSUME NEW o \in Objects, PutToSleep(o)
       PROVE  Fidelity'
  BY <1>10, FidelityPutToSleep
<1>11. ASSUME NEW o \in Objects, WakeLeftover(o)
       PROVE  Fidelity'
  <2>1. pc = "sleep" /\ o \in left
    BY <1>11 DEF WakeLeftover, AtLeftover
  <2> QED
    BY <1>11, <2>1, RestoredIsRecorded, FidelityRestore DEF WakeLeftover
<1>12. ASSUME NEW o \in Objects, WakeObject(o)
       PROVE  Fidelity'
  <2>1. pc = "wake" /\ o \in todo
    BY <1>12 DEF WakeObject
  <2> QED
    BY <1>12, <2>1, RestoredIsRecorded, FidelityRestore DEF WakeObject
<1>13. ASSUME NEW o \in Objects, WakeLeftoverFails(o) \/ WakeObjectFails(o)
       PROVE  Fidelity'
  BY <1>13, FidelityAtReturnError DEF WakeLeftoverFails, WakeObjectFails
<1>14. CASE SaveObjectsData
  BY <1>14, FidelitySave
<1>15. CASE SkipKind
  BY <1>15, FidelitySkip
<1>16. CASE SleepDone \/ SleepDoneWithFailures
  <2>1. unsaved = {}
    BY <1>16, NothingUnsaved DEF SleepDone, SleepDoneWithFailures
  <2> QED
    BY <1>16, <2>1, FidelityAtQuietReturn
       DEF SleepDone, SleepDoneWithFailures, ReturnRequeueAfter
<1>17. CASE PurgeSecretData
  BY <1>17, FidelityPurge
<1>18. CASE TimerFires \/ SyncApp
  BY <1>18, FidelityKept DEF TimerFires, SyncApp
<1>19. CASE Crash
  BY <1>19, FidelityAtReturn DEF Crash
<1>20. CASE Environment
  BY <1>20, FidelityEnvironment
<1>21. CASE UNCHANGED vars
  BY <1>21, FidelityKept DEF vars
<1> QED
  BY <1>1, <1>2, <1>3, <1>4, <1>5, <1>6, <1>7, <1>8, <1>9, <1>10, <1>11, <1>12,
     <1>13, <1>14, <1>15, <1>16, <1>17, <1>18, <1>19, <1>20, <1>21
     DEF Next, Worker, Fetch, Branch, Sleep, Wake

\* In every reachable state the cached and the pass's copies of the secret, and
\* the lists made from them, are right about every object that waits for its
\* level.
THEOREM FidelityHolds == Spec => []Fidelity
<1>1. TypeOK /\ Custody /\ Fidelity /\ [Next]_vars => Fidelity'
  BY FidelityStep
<1> QED
  BY <1>1, FidelityInit, TypeCorrect, CustodyHolds, PTL DEF Spec

----------------------------------------------------------------------------
(* The actions that change the level of an object are four.                *)

LEMMA LevelWriters ==
  ASSUME [Next]_vars
  PROVE  \/ UNCHANGED <<level, owed>>
         \/ \E o \in Objects : PutToSleep(o)
         \/ \E o \in Objects : WakeLeftover(o)
         \/ \E o \in Objects : WakeObject(o)
         \/ Environment /\ \E o \in Objects : \E v \in LevelsOf(o) : EditObject(o, v)
<1> USE DEF storeVars, historyVars
<1>1. CASE Fetch
  BY <1>1 DEF Fetch, FetchNotFound, FetchNoSecret, CreateSecret, PrepareFails, Decide
<1>2. CASE Branch
  BY <1>2 DEF Branch, SetStatusFails, StartSleep, ListFails, StartWake, NothingToWake
<1>3. CASE Sleep
  BY <1>3 DEF Sleep, AlreadyAsleep, PutToSleepFails, WakeLeftoverFails,
              SaveObjectsData, SaveFails, SkipKind, SleepDone, SleepDoneWithFailures
<1>4. CASE Wake
  BY <1>4 DEF Wake, WakeObjectFails, PurgeSecretData, PurgeFails
<1>5. CASE Environment
  BY <1>5 DEF Environment, Users, EditApp, DeleteApp, DeleteSecret, TimePasses,
              SyncObject, SyncSecret
<1>6. CASE TimerFires \/ SyncApp \/ Crash
  BY <1>6 DEF TimerFires, SyncApp, Crash
<1>7. CASE UNCHANGED vars
  BY <1>7 DEF vars
<1> QED
  BY <1>1, <1>2, <1>3, <1>4, <1>5, <1>6, <1>7 DEF Next, Worker

\* What a step of giving back does, for the theorems below.
LEMMA GivenBack ==
  ASSUME TypeOK, Custody, Fidelity, NEW o \in Objects,
         WakeLeftover(o) \/ WakeObject(o)
  PROVE  /\ UNCHANGED <<secret, exposed, unsaved, tosave>>
         /\ level[o] # None /\ lsecret[o] # None
         /\ level' = [level EXCEPT ![o] = lsecret[o]]
         /\ owed' = [owed EXCEPT ![o] = IF lsecret[o] = owed[o] THEN None ELSE owed[o]]
         /\ ~exposed => owed[o] \in {None, lsecret[o]} /\ owed'[o] = None
<1>1. \/ pc = "sleep" /\ o \in left
      \/ pc = "wake" /\ o \in todo
  BY DEF WakeLeftover, WakeObject, AtLeftover
<1>2. lsecret[o] # None /\ o \notin unsaved
  BY <1>1, RestoredIsRecorded
<1>3. Restore(o) /\ UNCHANGED <<secret, exposed, unsaved, tosave>>
  BY DEF WakeLeftover, WakeObject
<1>4. owed' = [owed EXCEPT ![o] = IF lsecret[o] = owed[o] THEN None ELSE owed[o]]
  BY <1>3 DEF Restore
<1>5. ~exposed => owed[o] \in {None, lsecret[o]}
  BY <1>1, <1>2 DEF Fidelity, CopiesAgree
<1>6. ~exposed => owed'[o] = None
  BY <1>4, <1>5 DEF TypeOK, ClusterTypeOK
<1> QED
  BY <1>2, <1>3, <1>4, <1>5, <1>6 DEF Restore, Rejected

\* A step that puts an object to sleep, outside the marked windows.
LEMMA Taken ==
  ASSUME TypeOK, Custody, Fidelity, NEW o \in Objects, PutToSleep(o), ~exposed'
  PROVE  /\ ~exposed
         /\ owed[o] = None /\ level[o] # 0 /\ level[o] # None
         /\ level' = [level EXCEPT ![o] = 0]
         /\ owed' = [owed EXCEPT ![o] = level[o]]
         /\ unsaved' = unsaved \cup {o} /\ tosave' = tosave /\ secret' = secret
         /\ tosave[o] = level[o]
<1>1. ~exposed /\ level[o] = tosave[o] /\ tosave[o] # 0 /\ level[o] # None
  BY DEF PutToSleep, Rejected
<1>2. owed[o] = None
  BY <1>1 DEF Fidelity, SleepersSleep
<1> QED
  BY <1>1, <1>2 DEF PutToSleep

\* When the controller changes the level of an object that waits for one, it
\* sets the level that was taken.
THEOREM GivesBackWhatWasTaken == Spec => RestoresWhatWasTaken
<1>1. ASSUME TypeOK, Custody, Fidelity, [Next]_vars, ~exposed', UNCHANGED edits,
             NEW o \in Objects, owed[o] # None, level'[o] # level[o]
      PROVE  level'[o] = owed[o]
  <2>1. CASE UNCHANGED <<level, owed>>
    BY <1>1, <2>1
  <2>2. ASSUME NEW x \in Objects, PutToSleep(x)
        PROVE  level'[o] = owed[o]
    BY <1>1, <2>2, Taken DEF TypeOK, ClusterTypeOK
  <2>3. ASSUME NEW x \in Objects, WakeLeftover(x) \/ WakeObject(x)
        PROVE  level'[o] = owed[o]
    BY <1>1, <2>3, GivenBack DEF TypeOK, ClusterTypeOK
  <2>4. CASE Environment /\ \E x \in Objects : \E v \in LevelsOf(x) : EditObject(x, v)
    BY <1>1, <2>4 DEF EditObject, Edit, TypeOK, ClusterTypeOK
  <2> QED
    BY <1>1, <2>1, <2>2, <2>3, <2>4, LevelWriters
<1>2. TypeOK /\ Custody /\ Fidelity /\ [Next]_vars =>
        [~exposed' /\ UNCHANGED edits =>
           \A o \in Objects :
             owed[o] # None /\ level'[o] # level[o] => level'[o] = owed[o]]_vars
  BY <1>1
<1> QED
  BY <1>2, TypeCorrect, CustodyHolds, FidelityHolds, PTL
     DEF Spec, RestoresWhatWasTaken
----------------------------------------------------------------------------
(* The refinement.                                                         *)

\* A window that was hit stays hit.
LEMMA ExposedStays ==
  ASSUME TypeOK, [Next]_vars, exposed
  PROVE  exposed'
<1> USE DEF historyVars, ReturnError
<1>1. CASE Fetch
  BY <1>1 DEF Fetch, FetchNotFound, FetchNoSecret, CreateSecret, PrepareFails, Decide
<1>2. CASE Branch
  BY <1>2 DEF Branch, SetStatusFails, StartSleep, ListFails, StartWake, NothingToWake
<1>3. CASE Sleep
  BY <1>3 DEF Sleep, AlreadyAsleep, PutToSleep, PutToSleepFails, WakeLeftover,
              WakeLeftoverFails, SaveObjectsData, SaveFails, SkipKind, SleepDone,
              SleepDoneWithFailures
<1>4. CASE Wake
  BY <1>4 DEF Wake, WakeObject, WakeObjectFails, PurgeSecretData, PurgeFails
<1>5. CASE Environment
  BY <1>5 DEF Environment, Users, EditObject, EditApp, DeleteApp, DeleteSecret,
              TimePasses, SyncObject, SyncSecret
<1>6. CASE TimerFires \/ SyncApp \/ Crash
  BY <1>6 DEF TimerFires, SyncApp, Crash
<1>7. CASE UNCHANGED vars
  BY <1>7 DEF vars
<1> QED
  BY <1>1, <1>2, <1>3, <1>4, <1>5, <1>6, <1>7 DEF Next, Worker

\* The list on its way to the secret changes only when it is empty, when it is
\* saved, or when an object is added to it.
LEMMA UnsavedKept ==
  ASSUME TypeOK, Custody, [Next]_vars, ~exposed'
  PROVE  \/ unsaved' = unsaved /\ tosave' = tosave
         \/ unsaved = {} /\ unsaved' = {}
         \/ SaveObjectsData
         \/ \E o \in Objects : PutToSleep(o)
<1> USE DEF localVars, historyVars, ReturnError, ReturnRequeueAfter, Return
<1>1. CASE Fetch
  BY <1>1 DEF Fetch, FetchNotFound, FetchNoSecret, CreateSecret, PrepareFails, Decide,
              Dequeue, Custody
<1>2. CASE Branch
  BY <1>2 DEF Branch, SetStatus, SetStatusFails, StartSleep, ListFails, StartWake,
              NothingToWake, Custody
<1>3. CASE SleepDone \/ SleepDoneWithFailures
  <2>1. unsaved = {}
    BY <1>3, NothingUnsaved DEF SleepDone, SleepDoneWithFailures
  <2> QED
    BY <1>3, <2>1 DEF SleepDone, SleepDoneWithFailures
<1>4. CASE SkipKind \/ SaveFails \/ \E o \in Objects :
             AlreadyAsleep(o) \/ PutToSleepFails(o) \/ WakeLeftover(o) \/ WakeLeftoverFails(o)
  BY <1>4 DEF AlreadyAsleep, PutToSleepFails, WakeLeftover, WakeLeftoverFails,
              SaveFails, SkipKind
<1>5. CASE Wake
  BY <1>5 DEF Wake, WakeObject, WakeObjectFails, PurgeSecretData, PurgeFails, Custody
<1>6. CASE Environment \/ TimerFires \/ SyncApp \/ Crash
  BY <1>6 DEF Environment, TimerFires, SyncApp, Crash
<1>7. CASE UNCHANGED vars
  BY <1>7 DEF vars
<1> QED
  BY <1>1, <1>2, <1>3, <1>4, <1>5, <1>6, <1>7 DEF Next, Worker, Sleep

\* A step that touches no object puts levels on record or strikes off what is
\* no longer owed.
LEMMA RecordStep ==
  ASSUME TypeOK, Custody, TypeOK', [Next]_vars, ~exposed',
         UNCHANGED <<level, owed>>, ~ \E o \in Objects : PutToSleep(o)
  PROVE  C!Record
<1>1. KeptLevels' \in [Objects -> Levels \cup {None}]
  BY DEF KeptLevels, TypeOK, ClusterTypeOK, PassTypeOK, SecretType, MaybeLevel, Levels,
         None
<1>2. ASSUME NEW o \in Objects, KeptLevels[o] # None
      PROVE  \/ KeptLevels'[o] = KeptLevels[o]
             \/ KeptLevels'[o] = None /\ owed[o] = None
  <2>1. CASE SaveObjectsData /\ o \in unsaved
    <3>1. KindOf[o] = kind /\ o \notin unsaved' /\ secret'.data[o] = tosave[o]
      BY <2>1 DEF SaveObjectsData, AtSave, Custody, SleepCustody, InKind, WithKind,
                  TypeOK, ClusterTypeOK, SecretType
    <3> QED
      BY <2>1, <3>1 DEF KeptLevels
  <2>2. CASE o \notin unsaved
    <3>1. o \notin unsaved'
      BY <2>2, UnsavedKept DEF SaveObjectsData
    <3> QED
      BY <1>2, <2>2, <3>1, RecordKept DEF KeptLevels
  <2>3. CASE o \in unsaved /\ unsaved' = unsaved /\ tosave' = tosave
    BY <2>3 DEF KeptLevels
  <2> QED
    BY <2>1, <2>2, <2>3, UnsavedKept
<1> QED
  BY <1>1, <1>2 DEF C!Record, C!None, None

LEMMA TakeStep ==
  ASSUME TypeOK, Custody, Fidelity, NEW o \in Objects, PutToSleep(o), ~exposed'
  PROVE  C!Take(o)
<1>1. level[o] \in Levels \ {0}
  BY Taken DEF TypeOK, ClusterTypeOK, MaybeLevel, Levels, None
<1>2. KeptLevels' = [KeptLevels EXCEPT ![o] = level[o]]
  <2>1. /\ unsaved' = unsaved \cup {o} /\ tosave' = tosave /\ secret' = secret
        /\ tosave[o] = level[o]
    BY Taken
  <2> QED
    BY <2>1 DEF KeptLevels
<1> QED
  BY <1>1, <1>2, Taken DEF C!Take, C!None, None

LEMMA GiveStep ==
  ASSUME TypeOK, Custody, Fidelity, NEW o \in Objects,
         WakeLeftover(o) \/ WakeObject(o), ~exposed
  PROVE  C!GiveBack(o) \/ C!SetAgain(o)
<1>1. KeptLevels' = KeptLevels
  BY GivenBack DEF KeptLevels
<1>2. lsecret[o] \in Levels
  BY GivenBack DEF TypeOK, PassTypeOK, MaybeLevel, Levels, None
<1>3. CASE owed[o] = None
  <2>1. owed' = owed
    BY <1>3, GivenBack DEF TypeOK, ClusterTypeOK
  <2> QED
    BY <1>1, <1>2, <1>3, <2>1, GivenBack DEF C!SetAgain, C!None, None
<1>4. CASE owed[o] # None
  <2>1. owed[o] = lsecret[o] /\ level[o] = 0
    BY <1>4, GivenBack DEF Fidelity, SleepersSleep
  <2> QED
    BY <1>1, <1>4, <2>1, GivenBack DEF C!GiveBack, C!None, None
<1> QED
  BY <1>3, <1>4

LEMMA UserStep ==
  ASSUME Environment, NEW o \in Objects, NEW v \in LevelsOf(o), EditObject(o, v)
  PROVE  C!UserSets(o)
<1>1. KeptLevels' = KeptLevels
  BY DEF Environment, EditObject, KeptLevels, localVars
<1>2. v \in Levels \cup {None}
  BY ClusterAssumption DEF ClusterAssumption, LevelsOf, MaybeLevel, Levels, None
<1> QED
  BY <1>1, <1>2 DEF EditObject, C!UserSets, C!None, None

\* Every step of the controller and its surroundings is a step of the custodian,
\* or leaves levels and records as they are.
LEMMA RefinementStep ==
  ASSUME TypeOK, Custody, Fidelity, TypeOK', [Next]_vars
  PROVE  C!Next
<1>1. CASE exposed'
  BY <1>1 DEF C!Next, C!Lose, TypeOK, ClusterTypeOK
<1>2. CASE ~exposed'
  <2>1. ~exposed
    BY <1>2, ExposedStays
  <2>2. ASSUME NEW o \in Objects, PutToSleep(o)
        PROVE  C!Next
    BY <1>2, <2>1, <2>2, TakeStep DEF C!Next, C!Custody
  <2>3. CASE UNCHANGED <<level, owed>> /\ ~ \E o \in Objects : PutToSleep(o)
    BY <1>2, <2>1, <2>3, RecordStep DEF C!Next, C!Custody
  <2>4. ASSUME NEW o \in Objects, WakeLeftover(o) \/ WakeObject(o)
        PROVE  C!Next
    BY <1>2, <2>1, <2>4, GiveStep DEF C!Next, C!Custody
  <2>5. ASSUME Environment, NEW o \in Objects, NEW v \in LevelsOf(o), EditObject(o, v)
        PROVE  C!Next
    BY <1>2, <2>1, <2>5, UserStep DEF C!Next, C!Custody
  <2> QED
    BY <2>2, <2>3, <2>4, <2>5, LevelWriters
<1> QED
  BY <1>1, <1>2

\* The controller implements the custodian: for every set of objects, every
\* schedule of edits, stale reads, failures and crashes.
THEOREM ControllerIsCustodian == Spec => ImplementsCustodian
<1>1. Init => C!Init
  BY DEF Init, ClusterInit, C!Init, C!None, KeptLevels, NoSecret, NoData, None,
         MaybeLevel, Levels
<1>2. TypeOK /\ Custody /\ Fidelity /\ TypeOK' /\ [Next]_vars => [C!Next]_(C!vars)
  BY RefinementStep
<1> QED
  BY <1>1, <1>2, TypeCorrect, CustodyHolds, FidelityHolds, PTL
     DEF Spec, ImplementsCustodian, C!Spec

\* An object that waits for its level is asleep and on record with that level.
THEOREM KeptWhileAsleep == Spec => []SleepersAreKept
<1>1. Custody /\ Fidelity => SleepersAreKept
  BY DEF Custody, Recoverable, Fidelity, SleepersSleep, SleepersAreKept, C!Kept,
         C!None, None, KeptLevels
<1> QED
  BY <1>1, CustodyHolds, FidelityHolds, PTL
============================================================================
