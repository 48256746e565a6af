--------------------------- MODULE HoldingProofs ---------------------------
(***************************************************************************)
(* What a step of one KronosApp does to an object, told by the level that  *)
(* the KronosApp holds of it: whether it takes the level, keeps it or lets *)
(* it go, and what it makes of the object's own level meanwhile.  Nothing  *)
(* is said of what others do to the object, so that two KronosApps can be  *)
(* put together, as TwoAppsProofs does.                                    *)
(***************************************************************************)
EXTENDS ReconcilerProofs

\* The level held of an object: the one in the secret, or the one that the running
\* pass has listed to be saved.
Held(o) == IF secret.data[o] # None THEN secret.data[o] ELSE tosave[o]

\* It is only listed, and the object has not been put to sleep for it.
Loose(o) == secret.data[o] = None /\ o \notin unsaved

\* Only a pass that puts objects to sleep lists what it will save; and what a pass
\* wakes is saved.
Tidy ==
  /\ pc # "sleep" => tosave = NoData
  /\ pc = "sleep" => left \subseteq Recorded(lsecret)
  /\ pc = "wake"  => todo \subseteq Recorded(lsecret)

\* A pass that works from the stored secret: what it has woken, or need not put to
\* sleep any more, is at the level that was saved.
Orderly ==
  /\ pc \in {"sleep", "wake"} => secret.data = lsecret
  /\ pc = "sleep" =>
       \A o \in Objects :
         lsecret[o] # None /\ tosave[o] = None /\ o \notin left => level[o] = lsecret[o]
  /\ pc = "wake" =>
       \A o \in Objects : lsecret[o] # None /\ o \notin todo => level[o] = lsecret[o]

\* A pass that starts to sleep or to wake has read the stored secret, and lists the
\* objects of which it holds no level at the level that is stored.
FreshStart ==
  pc = "status" /\ pc' \in {"sleep", "wake"} =>
    /\ secret.data = lsecret
    /\ \A o \in Objects : lsecret[o] = None => tosave'[o] \in {None, level[o]}

\* What a step does to an object.  It may take the level that the object has.  While
\* the level is held the object goes to sleep or back to it, and stays as it is as
\* long as the level is loose.  When the level is let go, the object has it, or it
\* was loose.
Turn(o) ==
  /\ Held(o) = None =>
       level'[o] = level[o] /\ Held(o)' \in {None, level[o]}
  /\ Held(o) # None /\ Held(o)' # None =>
       /\ Held(o)' = Held(o)
       /\ level'[o] \in {level[o], 0, Held(o)}
       /\ Loose(o)' => Loose(o) /\ level'[o] = level[o]
  /\ Held(o) # None /\ Held(o)' = None =>
       level'[o] = level[o] /\ (level[o] = Held(o) \/ Loose(o))

Turns == \A o \in Objects : Turn(o)

----------------------------------------------------------------------------
(* Steps that are alike.                                                   *)

\* A step that writes to no object, to no list and to no secret.
LEMMA TurnsAside ==
  ASSUME UNCHANGED <<secret, tosave, level, unsaved>>
  PROVE  Turns
BY DEF Turns, Turn, Held, Loose

\* A step of a pass that goes on, and touches no level.
LEMMA GoesOn ==
  ASSUME Tidy, Orderly,
         UNCHANGED <<secret, tosave, level, unsaved, pc, lsecret, left>>,
         pc = "wake" => todo' = todo
  PROVE  Turns /\ Tidy' /\ Orderly'
BY TurnsAside DEF Tidy, Orderly, Recorded

\* The end of a pass that has nothing unsaved.
LEMMA EndsPass ==
  ASSUME Return, UNCHANGED <<secret, level>>, unsaved = {}
  PROVE  Turns /\ Tidy' /\ Orderly'
BY DEF Return, Turns, Turn, Held, Loose, Tidy, Orderly, NoData

\* The end with an error is one, or marked.
LEMMA EndsWithError ==
  ASSUME TypeOK, ReturnError, ~exposed', UNCHANGED <<secret, level>>
  PROVE  Turns /\ Tidy' /\ Orderly'
<1>1. Return /\ unsaved = {}
  BY DEF ReturnError, TypeOK, ClusterTypeOK
<1> QED
  BY <1>1, EndsPass

\* Outside of a pass that sleeps, nothing is loose but what is not held.
LEMMA NothingListed ==
  ASSUME TypeOK, Tidy, pc # "sleep", NEW o \in Objects
  PROVE  Held(o) = secret.data[o]
BY DEF Tidy, Held, NoData

----------------------------------------------------------------------------
(* The steps that take, change or let go of levels.                        *)

LEMMA TakesLevels ==
  ASSUME TypeOK, Custody, Tidy, StartSleep, FreshStart
  PROVE  Turns /\ Tidy' /\ Orderly'
<1>1. /\ pc = "status" /\ pc' = "sleep" /\ secret.data = lsecret
      /\ UNCHANGED <<secret, level, lsecret, unsaved>>
      /\ \A o \in Objects : lsecret[o] = None => tosave'[o] \in {None, level[o]}
  BY DEF StartSleep, SetStatus, FreshStart, storeVars
<1>2. ASSUME NEW o \in Objects PROVE Held(o) = secret.data[o]
  BY <1>1, NothingListed
<1>3. ASSUME NEW o \in Objects PROVE Turn(o)
  BY <1>1, <1>2 DEF Turn, Held, Loose
<1>4. ASSUME NEW o \in Objects, lsecret[o] # None, tosave'[o] = None
      PROVE  o \in left'
  BY <1>4 DEF StartSleep, Recorded, LevelToSave
<1>5. Tidy'
  BY <1>1 DEF StartSleep, Tidy, Recorded
<1> QED
  BY <1>1, <1>3, <1>4, <1>5 DEF Turns, Orderly

LEMMA TakesUpWaking ==
  ASSUME TypeOK, Tidy, StartWake, FreshStart
  PROVE  Turns /\ Tidy' /\ Orderly'
<1>1. /\ pc = "status" /\ pc' = "wake" /\ secret.data = lsecret
      /\ UNCHANGED <<secret, level, lsecret, tosave, unsaved>>
      /\ todo' = Recorded(lsecret)
  BY DEF StartWake, SetStatus, FreshStart, storeVars
<1>2. Turns
  BY <1>1, TurnsAside
<1> QED
  BY <1>1, <1>2 DEF Tidy, Orderly, Recorded

LEMMA PutsToSleep ==
  ASSUME TypeOK, Custody, Tidy, Orderly, NEW o \in Objects, PutToSleep(o)
  PROVE  Turns /\ Tidy' /\ Orderly'
<1>1. /\ pc = "sleep" /\ o \in todo /\ unsaved' = unsaved \cup {o}
      /\ level' = [level EXCEPT ![o] = 0]
      /\ UNCHANGED <<secret, pc, lsecret, left, tosave>>
  BY DEF PutToSleep
<1>2. tosave[o] # None
  BY <1>1 DEF Custody, SleepCustody
<1>3. level'[o] = 0 /\ \A x \in Objects \ {o} : level'[x] = level[x]
  BY <1>1 DEF TypeOK, ClusterTypeOK
<1>4. Held(o) # None /\ \A x \in Objects : Held(x)' = Held(x)
  BY <1>1, <1>2 DEF Held
<1>5. ~Loose(o)' /\ \A x \in Objects : Loose(x)' => Loose(x)
  BY <1>1 DEF Loose
<1>6. Turns
  BY <1>3, <1>4, <1>5 DEF Turns, Turn
<1>7. Orderly'
  BY <1>1, <1>2, <1>3 DEF Orderly
<1> QED
  BY <1>1, <1>6, <1>7 DEF Tidy, Recorded

\* An object that is woken gets the level that is held.
LEMMA GivesBack ==
  ASSUME TypeOK, Custody, Tidy, Orderly, NEW o \in Objects,
         WakeLeftover(o) \/ WakeObject(o)
  PROVE  Turns /\ Tidy' /\ Orderly'
<1>1. /\ pc \in {"sleep", "wake"} /\ secret.data = lsecret
      /\ level' = [level EXCEPT ![o] = lsecret[o]]
      /\ UNCHANGED <<secret, pc, lsecret, tosave, unsaved>>
  BY DEF WakeLeftover, WakeObject, AtLeftover, Restore, Orderly
<1>2. /\ pc = "sleep" => left' = left \ {o}
      /\ pc = "wake" => todo' = todo \ {o}
  BY DEF WakeLeftover, WakeObject, AtLeftover
<1>3. level'[o] = lsecret[o] /\ \A x \in Objects \ {o} : level'[x] = level[x]
  BY <1>1 DEF TypeOK, ClusterTypeOK
<1>4. lsecret[o] # None
  BY DEF WakeLeftover, WakeObject, AtLeftover, Tidy, Recorded
<1>5. Held(o) = lsecret[o] /\ ~Loose(o)
  BY <1>1, <1>4 DEF Held, Loose
<1>6. \A x \in Objects : Held(x)' = Held(x) /\ Loose(x)' = Loose(x)
  BY <1>1 DEF Held, Loose
<1>7. Turns
  BY <1>3, <1>4, <1>5, <1>6 DEF Turns, Turn
<1>8. Orderly'
  BY <1>1, <1>2, <1>3 DEF Orderly
<1> QED
  BY <1>1, <1>2, <1>7, <1>8 DEF Tidy, Recorded

\* Saving a kind: what was woken meanwhile is let go, what was listed is kept.
LEMMA SavesKind ==
  ASSUME TypeOK, Custody, Tidy, Orderly, SaveObjectsData, ~exposed'
  PROVE  Turns /\ Tidy' /\ Orderly'
<1>1. /\ pc = "sleep" /\ left \cap InKind(kind) = {}
      /\ secret.data = lsecret
      /\ lsecret' = WithKind(lsecret, kind, tosave)
      /\ secret' = [secret EXCEPT !.data = WithKind(lsecret, kind, tosave)]
      /\ unsaved' = unsaved \ InKind(kind)
      /\ UNCHANGED <<level, pc, left, tosave>>
  BY DEF SaveObjectsData, AtSave, Orderly
<1>2. secret'.data = lsecret'
  BY <1>1 DEF TypeOK, ClusterTypeOK, SecretType
<1>3. \A o \in Objects :
        lsecret'[o] = IF KindOf[o] = kind THEN tosave[o] ELSE lsecret[o]
  BY <1>1 DEF WithKind
<1>4. SleepCustody
  BY <1>1 DEF Custody
<1>5. ASSUME NEW o \in Objects PROVE Turn(o)
  <2>1. CASE KindOf[o] # kind
    BY <1>1, <1>2, <1>3, <2>1 DEF Turn, Held, Loose, InKind
  <2>2. CASE KindOf[o] = kind /\ tosave[o] # None
    BY <1>1, <1>2, <1>3, <1>4, <2>2 DEF Turn, Held, Loose, SleepCustody
  <2>3. CASE KindOf[o] = kind /\ tosave[o] = None
    BY <1>1, <1>2, <1>3, <2>3 DEF Turn, Held, Orderly, InKind
  <2> QED
    BY <2>1, <2>2, <2>3
<1>6. Tidy'
  BY <1>1, <1>3 DEF Tidy, Recorded, InKind
<1>7. Orderly'
  BY <1>1, <1>2, <1>3 DEF Orderly
<1> QED
  BY <1>5, <1>6, <1>7 DEF Turns

\* Purging: every object has been woken.
LEMMA Purges ==
  ASSUME TypeOK, Tidy, Orderly, PurgeSecretData
  PROVE  Turns /\ Tidy' /\ Orderly'
<1>1. /\ pc = "wake" /\ todo = {} /\ secret.data = lsecret
      /\ secret' = [secret EXCEPT !.data = NoData]
      /\ Return /\ level' = level
  BY DEF PurgeSecretData, ReturnRequeueAfter
<1>2. secret'.data = NoData /\ tosave' = NoData /\ pc' = "idle"
  BY <1>1 DEF TypeOK, ClusterTypeOK, SecretType, Return
<1>3. ASSUME NEW o \in Objects PROVE Turn(o)
  <2>1. Held(o) = lsecret[o] /\ Held(o)' = None
    BY <1>1, <1>2, NothingListed DEF Held, NoData
  <2> QED
    BY <1>1, <2>1 DEF Turn, Orderly
<1> QED
  BY <1>2, <1>3 DEF Turns, Tidy, Orderly

----------------------------------------------------------------------------
(* All steps.                                                              *)

\* The steps of the passes.
LEMMA WorkerTurns ==
  ASSUME TypeOK, Custody, Tidy, Orderly, Worker, FreshStart, ~exposed'
  PROVE  Turns /\ Tidy' /\ Orderly'
<1> USE DEF storeVars, localVars
<1>1. CASE FetchNotFound \/ PrepareFails
  BY <1>1, GoesOn DEF FetchNotFound, PrepareFails
<1>2. CASE FetchNoSecret \/ Decide
  BY <1>2, TurnsAside DEF FetchNoSecret, Decide, Dequeue, Tidy, Orderly
<1>3. CASE CreateSecret
  <2>1. secret'.data = secret.data
    BY <1>3 DEF CreateSecret, Custody
  <2>2. pc = "create" /\ pc' = "idle" /\ UNCHANGED <<level, tosave, unsaved>>
    BY <1>3 DEF CreateSecret
  <2>3. Turns
    BY <2>1, <2>2 DEF Turns, Turn, Held, Loose
  <2> QED
    BY <2>2, <2>3 DEF Tidy, Orderly
<1>4. CASE SetStatusFails \/ ListFails \/ SaveFails \/ PurgeFails
  BY <1>4, EndsWithError DEF SetStatusFails, ListFails, SaveFails, PurgeFails
<1>5. CASE StartSleep
  BY <1>5, TakesLevels
<1>6. CASE StartWake
  BY <1>6, TakesUpWaking
<1>7. CASE NothingToWake
  <2>1. unsaved = {} /\ Return /\ UNCHANGED <<secret, level>>
    BY <1>7 DEF NothingToWake, SetStatus, ReturnRequeueAfter, Custody
  <2> QED
    BY <2>1, EndsPass
<1>8. ASSUME NEW o \in Objects, AlreadyAsleep(o) \/ PutToSleepFails(o)
      PROVE  Turns /\ Tidy' /\ Orderly'
  BY <1>8, GoesOn DEF AlreadyAsleep, PutToSleepFails
<1>9. ASSUME NEW o \in Objects, PutToSleep(o) PROVE Turns /\ Tidy' /\ Orderly'
  BY <1>9, PutsToSleep
<1>10. ASSUME NEW o \in Objects, WakeLeftover(o) \/ WakeObject(o)
       PROVE  Turns /\ Tidy' /\ Orderly'
  BY <1>10, GivesBack
<1>11. ASSUME NEW o \in Objects, WakeLeftoverFails(o) \/ WakeObjectFails(o)
       PROVE  Turns /\ Tidy' /\ Orderly'
  BY <1>11, EndsWithError DEF WakeLeftoverFails, WakeObjectFails
<1>12. CASE SaveObjectsData
  BY <1>12, SavesKind
<1>13. CASE SkipKind
  BY <1>13, GoesOn DEF SkipKind
<1>14. CASE SleepDone \/ SleepDoneWithFailures
  <2>1. unsaved = {} /\ Return /\ UNCHANGED <<secret, level>>
    BY <1>14, NothingUnsaved DEF SleepDone, SleepDoneWithFailures, ReturnRequeueAfter
  <2> QED
    BY <2>1, EndsPass
<1>15. CASE PurgeSecretData
  BY <1>15, Purges
<1> QED
  BY <1>1, <1>2, <1>3, <1>4, <1>5, <1>6, <1>7, <1>8, <1>9, <1>10, <1>11, <1>12,
     <1>13, <1>14, <1>15 DEF Worker, Fetch, Branch, Sleep, Wake

\* The queue, and the KronosApp's own users and informers, change nothing that is
\* held.
LEMMA OthersHold ==
  ASSUME TypeOK, Custody, Tidy, Orderly, ~exposed',
         \/ TimerFires \/ SyncApp
         \/ /\ \/ SyncSecret \/ DeleteApp \/ DeleteSecret
               \/ \E s \in AppSpecs : EditApp(s)
               \/ \E c \in ClockType : TimePasses(c)
            /\ UNCHANGED <<pc, localVars>>
  PROVE  /\ Tidy' /\ Orderly'
         /\ UNCHANGED <<level, pc>>
         /\ \A o \in Objects : Held(o)' = Held(o) /\ (Loose(o)' <=> Loose(o))
<1> USE DEF storeVars, localVars
<1>1. CASE DeleteSecret
  <2>1. secret.data = NoData /\ secret'.data = NoData
    BY <1>1 DEF DeleteSecret, NoSecret, TypeOK, ClusterTypeOK
  <2>2. UNCHANGED <<level, pc, localVars>>
    BY <1>1 DEF DeleteSecret, TimerFires, SyncApp
  <2> QED
    BY <2>1, <2>2 DEF Held, Loose, Tidy, Orderly, Recorded
<1>2. CASE UNCHANGED <<secret, level, pc, localVars>>
  BY <1>2, GoesOn DEF Held, Loose
<1> QED
  BY <1>1, <1>2
     DEF TimerFires, SyncApp, SyncSecret, DeleteApp, EditApp, TimePasses

\* A crash, of a pass that has nothing unsaved.
LEMMA CrashTurns ==
  ASSUME TypeOK, Crash, ~exposed'
  PROVE  Turns /\ Tidy' /\ Orderly' /\ level' = level /\ pc' = "idle"
<1>1. Return /\ UNCHANGED <<secret, level>> /\ unsaved = {}
  BY DEF Crash, storeVars, TypeOK, ClusterTypeOK
<1> QED
  BY <1>1, EndsPass DEF Return

\* What is marked stays marked.
LEMMA MarkStays ==
  ASSUME TypeOK, Next, exposed
  PROVE  exposed'
<1> USE DEF historyVars, ReturnError
<1>1. CASE Fetch
  BY <1>1 DEF Fetch, FetchNotFound, FetchNoSecret, CreateSecret, PrepareFails, Decide
<1>2. CASE Branch
  BY <1>2 DEF Branch, SetStatusFails, StartSleep, ListFails, StartWake, NothingToWake
<1>3. CASE Sleep
  BY <1>3 DEF Sleep, AlreadyAsleep, PutToSleep, PutToSleepFails, WakeLeftover,
              WakeLeftoverFails, SaveObjectsData, SaveFails, SkipKind, SleepDone,
              SleepDoneWithFailures
<1>4. CASE Wake
  BY <1>4 DEF Wake, WakeObject, WakeObjectFails, PurgeSecretData, PurgeFails
<1>5. CASE Environment
  BY <1>5 DEF Environment, Users, EditObject, EditApp, DeleteApp, DeleteSecret,
              TimePasses, SyncObject, SyncSecret
<1>6. CASE TimerFires \/ SyncApp \/ Crash
  BY <1>6 DEF TimerFires, SyncApp, Crash
<1> QED
  BY <1>1, <1>2, <1>3, <1>4, <1>5, <1>6 DEF Next, Worker
============================================================================
