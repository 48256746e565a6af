------------------------ MODULE StatusMetricsProofs ------------------------
(***************************************************************************)
(* Theorems about StatusMetrics for any texts, edits, faults and crashes.  *)
(***************************************************************************)
EXTENDS StatusMetrics, TLAPS

\* A copy that is of the current version is the KronosApp, and a KronosApp that is
\* gone has no status.
Versions ==
  /\ current => capp = app
  /\ lcurrent /\ pc \in {"create", "status"} => lapp = app
  /\ pc \in {"create", "status"} => lapp.exists
  /\ pc \in {"status", "export"} => new.labels.status \in {"Asleep", "Awake"}
  /\ ~app.exists => app.status = NoStatus

\* The gauges show the labels l, or nothing yet.
Shown(l) ==
  /\ series \subseteq {l}
  /\ info = IF series = {} THEN NoInfo ELSE l.status

\* Between the status and the export, the gauges show the status before.  A KronosApp
\* that the process has never seen has no series.
Gauges ==
  ~orphans =>
    /\ ~app.exists => ~capp.exists
    /\ ~capp.exists => pc = "idle" /\ series = {}
    /\ pc # "export" => Shown(app.status.labels)
    /\ pc = "export" => app.status = new /\ Shown(lapp.status.labels)

----------------------------------------------------------------------------
(* Types.                                                                  *)

LEMMA StatusesTyped ==
  /\ NoStatus \in Statuses
  /\ NoApp \in AppType /\ NewApp \in AppType
  /\ \A s \in {"Asleep", "Awake"} : \A t \in Texts : GetNewKronosAppStatus(s, t) \in Statuses
<1>1. NoLabels \in Labels
  BY DEF NoLabels, Labels
<1>2. NoStatus \in Statuses
  BY <1>1 DEF NoStatus, Statuses
<1>3. NoApp \in AppType /\ NewApp \in AppType
  BY <1>2 DEF NoApp, NewApp, AppType
<1>4. ASSUME NEW s \in {"Asleep", "Awake"}, NEW t \in Texts
      PROVE  GetNewKronosAppStatus(s, t) \in Statuses
  BY DEF GetNewKronosAppStatus, Statuses, Labels
<1> QED
  BY <1>2, <1>3, <1>4

\* registerSecret leaves the stored KronosApp as it is: the one thing that it has
\* changed in its copy is dropped.
LEMMA RegisterSecretIsLost ==
  ASSUME TypeOK, Versions, pc = "create", RegisterSecret
  PROVE  UNCHANGED <<app, current, lcurrent>>
<1>1. CASE lcurrent
  <2>1. lapp = app /\ app \in AppType
    BY <1>1 DEF Versions, TypeOK
  <2>2. Update([lapp EXCEPT !.status.secretCreated = @ \cup {SecretName}]) = app
    BY <2>1 DEF Update, AppType
  <2> QED
    BY <1>1, <2>2 DEF RegisterSecret
<1>2. CASE ~lcurrent
  BY <1>2 DEF RegisterSecret
<1> QED
  BY <1>1, <1>2

\* TypeOK in two parts.
Booleans ==
  /\ current \in BOOLEAN /\ notified \in BOOLEAN /\ lcurrent \in BOOLEAN
  /\ secret \in BOOLEAN /\ csecret \in BOOLEAN
  /\ queued \in BOOLEAN /\ timer \in BOOLEAN
  /\ orphans \in BOOLEAN /\ tracked \in BOOLEAN

Others ==
  /\ app \in AppType /\ capp \in AppType /\ lapp \in AppType
  /\ pc \in {"idle", "create", "status", "export"}
  /\ new \in Statuses
  /\ series \in SUBSET Labels
  /\ info \in {"Asleep", "Awake", NoInfo}
  /\ edits \in 0..MaxEdits /\ faults \in 0..MaxFaults
  /\ warned \in {"", "none created", "missing"}

LEMMA BooleansStep ==
  ASSUME Booleans, app \in AppType, [Next]_vars
  PROVE  Booleans'
<1> USE DEF Booleans, storeVars, cacheVars, queueVars, localVars, metricVars
<1>1. CASE CreateApp
  BY <1>1, Zenon DEF CreateApp, Store, UsersDoNot
<1>2. CASE EditApp
  BY <1>2, Zenon DEF EditApp, Store, UsersDoNot
<1>3. CASE DeleteApp
  BY <1>3, Zenon DEF DeleteApp, Store, UsersDoNot
<1>4. CASE DeleteSecret
  BY <1>4, Zenon DEF DeleteSecret, UsersDoNot
<1>5. CASE SyncApp
  BY <1>5, Zenon DEF SyncApp
<1>6. CASE SyncSecret
  BY <1>6, Zenon DEF SyncSecret
<1>7. CASE TimerFires
  BY <1>7, Zenon DEF TimerFires
<1>8. CASE FetchNotFound
  BY <1>8, Zenon DEF FetchNotFound
<1>9. CASE FetchNoSecret
  BY <1>9, Zenon DEF FetchNoSecret
<1>10. CASE CreateSecret
  BY <1>10, Zenon DEF CreateSecret, RegisterSecret, Store, Retry
<1>11. CASE PrepareFails
  BY <1>11, Zenon DEF PrepareFails
<1>12. CASE Decide
  BY <1>12, Zenon DEF Decide
<1>13. CASE SetStatus
  BY <1>13, Zenon DEF SetStatus, Store
<1>14. CASE SetStatusFails
  BY <1>14, Zenon DEF SetStatusFails, Retry
<1>15. CASE SetStatusReplyLost
  BY <1>15, Zenon DEF SetStatusReplyLost, Store, Retry
<1>16. CASE ExportMetrics
  BY <1>16, Zenon DEF ExportMetrics
<1>17. CASE Crash
  <2>1. app.exists \in BOOLEAN
    BY Zenon DEF AppType
  <2> QED
    BY <1>17, <2>1, Zenon DEF Crash
<1>18. CASE UNCHANGED vars
  BY <1>18, Zenon DEF vars
<1> QED
  BY <1>1, <1>2, <1>3, <1>4, <1>5, <1>6, <1>7, <1>8, <1>9, <1>10, <1>11, <1>12, <1>13,
     <1>14, <1>15, <1>16, <1>17, <1>18 DEF Next, Worker

LEMMA CountersStep ==
  /\ edits \in 0..MaxEdits /\ Edit => edits' \in 0..MaxEdits
  /\ faults \in 0..MaxFaults /\ Fault => faults' \in 0..MaxFaults
BY StatusMetricsAssumption DEF StatusMetricsAssumption, Edit, Fault

LEMMA OthersStep ==
  ASSUME Booleans, Others, Versions, [Next]_vars
  PROVE  Others'
<1> USE DEF Others, storeVars, cacheVars, queueVars, localVars, metricVars
<1>1. CASE CreateApp
  BY <1>1, StatusesTyped, CountersStep DEF CreateApp, Store, UsersDoNot
<1>2. CASE EditApp
  <2>1. PICK v \in BOOLEAN : app' = [app EXCEPT !.valid = v]
    BY <1>2 DEF EditApp, Store
  <2>2. app' \in AppType
    BY <2>1 DEF AppType
  <2> QED
    BY <1>2, <2>2, CountersStep DEF EditApp, UsersDoNot
<1>3. CASE DeleteApp
  BY <1>3, StatusesTyped, CountersStep DEF DeleteApp, Store, UsersDoNot
<1>4. CASE DeleteSecret
  BY <1>4, CountersStep DEF DeleteSecret, UsersDoNot
<1>5. CASE SyncApp \/ SyncSecret \/ TimerFires
  BY <1>5 DEF SyncApp, SyncSecret, TimerFires
<1>6. CASE FetchNotFound
  BY <1>6 DEF FetchNotFound, NoInfo
<1>7. CASE FetchNoSecret
  BY <1>7 DEF FetchNoSecret, CheckIfSecretWasCreatedPreviously
<1>8. CASE CreateSecret
  <2>1. UNCHANGED <<app, current, lcurrent>>
    BY <1>8, RegisterSecretIsLost DEF CreateSecret, Booleans, TypeOK
  <2> QED
    BY <1>8, <2>1, CountersStep DEF CreateSecret, Retry
<1>9. CASE PrepareFails \/ SetStatusFails
  BY <1>9, CountersStep DEF PrepareFails, SetStatusFails, Retry
<1>10. CASE Decide
  <2>1. new' \in Statuses
    BY <1>10, StatusesTyped DEF Decide
  <2> QED
    BY <1>10, <2>1 DEF Decide
<1>11. CASE SetStatus \/ SetStatusReplyLost
  <2>1. app' = [app EXCEPT !.status = new]
    BY <1>11 DEF SetStatus, SetStatusReplyLost, Store
  <2>2. app' \in AppType
    BY <2>1 DEF AppType
  <2> QED
    BY <1>11, <2>2, CountersStep DEF SetStatus, SetStatusReplyLost, Retry
<1>12. CASE ExportMetrics
  <2>1. new.labels \in Labels
    BY DEF Statuses
  <2>2. new.labels.status \in {"Asleep", "Awake"}
    BY <1>12 DEF ExportMetrics, Versions
  <2>3. series' \in SUBSET Labels /\ info' \in {"Asleep", "Awake", NoInfo}
    BY <1>12, <2>1, <2>2 DEF ExportMetrics, DeleteOldMetrics
  <2> QED
    BY <1>12, <2>3 DEF ExportMetrics
<1>13. CASE Crash
  BY <1>13, StatusesTyped, CountersStep DEF Crash, NoInfo
<1>14. CASE UNCHANGED vars
  BY <1>14 DEF vars
<1> QED
  BY <1>1, <1>2, <1>3, <1>4, <1>5, <1>6, <1>7, <1>8, <1>9, <1>10, <1>11, <1>12, <1>13,
     <1>14 DEF Next, Worker

LEMMA TypeStep ==
  ASSUME TypeOK, Versions, [Next]_vars
  PROVE  TypeOK'
<1>1. Booleans /\ Others
  BY Zenon DEF TypeOK, Booleans, Others
<1>2. Booleans' /\ Others'
  BY <1>1, BooleansStep, OthersStep DEF Others
<1> QED
  BY <1>2, Zenon DEF TypeOK, Booleans, Others

LEMMA VersionsStep ==
  ASSUME TypeOK, Versions, [Next]_vars
  PROVE  Versions'
<1> USE DEF Versions, storeVars, cacheVars, queueVars, localVars, metricVars
<1>1. CASE CreateApp \/ DeleteApp
  BY <1>1 DEF CreateApp, DeleteApp, Store, UsersDoNot, NewApp, NoApp
<1>2. CASE EditApp
  <2>1. PICK v \in BOOLEAN : app' = [app EXCEPT !.valid = v]
    BY <1>2 DEF EditApp, Store
  <2>2. app'.exists = app.exists /\ app'.status = app.status
    BY <2>1 DEF TypeOK, AppType
  <2> QED
    BY <1>2, <2>2 DEF EditApp, Store, UsersDoNot
<1>3. CASE CreateSecret
  <2>1. UNCHANGED <<app, current, lcurrent>>
    BY <1>3, RegisterSecretIsLost DEF CreateSecret
  <2> QED
    BY <1>3, <2>1 DEF CreateSecret, Retry
<1>4. CASE Decide
  <2>1. new'.labels.status \in {"Asleep", "Awake"}
    BY <1>4 DEF Decide, GetNewKronosAppStatus
  <2> QED
    BY <1>4, <2>1 DEF Decide
<1>5. CASE SetStatus \/ SetStatusReplyLost
  <2>1. app' = [app EXCEPT !.status = new] /\ ~current' /\ ~lcurrent' /\ new' = new
    BY <1>5 DEF SetStatus, SetStatusReplyLost, Store
  <2>2. app.exists
    BY <1>5 DEF SetStatus, SetStatusReplyLost
  <2>3. app'.exists
    BY <2>1, <2>2 DEF TypeOK, AppType
  <2>4. lapp' = lapp /\ pc' \in {"idle", "export"} /\ pc = "status"
    BY <1>5 DEF SetStatus, SetStatusReplyLost, Retry
  <2> QED
    BY <2>1, <2>3, <2>4
<1>6. CASE SyncApp \/ FetchNoSecret
  BY <1>6 DEF SyncApp, FetchNoSecret
<1>7. CASE Crash
  BY <1>7 DEF Crash
<1>8. CASE ExportMetrics \/ SetStatusFails
  BY <1>8 DEF ExportMetrics, SetStatusFails, Retry
<1>9. CASE DeleteSecret \/ SyncSecret \/ TimerFires \/ FetchNotFound \/ PrepareFails
             \/ UNCHANGED vars
  BY <1>9 DEF DeleteSecret, UsersDoNot, SyncSecret, TimerFires, FetchNotFound,
              PrepareFails, vars
<1> QED
  BY <1>1, <1>2, <1>3, <1>4, <1>5, <1>6, <1>7, <1>8, <1>9 DEF Next, Worker

\* Every variable has its type in every reachable state, and what is known of
\* versions holds.
THEOREM StatusMetricsTyped == Spec => [](TypeOK /\ Versions)
<1>1. Init => TypeOK
  <2> SUFFICES ASSUME Init PROVE TypeOK
    OBVIOUS
  <2>1. Booleans
    <3>1. current \in BOOLEAN /\ notified \in BOOLEAN /\ lcurrent \in BOOLEAN
      BY Zenon DEF Init
    <3>2. secret \in BOOLEAN /\ csecret \in BOOLEAN
      BY Zenon DEF Init
    <3>3. queued \in BOOLEAN /\ timer \in BOOLEAN
      BY Zenon DEF Init
    <3>4. orphans \in BOOLEAN /\ tracked \in BOOLEAN
      BY Zenon DEF Init
    <3> QED
      BY <3>1, <3>2, <3>3, <3>4, Zenon DEF Booleans
  <2>2. edits \in 0..MaxEdits /\ faults \in 0..MaxFaults
    <3>1. edits = 0 /\ faults = 0
      BY Zenon DEF Init
    <3> QED
      BY <3>1, StatusMetricsAssumption DEF StatusMetricsAssumption
  <2>3. Others
    BY <2>2, StatusesTyped DEF Init, Others, NoInfo
  <2> QED
    BY <2>1, <2>3, Zenon DEF TypeOK, Booleans, Others
<1>2. Init => Versions
  <2> SUFFICES ASSUME Init PROVE Versions
    OBVIOUS
  <2>1. app = NewApp /\ capp = NewApp /\ pc = "idle"
    BY Zenon DEF Init
  <2>2. app.exists
    BY <2>1 DEF NewApp
  <2> QED
    BY <2>1, <2>2 DEF Versions
<1> QED
  BY <1>1, <1>2, TypeStep, VersionsStep, PTL DEF Spec

----------------------------------------------------------------------------
(* The gauges.                                                             *)

LEMMA GaugesStep ==
  ASSUME TypeOK, Versions, Gauges, [Next]_vars
  PROVE  Gauges'
<1> USE DEF Gauges, Shown, storeVars, cacheVars, queueVars, localVars, metricVars
<1>1. CASE EditApp
  <2>1. PICK v \in BOOLEAN : app' = [app EXCEPT !.valid = v]
    BY <1>1 DEF EditApp, Store
  <2>2. app'.status = app.status /\ app'.exists = app.exists
    BY <2>1 DEF TypeOK, AppType
  <2> QED
    BY <1>1, <2>2 DEF EditApp, UsersDoNot
<1>2. CASE CreateApp
  <2>1. app.status = NoStatus /\ app'.status = NoStatus /\ app'.exists
    BY <1>2 DEF CreateApp, Store, Versions, NewApp
  <2> QED
    BY <1>2, <2>1 DEF CreateApp, UsersDoNot
<1>3. CASE DeleteApp \/ SetStatusReplyLost
  BY <1>3 DEF DeleteApp, SetStatusReplyLost
<1>4. CASE FetchNotFound
  BY <1>4 DEF FetchNotFound
<1>5. CASE CreateSecret
  <2>1. UNCHANGED app
    BY <1>5, RegisterSecretIsLost DEF CreateSecret
  <2> QED
    BY <1>5, <2>1 DEF CreateSecret, Retry
<1>6. CASE SetStatus
  <2>1. app'.status = new /\ lapp = app /\ app'.exists
    BY <1>6 DEF SetStatus, Store, TypeOK, AppType, Versions
  <2> QED
    BY <1>6, <2>1 DEF SetStatus
<1>7. CASE ExportMetrics
  <2>1. (series \subseteq {lapp.status.labels} /\ app.status = new) \/ orphans
    BY <1>7 DEF ExportMetrics
  <2> QED
    BY <1>7, <2>1 DEF ExportMetrics, DeleteOldMetrics
<1>8. CASE Crash
  BY <1>8 DEF Crash
<1>9. CASE FetchNoSecret \/ Decide
  BY <1>9 DEF FetchNoSecret, Decide
<1>10. CASE SyncApp
  BY <1>10 DEF SyncApp
<1>11. CASE UNCHANGED <<app, capp, metricVars, orphans, lapp, new>> /\ pc' = pc
  BY <1>11
<1>12. CASE SetStatusFails
  BY <1>12 DEF SetStatusFails, Retry
<1>13. \/ UNCHANGED <<app, capp, metricVars, orphans, lapp, new>> /\ pc' = pc
       \/ CreateApp \/ EditApp \/ DeleteApp \/ FetchNotFound \/ FetchNoSecret \/ CreateSecret
       \/ Decide \/ SetStatus \/ SetStatusReplyLost \/ ExportMetrics \/ Crash
       \/ SyncApp \/ SetStatusFails
  BY DEF Next, Worker, vars, DeleteSecret, UsersDoNot, SyncSecret, TimerFires, PrepareFails
<1> QED
  BY <1>1, <1>2, <1>3, <1>4, <1>5, <1>6, <1>7, <1>8, <1>9, <1>10, <1>11, <1>12, <1>13

\* One detailed series at most, of the stored status, and the two gauges agree.
THEOREM OneSeriesEach == Spec => []OneSeries
<1>1. Init => Gauges
  BY DEF Init, Gauges, Shown
<1>2. TypeOK /\ Versions /\ Gauges /\ [Next]_vars => Gauges'
  BY GaugesStep
<1>3. Gauges => OneSeries
  BY DEF Gauges, Shown, OneSeries
<1> QED
  BY <1>1, <1>2, <1>3, StatusMetricsTyped, PTL DEF Spec
============================================================================
