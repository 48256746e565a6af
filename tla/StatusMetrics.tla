--------------------------- MODULE StatusMetrics ---------------------------
(***************************************************************************)
(* What Kronos shows of one KronosApp: its status in the store, and two    *)
(* gauges of the process.  schedule_info has one series per KronosApp;     *)
(* indepth_schedule_info has the texts of the status among its labels, so  *)
(* that each pass deletes the series of the status that it replaces.       *)
(*                                                                         *)
(* The store accepts a status only from a pass whose copy of the KronosApp *)
(* is of the current version.  Of versions only that is kept: whether the  *)
(* cache's, and the pass's, is the current one.                            *)
(***************************************************************************)
EXTENDS Integers, FiniteSets

CONSTANTS
  Texts,     \* what reason, handledResources and nextOperation may say
  MaxEdits,  \* bound: how many edits users make
  MaxFaults  \* bound: how many calls fail and crashes there are

ASSUME StatusMetricsAssumption ==
  MaxEdits \in Nat /\ MaxFaults \in Nat

\* The names that may stand in status.secretCreated.
AppName    == "name"
SecretName == "kronosapp-name"

\* status and its texts are the labels of a series, and secretCreated is not.
Labels   == [status : {"Asleep", "Awake"}, text : Texts] \cup {[status |-> "", text |-> ""]}
NoLabels == [status |-> "", text |-> ""]
Statuses == [labels : Labels, secretCreated : SUBSET {AppName, SecretName}]
NoStatus == [labels |-> NoLabels, secretCreated |-> {}]
NoApp    == [exists |-> FALSE, valid |-> FALSE, status |-> NoStatus]
NewApp   == [exists |-> TRUE, valid |-> TRUE, status |-> NoStatus]
AppType  == [exists : BOOLEAN, valid : BOOLEAN, status : Statuses]
NoInfo   == "none"

VARIABLES
  app,      \* the store: the KronosApp
  capp,     \* its cache
  current,  \* is the cache's version the store's?
  notified, \* is there no event under way that queues the request?
  secret,   \* the store: is there a secret?
  csecret,  \* the secret cache
  queued,   \* the work queue
  timer,    \* is a RequeueAfter pending?
  pc,       \* where the pass is
  lapp,     \* kronosApp, the pass's copy
  lcurrent, \* is its version the store's?
  new,      \* newStatus
  series,   \* indepth_schedule_info: the labels of its series
  info,     \* schedule_info: Asleep (0), Awake (1), or no series
  edits,    \* edits so far
  faults,   \* faults so far
  \* history variables
  orphans,  \* may a status be gone whose series no pass will delete?
  tracked,  \* has this KronosApp's secret been created before?
  warned    \* what checkIfSecretWasCreatedPreviously has said last

storeVars  == <<app, secret>>
cacheVars  == <<capp, current, notified, csecret>>
queueVars  == <<queued, timer>>
localVars  == <<lapp, lcurrent, new>>
metricVars == <<series, info>>
vars == <<storeVars, cacheVars, queueVars, pc, localVars, metricVars, edits, faults,
          orphans, tracked, warned>>

TypeOK ==
  /\ app \in AppType /\ capp \in AppType /\ lapp \in AppType
  /\ current \in BOOLEAN /\ notified \in BOOLEAN /\ lcurrent \in BOOLEAN
  /\ secret \in BOOLEAN /\ csecret \in BOOLEAN
  /\ queued \in BOOLEAN /\ timer \in BOOLEAN
  /\ pc \in {"idle", "create", "status", "export"}
  /\ new \in Statuses
  /\ series \in SUBSET Labels
  /\ info \in {"Asleep", "Awake", NoInfo}
  /\ edits \in 0..MaxEdits /\ faults \in 0..MaxFaults
  /\ orphans \in BOOLEAN /\ tracked \in BOOLEAN
  /\ warned \in {"", "none created", "missing"}

Init ==
  /\ app = NewApp /\ capp = NewApp
  /\ current = TRUE /\ notified = TRUE
  /\ secret = FALSE /\ csecret = FALSE
  /\ queued = TRUE /\ timer = FALSE
  /\ pc = "idle"
  /\ lapp = NoApp /\ lcurrent = FALSE /\ new = NoStatus
  /\ series = {} /\ info = NoInfo
  /\ edits = 0 /\ faults = 0
  /\ orphans = FALSE /\ tracked = FALSE /\ warned = ""

----------------------------------------------------------------------------
(* Users and informers.                                                    *)

Edit == edits < MaxEdits /\ edits' = edits + 1

\* The KronosApp has a new version, which neither cache nor pass has.
Store(a) == app' = a /\ current' = FALSE /\ lcurrent' = FALSE

UsersDoNot == UNCHANGED <<capp, csecret, queueVars, pc, lapp, new, metricVars, faults, warned>>

CreateApp ==
  /\ Edit
  /\ ~app.exists
  /\ Store(NewApp) /\ notified' = FALSE
  /\ tracked' = FALSE
  /\ UsersDoNot /\ UNCHANGED <<secret, orphans>>

\* A new spec, which NewSleepSchedule accepts or does not.
EditApp ==
  /\ Edit
  /\ app.exists
  /\ \E v \in BOOLEAN : Store([app EXCEPT !.valid = v])
  /\ notified' = FALSE
  /\ UsersDoNot /\ UNCHANGED <<secret, orphans, tracked>>

\* Its status goes with it.
DeleteApp ==
  /\ Edit
  /\ app.exists
  /\ Store(NoApp) /\ notified' = FALSE
  /\ orphans' = TRUE
  /\ UsersDoNot /\ UNCHANGED <<secret, tracked>>

DeleteSecret ==
  /\ Edit
  /\ secret
  /\ secret' = FALSE
  /\ UsersDoNot /\ UNCHANGED <<app, current, notified, lcurrent, orphans, tracked>>

\* GenerationChangedPredicate: a status alone does not queue the request.
SyncApp ==
  /\ ~current
  /\ capp' = app /\ current' = TRUE
  /\ notified' = TRUE
  /\ queued' = (queued \/ ~notified)
  /\ UNCHANGED <<storeVars, csecret, timer, pc, localVars, metricVars, edits, faults,
                 orphans, tracked, warned>>

SyncSecret ==
  /\ csecret # secret
  /\ csecret' = secret
  /\ UNCHANGED <<storeVars, capp, current, notified, queueVars, pc, localVars,
                 metricVars, edits, faults, orphans, tracked, warned>>

TimerFires ==
  /\ timer
  /\ timer' = FALSE /\ queued' = TRUE
  /\ UNCHANGED <<storeVars, cacheVars, pc, localVars, metricVars, edits, faults,
                 orphans, tracked, warned>>

----------------------------------------------------------------------------
(* The pass.                                                               *)

Fault == faults < MaxFaults /\ faults' = faults + 1

\* The pass ends, and the request comes back.
Retry == pc' = "idle" /\ queued' = TRUE /\ UNCHANGED timer

\* A bug: the series of a KronosApp that is gone is kept.
FetchNotFound_Kept ==
  /\ pc = "idle" /\ queued
  /\ ~capp.exists
  /\ UNCHANGED <<vars>>

\* The KronosApp is gone: its series of schedule_info is deleted, and the error
\* is returned.
FetchNotFound ==
  /\ pc = "idle" /\ queued
  /\ ~capp.exists
  /\ info' = NoInfo
  /\ UNCHANGED <<storeVars, cacheVars, queueVars, pc, localVars, series, edits, faults,
                 orphans, tracked, warned>>

\* checkIfSecretWasCreatedPreviously looks for the KronosApp's name.
CheckIfSecretWasCreatedPreviously(a) ==
  IF a.status.secretCreated = {} THEN "none created"
  ELSE IF AppName \in a.status.secretCreated THEN "missing" ELSE ""

FetchNoSecret ==
  /\ pc = "idle" /\ queued
  /\ capp.exists /\ ~csecret
  /\ warned' = CheckIfSecretWasCreatedPreviously(capp)
  /\ queued' = FALSE
  /\ pc' = "create"
  /\ lapp' = capp /\ lcurrent' = current
  /\ UNCHANGED <<storeVars, cacheVars, timer, new, metricVars, edits, faults, orphans,
                 tracked>>

\* Update writes all but the status, which is a subresource; with it goes the
\* secret's name that registerSecret has added to its copy.
Update(a) == [a EXCEPT !.status = app.status]

RegisterSecret ==
  LET copy == [lapp EXCEPT !.status.secretCreated = @ \cup {SecretName}] IN
  IF lcurrent /\ app # Update(copy)
    THEN Store(Update(copy))
    ELSE UNCHANGED <<app, current, lcurrent>>

\* createSecret and registerSecret, whose errors are logged.
CreateSecret ==
  /\ pc = "create"
  /\ \/ secret' = TRUE /\ UNCHANGED faults
     \/ Fault /\ UNCHANGED secret
  /\ tracked' = (tracked \/ secret')
  /\ RegisterSecret
  /\ Retry
  /\ UNCHANGED <<capp, notified, csecret, lapp, new, metricVars, edits, orphans, warned>>

\* NewSleepSchedule rejects the spec, or the fetching fails.
PrepareFails ==
  /\ pc = "idle" /\ queued
  /\ capp.exists /\ csecret
  /\ \/ ~capp.valid /\ UNCHANGED faults
     \/ Fault
  /\ UNCHANGED <<storeVars, cacheVars, queueVars, pc, localVars, metricVars, edits,
                 orphans, tracked, warned>>

\* A bug: one of the texts is not set.
GetNewKronosAppStatus_NoText(s, t) ==
  [labels |-> [status |-> s, text |-> ""], secretCreated |-> {}]

\* GetNewKronosAppStatus makes a status of its own, without secretCreated.
GetNewKronosAppStatus(s, t) ==
  [labels |-> [status |-> s, text |-> t], secretCreated |-> {}]

Decide ==
  /\ pc = "idle" /\ queued
  /\ capp.exists /\ csecret /\ capp.valid
  /\ \E s \in {"Asleep", "Awake"}, t \in Texts : new' = GetNewKronosAppStatus(s, t)
  /\ queued' = FALSE
  /\ pc' = "status"
  /\ lapp' = capp /\ lcurrent' = current
  /\ UNCHANGED <<storeVars, cacheVars, timer, metricVars, edits, faults, orphans,
                 tracked, warned>>

SetStatus ==
  /\ pc = "status"
  /\ lcurrent
  /\ Store([app EXCEPT !.status = new])
  /\ pc' = "export"
  /\ UNCHANGED <<secret, capp, notified, csecret, queueVars, lapp, new, metricVars,
                 edits, faults, orphans, tracked, warned>>

SetStatusFails ==
  /\ pc = "status"
  /\ \/ ~lcurrent /\ UNCHANGED faults
     \/ Fault
  /\ Retry
  /\ UNCHANGED <<storeVars, cacheVars, localVars, metricVars, edits, orphans, tracked,
                 warned>>

\* The store has taken the status, and the pass does not hear of it.
SetStatusReplyLost ==
  /\ pc = "status"
  /\ lcurrent
  /\ Fault
  /\ Store([app EXCEPT !.status = new])
  /\ orphans' = TRUE
  /\ Retry
  /\ UNCHANGED <<secret, capp, notified, csecret, lapp, new, metricVars, edits, tracked,
                 warned>>

\* A bug: the series of the new status is deleted in place of the old one's.
DeleteOldMetrics_New == series \ {new.labels}

\* deleteOldMetrics: currentStatus is that of the pass's copy.
DeleteOldMetrics == series \ {lapp.status.labels}

\* exportAdditionalMetrics.  The rest of the pass leaves status and metrics alone:
\* it fails, asks to come back later, or does not.
ExportMetrics ==
  /\ pc = "export"
  /\ series' = DeleteOldMetrics \cup {new.labels}
  /\ info' = new.labels.status
  /\ pc' = "idle"
  /\ \/ queued' = TRUE /\ UNCHANGED timer
     \/ timer' = TRUE /\ UNCHANGED queued
     \/ UNCHANGED queueVars
  /\ UNCHANGED <<storeVars, cacheVars, localVars, edits, faults, orphans, tracked, warned>>

\* A bug: the first listing does not queue what it finds.
Crash_NotQueued ==
  /\ Fault
  /\ pc' = "idle" /\ lapp' = NoApp /\ lcurrent' = FALSE /\ new' = NoStatus
  /\ capp' = app /\ current' = TRUE /\ notified' = TRUE /\ csecret' = secret
  /\ queued' = FALSE /\ timer' = FALSE
  /\ series' = {} /\ info' = NoInfo
  /\ orphans' = FALSE
  /\ UNCHANGED <<storeVars, edits, tracked, warned>>

\* The process dies, with its metrics, and starts again.
Crash ==
  /\ Fault
  /\ pc' = "idle" /\ lapp' = NoApp /\ lcurrent' = FALSE /\ new' = NoStatus
  /\ capp' = app /\ current' = TRUE /\ notified' = TRUE /\ csecret' = secret
  /\ queued' = app.exists /\ timer' = FALSE
  /\ series' = {} /\ info' = NoInfo
  /\ orphans' = FALSE
  /\ UNCHANGED <<storeVars, edits, tracked, warned>>

Worker ==
  \/ FetchNotFound \/ FetchNoSecret \/ CreateSecret \/ PrepareFails
  \/ Decide \/ SetStatus \/ SetStatusFails \/ SetStatusReplyLost \/ ExportMetrics

Next ==
  \/ CreateApp \/ EditApp \/ DeleteApp \/ DeleteSecret
  \/ SyncApp \/ SyncSecret \/ TimerFires
  \/ Worker \/ Crash

Spec == Init /\ [][Next]_vars

\* The worker takes what is queued, the queue releases what is due, the watches
\* deliver.
FairSpec ==
  Spec /\ WF_vars(Worker) /\ WF_vars(TimerFires) /\ WF_vars(SyncApp) /\ WF_vars(SyncSecret)

----------------------------------------------------------------------------
(* Safety                                                                  *)

\* A KronosApp has one detailed series at most, that of the status that is stored,
\* and both gauges agree with it.  A pass deletes the series of the status in its
\* cache: it is the one replaced, because the store rejects the status of a pass
\* with an older version.  A status that goes without a pass, with its KronosApp
\* or by a call whose reply is lost, leaves its series behind (`orphans').
OneSeries ==
  ~orphans /\ pc # "export" =>
    /\ series \subseteq {app.status.labels}
    /\ info = IF series = {} THEN NoInfo ELSE app.status.labels.status

----------------------------------------------------------------------------
(* Liveness, under FairSpec                                                *)

\* schedule_info forgets a KronosApp that is gone, whatever pass was running then.
InfoForgets == <>[]~app.exists => <>[](info = NoInfo)

\* The status that is stored gets its series, again after a restart too.
StatusIsShown ==
  <>[](app.exists /\ app.valid) => <>[](pc = "export" \/ app.status.labels \in series)

----------------------------------------------------------------------------
(* What the documentation says, and the code does not do.                  *)

\* README.md:139: indepth_schedule_info tells "resource statuses".  It does not
\* tell those of a KronosApp that is gone.
SeriesForgets == <>[]~app.exists => <>[](series = {})

\* secrets.go:34: "WARNING: %s was not found but recorded as created.  Possible
\* tamper or missing data".  A secret that was there and is gone is warned of.
MissingSecretIsNoticed ==
  pc = "create" /\ tracked /\ ~secret => warned = "missing"
============================================================================
