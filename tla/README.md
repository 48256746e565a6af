# Verification of kronos-core

Kronos is a Kubernetes operator. A KronosApp names objects (Deployments,
StatefulSets, CronJobs, ReplicaSets) and a schedule; the controller scales them
to zero, or suspends them, while the schedule says so, remembers their levels in
a secret, and restores them afterwards. This directory holds TLA+ models of the
controller, its schedule, the selection of objects, the admission of KronosApps
and what is shown of them, TLC configurations that check them, and theorems
checked by TLAPS.

## The system

| component | state | operations | talks to |
| --- | --- | --- | --- |
| `KronosAppReconciler` (`kronosapp_controller.go`) | the work queue: request queued, timer pending | `Reconcile` | reads through the manager's caches, writes to the API server |
| sleeping and waking (`objects.go`, `included-objects/object.go`) | local to a pass: lists, saved resources, failures | `putIncludedObjectsToSleep`, `WriteChanges`, `WakeUpResources`, `PutToSleep`, `Wake`, `UpdateClient` | objects, secret |
| saved levels (`secrets.go`) | one secret per KronosApp, a JSON list per kind | `createSecret`, `registerSecret`, `SaveObjectsData`, `getSecretDatas`, `purgeSecretData` | API server |
| schedule (`scheduling.go`) | none; built anew in each pass | `NewSleepSchedule`, `IsTimeToSleep`, `IsItHoliday`, `getRequeueTime` | wall clock |
| included objects (`objects.go`, `included-objects/*.go`) | none | `ValidateIncludedObjects`, `FetchIncludedObjects`, `FetchAndFilter` | caches |
| status and metrics (`kronosapp_types.go`, `metrics.go`) | status subresource, two gauge vectors | `SetNewKronosAppStatus`, `exportAdditionalMetrics`, `deleteOldMetrics` | API server, Prometheus |
| webhook (`kronosapp_webhook.go`) | none | `Default`, `Validate*` | API server's admission |
| manager (`cmd/main.go`) | the process | start, with or without webhooks | everything above |

What is hard here:

* a pass writes to many objects and one secret in separate calls, any of which
  may conflict, fail, or be the last before a crash;
* every read is of a cache that lags behind the store, and the secret is written
  without a version check (`secrets.go:80`);
* users scale, delete and edit in between, and the secret must still restore
  exactly what was taken;
* nothing but the `RequeueAfter` of the last pass brings the controller back at
  the right moment, since the watch filters on generations;
* two KronosApps may include the same object, and neither knows of the other;
* objects come and go between the calls that list them;
* a panic in a pass ends the process, and with it the queue and the metrics;
* the schedule compares clock times of one day, while windows, weekdays and
  holidays reach over midnight.

What makes each component correct:

* reconciler: a level taken from an object is saved before it can be lost, is
  never replaced, and is given back exactly; the request is never forgotten; a
  KronosApp that stays awake ends with everything given back;
* schedule: the decision in force between passes is the one a pass would take;
  every pass asks for a later one; holidays are waited out to their end;
* included objects: every object that an entry means is fetched, and no other;
* webhook: what it admits, the controller accepts and understands alike;
* manager: every KronosApp in the store is dealt with, whatever the others are;
* status and metrics: one series per KronosApp, that of the stored status, and
  none when it is gone;
* several KronosApps: each keeps what it took, and an object that all have let go
  of is as its users want it.

## Modules

| module | models | against |
| --- | --- | --- |
| `Cluster` | the API server, the informer caches, the users and the clock around one KronosApp | external, from how `src/` uses them |
| `Reconciler` | the work queue and every path of `Reconcile`, one step per API write | `kronosapp_controller.go`, `objects.go`, `secrets.go`, `included-objects/object.go`, `kronosapp_types.go` |
| `ReconcilerProofs` | theorems about `Reconciler` | |
| `Schedule` | the window and the requeue time | `scheduling.go` |
| `ScheduleLoop` | the schedule over several days: weekdays, holidays, passes and their timers | `scheduling.go`, `kronosapp_controller.go:91-107` |
| `ScheduleProofs` | theorems about `Schedule` and `ScheduleLoop` | |
| `Custodian` | the abstract specification: object and record change in one step | what a KronosApp promises |
| `CustodianRefinement` | the refinement mapping from `Reconciler`, and why it is one | |
| `CustodianProofs` | that `Reconciler` implements `Custodian` | |
| `TwoApps` | two KronosApps over the same objects: `Reconciler` twice, one worker, one process | `kronosapp_controller.go`, `objects.go` |
| `HoldingProofs` | what a step of one KronosApp does to an object that it holds, or does not | |
| `TwoAppsProofs` | that one is safe from the other, and that both together give objects back | |
| `IncludedEntries` | the entries of `includedObjects`: validity, kinds, patterns | `objects.go`, `included-objects/deployment.go` and its likes |
| `IncludedObjects` | validating and fetching, List by List, while objects come and go | `objects.go`, `kronosapp_controller.go:109-141` |
| `IncludedObjectsProofs` | theorems about `IncludedObjects` | |
| `Admission` | the webhooks, the store, the queue and the process: which specs arrive, and what passes make of them | `kronosapp_webhook.go`, `scheduling.go:31-158`, `main.go` |
| `AdmissionProofs` | theorems about `Admission` | |
| `StatusMetrics` | the status in the store, the gauges and the list of created secrets | `kronosapp_controller.go`, `kronosapp_types.go`, `secrets.go`, `metrics.go` |
| `StatusMetricsProofs` | theorems about `StatusMetrics` | |
| `MC...` | instances for TLC; `StatusMetrics` needs none | |

### Cluster and Reconciler

`Reconciler` EXTENDS `Cluster`. An object's *level* is its replica count, or 0/1
for a suspended/running CronJob; 0 is asleep. `level`, `secret` and `app` are the
store; `clevel`, `csecret` and `capp` are the caches, which catch up one entry at
a time. A secret holds a level per object, `None` where it holds none, so that
a secret whose `Data` is nil is `NoData`.

`pc` follows a pass. `Decide` fetches the KronosApp and its secret and decides;
`StartSleep`, `StartWake` and `NothingToWake` write the status and branch;
`PutToSleep`, `AlreadyAsleep`, `PutToSleepFails`, `WakeLeftover` and
`SaveObjectsData` are the four blocks of `putIncludedObjectsToSleep`, run for
`kind` 1 to 4; `WakeObject` and `PurgeSecretData` are the wake branch. Between any
two of these, users edit, caches catch up, time passes, or the process crashes.
All saved objects may be woken in any order, and so may the listed ones be put to
sleep: the code's order follows maps and caches.

A write is accepted when the version that was read is current. Versions are
compared by content; a conflict over content that is equal (a status update of a
Deployment, the controller's own status write) is a fault of the call.
`FaultyCalls` says which calls may fail in an instance, `MaxFaults` how often.
The list of created secrets (`registerSecret`) is left to `StatusMetrics`:
`Update` does not write a status subresource, so the call changes nothing that a
pass reads.

History variables, read by no action of the controller:

* `owed[o]`: the level the controller took from `o` and has not given back; a
  user who sets the level himself clears it;
* `unsaved`: what the running pass has put to sleep and not saved;
* `exposed`: one of the windows in which a level can be lost has been hit, namely
  a pass or the process ended while something was unsaved, the level taken was
  not the level listed, the secret was overwritten from a stale copy, or a user
  deleted a secret with data;
* `stalled`: the last pass ended with `ctrl.Result{}, nil`.

### Schedule and ScheduleLoop

A time is a number of ticks since today's midnight. `DayLen` is a parameter: the
theorems hold for minutes as for nanoseconds. `SleepStart`, `SleepEnd` and
`RequeueTime` are `NewSleepSchedule`'s shifts and `getRequeueTime`; `InWindow` says
what a window means without them. `ScheduleLoop` lets the clock tick; a pass
comes after its timer, up to `MaxDelay` late, and not at the very tick of a mark
or of midnight, where the strict comparisons exclude both sides.
`AllHolidaysDates` is the sorted list without repetitions; the recursion of
`checkConsecutiveDates` on the rest of it is the function `DaysToCome`, since only
the first call meets the date that it looks for.

### Custodian

A custodian changes an object and the record of its level at once: `Take`,
`GiveBack`, `SetAgain`, `Record`, and users who set levels in between. `Custodian`'s
`kept` is, of the controller, the level in the secret or, while the pass that took
it has not saved it yet, in that pass's list (`KeptLevels`); `lost` is `exposed`.
`ImplementsCustodian` then says that the separate writes of objects and secret,
on stale copies and with every fault, look like single steps, as long as none of
the marked windows is hit.

### TwoApps

`TwoApps` EXTENDS `Reconciler`, whose variables are those of KronosApp A, and has a
second INSTANCE `B` of it, with a `b` before the variables of its own. They share
`level`, `clevel`, the bounds, and the worker: controller-runtime's default is one
worker, so that a pass of one waits for the other's. A crash ends both. `wanted`
is what users set; `first` and `crossed` tell whether the KronosApp that took an
object first has let go of it first; `disturbed`, whether a pass started from
stale data, or a user set an object that is held.

### IncludedEntries and IncludedObjects

A pattern is the set of the objects whose names it matches; the empty one matches
all. `Valid`, `KindsFetched`, `ByPattern` and `Panics` are the code's cases.
`IncludedObjects` walks the entries (`NextEntry`) and the kinds of each
(`FetchKind`), in the code's order, twice: for the count in the status, and for
the objects to put to sleep. `always` and `ever` are the objects that have been
there throughout, or at some time of, the current fetch. `Selects` reads an entry
as its fields say, whatever the code does with them, and the properties compare
the two.

### Admission

The store holds a spec per KronosApp. With `webhooks`, a request passes `Default`
and `ValidateKronosApp`, and needs the manager's process (`failurePolicy=fail`);
without, it is stored as written. Clock times and zones are strings that parse or
do not; weekdays are lists of items, items the numbers between dashes; a
holiday's date has its number of parts, whether they are digits, and whether the
days exist. `Verdict` is how a pass over a spec ends: `ok`, an error that is
returned, or a panic, which ends the process (`up`) and its queue. `Start` lists
the store and queues what is there in any order, which is the informer's. A pass
is one step here.

### StatusMetrics

A status is its texts and the list of created secrets; texts are members of a
small set. Of resource versions the model keeps whether the cache, and the pass's
copy, has the current one, which is what the store compares. `series` and `info`
are the two gauges. `SetStatusReplyLost` is a write that succeeds and whose reply
does not arrive. `orphans` marks that a status has gone without a pass that could
delete its series.

## Runs

| run | question | bounds |
| --- | --- | --- |
| `one_object` | are levels recoverable, given back exactly, and is the request kept, with every fault and every edit? does an awake KronosApp give everything back, and does an asleep one save everything? | 1 Deployment, levels 0..2, 2 edits, 1 fault |
| `custodian` | are saved levels stable, with objects that enter and leave `includedObjects`? does the controller implement the custodian? | 2 Deployments, levels 0..1, 2 edits, 1 crash or failed call |
| `two_apps` | does each KronosApp keep what it took, and do windows that nest or lie apart give objects back? | 2 KronosApps, 1 Deployment, levels 0..1, 2 edits, 1 crash or failed save, wake or purge |
| `days` | is the decision in force always the one a pass would take, and is there always a next pass? | 7 days of 6 ticks, weeks of 3 days, 9 windows, every set of weekdays, 20 lists of holidays, passes up to 3 ticks late |
| `included_objects` | do well written lists select what they mean, no list what it does not name, and is the last entry for a kind safe from those before it, while objects come and go? | 5 objects of 4 kinds in 2 namespaces, all one-entry lists of 4 versions, 6 kinds, 2 namespaces and 6 pairs of patterns, 25 two-entry lists, 1 change |
| `admission` | does the controller accept and understand what the webhooks admit? is every KronosApp dealt with once nothing panics any more? | 2 KronosApps, 14 specs with one peculiarity each, 5 requests or redeployments |
| `status_metrics` | is there one series at most, and do both gauges agree with the stored status? is a KronosApp that is gone forgotten, and a stored status shown? | 2 texts, 2 edits, 2 faults |
| `restart`, `stalled_wake`, `two_apps_crossed`, `weekend`, `crash_loop` | what the documentation says and the code does not do; each must be violated | as small as the case allows |

Why the bounds are enough: two levels above 0 tell a restored level from any
other running one; two objects give the mixtures of new, saved and left-over; two
edits are a change of the clock, which starts anywhere, and a user's edit before
or after it; one fault is a window and its recovery, and each of the exposing
windows is a single fault or edit. The safety properties of
all runs are proved for every value of the bounds. A day of six ticks has a mark at midnight,
two inside the day and an instant between any two; weeks of three days have days
that are alike and days that differ next to each other.

In `two_apps`, `Explored` cuts off what follows a holiday (which differs from the
window only in the status), stale data and a lost level: of these the invariants
say nothing, or what `one_object` says of one KronosApp. Two edits are two changes
of the windows, which nest, lie apart or cross. In `included_objects`, two entries
are enough for one to replace the result of the other, and one change for the
count and the list to differ. In `admission`, five requests write both KronosApps,
redeploy and write again. In `status_metrics`, two edits delete and recreate a
KronosApp, or change it; two faults are a lost reply and a crash.

`CHECK_DEADLOCK FALSE` is set because a KronosApp that is deleted, or has stalled,
really gives the controller nothing more to do, and because edits and days are
bounded.

Fairness (`FairSpec`): weak fairness of the worker, whose goroutine takes what is
queued; of the timer; of each informer. Users, the clock and faults have none.
Weak fairness of the worker says nothing of how a pass ends: retries succeed in
the end only because `MaxFaults` bounds the failures.

In `Admission`, the worker and the restart are weakly fair: the queue's order, not
fairness, keeps a KronosApp from starving behind others that fail for ever, and
the cluster's Deployment restarts a manager that ended. In `StatusMetrics`, the
worker, the timer and the informers are.

`WakesUp` leaves out three cases that it names: a level already lost, a pass that
stalled, and a saved object that was deleted, on which `WakeUpResources` fails for
ever. `InSync` leaves out schedules with days that differ whose window does not
cover midnight.

### What the code does not do

Each of these is a property of its module, under the heading "What the
documentation says, and the code does not do", with a configuration in which TLC
finds it violated. The first five are runs of `PROJECT.json`.

* `restart` (`NeverLost`): levels are saved after the objects are put to sleep
  (`objects.go:381`, `400`); a crash in between loses them.
* `stalled_wake` (`WakesUpRegardless`): a pass with a failed sleep write, when the
  failure is the last of its kind's list, asks for no other, so that the objects
  that did go to sleep are not woken when the window ends
  (`kronosapp_controller.go:142-145`). Two Deployments: one goes to sleep, the write
  to the other fails, and the first stays at 0.
* `two_apps_crossed` (`GivenBackWhenCrossed`): of two KronosApps whose windows
  overlap without nesting, the second saves 0 for an object that the first put to
  sleep, and its wake stops it for good (`objects.go:379`).
* `weekend` (`SleepAtWeekend`): `getRequeueTime` knows no midnight
  (`scheduling.go:261-272`), so that with a window inside the day a day off begins
  awake, and the first working day after it sleeps until its window has passed.
* `crash_loop` (`OthersAreServed`): a KronosApp that panics ends the process again
  and again, and others are not reconciled for as long
  as the restarts list it first.
* `MCReconciler_retry.cfg` (`SleepIsRetried`): a sleep write that fails once is never
  tried again, since the object is saved as if asleep (`objects.go:378-386`).
* `MCReconciler_force.cfg` (`ForceWakeWakes`): a holiday wins over `forceWake`
  (`scheduling.go:234-237`), which README.md:152 says "Immediately wakes up
  resources".
* `MCReconciler_blocked.cfg` (`OthersAreWoken`): a saved object that was deleted
  stops every wake before the objects behind it (`objects.go:564-569`).
* `MCReconciler_scaled.cfg` (`WakeNeverSleeps`): an object that was at 0 when the
  sleep began is saved at 0, and stopped by the wake if a user has scaled it up
  since (`included-objects/object.go:147`).
* `MCIncludedObjects_entries.cfg` (`EveryEntryCounts`): a later entry's objects of a
  kind replace an earlier one's (`objects.go:194`), although `includedObjects` is an
  "Array of objects specifying included Kubernetes objects" (README.md:87). The run
  `included_objects` says only what both agree on: the last entry that fetches a
  kind counts (`LastEntryCounts`).
* `MCIncludedObjects_kind.cfg` (`NoOtherKind`): with `apiVersion: "*"` the kind is
  ignored (`objects.go:187`).
* `MCIncludedObjects_include.cfg` (`IncludeRefIncludes`): an `includeRef` with an
  empty `excludeRef` selects nothing (`included-objects/deployment.go:24`), although
  each resource "can be individually included or excluded" (README.md:132) and the
  default of `excludeRef` is `^$` (`kronosapp_webhook.go:65-67`). No run claims
  anything of what such an entry finds, except that it is nothing foreign.
* `MCIncludedObjects_pattern.cfg` (`NeverPanics`): equal patterns, and patterns that
  do not compile, panic (`deployment.go:17-22`, `objects.go:193`).
* `MCAdmission_weekdays.cfg` (`DefaultsAreAdmitted`): the default `*` is denied
  (`kronosapp_webhook.go:50`, `129`).
* `MCAdmission_namespace.cfg` (`DefaultsAreStored`): the other defaults are lost
  (`kronosapp_webhook.go:52`).
* `StatusMetrics_ghost.cfg` (`SeriesForgets`): the detailed series of a deleted
  KronosApp stays (`kronosapp_controller.go:62-67`).
* `StatusMetrics_secret.cfg` (`MissingSecretIsNoticed`): the warning of a missing
  secret never comes (`kronosapp_controller.go:73`, `secrets.go:63`,
  `kronosapp_types.go:88`).

`MCReconciler_kinds.cfg` passes: `Recoverable` for a Deployment and a CronJob, whose
lists are saved one after the other. `LevelsAreRecoverable` proves it for any kinds.

## Proofs

`ReconcilerProofs`, for any objects, kinds, levels, specs, number of edits and
faults, from `ClusterAssumption` and `ReconcilerAssumption` (types of the
constants only):

* `TypeCorrect`: `Spec => []TypeOK`, one step per action.
* `CustodyHolds`: `Spec => []Custody`. `Recoverable` alone is not inductive: a save
  keeps it only if the list being saved agrees with the saved levels and the
  left-overs it drops have been woken, and a purge only if all that was saved has
  been given back. `SleepCustody` and `WakeCustody` say so of the two loops, under
  the condition that the pass's copy of the secret is still the store's. Steps
  that leave these variables alone go through `CustodyKept`, steps that end the
  pass through `CustodyAtReturn`, and the rest have a lemma each.
* `LevelsAreRecoverable`: `Spec => []Recoverable`, from `Custody`.
* `RecordsAreStable`: `Spec => RecordStable`, from `Custody` and `SecretWriters`, which
  names the four steps that write the secret.
* `NeverForgotten`: `Spec => []NotForgotten`.

`ScheduleProofs`, from `ScheduleAssumption` and `LoopAssumption`. Of the window, for
any `DayLen` and any time of day: `WindowIsRight` (the shifted comparisons tell
exactly the window), `RequeueInADay` (positive, at most a day), `NoMarkMissed` (no
start or end lies before the pass that is asked for). Of the loop of passes, for
any windows, weekdays, lists of holidays, number of days and delay:

* `ScheduleTyped`: `Spec => []TypeOK`; `AlwaysAnother`: `Spec => PassFollowsPass`.
  Both rest on `RequeuePositive`.
* `HolidaysWaitedOut`: `Spec => HolidaysToTheEnd`. `ListingExists`: the dates can be
  listed in order, so that the choice in `AllHolidaysDates` has a value.
  `SearchEnds`: the recursion of `checkConsecutiveDates` looks at later dates only
  and so defines a function. `EveryRunEnds`: its value is the number of days to the
  first day that is no holiday. The three go by induction, on days or backwards
  along the list; the library's induction theorems have an operator for a
  parameter, so `SetInduction` states induction for a set of numbers, from the
  well-foundedness of `<`.
* `DecisionHolds`: `Spec => []InSync`. `InSync` says only what is so now; inductive is
  `Foreseen`, that the decision will be right at every time until the next pass is
  due. A pass establishes it (`SameDecision`): on a holiday by `HolidaysEnd`, else
  by `NoMarkMissed` up to midnight and by `OverMidnight` behind it.

`CustodianProofs`, from the same assumptions:

* `FidelityHolds`: `Spec => []Fidelity`. What a stale copy may still say: a cached
  secret, or the pass's, has for an object that waits for its level that level or
  nothing (`CopiesAgree`); the object sleeps (`SleepersSleep`); while the pass's
  copy is current, the cache lags behind it only in kinds that this pass has
  saved (`CacheBehindPass`), which is why the next pass, started on that cache,
  does no harm. It is inductive together with `Custody`.
* `GivesBackWhatWasTaken`: `Spec => RestoresWhatWasTaken`, from `Fidelity`.
* `ControllerIsCustodian`: `Spec => ImplementsCustodian`. Each step, under `TypeOK`,
  `Custody` and `Fidelity`, is mapped to `Take`, `GiveBack`, `SetAgain`, `Record`,
  `UserSets`, `Lose` or a stutter.
* `KeptWhileAsleep`: `Spec => []SleepersAreKept`.

`TwoAppsProofs`, for any objects, kinds and levels. `TwoAppsTyped`:
`TwoAppsSpec => []TwoAppsTypeOK`. `SafeFromAnother`: `TwoAppsSpec => []EachRecoverable`.
The argument is compositional: to A, a step of B changes objects and nothing else,
just as a user does, but without clearing what A is owed; `Custody` says nothing of
the levels of objects, so that all that is to be shown of B is that what it writes
are levels. The steps of A preserve `Custody` by the lemmas of `ReconcilerProofs`,
and those of B by the same lemmas in an instance with B's variables. `Fidelity` does
not survive in this way, and the run `two_apps_crossed` shows why.

`GivenBackNested`: `TwoAppsSpec => []GivenBackWhenNested`. Neither KronosApp's
invariants say what the objects' levels are while the other writes them.
`HoldingProofs` therefore describes a single step of one KronosApp by the level that
it holds of an object (`Held`: saved or listed): it takes a level that is the
object's own, keeps it while it writes 0 or that level, or lets go of it when the
object has it (`Turn`), and this for every action, from `Tidy` and `Orderly` alone
(`WorkerTurns`). The inductive invariant `InCalm` then says of each object, by who
holds it, what its level may be (`Nested`): nobody, and it is as wanted; one, and
what is held is what is wanted; both, and the one that held first does.

`IncludedObjectsProofs`, from `EntriesAssumption` and `IncludedObjectsAssumption`, for
any objects, patterns and lists: `IncludedTypeCorrect`; `OnlyFittingObjects`,
`Spec => []NothingForeign`; `FoundAsMeant`, `Spec => []FindsWhatIsMeant`;
`LastEntryIsFound`, `Spec => []LastEntryCounts`; `CountedIsAsleep`,
`Spec => []HandledIsAsleep`. Their invariant follows the walk: the kinds still to be
listed are of the current entry, each kind's list fits an entry that has been begun,
and what a plain entry behind the walk means, and has been there all along, is in its
list until the walk gets to a later entry for the same kind (`Regular`).
`FoundAsMeant` follows from `LastEntryCounts`, since no other entry of a well written
list fetches the kind. For `CountedIsAsleep` the second fetch repeats the first
(`LastTaken`, `CountKept`), as long as nothing has come or gone.

`AdmissionProofs`, from `AdmissionAssumption`: every admitted spec in the store is of
its type and was validated (`OnlyVettedAreAdmitted`), from which
`AdmittedSpecsSchedule` and `AdmittedDaysAreListed` follow by what the two parsers
make of the same list. `AdmissionTypeCorrect`, `Spec => []TypeOK`, has as its main
point that the queue holds a KronosApp once at most, whatever order a start lists
them in.

`StatusMetricsProofs`, from `StatusMetricsAssumption`: `StatusMetricsTyped` (types, and
`Versions`: a copy of the current version has the stored content), and
`OneSeriesEach`, `Spec => []OneSeries`, by an invariant that says what the gauges
show between the write of a status and its export.

Only model-checked: the liveness properties, `WakesUp`, `EverySleeperSaved`,
`EveryAppServed`, `InfoForgets` and `StatusIsShown`, which are out of the prover's
reach. Every invariant and every action property of a passing run is a theorem.

## Not modelled

* How clock times, dates and time zones are parsed from strings: what they mean is
  (`MapWeekdays`, `ExtractHolidays`), and so is which are accepted (`Admission`).
* Days of 23 or 25 hours, and a pass at the very tick of a start or an end.
* Saved data that cannot be decoded: only the controller writes it.
* ReplicaSets that a Deployment owns: how its controller answers to their being
  scaled is outside the repository.
* More than one worker, and more than one manager: the code does not set
  `MaxConcurrentReconciles`, and `config/manager/manager.yaml` runs the manager with
  `--leader-elect`.
* Flags, schemes, servers, health checks, generated code, manifests: no behaviour
  of their own.

## Plan

Done: all the modules, runs and proofs above. Left:

1. Days of 23 and 25 hours in `ScheduleLoop`: `checkConsecutiveDates` compares dates
   by 24 hours (`scheduling.go:204`), so that a run of holidays ends at the change
   for it, and the pass at that midnight is what joins the rest.
2. A pass at the very instant of a start or an end (`scheduling.go:263`).
3. What leads to the liveness properties, as far as it is safety: that a pass always
   has a next step until it ends, and that a retry is queued whenever a level is
   owed by an awake KronosApp.
