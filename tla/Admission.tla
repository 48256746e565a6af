----------------------------- MODULE Admission -----------------------------
(***************************************************************************)
(* Which KronosApps come to be stored, and what the controller makes of    *)
(* them.  With the webhooks a request passes Default and validateKronosApp *)
(* of the manager's process; without them, it is stored as it is written.  *)
(* The controller takes the stored KronosApps from one queue.  What is     *)
(* wrong with a spec shows only then: NewSleepSchedule, the validation of  *)
(* the included objects or their fetching returns an error, which is tried *)
(* again for ever, or panics, which ends the process with the queue.       *)
(*                                                                         *)
(* A pass is one step here and has its secret already; how passes come     *)
(* apart is the subject of Reconciler.                                     *)
(***************************************************************************)
EXTENDS IncludedEntries, Functions

CONSTANTS
  KronosApps,    \* the KronosApps there may be
  ClockLiterals, \* the strings that time.Parse("15:04", _) accepts
  Zones,         \* the strings that time.LoadLocation accepts
  SpecsWritten,  \* the specs that users write
  MaxEdits       \* bound: how many requests and redeployments there are

\* A list of weekdays is a sequence of items, an item the sequence of numbers
\* between its dashes, 0 standing for what is no number.  "" is the list of no
\* item, and "*" has an item without numbers.
EmptyWeekdays == <<>>
EveryWeekday  == <<<<>>>>

\* A holiday's date: how many parts its dashes make, whether the first three have
\* the digits of YYYY-MM-DD/DD..., and whether all their days are in the calendar.
DateType == [parts : 1..4, digits : BOOLEAN, exists : BOOLEAN]

SpecType ==
  [startSleep : STRING, endSleep : STRING, weekDays : Seq(Seq(Nat)),
   timeZone : STRING, holidays : Seq(DateType), includedObjects : Seq(EntryType)]

NoApp == [startSleep |-> "", endSleep |-> "", weekDays |-> EmptyWeekdays,
          timeZone |-> "", holidays |-> <<>>, includedObjects |-> <<>>]

ASSUME AdmissionAssumption ==
  /\ IsFiniteSet(KronosApps)
  /\ "" \notin ClockLiterals
  /\ SpecsWritten \subseteq SpecType /\ NoApp \notin SpecsWritten
  /\ MaxEdits \in Nat

VARIABLES
  store,    \* the spec of each KronosApp in the store, NoApp if there is none
  webhooks, \* is the manager deployed with its webhooks?
  up,       \* does the manager's process run?
  queue,    \* the work queue
  edits,    \* edits so far
  \* history variables
  admitted, \* the KronosApps whose spec the webhooks have let through
  served,   \* the KronosApps whose spec a pass has dealt with, or rejected
  refused   \* the last spec written that was denied, NoApp if there is none

vars == <<store, webhooks, up, queue, edits, admitted, served, refused>>

\* With what is defaulted.
StoredSpecs ==
  SpecsWritten \cup {[s EXCEPT !.weekDays = EveryWeekday] : s \in SpecsWritten}

TypeOK ==
  /\ store \in [KronosApps -> StoredSpecs \cup {NoApp}]
  /\ webhooks \in BOOLEAN
  /\ up \in BOOLEAN
  /\ queue \in Seq(KronosApps)
  /\ IsInjective(queue)
  /\ edits \in 0..MaxEdits
  /\ admitted \in SUBSET KronosApps
  /\ served \in SUBSET KronosApps
  /\ refused \in SpecsWritten \cup {NoApp}

----------------------------------------------------------------------------
(* kronosapp_webhook.go                                                    *)

\* The defaults of the included objects are written to the copy that range
\* makes of each, and are lost.
Default(s) ==
  IF s.weekDays = EmptyWeekdays THEN [s EXCEPT !.weekDays = EveryWeekday] ELSE s

ValidWeekdays(w) ==
  /\ w # <<>>
  /\ \A i \in 1..Len(w) :
       w[i] # <<>> /\ \A j \in 1..Len(w[i]) : w[i][j] \in 1..7

\* A bug: the year and month are not looked at.
ValidHolidays_Lax(hs) == \A i \in 1..Len(hs) : hs[i].digits

\* Whether the days are in the calendar is not looked at.
ValidHolidays(hs) == \A i \in 1..Len(hs) : hs[i].parts = 3 /\ hs[i].digits

\* The errors come in an order, but each denies the request.
ValidateKronosApp(s) ==
  /\ s.startSleep \in ClockLiterals
  /\ s.endSleep \in ClockLiterals
  /\ s.timeZone \in Zones
  /\ ValidWeekdays(s.weekDays)
  /\ ValidHolidays(s.holidays)

----------------------------------------------------------------------------
(* What the controller makes of a spec.                                    *)

\* A bug: the last day of a range is left out.
ExtractWeekdays_OpenRange(w) ==
  IF w = EveryWeekday THEN 1..7
  ELSE (UNION {IF Len(w[i]) > 1 THEN w[i][1] .. (w[i][2] - 1) ELSE {w[i][1]} :
                 i \in 1..Len(w)}) \cap 1..7

\* extractWeekdays and mapWeekdays: of an item with dashes the first two numbers
\* are taken.
ExtractWeekdays(w) ==
  IF w = EveryWeekday THEN 1..7
  ELSE (UNION {IF Len(w[i]) > 1 THEN w[i][1] .. w[i][2] ELSE {w[i][1]} :
                 i \in 1..Len(w)}) \cap 1..7

\* extractDatesFromHoliday takes three parts without looking, and parses them.
ExtractDates(h) ==
  IF h.parts < 3 THEN "panic"
  ELSE IF ~h.digits \/ ~h.exists THEN "error" ELSE "ok"

\* The first holiday that is not ok ends extractHolidays.
ExtractHolidays(hs) ==
  LET bad == {i \in 1..Len(hs) : ExtractDates(hs[i]) # "ok"} IN
  IF bad = {} THEN "ok"
  ELSE IF \E i \in bad : ExtractDates(hs[i]) = "panic" /\ \A j \in bad : i <= j
    THEN "panic" ELSE "error"

NewSleepSchedule(s) ==
  IF s.timeZone \notin Zones THEN "error"
  ELSE IF ExtractHolidays(s.holidays) # "ok" THEN ExtractHolidays(s.holidays)
  ELSE IF s.startSleep \notin ClockLiterals \/ s.endSleep \notin ClockLiterals
    THEN "error" ELSE "ok"

\* How a pass over the spec ends.
Verdict(s) ==
  LET entry == {s.includedObjects[i] : i \in 1..Len(s.includedObjects)} IN
  IF NewSleepSchedule(s) # "ok" THEN NewSleepSchedule(s)
  ELSE IF \E e \in entry : ~Valid(e) THEN "error"
  ELSE IF \E e \in entry : Panics(e) THEN "panic" ELSE "ok"

----------------------------------------------------------------------------
(* Users, who write to the store through the webhooks if there are any.    *)

Init ==
  /\ store = [a \in KronosApps |-> NoApp]
  /\ webhooks \in BOOLEAN
  /\ up = TRUE
  /\ queue = <<>>
  /\ edits = 0
  /\ admitted = {} /\ served = {} /\ refused = NoApp

Edit == edits < MaxEdits /\ edits' = edits + 1

Queued(a) == \E i \in 1..Len(queue) : queue[i] = a

\* A bug: a KronosApp that waits already is queued once more.
Notify_Twice(a) == queue' = IF up THEN Append(queue, a) ELSE queue

\* A watch event: the queue holds each KronosApp once, and dies with the process.
Notify(a) == queue' = IF up /\ ~Queued(a) THEN Append(queue, a) ELSE queue

\* A KronosApp is created or updated.  An update that leaves the spec alone does
\* not pass GenerationChangedPredicate.
Write(a, s) ==
  /\ store' = [store EXCEPT ![a] = s]
  /\ admitted' = IF webhooks THEN admitted \cup {a} ELSE admitted \ {a}
  /\ IF s = store[a]
       THEN UNCHANGED <<queue, served>>
       ELSE Notify(a) /\ served' = served \ {a}
  /\ UNCHANGED <<webhooks, up, refused>>

WriteUnchecked(a, s) == ~webhooks /\ Write(a, s)

\* failurePolicy is Fail: without the process, no request passes.
WriteAdmitted(a, s) ==
  /\ webhooks /\ up
  /\ ValidateKronosApp(Default(s))
  /\ Write(a, Default(s))

WriteDenied(s) ==
  /\ webhooks /\ up
  /\ ~ValidateKronosApp(Default(s))
  /\ refused' = s
  /\ UNCHANGED <<store, webhooks, up, queue, admitted, served>>

\* ValidateDelete lets everything through, and is not even registered.
Delete(a) ==
  /\ store[a] # NoApp
  /\ store' = [store EXCEPT ![a] = NoApp]
  /\ admitted' = admitted \ {a}
  /\ served' = served \ {a}
  /\ Notify(a)
  /\ UNCHANGED <<webhooks, up, refused>>

\* The manager is deployed anew, with another ENABLE_WEBHOOKS.
Redeploy ==
  /\ webhooks' = ~webhooks
  /\ up' = FALSE
  /\ queue' = <<>>
  /\ UNCHANGED <<store, admitted, served, refused>>

Users ==
  /\ Edit
  /\ \/ \E a \in KronosApps :
          \/ \E s \in SpecsWritten : WriteUnchecked(a, s) \/ WriteAdmitted(a, s)
          \/ Delete(a)
     \/ \E s \in SpecsWritten : WriteDenied(s)
     \/ Redeploy

----------------------------------------------------------------------------
(* The manager.                                                            *)

Stored == {a \in KronosApps : store[a] # NoApp}

\* A bug: what is in the store at the start is not listed.
Start_NoListing ==
  /\ ~up
  /\ up' = TRUE
  /\ queue' = <<>>
  /\ UNCHANGED <<store, webhooks, edits, admitted, served, refused>>

\* main: the caches list the store, and every KronosApp is queued, in the order in
\* which the informer happens to hand them on.
Start ==
  /\ ~up
  /\ up' = TRUE
  /\ queue' \in Injection(1..Cardinality(Stored), Stored)
  /\ UNCHANGED <<store, webhooks, edits, admitted, served, refused>>

Dequeue(a) == up /\ queue # <<>> /\ Head(queue) = a

ReconcileDone(a) ==
  /\ Dequeue(a)
  /\ store[a] # NoApp /\ Verdict(store[a]) = "ok"
  /\ queue' = Tail(queue)
  /\ served' = served \cup {a}
  /\ UNCHANGED <<store, webhooks, up, edits, admitted, refused>>

\* The spec is rejected, or the KronosApp is gone: the error is returned and the
\* request comes back.
ReconcileFails(a) ==
  /\ Dequeue(a)
  /\ store[a] = NoApp \/ Verdict(store[a]) = "error"
  /\ queue' = Append(Tail(queue), a)
  /\ served' = IF store[a] = NoApp THEN served ELSE served \cup {a}
  /\ UNCHANGED <<store, webhooks, up, edits, admitted, refused>>

\* Nothing recovers in a worker goroutine.
ReconcilePanics(a) ==
  /\ Dequeue(a)
  /\ store[a] # NoApp /\ Verdict(store[a]) = "panic"
  /\ up' = FALSE
  /\ queue' = <<>>
  /\ UNCHANGED <<store, webhooks, edits, admitted, served, refused>>

Worker ==
  \E a \in KronosApps : ReconcileDone(a) \/ ReconcileFails(a) \/ ReconcilePanics(a)

Next == Users \/ Start \/ Worker

Spec == Init /\ [][Next]_vars

\* The worker takes what is queued, and the cluster restarts what has ended.
FairSpec == Spec /\ WF_vars(Worker) /\ WF_vars(Start)

----------------------------------------------------------------------------
(* Safety                                                                  *)

\* Two functions read each spec, one to admit it and one to schedule by it.  What
\* the first lets through never makes the second panic, and it is rejected only
\* for days that are in no calendar.
AdmittedSchedules ==
  \A a \in admitted :
    /\ NewSleepSchedule(store[a]) # "panic"
    /\ NewSleepSchedule(store[a]) = "error" =>
         \E i \in 1..Len(store[a].holidays) : ~store[a].holidays[i].exists

\* The days of an item: of one number itself, of two those from the first to the
\* second.
Rises(it) == Len(it) = 1 \/ (Len(it) = 2 /\ it[1] <= it[2])
Spans(it, d) == it[1] <= d /\ d <= it[Len(it)]

\* In an admitted list without chains and reversed ranges, which are admitted
\* too, the days that are listed are those that its items name, and there is one.
AdmittedDays ==
  \A a \in admitted :
    LET w == store[a].weekDays IN
    (\A i \in 1..Len(w) : Rises(w[i])) =>
      /\ ExtractWeekdays(w) # {}
      /\ \A d \in 1..7 : d \in ExtractWeekdays(w) <=> \E i \in 1..Len(w) : Spans(w[i], d)

----------------------------------------------------------------------------
(* Liveness, under FairSpec                                                *)

Harmless(a) == store[a] = NoApp \/ Verdict(store[a]) # "panic"

\* Once no KronosApp makes the process panic any more, be it edited, deleted or
\* redeployed around, each one is dealt with: none is left behind in a queue that
\* died, and none starves behind those that fail for ever.
EveryAppServed ==
  <>[](\A a \in KronosApps : Harmless(a)) =>
    \A a \in KronosApps : <>[](store[a] # NoApp => a \in served)

----------------------------------------------------------------------------
(* What the documentation says, and the code does not do.                  *)

LacksOnlyWeekdays(s) ==
  /\ s.weekDays = EmptyWeekdays
  /\ ValidateKronosApp([s EXCEPT !.weekDays = <<<<1, 7>>>>])

\* kronosapp_webhook_test.go:26: "Should fill in the default value if a required
\* field is empty".  A spec that lacks nothing but its weekdays is not denied.
DefaultsAreAdmitted == refused # NoApp => ~LacksOnlyWeekdays(refused)

\* The same of the fields of an included object.
DefaultsAreStored ==
  \A a \in admitted : \A i \in 1..Len(store[a].includedObjects) :
    LET e == store[a].includedObjects[i] IN "" \notin
      {e.apiVersion, e.kind, e.namespace, e.includeRef, e.excludeRef}

\* kronosapp_controller.go:48: Reconcile moves "the current state of the cluster
\* closer to the desired state".  It does so of a KronosApp that schedules, also
\* when another does not.
OthersAreServed ==
  \A a \in KronosApps :
    <>[](store[a] # NoApp /\ Verdict(store[a]) = "ok") => <>[](a \in served)
============================================================================
