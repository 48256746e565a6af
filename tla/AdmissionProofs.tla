-------------------------- MODULE AdmissionProofs --------------------------
(***************************************************************************)
(* Theorems about Admission for any specs, any number of KronosApps and of *)
(* requests, and any redeployments with and without webhooks.              *)
(***************************************************************************)
EXTENDS Admission, FiniteSetTheorems, SequenceTheorems, TLAPS

\* The inductive invariant: what is marked as admitted passes the validation as it
\* is stored.
StoreTyped == store \in [KronosApps -> SpecType \cup {NoApp}]

Vetted ==
  \A a \in admitted :
    a \in KronosApps /\ store[a] \in SpecType /\ ValidateKronosApp(store[a])

----------------------------------------------------------------------------
(* The operators.                                                          *)

LEMMA DefaultTyped ==
  ASSUME NEW s \in SpecType
  PROVE  Default(s) \in SpecType
<1>1. EveryWeekday \in Seq(Seq(Nat))
  BY DEF EveryWeekday
<1> QED
  BY <1>1 DEF Default, SpecType

\* What a validated spec's holidays come to.
LEMMA ValidHolidaysParse ==
  ASSUME NEW hs \in Seq(DateType), ValidHolidays(hs)
  PROVE  /\ ExtractHolidays(hs) # "panic"
         /\ ExtractHolidays(hs) # "ok" => \E i \in 1..Len(hs) : ~hs[i].exists
<1>1. \A i \in 1..Len(hs) :
        /\ ExtractDates(hs[i]) # "panic"
        /\ ExtractDates(hs[i]) # "ok" => ~hs[i].exists
  BY DEF ValidHolidays, ExtractDates
<1> QED
  BY <1>1 DEF ExtractHolidays

\* And its schedule.
LEMMA ValidatedSchedules ==
  ASSUME NEW s \in SpecType, ValidateKronosApp(s)
  PROVE  /\ NewSleepSchedule(s) # "panic"
         /\ NewSleepSchedule(s) = "error" =>
              \E i \in 1..Len(s.holidays) : ~s.holidays[i].exists
<1>1. s.holidays \in Seq(DateType)
  BY DEF SpecType
<1> QED
  BY <1>1, ValidHolidaysParse DEF ValidateKronosApp, NewSleepSchedule

\* And its weekdays.
LEMMA ValidatedDays ==
  ASSUME NEW w \in Seq(Seq(Nat)), ValidWeekdays(w), \A i \in 1..Len(w) : Rises(w[i])
  PROVE  /\ ExtractWeekdays(w) # {}
         /\ \A d \in 1..7 :
              d \in ExtractWeekdays(w) <=> \E i \in 1..Len(w) : Spans(w[i], d)
<1>1. 1 \in 1..Len(w) /\ w # EveryWeekday
  BY DEF ValidWeekdays, EveryWeekday
<1>2. ASSUME NEW i \in 1..Len(w)
      PROVE  /\ w[i][1] \in 1..7
             /\ Len(w[i]) \in {1, 2}
             /\ Len(w[i]) = 2 => w[i][2] \in 1..7 /\ w[i][1] <= w[i][2]
  <2>1. Len(w[i]) \in {1, 2}
    BY DEF Rises
  <2> QED
    BY <2>1 DEF ValidWeekdays, Rises
<1> DEFINE DaysOf(i) == IF Len(w[i]) > 1 THEN w[i][1] .. w[i][2] ELSE {w[i][1]}
<1>3. ASSUME NEW d \in 1..7
      PROVE  d \in ExtractWeekdays(w) <=> \E i \in 1..Len(w) : Spans(w[i], d)
  <2>1. ASSUME NEW i \in 1..Len(w) PROVE d \in DaysOf(i) <=> Spans(w[i], d)
    <3>1. CASE Len(w[i]) = 1
      BY <1>2, <3>1 DEF Spans
    <3>2. CASE Len(w[i]) = 2
      BY <1>2, <3>2 DEF Spans
    <3> QED
      BY <1>2, <3>1, <3>2
  <2>2. d \in ExtractWeekdays(w) <=> \E i \in 1..Len(w) : d \in DaysOf(i)
    BY <1>1 DEF ExtractWeekdays
  <2> HIDE DEF DaysOf
  <2> QED
    BY <2>1, <2>2
<1>4. w[1][1] \in 1..7 /\ Spans(w[1], w[1][1])
  <2>1. w[1][1] \in 1..7 /\ Len(w[1]) \in {1, 2}
          /\ (Len(w[1]) = 2 => w[1][2] \in 1..7 /\ w[1][1] <= w[1][2])
    BY <1>1, <1>2
  <2>2. CASE Len(w[1]) = 1
    BY <2>1, <2>2 DEF Spans
  <2>3. CASE Len(w[1]) = 2
    BY <2>1, <2>3 DEF Spans
  <2> QED
    BY <2>1, <2>2, <2>3
<1> QED
  BY <1>1, <1>3, <1>4

----------------------------------------------------------------------------
(* The queue holds each KronosApp once.                                    *)

LEMMA AppendOnce ==
  ASSUME NEW S, NEW q \in Seq(S), IsInjective(q), NEW a \in S,
         \A i \in 1..Len(q) : q[i] # a
  PROVE  Append(q, a) \in Seq(S) /\ IsInjective(Append(q, a))
<1>1. /\ Append(q, a) \in Seq(S) /\ Len(Append(q, a)) = Len(q) + 1
      /\ \A i \in 1..Len(q) : Append(q, a)[i] = q[i]
      /\ Append(q, a)[Len(q) + 1] = a
  BY AppendProperties
<1>2. DOMAIN q = 1..Len(q) /\ DOMAIN Append(q, a) = 1..Len(q) + 1
  BY <1>1
<1>3. ASSUME NEW i \in 1..Len(q) + 1, NEW j \in 1..Len(q) + 1,
             Append(q, a)[i] = Append(q, a)[j]
      PROVE  i = j
  <2>1. Len(q) \in Nat
    OBVIOUS
  <2> QED
    BY <1>1, <1>2, <1>3, <2>1 DEF IsInjective
<1> QED
  BY <1>1, <1>2, <1>3 DEF IsInjective

LEMMA TailOnce ==
  ASSUME NEW S, NEW q \in Seq(S), IsInjective(q), q # <<>>
  PROVE  /\ Tail(q) \in Seq(S) /\ IsInjective(Tail(q))
         /\ \A i \in 1..Len(Tail(q)) : Tail(q)[i] # Head(q)
<1>1. /\ Tail(q) \in Seq(S) /\ Len(Tail(q)) = Len(q) - 1
      /\ \A i \in 1..Len(Tail(q)) : Tail(q)[i] = q[i + 1]
  BY HeadTailProperties
<1>2. DOMAIN q = 1..Len(q) /\ DOMAIN Tail(q) = 1..Len(Tail(q)) /\ Len(q) \in Nat
      /\ 1 \in 1..Len(q) /\ Head(q) = q[1]
  BY <1>1
<1>3. \A i \in 1..Len(Tail(q)) : i + 1 \in 1..Len(q) /\ i + 1 # 1
  BY <1>1, <1>2
<1> QED
  BY <1>1, <1>2, <1>3 DEF IsInjective

LEMMA EmptyOnce == <<>> \in Seq(KronosApps) /\ IsInjective(<<>>)
<1>1. DOMAIN <<>> = {}
  OBVIOUS
<1> QED
  BY <1>1 DEF IsInjective

\* What the informer hands on at the start.
LEMMA ListedOnce ==
  ASSUME NEW q \in Injection(1..Cardinality(Stored), Stored)
  PROVE  q \in Seq(KronosApps) /\ IsInjective(q)
<1>1. IsFiniteSet(Stored)
  BY AdmissionAssumption, FS_Subset DEF AdmissionAssumption, Stored
<1>2. Cardinality(Stored) \in Nat
  BY <1>1, FS_CardinalityType
<1>3. q \in [1..Cardinality(Stored) -> KronosApps] /\ IsInjective(q)
  BY DEF Injection, Stored
<1> QED
  BY <1>2, <1>3, SeqDef

LEMMA NotifyOnce ==
  ASSUME NEW a \in KronosApps, queue \in Seq(KronosApps), IsInjective(queue), Notify(a)
  PROVE  queue' \in Seq(KronosApps) /\ IsInjective(queue')
BY AppendOnce DEF Notify, Queued

----------------------------------------------------------------------------
(* Types.                                                                  *)

LEMMA EditsBounded == MaxEdits \in Nat
BY AdmissionAssumption, Zenon DEF AdmissionAssumption

LEMMA EditTyped ==
  ASSUME edits \in 0..MaxEdits, Edit
  PROVE  edits' \in 0..MaxEdits
BY EditsBounded DEF Edit

LEMMA WriteTyped ==
  ASSUME TypeOK, NEW a \in KronosApps, NEW s \in StoredSpecs, Edit, Write(a, s)
  PROVE  TypeOK'
<1> USE DEF TypeOK
<1>1. edits' \in 0..MaxEdits
  BY EditTyped
<1>2. queue' \in Seq(KronosApps) /\ IsInjective(queue')
  <2>1. CASE queue' = queue
    BY <2>1
  <2>2. CASE Notify(a)
    BY <2>2, NotifyOnce
  <2> QED
    BY <2>1, <2>2 DEF Write
<1>3. served' \in SUBSET KronosApps /\ admitted' \in SUBSET KronosApps
  BY DEF Write
<1> QED
  BY <1>1, <1>2, <1>3 DEF Write

LEMMA UsersTyped ==
  ASSUME TypeOK, Users
  PROVE  TypeOK'
<1>1. edits' \in 0..MaxEdits /\ Edit
  <2>1. Edit
    BY DEF Users
  <2> QED
    BY <2>1, EditTyped DEF TypeOK
<1>2. ASSUME NEW a \in KronosApps, NEW s \in SpecsWritten, WriteUnchecked(a, s)
      PROVE  TypeOK'
  BY <1>1, <1>2, WriteTyped DEF WriteUnchecked, StoredSpecs
<1>3. ASSUME NEW a \in KronosApps, NEW s \in SpecsWritten, WriteAdmitted(a, s)
      PROVE  TypeOK'
  <2>1. Default(s) \in StoredSpecs
    BY DEF Default, StoredSpecs
  <2> QED
    BY <1>1, <1>3, <2>1, WriteTyped DEF WriteAdmitted
<1>4. ASSUME NEW a \in KronosApps, Delete(a) PROVE TypeOK'
  <2>1. queue' \in Seq(KronosApps) /\ IsInjective(queue')
    BY <1>4, NotifyOnce DEF Delete, TypeOK
  <2> QED
    BY <1>1, <1>4, <2>1 DEF Delete, TypeOK
<1>5. ASSUME NEW s \in SpecsWritten, WriteDenied(s) PROVE TypeOK'
  BY <1>1, <1>5 DEF WriteDenied, TypeOK
<1>6. CASE Redeploy
  BY <1>1, <1>6, EmptyOnce DEF Redeploy, TypeOK
<1> QED
  BY <1>2, <1>3, <1>4, <1>5, <1>6 DEF Users

LEMMA ManagerTyped ==
  ASSUME TypeOK, Start \/ Worker
  PROVE  TypeOK'
<1> USE DEF TypeOK
<1>1. CASE Start
  <2>1. queue' \in Seq(KronosApps) /\ IsInjective(queue')
    BY <1>1, ListedOnce DEF Start
  <2> QED
    BY <1>1, <2>1 DEF Start
<1>2. ASSUME NEW a \in KronosApps, ReconcileDone(a) PROVE TypeOK'
  <2>1. queue' \in Seq(KronosApps) /\ IsInjective(queue')
    BY <1>2, TailOnce DEF ReconcileDone, Dequeue
  <2> QED
    BY <1>2, <2>1 DEF ReconcileDone
<1>3. ASSUME NEW a \in KronosApps, ReconcileFails(a) PROVE TypeOK'
  <2>1. queue # <<>> /\ Head(queue) = a /\ queue' = Append(Tail(queue), a)
    BY <1>3 DEF ReconcileFails, Dequeue
  <2>2. queue' \in Seq(KronosApps) /\ IsInjective(queue')
    BY <2>1, TailOnce, AppendOnce
  <2> QED
    BY <1>3, <2>2 DEF ReconcileFails
<1>4. ASSUME NEW a \in KronosApps, ReconcilePanics(a) PROVE TypeOK'
  BY <1>4, EmptyOnce DEF ReconcilePanics
<1> QED
  BY <1>1, <1>2, <1>3, <1>4 DEF Worker

\* Every variable has its type, and the queue holds no KronosApp twice, however often
\* it is written, fails or is listed again at a start.
THEOREM AdmissionTypeCorrect == Spec => []TypeOK
<1>1. Init => TypeOK
  <2>1. 0 \in 0..MaxEdits
    BY EditsBounded
  <2> QED
    BY <2>1, EmptyOnce DEF Init, TypeOK, StoredSpecs
<1>2. TypeOK /\ [Next]_vars => TypeOK'
  <2>1. TypeOK /\ UNCHANGED vars => TypeOK'
    BY DEF TypeOK, vars
  <2> QED
    BY <2>1, UsersTyped, ManagerTyped DEF Next
<1> QED
  BY <1>1, <1>2, PTL DEF Spec

----------------------------------------------------------------------------
(* The store.                                                              *)

LEMMA StoreStep ==
  ASSUME StoreTyped, Vetted, [Next]_vars
  PROVE  StoreTyped' /\ Vetted'
<1> USE DEF StoreTyped, Vetted
<1>1. ASSUME NEW a \in KronosApps, NEW s \in SpecsWritten, WriteUnchecked(a, s)
      PROVE  StoreTyped' /\ Vetted'
  <2>1. s \in SpecType
    BY AdmissionAssumption DEF AdmissionAssumption
  <2>2. store' = [store EXCEPT ![a] = s] /\ admitted' = admitted \ {a}
    BY <1>1 DEF WriteUnchecked, Write
  <2> QED
    BY <2>1, <2>2
<1>2. ASSUME NEW a \in KronosApps, NEW s \in SpecsWritten, WriteAdmitted(a, s)
      PROVE  StoreTyped' /\ Vetted'
  <2>1. Default(s) \in SpecType
    BY DefaultTyped, AdmissionAssumption DEF AdmissionAssumption
  <2>2. store' = [store EXCEPT ![a] = Default(s)] /\ admitted' = admitted \cup {a}
    BY <1>2 DEF WriteAdmitted, Write
  <2>3. ValidateKronosApp(Default(s))
    BY <1>2 DEF WriteAdmitted
  <2> QED
    BY <2>1, <2>2, <2>3
<1>3. ASSUME NEW a \in KronosApps, Delete(a)
      PROVE  StoreTyped' /\ Vetted'
  BY <1>3 DEF Delete
<1>4. CASE UNCHANGED <<store, admitted>>
  BY <1>4
<1>5. \/ \E a \in KronosApps : \/ \E s \in SpecsWritten : WriteUnchecked(a, s)
                               \/ \E s \in SpecsWritten : WriteAdmitted(a, s)
                               \/ Delete(a)
      \/ UNCHANGED <<store, admitted>>
  BY DEF Next, Users, Worker, vars, WriteDenied, Redeploy, Start, ReconcileDone,
         ReconcileFails, ReconcilePanics
<1> QED
  BY <1>1, <1>2, <1>3, <1>4, <1>5

THEOREM OnlyVettedAreAdmitted == Spec => [](StoreTyped /\ Vetted)
<1>1. Init => StoreTyped /\ Vetted
  BY DEF Init, StoreTyped, Vetted
<1> QED
  BY <1>1, StoreStep, PTL DEF Spec

\* What the webhooks admit, the controller schedules: it never panics on it, and
\* rejects it only for days that are in no calendar.
THEOREM AdmittedSpecsSchedule == Spec => []AdmittedSchedules
<1>1. StoreTyped /\ Vetted => AdmittedSchedules
  BY ValidatedSchedules DEF StoreTyped, Vetted, AdmittedSchedules
<1> QED
  BY <1>1, OnlyVettedAreAdmitted, PTL

\* And it lists the days that the user names.
THEOREM AdmittedDaysAreListed == Spec => []AdmittedDays
<1>1. StoreTyped /\ Vetted => AdmittedDays
  <2> SUFFICES ASSUME StoreTyped, Vetted, NEW a \in admitted,
                      \A i \in 1..Len(store[a].weekDays) : Rises(store[a].weekDays[i])
               PROVE  /\ ExtractWeekdays(store[a].weekDays) # {}
                      /\ \A d \in 1..7 :
                           d \in ExtractWeekdays(store[a].weekDays)
                             <=> \E i \in 1..Len(store[a].weekDays) :
                                   Spans(store[a].weekDays[i], d)
    BY DEF AdmittedDays
  <2>1. store[a].weekDays \in Seq(Seq(Nat)) /\ ValidWeekdays(store[a].weekDays)
    BY DEF StoreTyped, Vetted, SpecType, ValidateKronosApp
  <2> QED
    BY <2>1, ValidatedDays
<1> QED
  BY <1>1, OnlyVettedAreAdmitted, PTL
============================================================================
