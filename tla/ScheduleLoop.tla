---------------------------- MODULE ScheduleLoop ----------------------------
(***************************************************************************)
(* The schedule over the days: a KronosApp that nobody edits is reconciled *)
(* when its RequeueAfter has elapsed, decides from the weekday, the window *)
(* and the holidays, and asks to be reconciled again.  What it decided     *)
(* stays in force until then, however the day goes on.                     *)
(***************************************************************************)
EXTENDS Schedule, FiniteSets, Sequences, Functions

CONSTANTS
  WeekLen,  \* days in a week
  LastDay,  \* bound: the days that are looked at are 0..LastDay
  Windows,  \* the windows a schedule may name, <<startSleep, endSleep>>
  MaxDelay, \* bound: how late a pass may be
  HolidayChoices  \* the holidays of a schedule, in the order in which they
                  \* are written: of each its name and its dates

ASSUME LoopAssumption ==
  /\ WeekLen \in Nat \ {0}
  /\ LastDay \in Nat
  /\ Windows \subseteq TimesOfDay \X TimesOfDay
  /\ MaxDelay \in Nat \ {0}
  /\ HolidayChoices \subseteq Seq([name : STRING, dates : Seq(0..LastDay)])

VARIABLES
  startSleep, endSleep,  \* the window
  weekdays,              \* the days of the week that are listed
  holidays,              \* the dates of each name of a holiday
  now,                   \* ticks since midnight of day 0
  due,                   \* when the pending RequeueAfter elapses
  asleep                 \* the last decision

spec == <<startSleep, endSleep, weekdays, holidays>>
vars == <<spec, now, due, asleep>>

Days     == 0..LastDay
DayOf(t) == t \div DayLen
Midnight(d) == d * DayLen
WeekdayOf(t) == 1 + (DayOf(t) % WeekLen)

----------------------------------------------------------------------------
(* What NewSleepSchedule reads from the spec.                              *)

\* extractWeekdays and mapWeekdays: items are the days and ranges of the spec,
\* each as <<first, last>>, and "*" is the whole week.  A reversed range means
\* no day, and what is no day of the week is dropped.
MapWeekdays(items) == (UNION {it[1] .. it[2] : it \in items}) \cap (1..WeekLen)

\* extractHolidays: the last holiday of a name replaces those before it.
ExtractHolidays(hs) ==
  [name \in {hs[i].name : i \in DOMAIN hs} |->
     LET last == CHOOSE i \in DOMAIN hs :
                   /\ hs[i].name = name
                   /\ \A j \in DOMAIN hs : hs[j].name = name => j <= i
     IN  hs[last].dates]

SpecHolidays == {ExtractHolidays(hs) : hs \in HolidayChoices}
SpecWeekdays == {MapWeekdays(items) : items \in SUBSET ((0..WeekLen) \X (1..WeekLen))}

----------------------------------------------------------------------------
(* Holidays.                                                               *)

HolidayDates(hs) == UNION {Range(hs[name]) : name \in DOMAIN hs}

\* getAllHolidaysDates: all dates of all holidays, sorted, each once.
AllHolidaysDates(hs) ==
  LET dates == HolidayDates(hs)
  IN  CHOOSE s \in Bijection(1 .. Cardinality(dates), dates) :
        \A i, j \in DOMAIN s : i < j => s[i] < s[j]

\* A bug: the search goes on from the date that was looked for.
CheckConsecutiveDates_OneDay(t, dateList, target) ==
  Midnight(target + 1) - t

\* checkConsecutiveDates called on the dates behind the i-th with that date for
\* its target, which they do not hold: a day for each that follows on the last.
DaysToCome(dateList) ==
  LET more[i \in 1 .. Len(dateList)] ==
        LET next == {j \in i + 1 .. Len(dateList) : dateList[j] = dateList[i] + 1}
        IN  IF next = {} THEN 0 ELSE more[CHOOSE j \in next : TRUE] + DayLen
  IN  more

\* checkConsecutiveDates: from now to the end of the run of holidays that
\* starts today, which is among the dates.
CheckConsecutiveDates(t, dateList, target) ==
  LET today == CHOOSE i \in 1 .. Len(dateList) : dateList[i] = target
  IN  Midnight(target + 1) - t + DaysToCome(dateList)[today]

IsItHoliday(t, hs) == DayOf(t) \in HolidayDates(hs)

----------------------------------------------------------------------------
(* IsTimeToSleep without the force flags: a holiday and a day of the week  *)
(* that is not listed are slept through.                                   *)

IsTimeToSleep(t) ==
  \/ IsItHoliday(t, holidays)
  \/ WeekdayOf(t) \notin weekdays
  \/ InSleepWindow(t % DayLen, startSleep, endSleep)

RequeueAfter(t) ==
  IF IsItHoliday(t, holidays)
    THEN CheckConsecutiveDates(t, AllHolidaysDates(holidays), DayOf(t))
    ELSE RequeueTime(t % DayLen, startSleep, endSleep)

\* The types, and the last decision is never older than the delay allows.
TypeOK ==
  /\ <<startSleep, endSleep>> \in Windows
  /\ weekdays \subseteq 1..WeekLen
  /\ holidays \in SpecHolidays
  /\ now \in Nat
  /\ due \in Int
  /\ now <= due + MaxDelay
  /\ asleep \in BOOLEAN

\* The first pass is due; it has no decision yet.
Init ==
  /\ \E w \in Windows : startSleep = w[1] /\ endSleep = w[2]
  /\ weekdays \in SpecWeekdays
  /\ holidays \in SpecHolidays
  /\ now \in TimesOfDay
  /\ due = now - 1
  /\ asleep = FALSE

\* Ticks are as short as one likes: no pass runs at the very tick of a mark or
\* of midnight, which both comparisons of the window exclude.
OnTheTick == now % DayLen \in {0, startSleep, endSleep}

\* A timer fires after its time, and a pass comes at most MaxDelay later.
Tick ==
  /\ now < due + MaxDelay
  /\ now < Midnight(LastDay)
  /\ now' = now + 1
  /\ UNCHANGED <<spec, due, asleep>>

\* A bug: the duration is taken for a time.
Reconcile_Absolute ==
  /\ now > due
  /\ ~OnTheTick
  /\ asleep' = IsTimeToSleep(now)
  /\ due' = RequeueAfter(now)
  /\ UNCHANGED <<spec, now>>

Reconcile ==
  /\ now > due
  /\ ~OnTheTick
  /\ asleep' = IsTimeToSleep(now)
  /\ due' = now + RequeueAfter(now)
  /\ UNCHANGED <<spec, now>>

Next == Tick \/ Reconcile

Spec == Init /\ [][Next]_vars

----------------------------------------------------------------------------
(* Properties                                                              *)

\* Midnight is a mark of the window or lies inside it.
MidnightCovered == endSleep < startSleep \/ startSleep = 0

EveryDay == weekdays = 1..WeekLen /\ HolidayDates(holidays) = {}

\* Between two passes the decision in force is the one a pass would take now:
\* getRequeueTime leaves out no moment at which IsTimeToSleep changes.  Days
\* that differ only do so from midnight to midnight, where getRequeueTime has
\* no mark, so either midnight is covered by the window or all days are alike.
InSync ==
  (MidnightCovered \/ EveryDay) /\ now < due /\ ~OnTheTick =>
    asleep = IsTimeToSleep(now)

\* A pass on a holiday is followed by one at the midnight that ends the run of
\* consecutive holidays, however the dates are grouped and ordered.
HolidaysToTheEnd ==
  [][due' # due /\ IsItHoliday(now, holidays) =>
       \E d \in DayOf(now) + 1 .. LastDay + 1 :
         /\ due' = Midnight(d)
         /\ ~IsItHoliday(Midnight(d), holidays)
         /\ \A e \in DayOf(now) .. d - 1 : IsItHoliday(Midnight(e), holidays)]_vars

\* Every pass asks for a later one: a RequeueAfter that is not positive would
\* be taken for none, and the KronosApp forgotten.
PassFollowsPass == [][due' # due => due' > now]_vars

\* config/samples/_v1alpha1_kronosapp.yaml:5, of a window from 18:00 to 20:41
\* on weekdays "1-5": "sleep-at-weekend".
SleepAtWeekend ==
  now < due /\ ~OnTheTick /\ WeekdayOf(now) \notin weekdays => asleep
============================================================================
