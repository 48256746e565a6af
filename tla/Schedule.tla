------------------------------ MODULE Schedule ------------------------------
(***************************************************************************)
(* The sleep window of internal/controller/scheduling.go: whether it is    *)
(* time to sleep and how long the next pass can wait.                      *)
(*                                                                         *)
(* A time is a number of ticks since the midnight that began today, in the *)
(* KronosApp's time zone; tomorrow's times are DayLen and above.  Every    *)
(* day has DayLen ticks: changes of the UTC offset are not modelled.       *)
(***************************************************************************)
EXTENDS Integers

CONSTANT DayLen  \* ticks in a day

ASSUME ScheduleAssumption == DayLen \in Nat \ {0}

TimesOfDay == 0 .. DayLen - 1

----------------------------------------------------------------------------
(* NewSleepSchedule: getTime places both literals on today's date, then a  *)
(* window that ends before it starts is moved to the night of now: the one *)
(* that began yesterday or the one that ends tomorrow.                     *)

SleepEnd(now, start, end) ==
  IF end < start /\ now > end THEN end + DayLen ELSE end

SleepStart(now, start, end) ==
  IF SleepEnd(now, start, end) < start /\ now < SleepEnd(now, start, end)
    THEN start - DayLen ELSE start

\* now.After(StartSleep) && now.Before(EndSleep)
InSleepWindow(now, start, end) ==
  SleepStart(now, start, end) < now /\ now < SleepEnd(now, start, end)

\* A bug: the window that began yesterday is not moved back.
RequeueTime_NoYesterday(now, start, end) ==
  IF now < start THEN start - now
  ELSE IF start < now /\ now < SleepEnd(now, start, end)
    THEN SleepEnd(now, start, end) - now
  ELSE start + DayLen - now

\* A bug: the next start is taken from today's even when it has passed.
RequeueTime_NoTomorrow(now, start, end) ==
  LET s == SleepStart(now, start, end)
      e == SleepEnd(now, start, end)
  IN  IF now < s THEN s - now
      ELSE IF s < now /\ now < e THEN e - now
      ELSE s - now

\* getRequeueTime: until the next start or end of the window.
RequeueTime(now, start, end) ==
  LET s == SleepStart(now, start, end)
      e == SleepEnd(now, start, end)
  IN  IF now < s THEN s - now
      ELSE IF s < now /\ now < e THEN e - now
      ELSE s + DayLen - now

----------------------------------------------------------------------------
(* What a window from start to end means, with no regard to how it is      *)
(* computed: the times of day strictly inside it.                          *)

InWindow(t, start, end) ==
  IF start <= end THEN start < t /\ t < end
                  ELSE t < end \/ start < t

\* The time of day of a time today or tomorrow.
TimeOfDay(t) == IF t < DayLen THEN t ELSE t - DayLen
============================================================================
