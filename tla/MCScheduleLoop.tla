--------------------------- MODULE MCScheduleLoop ---------------------------
(***************************************************************************)
(* Instances of ScheduleLoop for TLC: days of six ticks, of which the even *)
(* ones can be named by a schedule, and weeks of three days.               *)
(***************************************************************************)
EXTENDS ScheduleLoop, SequencesExt

EvenWindows == LET even == {t \in TimesOfDay : t % 2 = 0} IN even \X even

Named(name, dates) == [name |-> name, dates |-> dates]

\* Every set of dates as one holiday; two holidays that share a date; dates
\* and holidays out of order; two holidays of one name.
HolidayLists ==
  {<<Named("a", SetToSortSeq(ds, <))>> : ds \in SUBSET (1..4)}
    \cup {<<Named("a", <<1, 2>>), Named("b", <<2, 3>>)>>,
          <<Named("a", <<3, 2>>)>>,
          <<Named("a", <<3>>), Named("b", <<2, 4>>)>>,
          <<Named("a", <<1, 2>>), Named("a", <<3>>)>>}

\* The window of the sample: within one day, away from midnight.
SampleWindow == {<<2, 4>>}
NoHolidays  == {<<>>}
============================================================================
