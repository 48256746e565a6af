--------------------------- MODULE ScheduleProofs ---------------------------
(***************************************************************************)
(* What holds of the sleep window for every length of the day, every       *)
(* resolution of the clock and every pair of marks, and of the loop of     *)
(* passes for every list of holidays and set of weekdays.  The numbers of  *)
(* days and dates have no bound, so the lemmas on lists go by induction,   *)
(* of which SetInduction is the form that is used.                         *)
(***************************************************************************)
EXTENDS ScheduleLoop, FiniteSetTheorems, TLAPS

\* NewSleepSchedule moves the window so that the comparisons of IsTimeToSleep
\* tell exactly the times of day strictly inside it, over midnight or not.
THEOREM WindowIsRight ==
  ASSUME NEW n \in TimesOfDay, NEW start \in TimesOfDay, NEW end \in TimesOfDay
  PROVE  InSleepWindow(n, start, end) <=> InWindow(n, start, end)
BY ScheduleAssumption, SMT
   DEF TimesOfDay, InSleepWindow, SleepStart, SleepEnd, InWindow

\* getRequeueTime is positive, so that the work queue takes it for a delay, and
\* never longer than a day.
THEOREM RequeueInADay ==
  ASSUME NEW n \in TimesOfDay, NEW start \in TimesOfDay, NEW end \in TimesOfDay
  PROVE  RequeueTime(n, start, end) \in 1 .. DayLen
BY ScheduleAssumption, SMT
   DEF TimesOfDay, RequeueTime, SleepStart, SleepEnd

\* From a pass, not at a mark itself, until the one it asks for, the time of
\* day stays inside the window or stays outside: no start or end is slept over
\* or missed.
THEOREM NoMarkMissed ==
  ASSUME NEW n \in TimesOfDay, NEW start \in TimesOfDay, NEW end \in TimesOfDay,
         n # start, n # end,
         NEW t \in n .. n + RequeueTime(n, start, end) - 1
  PROVE  InWindow(TimeOfDay(t), start, end) <=> InSleepWindow(n, start, end)
<1>1. RequeueTime(n, start, end) \in 1 .. DayLen
  BY RequeueInADay
<1>2. DayLen \in Nat \ {0} /\ t \in Int
  BY <1>1, ScheduleAssumption DEF TimesOfDay
<1>3. CASE end < start /\ n < end
  BY <1>2, <1>3, SMT
     DEF TimesOfDay, TimeOfDay, RequeueTime, SleepStart, SleepEnd, InWindow,
         InSleepWindow
<1>4. CASE end < start /\ end < n
  BY <1>2, <1>4, SMT
     DEF TimesOfDay, TimeOfDay, RequeueTime, SleepStart, SleepEnd, InWindow,
         InSleepWindow
<1>5. CASE start <= end
  BY <1>2, <1>5, SMT
     DEF TimesOfDay, TimeOfDay, RequeueTime, SleepStart, SleepEnd, InWindow,
         InSleepWindow
<1> QED
  BY <1>3, <1>4, <1>5 DEF TimesOfDay

----------------------------------------------------------------------------
(* Induction, for a set of numbers: the form the provers can instantiate.  *)

LEMMA SetInduction ==
  ASSUME NEW S \in SUBSET Nat, 0 \in S, \A n \in S : n + 1 \in S
  PROVE  S = Nat
<1> SUFFICES ASSUME Nat \ S # {}
             PROVE  FALSE
  OBVIOUS
<1>1. PICK x \in Nat \ S : \A y \in Nat \ S : ~(<<y, x>> \in OpToRel(<, Nat))
  <2> DEFINE T == Nat \ S
             R == OpToRel(<, Nat)
  <2>1. T \subseteq Nat /\ T # {}
    OBVIOUS
  <2>2. IsWellFoundedOn(R, Nat)
    BY NatLessThanWellFounded
  <2> HIDE DEF T, R
  <2>3. \E x \in T : \A y \in T : ~(<<y, x>> \in R)
    BY <2>1, <2>2, WFMin
  <2> QED
    BY <2>3 DEF T, R
<1>2. x # 0 /\ x - 1 \in Nat
  OBVIOUS
<1>3. <<x - 1, x>> \in OpToRel(<, Nat)
  BY <1>2 DEF OpToRel
<1>4. x - 1 \in S
  BY <1>1, <1>2, <1>3
<1> QED
  BY <1>4

\* Of some of the numbers up to n, one is the greatest.
LEMMA GreatestExists ==
  ASSUME NEW n \in Nat, NEW T \in SUBSET (1 .. n), T # {}
  PROVE  \E m \in T : \A k \in T : k <= m
<1> DEFINE S == {i \in Nat : \A U \in SUBSET (1 .. i) :
                               U # {} => \E m \in U : \A k \in U : k <= m}
<1>1. 0 \in S
  <2>1. 1 .. 0 = {}
    OBVIOUS
  <2> QED
    BY <2>1
<1>2. ASSUME NEW i \in S
      PROVE  i + 1 \in S
  <2> SUFFICES ASSUME NEW U \in SUBSET (1 .. i + 1), U # {}
               PROVE  \E m \in U : \A k \in U : k <= m
    OBVIOUS
  <2>1. CASE i + 1 \in U
    BY <2>1
  <2>2. CASE i + 1 \notin U
    <3>1. U \in SUBSET (1 .. i)
      BY <2>2
    <3> QED
      BY <3>1
  <2> QED
    BY <2>1, <2>2
<1> HIDE DEF S
<1>3. S = Nat
  <2>1. S \in SUBSET Nat
    BY DEF S
  <2> QED
    BY <1>1, <1>2, <2>1, SetInduction
<1> QED
  BY <1>3 DEF S

----------------------------------------------------------------------------
(* Days and midnights.                                                     *)

LEMMA MidnightType ==
  ASSUME NEW d \in Nat
  PROVE  Midnight(d) \in Nat /\ Midnight(d + 1) = Midnight(d) + DayLen
BY ScheduleAssumption, SMT DEF Midnight

LEMMA MidnightsInOrder ==
  ASSUME NEW d \in Nat, NEW e \in Nat, d < e
  PROVE  Midnight(d) + DayLen <= Midnight(e)
BY ScheduleAssumption, SMT DEF Midnight

\* A time is its day and its time of day.
LEMMA DayAndTime ==
  ASSUME NEW t \in Nat
  PROVE  /\ DayOf(t) \in Nat
         /\ t % DayLen \in TimesOfDay
         /\ t = Midnight(DayOf(t)) + (t % DayLen)
BY ScheduleAssumption, SMT DEF DayOf, TimesOfDay, Midnight

LEMMA DayIsUnique ==
  ASSUME NEW t \in Nat, NEW d \in Nat, Midnight(d) <= t, t < Midnight(d) + DayLen
  PROVE  DayOf(t) = d /\ t % DayLen = t - Midnight(d)
<1>1. /\ DayOf(t) \in Nat
      /\ t % DayLen \in 0 .. DayLen - 1
      /\ t = Midnight(DayOf(t)) + (t % DayLen)
  BY DayAndTime DEF TimesOfDay
<1>2. DayLen \in Nat /\ Midnight(d) \in Nat /\ Midnight(DayOf(t)) \in Nat
  BY <1>1, MidnightType, ScheduleAssumption
<1>3. ~(d < DayOf(t))
  BY <1>1, <1>2, MidnightsInOrder, SMT
<1>4. ~(DayOf(t) < d)
  BY <1>1, <1>2, MidnightsInOrder, SMT
<1> QED
  BY <1>1, <1>2, <1>3, <1>4

LEMMA DayOfMidnight ==
  ASSUME NEW d \in Nat
  PROVE  DayOf(Midnight(d)) = d
<1>1. Midnight(d) \in Nat /\ DayLen \in Nat \ {0}
  BY MidnightType, ScheduleAssumption
<1> QED
  BY <1>1, DayIsUnique

----------------------------------------------------------------------------
(* The dates of the holidays in their order.                               *)

InOrder(s) == \A i, j \in DOMAIN s : i < j => s[i] < s[j]

\* A list in order stays one when a day later than all of it comes behind.
LEMMA ListingGrows ==
  ASSUME NEW n \in Nat, NEW m \in Nat, NEW B, B \subseteq 0 .. m - 1,
         NEW s \in Bijection(1 .. n, B), InOrder(s)
  PROVE  \E r \in Bijection(1 .. n + 1, B \cup {m}) : InOrder(r)
<1> DEFINE r == [i \in 1 .. n + 1 |-> IF i <= n THEN s[i] ELSE m]
<1>1. s \in [1 .. n -> B]
  BY DEF Bijection, Injection
<1>2. /\ \A i \in 1 .. n : s[i] \in B /\ r[i] = s[i]
      /\ r[n + 1] = m
      /\ r \in [1 .. n + 1 -> B \cup {m}]
      /\ \A i \in 1 .. n + 1 : i \in 1 .. n \/ i = n + 1
      /\ DOMAIN r = 1 .. n + 1
      /\ 1 .. n \subseteq 1 .. n + 1
  BY <1>1
<1>3. \A b \in B : \E i \in 1 .. n : s[i] = b
  BY DEF Bijection, Surjection
<1>4. \A i, j \in 1 .. n : i < j => s[i] < s[j]
  BY <1>1 DEF InOrder
<1> HIDE DEF r
<1>5. \A i, j \in 1 .. n + 1 : i < j => r[i] < r[j]
  <2> SUFFICES ASSUME NEW i \in 1 .. n + 1, NEW j \in 1 .. n + 1, i < j
               PROVE  r[i] < r[j]
    OBVIOUS
  <2>1. i \in 1 .. n
    OBVIOUS
  <2>2. CASE j \in 1 .. n
    BY <1>2, <1>4, <2>1, <2>2
  <2>3. CASE j = n + 1
    <3>1. r[j] = m /\ r[i] \in 0 .. m - 1
      BY <1>2, <2>1, <2>3
    <3> QED
      BY <3>1
  <2> QED
    BY <2>2, <2>3, <1>2
<1>6. \A i, j \in 1 .. n + 1 : r[i] = r[j] => i = j
  <2> SUFFICES ASSUME NEW i \in 1 .. n + 1, NEW j \in 1 .. n + 1, i < j
               PROVE  r[i] # r[j]
    OBVIOUS
  <2>1. r[i] \in B \cup {m} /\ r[j] \in B \cup {m}
    BY <1>2
  <2>2. \A b \in B \cup {m} : b \in Int
    OBVIOUS
  <2> QED
    <3>1. r[i] < r[j]
      BY <1>5
    <3>2. r[i] \in Int /\ r[j] \in Int
      BY <2>1, <2>2
    <3> QED
      BY <3>1, <3>2
<1>7. \A b \in B \cup {m} : \E i \in 1 .. n + 1 : r[i] = b
  <2>1. n + 1 \in 1 .. n + 1
    OBVIOUS
  <2> QED
    BY <1>2, <1>3, <2>1
<1>8. r \in Bijection(1 .. n + 1, B \cup {m})
  BY <1>2, <1>6, <1>7 DEF Bijection, Injection, Surjection, IsInjective
<1>9. InOrder(r)
  BY <1>2, <1>5 DEF InOrder
<1> QED
  BY <1>8, <1>9

Listed(B) ==
  /\ IsFiniteSet(B)
  /\ Cardinality(B) \in Nat
  /\ \E s \in Bijection(1 .. Cardinality(B), B) : InOrder(s)

LEMMA NoneListed == Listed({})
<1>1. 1 .. 0 = {}
  OBVIOUS
<1>2. IsFiniteSet({}) /\ Cardinality({}) = 0
  BY FS_EmptySet
<1> DEFINE s == [i \in {} |-> 0]
<1>3. s \in Bijection({}, {}) /\ InOrder(s)
  BY DEF Bijection, Injection, Surjection, IsInjective, InOrder
<1> QED
  BY <1>1, <1>2, <1>3 DEF Listed

LEMMA OneMoreListed ==
  ASSUME NEW m \in Nat, NEW B, B \subseteq 0 .. m - 1, Listed(B)
  PROVE  Listed(B \cup {m})
<1>1. PICK s \in Bijection(1 .. Cardinality(B), B) : InOrder(s)
  BY DEF Listed
<1>2. IsFiniteSet(B) /\ Cardinality(B) \in Nat
  BY DEF Listed
<1>3. m \notin B
  OBVIOUS
<1>4. IsFiniteSet(B \cup {m}) /\ Cardinality(B \cup {m}) = Cardinality(B) + 1
  BY <1>2, <1>3, FS_AddElement
<1>5. \E r \in Bijection(1 .. Cardinality(B) + 1, B \cup {m}) : InOrder(r)
  BY <1>1, <1>2, ListingGrows
<1>6. Cardinality(B) + 1 \in Nat
  BY <1>2
<1> QED
  BY <1>4, <1>5, <1>6 DEF Listed

\* Any set of days can be listed in its order.
LEMMA ListingExists ==
  ASSUME NEW D, D \subseteq Days
  PROVE  Listed(D)
<1> DEFINE Before(m) == {d \in D : d < m}
           S == {m \in Nat : Listed(Before(m))}
<1>1. \A d \in D : d \in Nat /\ d < LastDay + 1
  BY LoopAssumption DEF Days
<1>2. 0 \in S
  <2>1. {d \in D : d < 0} = {}
    BY <1>1
  <2> QED
    BY <2>1, NoneListed
<1>3. ASSUME NEW m \in S
      PROVE  m + 1 \in S
  <2>1. m \in Nat /\ m + 1 \in Nat /\ Listed({d \in D : d < m})
    OBVIOUS
  <2> SUFFICES Listed({d \in D : d < m + 1})
    BY <2>1
  <2>2. CASE m \notin D
    <3>1. {d \in D : d < m + 1} = {d \in D : d < m}
      BY <1>1, <2>1, <2>2
    <3> QED
      BY <2>1, <3>1
  <2>3. CASE m \in D
    <3>1. PICK B : B = {d \in D : d < m}
      OBVIOUS
    <3>2. {d \in D : d < m + 1} = B \cup {m}
      <4>1. \A d \in D : d < m + 1 <=> d < m \/ d = m
        BY <1>1, <2>1
      <4> QED
        BY <2>3, <3>1, <4>1
    <3>3. B \subseteq 0 .. m - 1
      BY <1>1, <2>1, <3>1
    <3>4. Listed(B \cup {m})
      BY <2>1, <3>1, <3>3, OneMoreListed
    <3> QED
      BY <3>2, <3>4
  <2> QED
    BY <2>2, <2>3
<1>4. S \in SUBSET Nat
  OBVIOUS
<1> HIDE DEF S
<1>5. S = Nat
  BY <1>2, <1>3, <1>4, SetInduction
<1>6. LastDay + 1 \in S
  BY <1>5, LoopAssumption
<1>7. Listed({d \in D : d < LastDay + 1})
  BY <1>6 DEF S
<1>8. {d \in D : d < LastDay + 1} = D
  BY <1>1
<1> QED
  BY <1>7, <1>8

\* L lists the days of D, once each and in order.
Lists(L, D) ==
  /\ Len(L) \in Nat
  /\ L \in [1 .. Len(L) -> D]
  /\ \A d \in D : \E i \in 1 .. Len(L) : L[i] = d
  /\ \A i, j \in 1 .. Len(L) : i < j => L[i] < L[j]

\* getAllHolidaysDates lists every date of every holiday.
LEMMA DatesAreListed ==
  ASSUME NEW hs, HolidayDates(hs) \subseteq Days
  PROVE  Lists(AllHolidaysDates(hs), HolidayDates(hs))
<1> DEFINE D == HolidayDates(hs)
           n == Cardinality(D)
           L == AllHolidaysDates(hs)
<1>1. n \in Nat /\ \E s \in Bijection(1 .. n, D) : InOrder(s)
  BY ListingExists DEF Listed
<1>2. L = CHOOSE s \in Bijection(1 .. n, D) : InOrder(s)
  BY DEF AllHolidaysDates, InOrder
<1> HIDE DEF L, n, D
<1>3. L \in Bijection(1 .. n, D) /\ InOrder(L)
  BY <1>1, <1>2
<1>4. L \in [1 .. n -> D]
  BY <1>3 DEF Bijection, Injection
<1>5. Len(L) = n
  BY <1>1, <1>4
<1>6. \A d \in D : \E i \in 1 .. n : L[i] = d
  BY <1>3 DEF Bijection, Surjection
<1>7. \A i, j \in 1 .. n : i < j => L[i] < L[j]
  BY <1>3, <1>4 DEF InOrder
<1> QED
  BY <1>1, <1>4, <1>5, <1>6, <1>7 DEF L, D, Lists

----------------------------------------------------------------------------
(* checkConsecutiveDates.                                                  *)

\* The dates behind the i-th that follow it by a day, and what the search from
\* the i-th finds when those from the later ones find f.
Following(L, i) == {j \in i + 1 .. Len(L) : L[j] = L[i] + 1}
Found(L, f, i) ==
  IF Following(L, i) = {} THEN 0 ELSE f[CHOOSE j \in Following(L, i) : TRUE] + DayLen

LEMMA FoundOfLater ==
  ASSUME NEW L, NEW i, NEW f, NEW g, \A j \in Following(L, i) : g[j] = f[j]
  PROVE  Found(L, g, i) = Found(L, f, i)
<1>1. CASE Following(L, i) = {}
  BY <1>1 DEF Found
<1>2. CASE Following(L, i) # {}
  <2>1. PICK c : c = CHOOSE j \in Following(L, i) : TRUE
    OBVIOUS
  <2>2. c \in Following(L, i)
    BY <1>2, <2>1
  <2>3. Found(L, g, i) = g[c] + DayLen /\ Found(L, f, i) = f[c] + DayLen
    BY <1>2, <2>1 DEF Found
  <2> QED
    BY <2>2, <2>3
<1> QED
  BY <1>1, <1>2

\* The search looks at later dates only, so that it comes to an end.
LEMMA SearchEnds ==
  ASSUME NEW L, Len(L) \in Nat
  PROVE  \E f \in [1 .. Len(L) -> Nat] : f = [i \in 1 .. Len(L) |-> Found(L, f, i)]
<1> DEFINE n == Len(L)
           Right(f, k) == \A i \in 1 .. n : i > n - k => f[i] = Found(L, f, i)
           S == {k \in Nat : \E f \in [1 .. n -> Nat] : Right(f, k)}
<1>1. 0 \in S
  <2>1. [i \in 1 .. n |-> 0] \in [1 .. n -> Nat]
    OBVIOUS
  <2>2. \A f : Right(f, 0)
    OBVIOUS
  <2> QED
    BY <2>1, <2>2
<1>2. ASSUME NEW k \in S
      PROVE  k + 1 \in S
  <2>1. k \in Nat /\ k + 1 \in Nat
    OBVIOUS
  <2>2. PICK f \in [1 .. n -> Nat] : Right(f, k)
    OBVIOUS
  <2> SUFFICES \E g \in [1 .. n -> Nat] : Right(g, k + 1)
    BY <2>1
  <2>3. CASE n - k \notin 1 .. n
    <3>1. Right(f, k + 1)
      BY <2>1, <2>2, <2>3
    <3> QED
      BY <3>1
  <2>4. CASE n - k \in 1 .. n
    <3> DEFINE g == [f EXCEPT ![n - k] = Found(L, f, n - k)]
    <3>1. Found(L, f, n - k) \in Nat
      BY <2>4, ScheduleAssumption DEF Found, Following
    <3>2. g \in [1 .. n -> Nat]
      BY <3>1
    <3>3. \A i \in 1 .. n : i >= n - k => Found(L, g, i) = Found(L, f, i)
      <4> SUFFICES ASSUME NEW i \in 1 .. n, i >= n - k
                   PROVE  Found(L, g, i) = Found(L, f, i)
        OBVIOUS
      <4>1. \A j \in Following(L, i) : g[j] = f[j]
        BY <2>1, <2>4 DEF Following
      <4> HIDE DEF g
      <4> QED
        BY <4>1, FoundOfLater
    <3>4. ASSUME NEW i \in 1 .. n, i > n - (k + 1)
          PROVE  g[i] = Found(L, g, i)
      <4>1. i >= n - k
        BY <2>1, <3>4
      <4>2. CASE i = n - k
        BY <3>3, <4>1, <4>2
      <4>3. CASE i > n - k
        BY <2>2, <3>3, <4>1, <4>3
      <4> QED
        BY <2>1, <4>1, <4>2, <4>3
    <3> QED
      BY <3>2, <3>4
  <2> QED
    BY <2>3, <2>4
<1>3. S \in SUBSET Nat
  OBVIOUS
<1> HIDE DEF S
<1>4. S = Nat
  BY <1>1, <1>2, <1>3, SetInduction
<1>5. PICK f \in [1 .. n -> Nat] : Right(f, n)
  <2>1. n \in S
    BY <1>4
  <2> QED
    BY <2>1 DEF S
<1>6. f = [i \in 1 .. n |-> Found(L, f, i)]
  <2>1. \A i \in 1 .. n : f[i] = Found(L, f, i)
    BY <1>5
  <2> QED
    BY <2>1
<1> QED
  BY <1>6

LEMMA DaysToComeFound ==
  ASSUME NEW L, Len(L) \in Nat
  PROVE  DaysToCome(L) = [i \in 1 .. Len(L) |-> Found(L, DaysToCome(L), i)]
<1>1. PICK f : f = [i \in 1 .. Len(L) |-> Found(L, f, i)]
  BY SearchEnds
<1> QED
  BY <1>1, Zenon DEF DaysToCome, Found, Following

\* From the i-th date there are holidays on every day up to e, which is none,
\* and the days from that date to e are what is found.
RunEnds(L, D, i, e) ==
  /\ L[i] < e
  /\ e \notin D
  /\ \A d \in L[i] .. e - 1 : d \in D
  /\ DaysToCome(L)[i] = Midnight(e) - Midnight(L[i] + 1)

LEMMA EveryRunEnds ==
  ASSUME NEW D, D \subseteq Nat, NEW L, Lists(L, D)
  PROVE  \A i \in 1 .. Len(L) : \E e \in Nat : RunEnds(L, D, i, e)
<1> DEFINE n == Len(L)
           Ends(i, e) == RunEnds(L, D, i, e)
           S == {k \in Nat : \A i \in 1 .. n : i > n - k => \E e \in Nat : Ends(i, e)}
<1>0. /\ n \in Nat
      /\ \A i \in 1 .. n : L[i] \in D
      /\ \A d \in D : \E i \in 1 .. n : L[i] = d
      /\ \A i, j \in 1 .. n : i < j => L[i] < L[j]
  BY DEF Lists
<1> HIDE DEF n
<1>1. 0 \in S
  BY <1>0
<1>2. ASSUME NEW k \in S
      PROVE  k + 1 \in S
  <2>1. k \in Nat /\ k + 1 \in Nat
    OBVIOUS
  <2>2. \A i \in 1 .. n : i > n - k => \E e \in Nat : Ends(i, e)
    OBVIOUS
  <2> SUFFICES ASSUME NEW i \in 1 .. n, i > n - (k + 1)
               PROVE  \E e \in Nat : Ends(i, e)
    BY <2>1
  <2> HIDE DEF S
  <2>3. L[i] \in D /\ L[i] \in Nat
    BY <1>0
  <2>4. DaysToCome(L)[i] = Found(L, DaysToCome(L), i)
    BY <1>0, DaysToComeFound DEF n
  <2>5. CASE Following(L, i) = {}
    <3>1. L[i] + 1 \notin D
      <4> SUFFICES ASSUME L[i] + 1 \in D
                   PROVE  FALSE
        OBVIOUS
      <4>1. PICK j \in 1 .. n : L[j] = L[i] + 1
        BY <1>0
      <4>2. j \notin i + 1 .. n
        BY <2>5, <4>1 DEF Following, n
      <4>3. j <= i
        BY <1>0, <4>2
      <4>4. L[j] <= L[i]
        BY <1>0, <2>3, <4>3, <4>1
      <4> QED
        BY <2>3, <4>1, <4>4
    <3>2. Midnight(L[i] + 1) \in Nat
      <4>1. L[i] + 1 \in Nat
        BY <2>3
      <4> QED
        BY <4>1, MidnightType
    <3>3. DaysToCome(L)[i] = 0
      BY <2>4, <2>5 DEF Found
    <3>4. \A d \in L[i] .. L[i] + 1 - 1 : d \in D
      BY <2>3
    <3>5. Ends(i, L[i] + 1)
      BY <2>3, <3>1, <3>2, <3>3, <3>4 DEF RunEnds
    <3> QED
      BY <2>3, <3>5
  <2>6. CASE Following(L, i) # {}
    <3>1. PICK j : j = CHOOSE m \in Following(L, i) : TRUE
      OBVIOUS
    <3>2. j \in Following(L, i)
      BY <2>6, <3>1
    <3>3. j \in 1 .. n /\ j > n - k /\ L[j] = L[i] + 1
      BY <1>0, <2>1, <3>2 DEF Following, n
    <3>4. PICK e \in Nat : Ends(j, e)
      BY <2>2, <3>3
    <3>5. DaysToCome(L)[i] = DaysToCome(L)[j] + DayLen
      BY <2>4, <2>6, <3>1 DEF Found
    <3>6. Midnight(e) \in Nat /\ Midnight(L[j]) \in Nat
          /\ Midnight(L[j] + 1) = Midnight(L[j]) + DayLen
      BY <2>3, <3>3, MidnightType
    <3>7. DaysToCome(L)[i] = Midnight(e) - Midnight(L[i] + 1)
      BY <3>3, <3>4, <3>5, <3>6, ScheduleAssumption DEF RunEnds
    <3>8. L[i] < e /\ e \notin D
      BY <2>3, <3>3, <3>4 DEF RunEnds
    <3>9. \A d \in L[i] .. e - 1 : d \in D
      BY <2>3, <3>3, <3>4 DEF RunEnds
    <3>10. Ends(i, e)
      BY <3>7, <3>8, <3>9 DEF RunEnds
    <3> QED
      BY <3>10
  <2> QED
    BY <2>5, <2>6
<1>3. S \in SUBSET Nat
  OBVIOUS
<1>4. ASSUME NEW i \in 1 .. n
      PROVE  \E e \in Nat : Ends(i, e)
  <2>1. n \in S
    <3> HIDE DEF S
    <3>1. S = Nat
      BY <1>1, <1>2, <1>3, SetInduction
    <3> QED
      BY <1>0, <3>1
  <2> QED
    BY <1>0, <2>1
<1> QED
  BY <1>4 DEF n

\* checkConsecutiveDates on a holiday: from now to the midnight that ends the
\* run of holidays.
LEMMA HolidaysEnd ==
  ASSUME NEW hs, HolidayDates(hs) \subseteq Days, NEW t \in Nat, IsItHoliday(t, hs)
  PROVE  \E e \in DayOf(t) + 1 .. LastDay + 1 :
           /\ e \notin HolidayDates(hs)
           /\ \A d \in DayOf(t) .. e - 1 : d \in HolidayDates(hs)
           /\ CheckConsecutiveDates(t, AllHolidaysDates(hs), DayOf(t)) = Midnight(e) - t
<1> DEFINE D == HolidayDates(hs)
           L == AllHolidaysDates(hs)
<1>1. /\ D \subseteq Nat
      /\ \A d \in D : d <= LastDay
  BY LoopAssumption DEF Days
<1>2. Lists(L, D)
  BY DatesAreListed
<1>3. DayOf(t) \in D /\ DayOf(t) \in Nat
  BY DayAndTime DEF IsItHoliday
<1>4. PICK i : i = CHOOSE j \in 1 .. Len(L) : L[j] = DayOf(t)
  OBVIOUS
<1> HIDE DEF D, L
<1>5. i \in 1 .. Len(L) /\ L[i] = DayOf(t)
  <2>1. \E j \in 1 .. Len(L) : L[j] = DayOf(t)
    BY <1>2, <1>3 DEF Lists
  <2> QED
    BY <1>4, <2>1
<1>6. PICK e \in Nat : RunEnds(L, D, i, e)
  BY <1>1, <1>2, <1>5, EveryRunEnds
<1>7. e \in DayOf(t) + 1 .. LastDay + 1
  <2>1. e - 1 \in D
    BY <1>3, <1>5, <1>6 DEF RunEnds
  <2> QED
    BY <1>1, <1>3, <1>5, <1>6, <2>1, LoopAssumption DEF RunEnds
<1>8. CheckConsecutiveDates(t, L, DayOf(t)) =
        Midnight(DayOf(t) + 1) - t + DaysToCome(L)[i]
  BY <1>4 DEF CheckConsecutiveDates
<1>9. Midnight(e) \in Nat /\ Midnight(DayOf(t) + 1) \in Nat
  BY <1>3, MidnightType
<1>10. CheckConsecutiveDates(t, L, DayOf(t)) = Midnight(e) - t
  BY <1>5, <1>6, <1>8, <1>9 DEF RunEnds
<1> QED
  BY <1>5, <1>6, <1>7, <1>10 DEF D, L, RunEnds

----------------------------------------------------------------------------
(* What a pass asks for.                                                   *)

LEMMA ElementOfSeq ==
  ASSUME NEW S, NEW q \in Seq(S), NEW i \in DOMAIN q
  PROVE  q[i] \in S
OBVIOUS

\* extractHolidays keeps dates of the spec.
LEMMA HolidaysTyped ==
  ASSUME NEW hs \in SpecHolidays
  PROVE  HolidayDates(hs) \subseteq Days
<1>1. PICK l \in HolidayChoices : hs = ExtractHolidays(l)
  BY DEF SpecHolidays
<1>2. l \in Seq([name : STRING, dates : Seq(Days)])
  BY LoopAssumption DEF Days
<1> SUFFICES ASSUME NEW name \in DOMAIN hs
             PROVE  hs[name] \in Seq(Days)
  BY DEF HolidayDates, Range
<1> DEFINE named == {i \in DOMAIN l : l[i].name = name}
<1>3. /\ DOMAIN hs = {l[i].name : i \in DOMAIN l}
      /\ hs[name] = LET last == CHOOSE i \in DOMAIN l :
                                   /\ l[i].name = name
                                   /\ \A j \in DOMAIN l : l[j].name = name => j <= i
                    IN  l[last].dates
  BY <1>1 DEF ExtractHolidays
<1>4. \E i \in DOMAIN l : /\ l[i].name = name
                         /\ \A j \in DOMAIN l : l[j].name = name => j <= i
  <2>1. named # {}
    BY <1>3
  <2>2. Len(l) \in Nat /\ named \in SUBSET (1 .. Len(l))
    BY <1>2
  <2>3. \E m \in named : \A k \in named : k <= m
    <3> HIDE DEF named
    <3> QED
      BY <2>1, <2>2, GreatestExists
  <2> QED
    BY <2>3
<1>5. PICK i \in DOMAIN l : hs[name] = l[i].dates
  BY <1>3, <1>4
<1>6. l[i] \in [name : STRING, dates : Seq(Days)]
  BY <1>2, ElementOfSeq
<1> QED
  BY <1>5, <1>6

\* A pass always asks for a later one.
LEMMA RequeuePositive ==
  ASSUME TypeOK
  PROVE  RequeueAfter(now) \in Nat \ {0}
<1>1. startSleep \in TimesOfDay /\ endSleep \in TimesOfDay /\ now \in Nat
  BY LoopAssumption DEF TypeOK
<1>2. HolidayDates(holidays) \subseteq Days
  BY HolidaysTyped DEF TypeOK
<1>3. /\ DayOf(now) \in Nat
      /\ now % DayLen \in TimesOfDay
      /\ now = Midnight(DayOf(now)) + (now % DayLen)
  BY <1>1, DayAndTime
<1>4. DayLen \in Nat \ {0}
  BY ScheduleAssumption
<1>5. CASE IsItHoliday(now, holidays)
  <2>1. PICK e \in DayOf(now) + 1 .. LastDay + 1 :
          CheckConsecutiveDates(now, AllHolidaysDates(holidays), DayOf(now)) = Midnight(e) - now
    BY <1>1, <1>2, <1>5, HolidaysEnd
  <2>2. RequeueAfter(now) = Midnight(e) - now
    BY <1>5, <2>1 DEF RequeueAfter
  <2>3. e \in Nat /\ DayOf(now) < e
    BY <1>3
  <2>4. Midnight(DayOf(now)) + DayLen <= Midnight(e)
    BY <1>3, <2>3, MidnightsInOrder
  <2>5. Midnight(e) \in Nat /\ Midnight(DayOf(now)) \in Nat
    BY <1>3, <2>3, MidnightType
  <2> QED
    BY <1>1, <1>3, <1>4, <2>2, <2>4, <2>5 DEF TimesOfDay
<1>6. CASE ~IsItHoliday(now, holidays)
  <2>1. RequeueAfter(now) = RequeueTime(now % DayLen, startSleep, endSleep)
    BY <1>6 DEF RequeueAfter
  <2>2. RequeueTime(now % DayLen, startSleep, endSleep) \in 1 .. DayLen
    BY <1>1, <1>3, RequeueInADay
  <2> QED
    BY <1>4, <2>1, <2>2
<1> QED
  BY <1>5, <1>6

\* The types hold, and no pass is later than the delay allows.
THEOREM ScheduleTyped == Spec => []TypeOK
<1>1. Init => TypeOK
  <2> SUFFICES ASSUME Init
               PROVE  TypeOK
    OBVIOUS
  <2>1. <<startSleep, endSleep>> \in Windows
    <3>1. PICK w \in Windows : startSleep = w[1] /\ endSleep = w[2]
      BY DEF Init
    <3>2. w = <<w[1], w[2]>>
      BY LoopAssumption
    <3> QED
      BY <3>1, <3>2
  <2>2. weekdays \subseteq 1 .. WeekLen
    BY DEF Init, SpecWeekdays, MapWeekdays
  <2>3. now \in Nat /\ due \in Int /\ now <= due + MaxDelay
    BY ScheduleAssumption, LoopAssumption DEF Init, TimesOfDay
  <2>4. holidays \in SpecHolidays /\ asleep \in BOOLEAN
    BY DEF Init
  <2> QED
    BY <2>1, <2>2, <2>3, <2>4 DEF TypeOK
<1>2. TypeOK /\ [Next]_vars => TypeOK'
  <2> SUFFICES ASSUME TypeOK, [Next]_vars
               PROVE  TypeOK'
    OBVIOUS
  <2>1. CASE Tick
    BY <2>1, LoopAssumption DEF TypeOK, Tick, spec
  <2>2. CASE Reconcile
    <3>1. RequeueAfter(now) \in Nat \ {0}
      BY RequeuePositive
    <3>2. asleep' \in BOOLEAN
      BY <2>2 DEF Reconcile, IsTimeToSleep
    <3> QED
      BY <2>2, <3>1, <3>2, LoopAssumption DEF TypeOK, Reconcile, spec
  <2>3. CASE UNCHANGED vars
    BY <2>3 DEF TypeOK, vars, spec
  <2> QED
    BY <2>1, <2>2, <2>3 DEF Next
<1> QED
  BY <1>1, <1>2, PTL DEF Spec

\* Every RequeueAfter is a delay to the work queue: no KronosApp is forgotten.
THEOREM AlwaysAnother == Spec => PassFollowsPass
<1>1. TypeOK /\ [Next]_vars => (due' # due => due' > now)
  <2> SUFFICES ASSUME TypeOK, Next, due' # due
               PROVE  due' > now
    BY DEF vars
  <2>1. Reconcile
    BY DEF Next, Tick
  <2>2. RequeueAfter(now) \in Nat \ {0}
    BY RequeuePositive
  <2> QED
    BY <2>1, <2>2 DEF Reconcile, TypeOK
<1>2. TypeOK /\ [Next]_vars => [due' # due => due' > now]_vars
  BY <1>1
<1> QED
  BY <1>2, ScheduleTyped, PTL DEF Spec, PassFollowsPass

\* A pass on a holiday is followed by one at the midnight that ends the run of
\* holidays, however long it is and in whatever order it is written.
THEOREM HolidaysWaitedOut == Spec => HolidaysToTheEnd
<1> DEFINE ToTheEnd ==
      \E d \in DayOf(now) + 1 .. LastDay + 1 :
        /\ due' = Midnight(d)
        /\ ~IsItHoliday(Midnight(d), holidays)
        /\ \A e \in DayOf(now) .. d - 1 : IsItHoliday(Midnight(e), holidays)
<1>1. TypeOK /\ [Next]_vars =>
        (due' # due /\ IsItHoliday(now, holidays) => ToTheEnd)
  <2> SUFFICES ASSUME TypeOK, Next, due' # due, IsItHoliday(now, holidays)
               PROVE  ToTheEnd
    BY DEF vars
  <2>1. Reconcile
    BY DEF Next, Tick
  <2>2. now \in Nat /\ DayOf(now) \in Nat /\ HolidayDates(holidays) \subseteq Days
    BY HolidaysTyped, DayAndTime DEF TypeOK
  <2>3. PICK d \in DayOf(now) + 1 .. LastDay + 1 :
          /\ d \notin HolidayDates(holidays)
          /\ \A e \in DayOf(now) .. d - 1 : e \in HolidayDates(holidays)
          /\ CheckConsecutiveDates(now, AllHolidaysDates(holidays), DayOf(now)) =
               Midnight(d) - now
    BY <2>2, HolidaysEnd
  <2>4. d \in Nat /\ Midnight(d) \in Nat
    BY <2>2, MidnightType
  <2>5. due' = Midnight(d)
    <3>1. due' = now + (Midnight(d) - now)
      BY <2>1, <2>3 DEF Reconcile, RequeueAfter
    <3> QED
      BY <2>2, <2>4, <3>1
  <2>6. ~IsItHoliday(Midnight(d), holidays)
    BY <2>3, <2>4, DayOfMidnight DEF IsItHoliday
  <2>7. \A e \in DayOf(now) .. d - 1 : IsItHoliday(Midnight(e), holidays)
    <3> SUFFICES ASSUME NEW e \in DayOf(now) .. d - 1
                 PROVE  DayOf(Midnight(e)) \in HolidayDates(holidays)
      BY DEF IsItHoliday
    <3>1. e \in Nat
      BY <2>2
    <3> QED
      BY <2>3, <3>1, DayOfMidnight
  <2> QED
    BY <2>5, <2>6, <2>7
<1>2. TypeOK /\ [Next]_vars =>
        [due' # due /\ IsItHoliday(now, holidays) => ToTheEnd]_vars
  BY <1>1
<1> QED
  BY <1>2, ScheduleTyped, PTL DEF Spec, HolidaysToTheEnd

----------------------------------------------------------------------------
(* The decision in force.                                                  *)

\* A time later on the same day, or on the next.
LEMMA LaterTime ==
  ASSUME NEW t \in Nat, NEW k \in 0 .. DayLen - 1
  PROVE  LET n == t % DayLen
         IN  /\ TimeOfDay(n + k) = (t + k) % DayLen
             /\ n + k < DayLen => DayOf(t + k) = DayOf(t)
<1> DEFINE n == t % DayLen
           d == DayOf(t)
<1>1. n \in TimesOfDay /\ d \in Nat /\ t = Midnight(d) + n
  BY DayAndTime
<1>2. /\ Midnight(d) \in Nat
      /\ Midnight(d + 1) = Midnight(d) + DayLen
      /\ DayLen \in Nat \ {0}
      /\ t + k \in Nat /\ d + 1 \in Nat
  BY <1>1, MidnightType, ScheduleAssumption
<1> HIDE DEF n, d
<1>3. n \in 0 .. DayLen - 1
  BY <1>1 DEF TimesOfDay
<1>4. CASE n + k < DayLen
  <2>1. Midnight(d) <= t + k /\ t + k < Midnight(d) + DayLen
    BY <1>1, <1>2, <1>3, <1>4
  <2>2. DayOf(t + k) = d /\ (t + k) % DayLen = (t + k) - Midnight(d)
    BY <1>1, <1>2, <2>1, DayIsUnique
  <2> QED
    BY <1>1, <1>2, <1>3, <1>4, <2>2 DEF n, d, TimeOfDay
<1>5. CASE n + k >= DayLen
  <2>1. Midnight(d + 1) <= t + k /\ t + k < Midnight(d + 1) + DayLen
    BY <1>1, <1>2, <1>3, <1>5
  <2>2. (t + k) % DayLen = (t + k) - Midnight(d + 1)
    BY <1>1, <1>2, <2>1, DayIsUnique
  <2> QED
    BY <1>1, <1>2, <1>3, <1>5, <2>2 DEF n, d, TimeOfDay
<1> QED
  BY <1>2, <1>3, <1>4, <1>5

\* A pass whose wait goes over midnight is one inside a window that does.
LEMMA OverMidnight ==
  ASSUME NEW n \in TimesOfDay, NEW start \in TimesOfDay, NEW end \in TimesOfDay,
         n # 0, n # start, n # end, end < start \/ start = 0,
         NEW t \in n .. n + RequeueTime(n, start, end) - 1, t >= DayLen
  PROVE  InSleepWindow(n, start, end)
<1>1. RequeueTime(n, start, end) \in 1 .. DayLen
  BY RequeueInADay
<1> QED
  BY <1>1, ScheduleAssumption, SMT
     DEF TimesOfDay, RequeueTime, SleepStart, SleepEnd, InSleepWindow

\* Until the pass that a pass asks for, the decision would be the same at every
\* time but the very marks.
LEMMA SameDecision ==
  ASSUME TypeOK, MidnightCovered \/ EveryDay, ~OnTheTick,
         NEW t \in now .. now + RequeueAfter(now) - 1,
         t % DayLen \notin {0, startSleep, endSleep}
  PROVE  IsTimeToSleep(t) <=> IsTimeToSleep(now)
<1>1. startSleep \in TimesOfDay /\ endSleep \in TimesOfDay /\ now \in Nat
  BY LoopAssumption DEF TypeOK
<1>2. HolidayDates(holidays) \subseteq Days
  BY HolidaysTyped DEF TypeOK
<1>3. RequeueAfter(now) \in Nat \ {0}
  BY RequeuePositive
<1>4. t \in Nat /\ now <= t
  BY <1>1, <1>3
<1>5. DayOf(now) \in Nat /\ DayOf(t) \in Nat /\ DayLen \in Nat \ {0}
  BY <1>1, <1>4, DayAndTime, ScheduleAssumption
<1>6. CASE IsItHoliday(now, holidays)
  <2>1. PICK e \in DayOf(now) + 1 .. LastDay + 1 :
          /\ \A d \in DayOf(now) .. e - 1 : d \in HolidayDates(holidays)
          /\ CheckConsecutiveDates(now, AllHolidaysDates(holidays), DayOf(now)) = Midnight(e) - now
    BY <1>1, <1>2, <1>6, HolidaysEnd
  <2>2. e \in Nat /\ Midnight(e) \in Nat
    BY <1>5, MidnightType
  <2>3. t < Midnight(e)
    <3>1. RequeueAfter(now) = Midnight(e) - now
      BY <1>6, <2>1 DEF RequeueAfter
    <3> QED
      BY <1>1, <1>4, <2>2, <3>1
  <2>4. DayOf(t) < e
    <3> SUFFICES ASSUME e <= DayOf(t)
                 PROVE  FALSE
      BY <1>5, <2>2
    <3>1. Midnight(e) <= Midnight(DayOf(t))
      <4>1. CASE e = DayOf(t)
        BY <2>2, <4>1
      <4>2. CASE e < DayOf(t)
        <5>1. Midnight(e) + DayLen <= Midnight(DayOf(t)) /\ Midnight(DayOf(t)) \in Nat
          BY <1>5, <2>2, <4>2, MidnightsInOrder, MidnightType
        <5> QED
          BY <1>5, <2>2, <5>1
      <4> QED
        BY <1>5, <2>2, <4>1, <4>2
    <3>2. Midnight(DayOf(t)) <= t /\ Midnight(DayOf(t)) \in Nat
      BY <1>4, <1>5, DayAndTime, MidnightType DEF TimesOfDay
    <3> QED
      BY <1>4, <2>2, <2>3, <3>1, <3>2
  <2>5. DayOf(now) <= DayOf(t)
    <3> SUFFICES ASSUME DayOf(t) < DayOf(now)
                 PROVE  FALSE
      BY <1>5
    <3>1. Midnight(DayOf(t)) + DayLen <= Midnight(DayOf(now))
      BY <1>5, MidnightsInOrder
    <3>2. /\ t % DayLen \in 0 .. DayLen - 1 /\ t = Midnight(DayOf(t)) + (t % DayLen)
          /\ now % DayLen \in 0 .. DayLen - 1 /\ now = Midnight(DayOf(now)) + (now % DayLen)
      BY <1>1, <1>4, DayAndTime DEF TimesOfDay
    <3>3. Midnight(DayOf(t)) \in Nat /\ Midnight(DayOf(now)) \in Nat
      BY <1>5, MidnightType
    <3> QED
      BY <1>1, <1>4, <1>5, <3>1, <3>2, <3>3
  <2>6. IsItHoliday(t, holidays)
    BY <1>5, <2>1, <2>2, <2>4, <2>5 DEF IsItHoliday
  <2> QED
    BY <1>6, <2>6 DEF IsTimeToSleep
<1>7. CASE ~IsItHoliday(now, holidays)
  <2> DEFINE n == now % DayLen
             k == t - now
  <2>1. n \in TimesOfDay /\ n # 0 /\ n # startSleep /\ n # endSleep
    BY <1>1, DayAndTime DEF OnTheTick
  <2>2. RequeueAfter(now) = RequeueTime(n, startSleep, endSleep)
    BY <1>7 DEF RequeueAfter
  <2>3. RequeueTime(n, startSleep, endSleep) \in 1 .. DayLen
    BY <1>1, <2>1, RequeueInADay
  <2>4. k \in 0 .. RequeueTime(n, startSleep, endSleep) - 1
    BY <1>1, <1>4, <2>2, <2>3
  <2>5. t = now + k
    BY <1>1, <1>4
  <2> HIDE DEF k
  <2>6. k \in 0 .. DayLen - 1
    BY <1>5, <2>3, <2>4
  <2>7. TimeOfDay(n + k) = t % DayLen /\ (n + k < DayLen => DayOf(t) = DayOf(now))
    BY <1>1, <2>5, <2>6, LaterTime
  <2>8. t % DayLen \in TimesOfDay
    BY <1>4, DayAndTime
  <2> HIDE DEF n
  <2>9. n + k \in n .. n + RequeueTime(n, startSleep, endSleep) - 1
    BY <2>1, <2>3, <2>4 DEF TimesOfDay
  <2>10. InSleepWindow(t % DayLen, startSleep, endSleep)
           <=> InSleepWindow(n, startSleep, endSleep)
    <3>1. InWindow(TimeOfDay(n + k), startSleep, endSleep)
            <=> InSleepWindow(n, startSleep, endSleep)
      BY <1>1, <2>1, <2>9, NoMarkMissed
    <3>2. InSleepWindow(t % DayLen, startSleep, endSleep)
            <=> InWindow(t % DayLen, startSleep, endSleep)
      BY <1>1, <2>8, WindowIsRight
    <3> QED
      BY <2>7, <3>1, <3>2
  <2>11. CASE n + k < DayLen
    BY <2>7, <2>10, <2>11 DEF IsTimeToSleep, IsItHoliday, WeekdayOf, n
  <2>12. CASE n + k >= DayLen /\ MidnightCovered
    <3>1. InSleepWindow(n, startSleep, endSleep)
      BY <1>1, <2>1, <2>9, <2>12, OverMidnight DEF MidnightCovered
    <3> QED
      BY <2>10, <3>1 DEF IsTimeToSleep, n
  <2>13. CASE EveryDay
    <3>1. ~IsItHoliday(t, holidays)
      BY <2>13 DEF EveryDay, IsItHoliday
    <3>2. WeekdayOf(t) \in weekdays /\ WeekdayOf(now) \in weekdays
      BY <1>5, <2>13, LoopAssumption, SMT DEF EveryDay, WeekdayOf
    <3> QED
      BY <1>7, <2>10, <3>1, <3>2 DEF IsTimeToSleep, n
  <2> QED
    <3>1. n \in Int /\ k \in Int /\ DayLen \in Int
      BY <1>5, <2>1, <2>6 DEF TimesOfDay
    <3> QED
      BY <2>11, <2>12, <2>13, <3>1
<1> QED
  BY <1>6, <1>7

\* InSync looked at from the pass: the decision holds for all the time until
\* the next one is due.
Foreseen ==
  MidnightCovered \/ EveryDay =>
    \A t \in now .. due - 1 :
      t % DayLen \notin {0, startSleep, endSleep} => (asleep <=> IsTimeToSleep(t))

\* Between two passes the decision in force is the one a pass would take, where
\* midnight is covered by the window or all days are alike.
THEOREM DecisionHolds == Spec => []InSync
<1>1. Init => Foreseen
  BY ScheduleAssumption DEF Init, Foreseen, TimesOfDay
<1>2. TypeOK /\ Foreseen /\ [Next]_vars => Foreseen'
  <2> SUFFICES ASSUME TypeOK, Foreseen, [Next]_vars, (MidnightCovered \/ EveryDay)',
                      NEW t \in now' .. due' - 1,
                      (t % DayLen \notin {0, startSleep, endSleep})'
               PROVE  (asleep <=> IsTimeToSleep(t))'
    BY DEF Foreseen
  <2>1. UNCHANGED spec
    BY DEF Next, Tick, Reconcile, vars
  <2>2. UNCHANGED <<startSleep, endSleep, weekdays, holidays>>
    BY <2>1 DEF spec
  <2>3. /\ MidnightCovered \/ EveryDay
        /\ t % DayLen \notin {0, startSleep, endSleep}
        /\ IsTimeToSleep(t)' <=> IsTimeToSleep(t)
    BY <2>2 DEF MidnightCovered, EveryDay, IsTimeToSleep, IsItHoliday
  <2>4. now \in Nat /\ due \in Int
    BY DEF TypeOK
  <2>5. CASE Tick
    <3>1. t \in now .. due - 1 /\ asleep' = asleep
      BY <2>4, <2>5 DEF Tick
    <3>2. asleep <=> IsTimeToSleep(t)
      BY <2>3, <3>1 DEF Foreseen
    <3> QED
      BY <2>3, <3>1, <3>2
  <2>6. CASE Reconcile
    <3>1. /\ ~OnTheTick
          /\ asleep' = IsTimeToSleep(now)
          /\ now' = now
          /\ due' = now + RequeueAfter(now)
      BY <2>6 DEF Reconcile
    <3>2. t \in now .. now + RequeueAfter(now) - 1
      <4>1. PICK r \in Nat \ {0} : r = RequeueAfter(now)
        BY RequeuePositive
      <4>2. due' = now + r
        BY <3>1, <4>1
      <4>3. t \in now .. now + r - 1
        BY <2>4, <3>1, <4>2
      <4> QED
        BY <4>1, <4>3
    <3>3. IsTimeToSleep(t) <=> IsTimeToSleep(now)
      BY <2>3, <3>1, <3>2, SameDecision
    <3> QED
      BY <2>3, <3>1, <3>3
  <2>7. CASE UNCHANGED vars
    <3>1. t \in now .. due - 1 /\ asleep' = asleep
      BY <2>7 DEF vars
    <3>2. asleep <=> IsTimeToSleep(t)
      BY <2>3, <3>1 DEF Foreseen
    <3> QED
      BY <2>3, <3>1, <3>2
  <2> QED
    BY <2>5, <2>6, <2>7 DEF Next
<1>3. TypeOK /\ Foreseen => InSync
  <2> SUFFICES ASSUME TypeOK, Foreseen, MidnightCovered \/ EveryDay, now < due,
                      ~OnTheTick
               PROVE  asleep = IsTimeToSleep(now)
    BY DEF InSync
  <2>1. now \in now .. due - 1
    BY DEF TypeOK
  <2>2. asleep <=> IsTimeToSleep(now)
    BY <2>1 DEF Foreseen, OnTheTick
  <2>3. asleep \in BOOLEAN /\ IsTimeToSleep(now) \in BOOLEAN
    BY DEF TypeOK, IsTimeToSleep
  <2> QED
    BY <2>2, <2>3
<1> QED
  BY <1>1, <1>2, <1>3, ScheduleTyped, PTL DEF Spec
============================================================================
