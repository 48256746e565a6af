----------------------- MODULE IncludedObjectsProofs -----------------------
(***************************************************************************)
(* Theorems about IncludedObjects for any objects, patterns and lists of   *)
(* included objects, and any number of objects that come and go.           *)
(***************************************************************************)
EXTENDS IncludedObjects, FiniteSetTheorems, TLAPS

\* What validation has let through stays valid.
ValidInside ==
  pc \in {"count", "select", "asleep", "awake"} =>
    \A i \in 1..Len(entries) : Valid(entries[i])

\* Where the walk over entries and kinds is.
Walk ==
  /\ unlisted # {} => at \in 1..Len(entries) /\ unlisted \subseteq KindsFetched(entries[at])
  /\ pc \in {"asleep", "awake"} => FetchDone
  /\ always \subseteq present /\ present \subseteq ever

\* Each kind's list is of that kind, and fits an entry that has been taken up.
ListsFit ==
  \A k \in Kinds : \A o \in list[k] :
    /\ o \in ever /\ KindOf[o] = k
    /\ \E i \in 1..at : FitsEntry(o, entries[i])

\* The walk has dealt with kind k for the i-th entry, and not for a later one.
LastSoFar(i, k) ==
  /\ \A j \in 1..at : j > i => k \notin KindsFetched(entries[j])
  /\ ~(i = at /\ k \in unlisted)

\* What a plain entry means and has been there all along is in its list until a later
\* entry fetches the same kind.
Regular ==
  \A i \in 1..at : \A o \in always :
    Plain(entries[i]) /\ Selects(entries[i], o) /\ LastSoFar(i, KindOf[o]) =>
      o \in list[KindOf[o]]

----------------------------------------------------------------------------
(* The operators.                                                          *)

LEMMA EntriesTyped ==
  ASSUME entries \in IncludedLists
  PROVE  Len(entries) \in Nat /\ \A i \in 1..Len(entries) : entries[i] \in EntryType
BY IncludedObjectsAssumption DEF IncludedObjectsAssumption

\* What one List call and its filter find is there, of the kind, and fits.
LEMMA FoundFits ==
  ASSUME NEW e, NEW k \in KindsFetched(e), NEW o \in ByPattern(e, ListKind(e, k))
  PROVE  o \in present /\ KindOf[o] = k /\ FitsEntry(o, e)
<1>1. o \in ListKind(e, k)
  BY DEF ByPattern
<1>2. /\ e.includeRef # NoRef => o \in Matched[e.includeRef]
      /\ e.excludeRef # NoRef => o \notin Matched[e.excludeRef]
  BY DEF ByPattern
<1> QED
  BY <1>1, <1>2 DEF ListKind, FitsEntry

\* For a plain entry it is all that the entry means.
LEMMA FoundComplete ==
  ASSUME NEW e, Plain(e), NEW o \in present \cap Objects, Selects(e, o)
  PROVE  o \in ByPattern(e, ListKind(e, KindOf[o]))
<1>1. o \in ListKind(e, KindOf[o])
  BY DEF ListKind, Selects
<1>2. CASE e.excludeRef = NoRef
  BY <1>1, <1>2 DEF Plain, ByPattern
<1>3. CASE e.excludeRef # NoRef
  <2>1. o \in Matched[e.includeRef]
    BY EntriesAssumption DEF EntriesAssumption, Selects
  <2> QED
    BY <1>1, <1>3, <2>1 DEF ByPattern, Selects
<1> QED
  BY <1>2, <1>3

\* A valid plain entry means exactly what fits it.
LEMMA FitsIsSelected ==
  ASSUME NEW e, Valid(e), Plain(e), NEW o \in Objects, FitsEntry(o, e)
  PROVE  Selects(e, o)
<1>1. KindOf[o] \in Kinds
  BY EntriesAssumption DEF EntriesAssumption
<1>2. CASE e.apiVersion = Any
  BY <1>2 DEF FitsEntry, Selects, Plain
<1>3. CASE e.apiVersion = "apps/v1"
  BY <1>1, <1>3 DEF FitsEntry, Selects, KindsFetched, ApiVersionOf, Apps, Any
<1>4. CASE e.apiVersion = "batch/v1"
  <2>1. KindOf[o] = "CronJob" /\ e.kind \in {Any, "CronJob"}
    BY <1>4 DEF FitsEntry, KindsFetched, Valid, GetKind, Any
  <2> QED
    BY <1>4, <2>1 DEF FitsEntry, Selects, ApiVersionOf
<1>5. \/ e.apiVersion = Any
      \/ e.apiVersion = "apps/v1"
      \/ e.apiVersion = "batch/v1"
  BY DEF FitsEntry, KindsFetched
<1> QED
  BY <1>2, <1>3, <1>4, <1>5

\* The kind of an object that an entry selects is fetched for the entry.
LEMMA SelectedIsFetched ==
  ASSUME NEW e, NEW o \in Objects, Selects(e, o)
  PROVE  KindOf[o] \in KindsFetched(e)
<1>1. KindOf[o] \in Kinds
  BY EntriesAssumption DEF EntriesAssumption
<1> QED
  BY <1>1 DEF Selects, KindsFetched, ApiVersionOf, Apps, Kinds, Any

----------------------------------------------------------------------------
(* Types and the walk.                                                     *)

\* Every variable has its type in every reachable state.
THEOREM IncludedTypeCorrect == Spec => []TypeOK
<1>1. Init => TypeOK
  <2> SUFFICES ASSUME Init PROVE TypeOK
    OBVIOUS
  <2>1. Len(entries) \in Nat /\ MaxChanges \in Nat
    BY EntriesTyped, IncludedObjectsAssumption DEF Init, IncludedObjectsAssumption
  <2> QED
    BY <2>1 DEF Init, TypeOK
<1>2. TypeOK /\ [Next]_vars => TypeOK'
  <2> SUFFICES ASSUME TypeOK, [Next]_vars PROVE TypeOK'
    OBVIOUS
  <2> USE DEF TypeOK, fetchVars
  <2>1. Len(entries) \in Nat /\ MaxChanges \in Nat
    BY EntriesTyped, IncludedObjectsAssumption DEF IncludedObjectsAssumption
  <2>2. CASE ValidateIncludedObjects
    BY <2>1, <2>2 DEF ValidateIncludedObjects, BeginFetch
  <2>3. CASE ValidationFails
    BY <2>3 DEF ValidationFails
  <2>4. CASE NextEntry
    BY <2>1, <2>4 DEF NextEntry, KindsFetched
  <2>5. ASSUME NEW k \in Kinds, FetchKind(k) PROVE TypeOK'
    <3>1. ByPattern(entries[at], ListKind(entries[at], k)) \in SUBSET Objects
      BY DEF ByPattern, ListKind
    <3> QED
      BY <2>5, <3>1 DEF FetchKind
  <2>6. ASSUME NEW k \in Kinds, FetchPanics(k) \/ FetchFails(k) PROVE TypeOK'
    BY <2>6 DEF FetchPanics, FetchFails
  <2>7. CASE SetHandledResources
    <3>1. Fetched \subseteq Objects
      BY DEF Fetched
    <3>2. GetObjectsTotalCount \in Nat
      BY <3>1, EntriesAssumption, FS_Subset, FS_CardinalityType
         DEF EntriesAssumption, GetObjectsTotalCount
    <3> QED
      BY <2>1, <2>7, <3>2 DEF SetHandledResources, BeginFetch
  <2>8. CASE SetStatusFails \/ PutIncludedObjectsToSleep
    BY <2>8 DEF SetStatusFails, PutIncludedObjectsToSleep
  <2>9. ASSUME NEW o \in Objects, ObjectsChange(o) PROVE TypeOK'
    BY <2>1, <2>9 DEF ObjectsChange
  <2>10. CASE UNCHANGED vars
    BY <2>10 DEF vars
  <2> QED
    BY <2>2, <2>3, <2>4, <2>5, <2>6, <2>7, <2>8, <2>9, <2>10 DEF Next
<1> QED
  BY <1>1, <1>2, PTL DEF Spec

LEMMA ValidInsideStep ==
  ASSUME ValidInside, [Next]_vars
  PROVE  ValidInside'
BY DEF ValidInside, Next, vars, ValidateIncludedObjects, ValidationFails, NextEntry,
       FetchKind, FetchPanics, FetchFails, SetHandledResources, SetStatusFails,
       PutIncludedObjectsToSleep, ObjectsChange, NextKind, Fetching

LEMMA WalkStep ==
  ASSUME TypeOK, Walk, [Next]_vars
  PROVE  Walk'
<1> USE DEF Walk, fetchVars
<1>1. Len(entries) \in Nat
  BY EntriesTyped DEF TypeOK
<1>2. CASE ValidateIncludedObjects
  BY <1>2 DEF ValidateIncludedObjects, BeginFetch
<1>3. CASE ValidationFails
  BY <1>3 DEF ValidationFails
<1>4. CASE NextEntry
  BY <1>1, <1>4 DEF NextEntry, Fetching, FetchDone, TypeOK
<1>5. ASSUME NEW k \in Kinds, FetchKind(k) PROVE Walk'
  BY <1>5 DEF FetchKind, NextKind, Fetching
<1>6. ASSUME NEW k \in Kinds, FetchPanics(k) \/ FetchFails(k) PROVE Walk'
  BY <1>6 DEF FetchPanics, FetchFails
<1>7. CASE SetHandledResources
  BY <1>7 DEF SetHandledResources, BeginFetch, FetchDone
<1>8. CASE SetStatusFails \/ PutIncludedObjectsToSleep
  BY <1>8 DEF SetStatusFails, PutIncludedObjectsToSleep, FetchDone
<1>9. ASSUME NEW o \in Objects, ObjectsChange(o) PROVE Walk'
  BY <1>9 DEF ObjectsChange
<1>10. CASE UNCHANGED vars
  BY <1>10 DEF vars, FetchDone
<1> QED
  BY <1>2, <1>3, <1>4, <1>5, <1>6, <1>7, <1>8, <1>9, <1>10 DEF Next

----------------------------------------------------------------------------
(* What is fetched fits.                                                   *)

\* The list of one kind is replaced by what the current entry has of it.
LEMMA FetchKindFound ==
  ASSUME TypeOK, Walk, NEW k \in Kinds, FetchKind(k)
  PROVE  /\ at \in 1..Len(entries) /\ k \in KindsFetched(entries[at])
         /\ \A j \in Kinds \ {k} : list'[j] = list[j]
         /\ list'[k] = list[k]
            \/ list'[k] = ByPattern(entries[at], ListKind(entries[at], k))
         /\ ByPattern(entries[at], ListKind(entries[at], k)) # {} =>
              list'[k] = ByPattern(entries[at], ListKind(entries[at], k))
<1>1. at \in 1..Len(entries) /\ k \in KindsFetched(entries[at])
  BY DEF FetchKind, NextKind, Walk
<1> QED
  BY <1>1 DEF FetchKind, TypeOK

LEMMA ListsFitStep ==
  ASSUME TypeOK, Walk, ListsFit, [Next]_vars
  PROVE  ListsFit'
<1> USE DEF fetchVars
<1>1. Len(entries) \in Nat
  BY EntriesTyped DEF TypeOK
<1>2. CASE BeginFetch
  BY <1>2 DEF BeginFetch, ListsFit
<1>3. CASE NextEntry
  <2>1. 1..at \subseteq 1..at' /\ UNCHANGED <<list, ever, entries>>
    BY <1>1, <1>3 DEF NextEntry, TypeOK
  <2> QED
    BY <2>1 DEF ListsFit, FitsEntry
<1>4. ASSUME NEW k \in Kinds, FetchKind(k) PROVE ListsFit'
  <2>1. UNCHANGED <<ever, entries, at>>
    BY <1>4 DEF FetchKind
  <2>2. \A o \in ByPattern(entries[at], ListKind(entries[at], k)) :
          o \in ever /\ KindOf[o] = k /\ FitsEntry(o, entries[at])
    BY <1>4, FetchKindFound, FoundFits DEF Walk
  <2>3. \A o \in list'[k] :
          o \in ever /\ KindOf[o] = k /\ \E i \in 1..at : FitsEntry(o, entries[i])
    BY <1>1, <1>4, <2>2, FetchKindFound DEF ListsFit, TypeOK
  <2>4. \A j \in Kinds \ {k} : list'[j] = list[j]
    BY <1>4, FetchKindFound
  <2> QED
    BY <2>1, <2>3, <2>4 DEF ListsFit, FitsEntry
<1>5. ASSUME NEW o \in Objects, ObjectsChange(o) PROVE ListsFit'
  BY <1>5 DEF ObjectsChange, ListsFit, FitsEntry
<1>6. CASE UNCHANGED <<list, ever, entries, at>>
  BY <1>6 DEF ListsFit, FitsEntry
<1>7. BeginFetch \/ NextEntry \/ (\E k \in Kinds : FetchKind(k))
        \/ (\E o \in Objects : ObjectsChange(o)) \/ UNCHANGED <<list, ever, entries, at>>
  BY DEF Next, vars, ValidateIncludedObjects, ValidationFails, FetchPanics, FetchFails,
         SetHandledResources, SetStatusFails, PutIncludedObjectsToSleep
<1> QED
  BY <1>2, <1>3, <1>4, <1>5, <1>6, <1>7

LEMMA FetchInit == Init => ValidInside /\ Walk /\ ListsFit /\ Regular
BY DEF Init, ValidInside, Walk, ListsFit, Regular, FetchDone

THEOREM WalkHolds == Spec => [](ValidInside /\ Walk /\ ListsFit)
<1>1. TypeOK /\ ValidInside /\ Walk /\ ListsFit /\ [Next]_vars =>
        ValidInside' /\ Walk' /\ ListsFit'
  BY ValidInsideStep, WalkStep, ListsFitStep
<1> QED
  BY <1>1, FetchInit, IncludedTypeCorrect, PTL DEF Spec

\* Whatever a user writes, an object is fetched only if some entry gives its
\* namespace and its name, and if it has been there.
THEOREM OnlyFittingObjects == Spec => []NothingForeign
<1>1. ListsFit => NothingForeign
  BY DEF ListsFit, NothingForeign, Fetched
<1> QED
  BY <1>1, WalkHolds, PTL

----------------------------------------------------------------------------
(* A well-written list is fetched as it is meant.                          *)

LEMMA MeantIsSound ==
  ASSUME TypeOK, ValidInside, ListsFit, WellWritten,
         pc \in {"count", "select", "asleep", "awake"}
  PROVE  \A o \in Fetched : o \in Meant
<1>1. Len(entries) \in Nat
  BY EntriesTyped DEF TypeOK
<1>2. ASSUME NEW o \in Fetched PROVE o \in Meant
  <2>1. PICK k \in Kinds : o \in list[k]
    BY <1>2 DEF Fetched
  <2>2. o \in Objects
    BY <2>1 DEF TypeOK
  <2>3. PICK i \in 1..at : FitsEntry(o, entries[i])
    BY <2>1 DEF ListsFit
  <2>4. i \in 1..Len(entries)
    BY <1>1 DEF TypeOK
  <2> QED
    BY <2>2, <2>3, <2>4, FitsIsSelected DEF ValidInside, WellWritten, Meant
<1> QED
  BY <1>2

LEMMA RegularFetch ==
  ASSUME TypeOK, Walk, Regular, NEW k \in Kinds, FetchKind(k)
  PROVE  Regular'
<1>1. Len(entries) \in Nat /\ at \in 1..Len(entries) /\ k \in KindsFetched(entries[at])
  BY EntriesTyped, FetchKindFound DEF TypeOK
<1>2. unlisted' = unlisted \ {k} /\ UNCHANGED <<at, entries, always>>
  BY DEF FetchKind, NextKind
<1>3. SUFFICES ASSUME NEW i \in 1..at, NEW o \in always, Plain(entries[i]),
                      Selects(entries[i], o), LastSoFar(i, KindOf[o])'
               PROVE  o \in list'[KindOf[o]]
  BY <1>2 DEF Regular
<1>4. o \in present \cap Objects
  BY DEF Walk, TypeOK
<1>5. CASE KindOf[o] = k
  <2>1. i = at
    BY <1>1, <1>2, <1>3, <1>5 DEF LastSoFar
  <2>2. o \in ByPattern(entries[at], ListKind(entries[at], k))
    BY <1>3, <1>4, <1>5, <2>1, FoundComplete
  <2> QED
    BY <1>5, <2>2, FetchKindFound
<1>6. CASE KindOf[o] # k
  <2>1. LastSoFar(i, KindOf[o])
    BY <1>2, <1>3, <1>6 DEF LastSoFar
  <2>2. KindOf[o] \in Kinds /\ o \in list[KindOf[o]]
    BY <1>3, <1>4, <2>1, EntriesAssumption DEF Regular, EntriesAssumption
  <2> QED
    BY <1>6, <2>2, FetchKindFound
<1> QED
  BY <1>5, <1>6

LEMMA RegularNext ==
  ASSUME TypeOK, Walk, Regular, NextEntry
  PROVE  Regular'
<1>1. /\ Len(entries) \in Nat /\ at \in Nat /\ at' = at + 1 /\ unlisted = {}
      /\ unlisted' = KindsFetched(entries[at + 1]) /\ UNCHANGED <<entries, list, always>>
  BY EntriesTyped DEF NextEntry, TypeOK
<1>2. SUFFICES ASSUME NEW i \in 1..(at + 1), NEW o \in always, Plain(entries[i]),
                      Selects(entries[i], o), LastSoFar(i, KindOf[o])'
               PROVE  o \in list[KindOf[o]]
  BY <1>1 DEF Regular
<1>3. i \in 1..at
  <2>1. KindOf[o] \in KindsFetched(entries[i])
    BY <1>2, SelectedIsFetched DEF TypeOK
  <2>2. i # at + 1
    BY <1>1, <1>2, <2>1 DEF LastSoFar
  <2> QED
    BY <1>1, <2>2
<1>4. LastSoFar(i, KindOf[o])
  BY <1>1, <1>2 DEF LastSoFar
<1> QED
  BY <1>2, <1>3, <1>4 DEF Regular

LEMMA RegularStep ==
  ASSUME TypeOK, Walk, Regular, [Next]_vars
  PROVE  Regular'
<1>1. CASE BeginFetch
  BY <1>1 DEF BeginFetch, Regular
<1>2. CASE UNCHANGED <<entries, list, at, unlisted>> /\ always' \subseteq always
  BY <1>2 DEF Regular, LastSoFar
<1>3. \/ BeginFetch \/ NextEntry \/ \E k \in Kinds : FetchKind(k)
      \/ UNCHANGED <<entries, list, at, unlisted>> /\ always' \subseteq always
  BY DEF Next, vars, fetchVars, ValidateIncludedObjects, ValidationFails, FetchPanics,
         FetchFails, SetHandledResources, SetStatusFails, PutIncludedObjectsToSleep,
         ObjectsChange
<1> QED
  BY <1>1, <1>2, <1>3, RegularFetch, RegularNext

THEOREM RegularHolds == Spec => [](TypeOK /\ ValidInside /\ Walk /\ ListsFit /\ Regular)
<1>1. TypeOK /\ Walk /\ Regular /\ [Next]_vars => Regular'
  BY RegularStep
<1> QED
  BY <1>1, FetchInit, IncludedTypeCorrect, WalkHolds, PTL DEF Spec

\* Whatever a list says, what a plain entry means of a kind that no later entry fetches
\* is found, and no entry before it makes a difference.
THEOREM LastEntryIsFound == Spec => []LastEntryCounts
<1>1. TypeOK /\ Walk /\ Regular => LastEntryCounts
  <2> SUFFICES ASSUME TypeOK, Walk, Regular, pc \in {"asleep", "awake"},
                      NEW i \in 1..Len(entries), NEW o \in always, Plain(entries[i]),
                      Selects(entries[i], o), LastToFetch(i, KindOf[o])
               PROVE  o \in Fetched
    BY DEF LastEntryCounts
  <2>1. at = Len(entries) /\ unlisted = {}
    BY DEF Walk, FetchDone
  <2>2. o \in list[KindOf[o]]
    BY <2>1 DEF LastToFetch, LastSoFar, Regular
  <2>3. KindOf[o] \in Kinds
    BY EntriesAssumption DEF EntriesAssumption, TypeOK
  <2> QED
    BY <2>2, <2>3 DEF Fetched
<1> QED
  BY <1>1, RegularHolds, PTL

\* A list in which no two entries fetch one kind, none hides a kind behind
\* apiVersion "*" and none includes without excluding, is fetched as it is meant,
\* whatever comes and goes during the pass.
THEOREM FoundAsMeant == Spec => []FindsWhatIsMeant
<1>1. TypeOK /\ ValidInside /\ Walk /\ ListsFit /\ LastEntryCounts => FindsWhatIsMeant
  <2> SUFFICES ASSUME TypeOK, ValidInside, Walk, ListsFit, LastEntryCounts, WellWritten,
                      pc \in {"asleep", "awake"}
               PROVE  Meant \cap always \subseteq Fetched
                        /\ Fetched \subseteq Meant \cap ever
    BY DEF FindsWhatIsMeant
  <2>1. ASSUME NEW o \in Meant \cap always PROVE o \in Fetched
    <3>1. PICK i \in 1..Len(entries) : Selects(entries[i], o)
      BY DEF Meant
    <3>2. KindOf[o] \in KindsFetched(entries[i])
      BY <3>1, SelectedIsFetched DEF Meant
    <3>3. LastToFetch(i, KindOf[o])
      <4>1. ASSUME NEW j \in 1..Len(entries), j > i
            PROVE  KindOf[o] \notin KindsFetched(entries[j])
        <5>1. i # j
          BY <4>1, EntriesTyped DEF TypeOK
        <5> QED
          BY <3>2, <5>1 DEF WellWritten, Separate
      <4> QED
        BY <4>1 DEF LastToFetch
    <3> QED
      BY <2>1, <3>1, <3>3 DEF LastEntryCounts, WellWritten
  <2>2. Fetched \subseteq Meant \cap ever
    BY MeantIsSound DEF ListsFit, Fetched
  <2> QED
    BY <2>1, <2>2
<1> QED
  BY <1>1, LastEntryIsFound, RegularHolds, PTL

----------------------------------------------------------------------------
(* Both fetches of a pass come to the same, while nothing comes or goes.   *)

\* What the List and the filter of an entry find of a kind: nothing, if the entry
\* includes by pattern without excluding by one.
FoundBy(e, k) ==
  {o \in present :
     /\ KindOf[o] = k /\ FitsEntry(o, e)
     /\ e.excludeRef = NoRef => e.includeRef = NoRef}

\* What an entry of the list finds of a kind.
Found(i, k) == FoundBy(entries[i], k)

\* The entries that the fetch has listed the kind for and that find some of it.
Taken(k) ==
  {i \in 1..at : Found(i, k) # {} /\ ~(i = at /\ k \in unlisted)}

Finding(k) == {i \in 1..Len(entries) : Found(i, k) # {}}

\* L is what the last of these entries finds of the kind, and empty if there is none.
IsLast(L, S, k) ==
  \/ S = {} /\ L = {}
  \/ \E i \in S : (\A j \in S : j <= i) /\ L = Found(i, k)

LastTaken == changes = 0 => \A k \in Kinds : IsLast(list[k], Taken(k), k)

\* The count of the first fetch is that of the lists which any fetch ends with.
CountKept ==
  pc \in {"select", "asleep"} /\ changes = 0 =>
    \E L \in [Kinds -> SUBSET Objects] :
      /\ \A k \in Kinds : IsLast(L[k], Finding(k), k)
      /\ handled = Cardinality(UNION {L[k] : k \in Kinds})

\* A call that lists a kind finds what the entry finds of it.
LEMMA ListedIsFound ==
  ASSUME NEW e, NEW k \in KindsFetched(e), present \in SUBSET Objects
  PROVE  ByPattern(e, ListKind(e, k)) = FoundBy(e, k)
<1>1. \A o \in present :
        o \in ListKind(e, k) <=>
          KindOf[o] = k /\ e.namespace \in {AllNamespaces, NamespaceOf[o]}
  BY DEF ListKind
<1>2. Matched[NoRef] = Objects
  BY EntriesAssumption DEF EntriesAssumption
<1>3. ASSUME NEW o \in present
      PROVE  o \in ByPattern(e, ListKind(e, k)) <=> o \in FoundBy(e, k)
  <2>1. CASE e.excludeRef = NoRef
    BY <1>1, <1>2, <2>1 DEF ByPattern, FoundBy, FitsEntry
  <2>2. CASE e.excludeRef # NoRef
    BY <1>1, <1>2, <2>2 DEF ByPattern, FoundBy, FitsEntry
  <2> QED
    BY <2>1, <2>2
<1>4. ByPattern(e, ListKind(e, k)) \subseteq present /\ FoundBy(e, k) \subseteq present
  BY DEF ByPattern, ListKind, FoundBy
<1> QED
  BY <1>3, <1>4

\* An entry for which a kind is not listed finds nothing of it.
LEMMA NotFetchedNotFound ==
  ASSUME NEW e, NEW k, k \notin KindsFetched(e)
  PROVE  FoundBy(e, k) = {}
BY DEF FoundBy, FitsEntry

LEMMA LastIsOne ==
  ASSUME NEW S \in SUBSET Int, NEW k, NEW L, NEW M, IsLast(L, S, k), IsLast(M, S, k)
  PROVE  L = M
<1>1. ASSUME NEW i \in S, NEW j \in S, \A x \in S : x <= i, \A x \in S : x <= j
      PROVE  i = j
  <2>1. i \in Int /\ j \in Int /\ i <= j /\ j <= i
    BY <1>1
  <2> QED
    BY <2>1
<1> QED
  BY <1>1 DEF IsLast

LEMMA LastTakenStep ==
  ASSUME TypeOK, Walk, LastTaken, [Next]_vars
  PROVE  LastTaken'
<1> USE DEF fetchVars
<1>1. /\ Len(entries) \in Nat /\ at \in 0..Len(entries) /\ changes \in Nat
      /\ present \in SUBSET Objects
  BY EntriesTyped, IncludedObjectsAssumption DEF TypeOK, IncludedObjectsAssumption
<1>2. CASE BeginFetch
  BY <1>2 DEF BeginFetch, LastTaken, IsLast, Taken
<1>3. CASE NextEntry
  <2>1. /\ at' = at + 1 /\ unlisted = {} /\ unlisted' = KindsFetched(entries[at + 1])
        /\ UNCHANGED <<present, entries, list, changes>>
    BY <1>3 DEF NextEntry
  <2>2. \A i, k : Found(i, k)' = Found(i, k)
    BY <2>1 DEF Found, FoundBy, FitsEntry
  <2>3. ASSUME NEW k \in Kinds PROVE Taken(k)' = Taken(k)
    <3>1. ASSUME NEW i \in 1..at
          PROVE  i \in Taken(k) <=> i \in Taken(k)'
      BY <1>1, <2>1, <2>2 DEF Taken
    <3>2. at + 1 \notin Taken(k)'
      <4>1. k \notin KindsFetched(entries[at + 1]) => Found(at + 1, k) = {}
        BY NotFetchedNotFound DEF Found
      <4> QED
        BY <2>1, <2>2, <4>1 DEF Taken
    <3>3. Taken(k) \subseteq 1..at /\ Taken(k)' \subseteq 1..at \cup {at + 1}
      BY <1>1, <2>1 DEF Taken
    <3> QED
      BY <3>1, <3>2, <3>3
  <2> QED
    BY <2>1, <2>2, <2>3 DEF LastTaken, IsLast
<1>4. ASSUME NEW k \in Kinds, FetchKind(k) PROVE LastTaken'
  <2>1. /\ UNCHANGED <<present, entries, at, changes>> /\ unlisted' = unlisted \ {k}
        /\ k \in unlisted
    BY <1>4 DEF FetchKind, NextKind
  <2>2. \A i, j : Found(i, j)' = Found(i, j)
    BY <2>1 DEF Found, FoundBy, FitsEntry
  <2>3. /\ at \in 1..Len(entries)
        /\ \A j \in Kinds \ {k} : list'[j] = list[j]
        /\ list'[k] = IF Found(at, k) = {} THEN list[k]
                      ELSE Found(at, k)
    <3>1. ByPattern(entries[at], ListKind(entries[at], k)) = Found(at, k)
      BY <1>1, <1>4, FetchKindFound, ListedIsFound DEF Found
    <3> QED
      BY <1>4, <3>1, FetchKindFound DEF FetchKind
  <2>4. \A j \in Kinds \ {k} : Taken(j)' = Taken(j)
    BY <2>1, <2>2 DEF Taken
  <2>5. \A i \in 1..at : i \in Taken(k)' <=>
          i \in Taken(k) \/ (i = at /\ Found(at, k) # {})
    BY <2>1, <2>2 DEF Taken
  <2>6. Taken(k) \subseteq 1..at /\ Taken(k)' \subseteq 1..at /\ at \in 1..at
    BY <1>1, <2>1, <2>3 DEF Taken
  <2>7. CASE Found(at, k) = {}
    <3>1. Taken(k)' = Taken(k)
      BY <2>5, <2>6, <2>7
    <3> QED
      BY <2>1, <2>2, <2>3, <2>4, <2>7, <3>1 DEF LastTaken, IsLast
  <2>8. CASE Found(at, k) # {}
    <3>1. at \in Taken(k)' /\ \A j \in Taken(k)' : j <= at
      BY <1>1, <2>3, <2>5, <2>6, <2>8
    <3>2. IsLast(list[k], Taken(k), k)'
      BY <2>1, <2>2, <2>3, <2>8, <3>1 DEF IsLast
    <3> QED
      BY <2>1, <2>2, <2>3, <2>4, <3>2 DEF LastTaken, IsLast
  <2> QED
    BY <2>7, <2>8
<1>5. ASSUME NEW o \in Objects, ObjectsChange(o) PROVE LastTaken'
  BY <1>1, <1>5 DEF ObjectsChange, LastTaken
<1>6. CASE UNCHANGED <<list, at, unlisted, present, entries, changes>>
  BY <1>6 DEF LastTaken, IsLast, Taken, Found, FoundBy, FitsEntry
<1>7. \/ BeginFetch \/ NextEntry \/ (\E k \in Kinds : FetchKind(k))
      \/ (\E o \in Objects : ObjectsChange(o))
      \/ UNCHANGED <<list, at, unlisted, present, entries, changes>>
  BY DEF Next, vars, ValidateIncludedObjects, ValidationFails, FetchPanics, FetchFails,
         SetHandledResources, SetStatusFails, PutIncludedObjectsToSleep
<1> QED
  BY <1>2, <1>3, <1>4, <1>5, <1>6, <1>7

\* A fetch that is done has listed all.
LEMMA DoneIsAll ==
  ASSUME TypeOK, FetchDone, NEW k \in Kinds
  PROVE  Taken(k) = Finding(k)
BY DEF FetchDone, Taken, Finding

LEMMA CountKeptStep ==
  ASSUME TypeOK, Walk, LastTaken, CountKept, [Next]_vars
  PROVE  CountKept'
<1> USE DEF fetchVars
<1>1. CASE SetHandledResources
  <2>1. UNCHANGED <<present, entries, changes>> /\ FetchDone
        /\ handled' = Cardinality(UNION {list[k] : k \in Kinds})
    BY <1>1 DEF SetHandledResources, GetObjectsTotalCount, Fetched
  <2>2. \A i, k : Found(i, k)' = Found(i, k)
    BY <2>1 DEF Found, FoundBy, FitsEntry
  <2>3. \A k \in Kinds : Finding(k)' = Finding(k)
    BY <2>1, <2>2 DEF Finding
  <2>4. changes = 0 => \A k \in Kinds : IsLast(list[k], Finding(k), k)
    BY <2>1, DoneIsAll DEF LastTaken
  <2>5. list \in [Kinds -> SUBSET Objects]
    BY DEF TypeOK
  <2> QED
    BY <2>1, <2>2, <2>3, <2>4, <2>5 DEF CountKept, IsLast
<1>2. CASE pc' \notin {"select", "asleep"}
  BY <1>2 DEF CountKept
<1>3. ASSUME NEW o \in Objects, ObjectsChange(o) PROVE CountKept'
  BY <1>3 DEF ObjectsChange, CountKept, TypeOK
<1>4. CASE /\ UNCHANGED <<present, entries, handled, changes>>
           /\ pc \in {"select", "asleep"}
  <2>1. \A i, k : Found(i, k)' = Found(i, k)
    BY <1>4 DEF Found, FoundBy, FitsEntry
  <2>2. \A k \in Kinds : Finding(k)' = Finding(k)
    BY <1>4, <2>1 DEF Finding
  <2> QED
    BY <1>4, <2>1, <2>2 DEF CountKept, IsLast
<1>5. \/ SetHandledResources
      \/ pc' \notin {"select", "asleep"}
      \/ \E o \in Objects : ObjectsChange(o)
      \/ UNCHANGED <<present, entries, handled, changes>> /\ pc \in {"select", "asleep"}
  BY DEF Next, vars, ValidateIncludedObjects, ValidationFails, NextEntry, FetchKind,
         FetchPanics, FetchFails, SetStatusFails, PutIncludedObjectsToSleep
<1> QED
  BY <1>1, <1>2, <1>3, <1>4, <1>5

LEMMA OrderHolds == Spec => [](TypeOK /\ Walk /\ LastTaken /\ CountKept)
<1>1. Init => LastTaken /\ CountKept
  BY DEF Init, LastTaken, CountKept, IsLast, Taken
<1>2. TypeOK /\ Walk /\ LastTaken /\ CountKept /\ [Next]_vars => LastTaken' /\ CountKept'
  BY LastTakenStep, CountKeptStep
<1> QED
  BY <1>1, <1>2, IncludedTypeCorrect, WalkHolds, PTL DEF Spec

\* Two fetches of one pass come to the same lists, so the status counts what is put to
\* sleep.
THEOREM CountedIsAsleep == Spec => []HandledIsAsleep
<1>1. TypeOK /\ Walk /\ LastTaken /\ CountKept => HandledIsAsleep
  <2> SUFFICES ASSUME TypeOK, Walk, LastTaken, CountKept, pc = "asleep", changes = 0
               PROVE  handled = Cardinality(Fetched)
    BY DEF HandledIsAsleep
  <2>1. PICK L \in [Kinds -> SUBSET Objects] :
          /\ \A k \in Kinds : IsLast(L[k], Finding(k), k)
          /\ handled = Cardinality(UNION {L[k] : k \in Kinds})
    BY DEF CountKept
  <2>2. ASSUME NEW k \in Kinds PROVE L[k] = list[k]
    <3>1. IsLast(list[k], Finding(k), k)
      BY DoneIsAll DEF Walk, LastTaken
    <3>2. Finding(k) \subseteq Int
      BY DEF Finding
    <3> QED
      BY <2>1, <3>1, <3>2, LastIsOne
  <2>3. L = list
    BY <2>2 DEF TypeOK
  <2> QED
    BY <2>1, <2>3 DEF Fetched
<1> QED
  BY <1>1, OrderHolds, PTL
============================================================================
