-------------------------- MODULE IncludedObjects --------------------------
(***************************************************************************)
(* How a pass finds the objects that spec.includedObjects names.  The list *)
(* is validated, and then fetched entry by entry, one List of the caches   *)
(* per kind, while objects come and go.  A pass fetches twice: once before *)
(* the status, for its count of handled resources, and, when it is time to *)
(* sleep, once more for the objects to put to sleep.                       *)
(***************************************************************************)
EXTENDS IncludedEntries

CONSTANTS
  IncludedLists, \* the lists of included objects a user may write
  MaxChanges     \* bound: how many objects come and go during the pass

ASSUME IncludedObjectsAssumption ==
  /\ \A s \in IncludedLists : s \in Seq(EntryType)
  /\ MaxChanges \in Nat

\* The order in which the kinds of one entry are listed.
Rank == [Deployment |-> 1, StatefulSet |-> 2, CronJob |-> 3, ReplicaSet |-> 4]

VARIABLES
  present,  \* the objects in the caches
  entries,  \* spec.includedObjects
  pc,       \* where the pass is
  at,       \* the entries begun in this fetch
  unlisted, \* kinds still to be listed for the current entry
  list,     \* objectList: what is fetched of each kind; nil is {}
  handled,  \* status.handledResources
  changes,  \* objects come and gone so far
  \* history variables, of the current fetch
  always,   \* the objects that have been there all the time
  ever      \* the objects that have been there at some time

fetchVars == <<at, unlisted, list>>
vars == <<present, entries, pc, fetchVars, handled, changes, always, ever>>

TypeOK ==
  /\ present \in SUBSET Objects
  /\ entries \in IncludedLists
  /\ pc \in {"validate", "count", "select", "asleep", "awake", "error", "panic"}
  /\ at \in 0..Len(entries)
  /\ unlisted \in SUBSET Kinds
  /\ list \in [Kinds -> SUBSET Objects]
  /\ handled \in Nat
  /\ changes \in 0..MaxChanges
  /\ always \in SUBSET Objects
  /\ ever \in SUBSET Objects

Fetching == pc \in {"count", "select"}

----------------------------------------------------------------------------
\* The List call: the objects of one kind and of the entry's namespace.
ListKind(e, k) ==
  {o \in present : KindOf[o] = k /\ e.namespace \in {AllNamespaces, NamespaceOf[o]}}

Fetched == UNION {list[k] : k \in Kinds}

\* A bug: a kind is not counted.
GetObjectsTotalCount_NoCronJobs == Cardinality(Fetched \ list["CronJob"])

GetObjectsTotalCount == Cardinality(Fetched)

----------------------------------------------------------------------------
(* The pass.                                                               *)

Init ==
  /\ present \in SUBSET Objects
  /\ entries \in IncludedLists
  /\ pc = "validate"
  /\ at = 0 /\ unlisted = {}
  /\ list = [k \in Kinds |-> {}]
  /\ handled = 0
  /\ changes = 0
  /\ always = present /\ ever = present

\* FetchIncludedObjects starts with an empty list.
BeginFetch ==
  /\ at' = 0 /\ unlisted' = {}
  /\ list' = [k \in Kinds |-> {}]
  /\ always' = present /\ ever' = present

ValidateIncludedObjects ==
  /\ pc = "validate"
  /\ \A i \in 1..Len(entries) : Valid(entries[i])
  /\ pc' = "count"
  /\ BeginFetch
  /\ UNCHANGED <<present, entries, handled, changes>>

ValidationFails ==
  /\ pc = "validate"
  /\ \E i \in 1..Len(entries) : ~Valid(entries[i])
  /\ pc' = "error"
  /\ UNCHANGED <<present, entries, fetchVars, handled, changes, always, ever>>

\* A bug: the loop over the entries takes one step too many.
NextEntry_PastEnd ==
  /\ Fetching
  /\ unlisted = {} /\ at <= Len(entries)
  /\ at' = at + 1
  /\ unlisted' = IF at < Len(entries) THEN KindsFetched(entries[at + 1]) ELSE {}
  /\ UNCHANGED <<present, entries, pc, list, handled, changes, always, ever>>

NextEntry ==
  /\ Fetching
  /\ unlisted = {} /\ at < Len(entries)
  /\ at' = at + 1
  /\ unlisted' = KindsFetched(entries[at + 1])
  /\ UNCHANGED <<present, entries, pc, list, handled, changes, always, ever>>

\* The next kind of the current entry.
NextKind(k) ==
  /\ Fetching
  /\ k \in unlisted
  /\ \A j \in unlisted : Rank[k] <= Rank[j]

\* A bug: what an earlier entry has found is kept.
FetchKind_Kept(k) ==
  /\ NextKind(k)
  /\ ~Panics(entries[at])
  /\ LET found == ByPattern(entries[at], ListKind(entries[at], k)) IN
       list' = IF list[k] # {} THEN list ELSE [list EXCEPT ![k] = found]
  /\ unlisted' = unlisted \ {k}
  /\ UNCHANGED <<present, entries, pc, at, handled, changes, always, ever>>

\* A result that is not empty replaces what an earlier entry has found.
FetchKind(k) ==
  /\ NextKind(k)
  /\ ~Panics(entries[at])
  /\ LET found == ByPattern(entries[at], ListKind(entries[at], k)) IN
       list' = IF found = {} THEN list ELSE [list EXCEPT ![k] = found]
  /\ unlisted' = unlisted \ {k}
  /\ UNCHANGED <<present, entries, pc, at, handled, changes, always, ever>>

FetchPanics(k) ==
  /\ NextKind(k)
  /\ Panics(entries[at])
  /\ pc' = "panic"
  /\ UNCHANGED <<present, entries, fetchVars, handled, changes, always, ever>>

\* The List call fails.
FetchFails(k) ==
  /\ NextKind(k)
  /\ pc' = "error"
  /\ UNCHANGED <<present, entries, fetchVars, handled, changes, always, ever>>

FetchDone == unlisted = {} /\ at = Len(entries)

\* The count goes into the status; a pass that wakes needs no more than that.
SetHandledResources ==
  /\ pc = "count"
  /\ FetchDone
  /\ handled' = GetObjectsTotalCount
  /\ \/ pc' = "select" /\ BeginFetch
     \/ pc' = "awake" /\ UNCHANGED <<fetchVars, always, ever>>
  /\ UNCHANGED <<present, entries, changes>>

SetStatusFails ==
  /\ pc = "count"
  /\ FetchDone
  /\ pc' = "error"
  /\ UNCHANGED <<present, entries, fetchVars, handled, changes, always, ever>>

PutIncludedObjectsToSleep ==
  /\ pc = "select"
  /\ FetchDone
  /\ pc' = "asleep"
  /\ UNCHANGED <<present, entries, fetchVars, handled, changes, always, ever>>

\* An object is created, deleted or renamed, and the cache has heard of it.
ObjectsChange(o) ==
  /\ pc \in {"validate", "count", "select"}
  /\ changes < MaxChanges
  /\ changes' = changes + 1
  /\ present' = IF o \in present THEN present \ {o} ELSE present \cup {o}
  /\ always' = always \cap present'
  /\ ever' = ever \cup present'
  /\ UNCHANGED <<entries, pc, fetchVars, handled>>

Next ==
  \/ ValidateIncludedObjects \/ ValidationFails
  \/ NextEntry
  \/ \E k \in Kinds : FetchKind(k) \/ FetchPanics(k) \/ FetchFails(k)
  \/ SetHandledResources \/ SetStatusFails \/ PutIncludedObjectsToSleep
  \/ \E o \in Objects : ObjectsChange(o)

Spec == Init /\ [][Next]_vars

----------------------------------------------------------------------------
(* What the fields of an entry say, whatever the code makes of them.       *)

ApiVersionOf(k) == IF k = "CronJob" THEN "batch/v1" ELSE "apps/v1"

\* "Each of these resources can be individually included or excluded from the
\* schedule using specific criteria" (README.md:132).
Selects(e, o) ==
  /\ e.apiVersion \in {Any, ApiVersionOf(KindOf[o])}
  /\ e.kind \in {Any, KindOf[o]}
  /\ e.namespace \in {AllNamespaces, NamespaceOf[o]}
  /\ e.includeRef # NoRef => o \in Matched[e.includeRef]
  /\ e.excludeRef # NoRef => o \notin Matched[e.excludeRef]

Meant == {o \in Objects : \E i \in 1..Len(entries) : Selects(entries[i], o)}

\* An entry of which the code makes what it says: its kind is not hidden behind
\* apiVersion "*", and it does not include by pattern without excluding by one.
Plain(e) ==
  /\ e.apiVersion = Any => e.kind = Any
  /\ e.excludeRef = NoRef => e.includeRef = NoRef

\* No kind is fetched by two entries.
Separate ==
  \A i, j \in 1..Len(entries) :
    i # j => KindsFetched(entries[i]) \cap KindsFetched(entries[j]) = {}

\* No entry after the i-th fetches kind k.
LastToFetch(i, k) ==
  \A j \in 1..Len(entries) : j > i => k \notin KindsFetched(entries[j])

WellWritten == Separate /\ \A i \in 1..Len(entries) : Plain(entries[i])

----------------------------------------------------------------------------
(* Safety                                                                  *)

\* When a list is well written, what is fetched is regular however objects come
\* and go: every object meant that is there all along is found, and nothing is
\* found that is not meant or has never been there.
FindsWhatIsMeant ==
  WellWritten /\ pc \in {"asleep", "awake"} =>
    /\ Meant \cap always \subseteq Fetched
    /\ Fetched \subseteq Meant \cap ever

\* However a list is written, an object is fetched only if some entry gives its
\* namespace and its name.
FitsEntry(o, e) ==
  /\ KindOf[o] \in KindsFetched(e)
  /\ e.namespace \in {AllNamespaces, NamespaceOf[o]}
  /\ e.includeRef # NoRef => o \in Matched[e.includeRef]
  /\ e.excludeRef # NoRef => o \notin Matched[e.excludeRef]

NothingForeign ==
  \A o \in Fetched : o \in ever /\ \E i \in 1..at : FitsEntry(o, entries[i])

\* However a list is written, an entry is not undone by those before it: of a kind
\* that no later entry fetches, everything a plain entry means and that is there all
\* along is found, whatever entries before it have found of that kind.  Whether it
\* survives the later ones is another question: see EveryEntryCounts.
LastEntryCounts ==
  pc \in {"asleep", "awake"} =>
    \A i \in 1..Len(entries) : \A o \in always :
      Plain(entries[i]) /\ Selects(entries[i], o) /\ LastToFetch(i, KindOf[o]) =>
        o \in Fetched

\* The status counts what is put to sleep, unless objects come or go in between.
HandledIsAsleep == pc = "asleep" /\ changes = 0 => handled = Cardinality(Fetched)

----------------------------------------------------------------------------
(* What the documentation says, and the code does not do.                  *)

\* README.md:87: includedObjects is an "Array of objects specifying included
\* Kubernetes objects".  Each entry adds its objects.
EveryEntryCounts ==
  pc = "asleep" /\ changes = 0 /\ (\A i \in 1..Len(entries) : Plain(entries[i])) =>
    Meant \cap present \subseteq Fetched

\* README.md:132: "Each of these resources can be individually included or
\* excluded".  An entry that names a kind leaves the other kinds alone.
NoOtherKind == pc = "asleep" /\ changes = 0 /\ Separate => Fetched \subseteq Meant

\* kronosapp_webhook.go:65-67: an empty excludeRef means "^$", which excludes
\* nothing.  What includeRef matches is included.
IncludeRefIncludes ==
  pc = "asleep" /\ changes = 0 /\ Separate => Meant \cap present \subseteq Fetched

\* README.md:132 again: whatever patterns a user writes, they include or exclude.
NeverPanics == pc # "panic"
============================================================================
