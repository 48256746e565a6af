-------------------------- MODULE IncludedEntries --------------------------
(***************************************************************************)
(* The entries of spec.includedObjects: which are valid, which kinds are   *)
(* listed for one, and which of the listed objects it selects.             *)
(*                                                                         *)
(* The patterns of an entry are regular expressions; all that matters of   *)
(* one is which objects' names it matches.  The empty pattern matches all. *)
(***************************************************************************)
EXTENDS Integers, FiniteSets, Sequences

CONSTANTS
  Objects,       \* the objects there may be
  KindOf,        \* kind of each object
  NamespaceOf,   \* namespace of each object
  Refs,          \* patterns that compile
  Matched,       \* the objects whose names a pattern matches
  Malformed      \* patterns that do not compile

Kinds == {"Deployment", "StatefulSet", "CronJob", "ReplicaSet"}
Apps  == {"Deployment", "StatefulSet", "ReplicaSet"}

\* What stands in a field of an entry: any apiVersion or kind, all namespaces,
\* no pattern.
Any           == "*"
AllNamespaces == ""
NoRef         == ""

\* An included object, with any strings for apiVersion and kind.
EntryType ==
  [apiVersion : STRING, kind : STRING, namespace : STRING,
   includeRef : Refs \cup Malformed, excludeRef : Refs \cup Malformed]

ASSUME EntriesAssumption ==
  /\ KindOf \in [Objects -> Kinds]
  /\ NamespaceOf \in [Objects -> STRING \ {AllNamespaces}]
  /\ NoRef \in Refs /\ NoRef \notin Malformed
  /\ Matched \in [Refs -> SUBSET Objects] /\ Matched[NoRef] = Objects
  /\ IsFiniteSet(Objects)

----------------------------------------------------------------------------
\* GetKind: the supported kinds of an apiVersion.
GetKind(apiVersion) ==
  CASE apiVersion = "apps/v1"  -> Apps
    [] apiVersion = "batch/v1" -> {"CronJob"}
    [] OTHER -> {}

\* validateIncludedObject
Valid(e) ==
  /\ e.apiVersion # Any => GetKind(e.apiVersion) # {}
  /\ e.kind # Any =>
       e.kind \in IF e.apiVersion = Any THEN Kinds ELSE GetKind(e.apiVersion)

\* A bug: an apiVersion with kind "*" leaves one kind out.
KindsFetched_NoReplicaSets(e) ==
  {k \in Kinds :
     \/ e.apiVersion = Any
     \/ /\ e.apiVersion = "apps/v1" /\ k \in Apps
        /\ e.kind \in IF k = "ReplicaSet" THEN {k} ELSE {Any, k}
     \/ e.apiVersion = "batch/v1" /\ k = "CronJob"}

\* FetchAndFilter: the kinds that are listed for an entry.  With apiVersion "*"
\* the entry's kind is not looked at.
KindsFetched(e) ==
  {k \in Kinds :
     \/ e.apiVersion = Any
     \/ e.apiVersion = "apps/v1" /\ k \in Apps /\ e.kind \in {Any, k}
     \/ e.apiVersion = "batch/v1" /\ k = "CronJob"}

\* A bug: an object is left out only if both patterns say so.
ByPattern_Either(e, S) ==
  {o \in S : o \in Matched[e.includeRef] \/ o \notin Matched[e.excludeRef]}

\* getDeploymentsByPattern and its likes.  An empty pattern is compiled when the
\* other is not empty, and then it matches every name.
ByPattern(e, S) ==
  IF e.includeRef = NoRef /\ e.excludeRef = NoRef
    THEN S
    ELSE {o \in S : o \in Matched[e.includeRef] /\ o \notin Matched[e.excludeRef]}

\* The filter returns nil for equal patterns, and the caller takes its length;
\* MustCompile panics on what does not compile.
Panics(e) ==
  /\ ~(e.includeRef = NoRef /\ e.excludeRef = NoRef)
  /\ \/ e.includeRef = e.excludeRef
     \/ e.includeRef \in Malformed
     \/ e.excludeRef \in Malformed
============================================================================
