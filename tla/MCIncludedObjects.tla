------------------------- MODULE MCIncludedObjects -------------------------
(***************************************************************************)
(* Instances of IncludedObjects for TLC: five objects of four kinds in two  *)
(* namespaces, and patterns named by the names that they match.            *)
(***************************************************************************)
EXTENDS IncludedObjects

\* Each object is a triple of kind, namespace and name.
AllObjects ==
  {<<"Deployment", "default", "web">>, <<"Deployment", "shop", "db">>,
   <<"StatefulSet", "default", "db">>, <<"ReplicaSet", "shop", "web">>,
   <<"CronJob", "default", "web">>}

Deployments == {o \in AllObjects : o[1] = "Deployment"}

KindByName      == [o \in Objects |-> o[1]]
NamespaceByName == [o \in Objects |-> o[2]]

Patterns == {NoRef, "web", "db"}
MatchedByName == [r \in Patterns |-> {o \in Objects : r \in {NoRef, o[3]}}]

Entry(apiVersion, kind, namespace, includeRef, excludeRef) ==
  [apiVersion |-> apiVersion, kind |-> kind, namespace |-> namespace,
   includeRef |-> includeRef, excludeRef |-> excludeRef]

\* One entry of any form, valid or not.
OneEntry ==
  {<<Entry(v, k, n, r[1], r[2])>> :
     v \in {Any, "apps/v1", "batch/v1", "v1"}, k \in Kinds \cup {Any, "Pod"},
     n \in {AllNamespaces, "shop"},
     r \in {<<NoRef, NoRef>>, <<NoRef, "web">>, <<"web", "db">>, <<"web", NoRef>>,
            <<"web", "web">>, <<"(", NoRef>>}}

\* Two entries, some of which fetch the same kind.
TwoEntries ==
  {<<d, e>> : d, e \in
     {Entry("apps/v1", "Deployment", "default", NoRef, NoRef),
      Entry("apps/v1", "Deployment", "shop", NoRef, "web"),
      Entry("apps/v1", "StatefulSet", AllNamespaces, "db", "web"),
      Entry("batch/v1", "CronJob", "default", NoRef, "db"),
      Entry("apps/v1", Any, "shop", NoRef, NoRef)}}

SomeLists == {<<>>} \cup OneEntry \cup TwoEntries

\* A Deployment in each of two namespaces.
TwoNamespaces ==
  {<<Entry("apps/v1", "Deployment", "default", NoRef, NoRef),
     Entry("apps/v1", "Deployment", "shop", NoRef, NoRef)>>}

KindAlone   == {<<Entry(Any, "Deployment", AllNamespaces, NoRef, NoRef)>>}
IncludeOnly == {<<Entry("apps/v1", "Deployment", AllNamespaces, "web", NoRef)>>}
SamePattern == {<<Entry("apps/v1", "Deployment", AllNamespaces, "web", "web")>>}
============================================================================
