---------------------------- MODULE MCAdmission ----------------------------
(***************************************************************************)
(* Instances of Admission for TLC: two KronosApps, and specs that have one *)
(* flaw each.                                                              *)
(***************************************************************************)
EXTENDS Admission

NoKinds      == [o \in Objects |-> "Deployment"]
NoNamespaces == [o \in Objects |-> "default"]
NothingMatched == [r \in Refs |-> {}]

Entry(kind, namespace, includeRef, excludeRef) ==
  [apiVersion |-> "apps/v1", kind |-> kind, namespace |-> namespace,
   includeRef |-> includeRef, excludeRef |-> excludeRef]

Date(parts, digits, exists) == [parts |-> parts, digits |-> digits, exists |-> exists]

Sound ==
  [startSleep |-> "18:00", endSleep |-> "08:00", weekDays |-> <<<<1, 5>>, <<7>>>>,
   timeZone |-> "UTC", holidays |-> <<Date(3, TRUE, TRUE)>>,
   includedObjects |-> <<Entry("Deployment", "default", ".*", "^$")>>]

\* Each of these is admitted, one of them with a default.
Admissible ==
  {Sound,
   [Sound EXCEPT !.weekDays = <<<<5, 1>>>>],
   [Sound EXCEPT !.weekDays = <<<<1, 3, 5>>, <<2>>>>],
   [Sound EXCEPT !.holidays = <<Date(3, TRUE, TRUE), Date(3, TRUE, FALSE)>>],
   [Sound EXCEPT !.includedObjects = <<Entry("Pod", "default", ".*", "^$")>>],
   [Sound EXCEPT !.includedObjects = <<Entry("Deployment", "", "web", "web")>>]}

\* None of these is.
Inadmissible ==
  {[Sound EXCEPT !.startSleep = "6pm"],
   [Sound EXCEPT !.timeZone = "Mars"],
   [Sound EXCEPT !.weekDays = EmptyWeekdays],
   [Sound EXCEPT !.weekDays = EveryWeekday],
   [Sound EXCEPT !.weekDays = <<<<0, 9>>>>],
   [Sound EXCEPT !.holidays = <<Date(4, TRUE, TRUE)>>],
   [Sound EXCEPT !.holidays = <<Date(3, FALSE, TRUE)>>],
   [Sound EXCEPT !.holidays = <<Date(2, TRUE, FALSE)>>]}

AllSpecs == Admissible \cup Inadmissible

NoWeekdays  == {[Sound EXCEPT !.weekDays = EmptyWeekdays]}
NoNamespace == {[Sound EXCEPT !.includedObjects = <<Entry("Deployment", "", ".*", "^$")>>]}
EqualRefs   ==
  {Sound, [Sound EXCEPT !.includedObjects = <<Entry("Deployment", "default", "web", "web")>>]}
============================================================================
