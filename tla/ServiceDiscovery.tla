-------------------------- MODULE ServiceDiscovery --------------------------
(***************************************************************************)
(* discoverService of the reconciler: which Service of an environment's    *)
(* namespace gets the traffic.  A service is described by what the code    *)
(* looks at.                                                               *)
(***************************************************************************)
EXTENDS Naturals, SequencesExt

CONSTANTS
  Services,    \* services there may be
  Names,       \* names of components
  NoName,      \* ... and that of none
  ServiceInfo, \* [ports, headless, external, metrics, length, has] of each,
               \* "has": the component names that occur in its name
  Port         \* Spec.ServicePort

ASSUME ServicesAssumption ==
  /\ NoName \notin Names
  /\ ServiceInfo \in [Services -> [ports: SUBSET Nat, headless: BOOLEAN, external: BOOLEAN,
                                   metrics: BOOLEAN, length: Nat, has: SUBSET Names]]

NoService == "none"
Length(s)    == ServiceInfo[s].length
Has(s, name) == name \in ServiceInfo[s].has

Eligible(s) ==
  /\ ~ServiceInfo[s].headless /\ ~ServiceInfo[s].external /\ ~ServiceInfo[s].metrics
  /\ Port \in ServiceInfo[s].ports

(* The orders in which the unstable sort by length may leave services that *)
(* come in no fixed order.                                                 *)
MutSorted(matching) == SetToSeqs(matching)
Sorted(matching) ==
  {q \in SetToSeqs(matching) :
     \A i, j \in DOMAIN q : i < j => Length(q[i]) <= Length(q[j])}

(* The first in order with the component in its name, or just the first.   *)
Preferred(q, name) ==
  LET named == SelectInSeq(q, LAMBDA s : Has(s, name))
  IN  IF name # NoName /\ named # 0 THEN q[named] ELSE q[1]

Discover(services, name) ==
  LET matching == {s \in services : Eligible(s)}
  IN  IF matching = {} THEN {NoService}
                       ELSE {Preferred(q, name) : q \in Sorted(matching)}

-----------------------------------------------------------------------------
(* What is wanted, without any order: the shortest of those that have the  *)
(* component in their names, or of all if none has.                        *)
Shortest(set) == {s \in set : \A t \in set : Length(s) <= Length(t)}

Best(services, name) ==
  LET matching == {s \in services : Eligible(s)}
      named    == {s \in matching : Has(s, name)}
  IN  IF matching = {} THEN {NoService}
      ELSE IF named # {} THEN Shortest(named) ELSE Shortest(matching)
=============================================================================
