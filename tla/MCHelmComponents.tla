-------------------------- MODULE MCHelmComponents --------------------------
(* Instances of HelmComponents for TLC. *)
EXTENDS HelmComponents

CONSTANTS Api, Web, Db   \* charts

Charts == {Api, Web, Db}
Names  == [c \in Charts |-> IF c = Api THEN "api" ELSE IF c = Web THEN "web" ELSE "db"]

Asked(list)  == [components |-> list, templateRef |-> FALSE, helm |-> <<>>]
FromTemplate == [components |-> <<>>, templateRef |-> TRUE, helm |-> <<Db>>]

(* Two charts, also in the other order, or a template with a legacy chart. *)
AnyOrder    == {Asked(<<Api, Web>>), Asked(<<Web, Api>>), FromTemplate}
OneTemplate == {<<Web, Db>>}
=============================================================================
