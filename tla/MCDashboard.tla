----------------------------- MODULE MCDashboard -----------------------------
(* Instances of Dashboard for TLC. *)
EXTENDS Dashboard

(* Two resources of one name, in two namespaces, that share everything,    *)
(* and a third of another name and gateway. *)
Three == {"pr1", "team-pr1", "pr2"}
Named == [e \in Three |-> IF e = "pr2" THEN "two" ELSE "one"]
Homes == [e \in Three |-> IF e = "team-pr1" THEN "team" ELSE "default"]
Gates == [e \in Three |-> IF e = "pr2" THEN "edge" ELSE "main"]
=============================================================================
