---------------------------- MODULE MCKubeconfig ----------------------------
(* Instances of Kubeconfig for TLC. *)
EXTENDS Kubeconfig

(* Without a client there is one way the request can go. *)
Processes == {c \in AllConfigs : c.client}
               \cup {[client |-> FALSE, rest |-> "data", override |-> FALSE, operatorNs |-> FALSE]}
=============================================================================
