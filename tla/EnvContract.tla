----------------------------- MODULE EnvContract -----------------------------
(***************************************************************************)
(* What the operator promises of one environment, as its users see it:     *)
(* nothing of caches, runs, retries or time.  EnvRefinement shows that     *)
(* EnvLifecycle keeps it.                                                  *)
(***************************************************************************)
CONSTANT Isolated   \* the environment asks for the deny-all policy

VARIABLES
  asked,    \* the resource: "no", "yes", or "ending" once its deletion is asked
  held,     \* the operator holds the resource until it has cleaned up
  ns,       \* the namespace: "absent", "active", "terminating"
  policy,   \* the deny-all policy is in the namespace
  work      \* workload is, or may be, running in the namespace

vars == <<asked, held, ns, policy, work>>

Init == asked = "no" /\ held = FALSE /\ ns = "absent" /\ policy = FALSE /\ work = FALSE

Ask      == asked = "no" /\ asked' = "yes" /\ UNCHANGED <<held, ns, policy, work>>
Hold     == asked = "yes" /\ held' = TRUE /\ UNCHANGED <<asked, ns, policy, work>>
Withdraw == /\ asked = "yes"
            /\ asked' = IF held THEN "ending" ELSE "no"
            /\ UNCHANGED <<held, ns, policy, work>>

(* A namespace is made only for a resource that is held ... *)
Provide == ns = "absent" /\ held /\ ns' = "active" /\ UNCHANGED <<asked, held, policy, work>>

Protect == /\ ns = "active" /\ Isolated /\ policy' = TRUE
           /\ UNCHANGED <<asked, held, ns, work>>

(* ... workload comes after its policy ... *)
Deploy   == /\ ns = "active" /\ (Isolated => policy) /\ work' = TRUE
            /\ UNCHANGED <<asked, held, ns, policy>>
Undeploy == work' = FALSE /\ UNCHANGED <<asked, held, ns, policy>>

(* ... and the end of a namespace is the end of all that is in it. *)
End    == ns = "active" /\ ns' = "terminating" /\ UNCHANGED <<asked, held, policy, work>>
Vanish == /\ ns = "terminating" /\ ns' = "absent" /\ policy' = FALSE /\ work' = FALSE
          /\ UNCHANGED <<asked, held>>

(* A resource is let go only when its namespace is going or gone. *)
LetGo == /\ asked = "ending" /\ held /\ ns # "active"
         /\ asked' = "no" /\ held' = FALSE
         /\ UNCHANGED <<ns, policy, work>>

Next == Ask \/ Hold \/ Withdraw \/ Provide \/ Protect \/ Deploy \/ Undeploy
          \/ End \/ Vanish \/ LetGo

Spec == Init /\ [][Next]_vars

(* What is withdrawn is let go, and what is ending ends. *)
Prompt == /\ asked = "ending" ~> asked # "ending"
          /\ ns = "terminating" ~> ns # "terminating"
=============================================================================
