---------------------------- MODULE EnvRefinement ----------------------------
(***************************************************************************)
(* EnvLifecycle implements EnvContract: what users see of a resource is    *)
(* whether it is stored, being deleted, and carries the finalizer; any     *)
(* record of a release may be running workload.                            *)
(***************************************************************************)
EXTENDS EnvLifecycle

Asked == IF ~cr.there THEN "no" ELSE IF cr.deleting THEN "ending" ELSE "yes"

Contract == INSTANCE EnvContract WITH
              asked  <- Asked,
              held   <- cr.finalizer,
              policy <- "policy" \in objs,
              work   <- release # "none"

(* Every step of the reconciler, of the API server and of users, through   *)
(* stale caches, lost answers and restarts, is a step of the contract or   *)
(* invisible to it.                                                        *)
ImplementsContract == Contract!Spec

(* In the end the reconciler lets every deleted resource go, and every     *)
(* namespace it ends disappears.                                           *)
KeepsPrompt == Contract!Prompt
=============================================================================
