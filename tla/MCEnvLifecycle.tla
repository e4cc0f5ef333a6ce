--------------------------- MODULE MCEnvLifecycle ---------------------------
(* Instances of EnvLifecycle for TLC. *)
EXTENDS EnvRefinement

Budget(faults, crashes, creates, extensions) ==
  [faults |-> faults, crashes |-> crashes, creates |-> creates, extensions |-> extensions]

Shorten == {-1, 1}   \* extendTTL accepts negative durations
OneTick == {1}

Hostile    == {Budget(1, 1, 1, 1)}                       \* a fault and a restart
Reused     == {Budget(0, 1, 2, 1)}                       \* the name is used again
Recovering == {Budget(1, 1, 1, 0), Budget(0, 1, 1, 1)}   \* for liveness
Lagging    == {Budget(1, 0, 1, 0), Budget(0, 1, 1, 0)}
=============================================================================
