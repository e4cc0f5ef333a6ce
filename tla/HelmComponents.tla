--------------------------- MODULE HelmComponents ---------------------------
(***************************************************************************)
(* The charts of one environment: how the reconciler resolves the list of  *)
(* components, deploys one Helm release for each, resumes after a failed   *)
(* or interrupted installation, records ComponentStatuses, and uninstalls  *)
(* what it recorded when the environment expires or is deleted.            *)
(*                                                                         *)
(* A component is a chart in one version with its values; ReleaseOf gives  *)
(* the name of its release, env-<name>-<sanitized component name>, which   *)
(* two versions of a component share and two components may share.         *)
(***************************************************************************)
EXTENDS Naturals, Sequences

CONSTANTS
  Components,     \* charts that may be asked for
  ReleaseOf,      \* the release name of each
  Specs,          \* what users may ask for: [components, templateRef, helm]
  Templates,      \* contents the referenced EnvironmentTemplate may have
  NoTemplate,     \* ... and its absence
  MaxFaults,      \* bound: failed calls to the API server or to Helm's store
  MaxFailures,    \* bound: failed installations
  MaxCrashes, MaxEdits   \* bounds: restarts of the operator, acts of users

Releases == {ReleaseOf[c] : c \in Components}
Lists    == Seq(Components)

ASSUME NamesAssumption == ReleaseOf \in [Components -> Releases]
ASSUME SpecsAssumption ==
  Specs \subseteq [components: Lists, templateRef: BOOLEAN, helm: Lists]
ASSUME TemplatesAssumption == Templates \subseteq Lists /\ NoTemplate \notin Lists
ASSUME BoundsAssumption == {MaxFaults, MaxFailures, MaxCrashes, MaxEdits} \subseteq Nat

VARIABLES
  spec,       \* the resource's spec, as stored
  statuses,   \* the resource's Status.ComponentStatuses, as stored
  phase,      \* the resource's phase, as stored
  life,       \* "live", "expired" (its TTL), "deleting", "gone"
  template,   \* the EnvironmentTemplate, or NoTemplate
  ns,         \* the namespace: "absent", "active", "terminating"
  record,     \* for each release, the last revision Helm has stored
  queued,     \* the resource's key is in the work queue
  fresh,      \* the run's copy carries the stored resource version
  pc,         \* the next call of the run
  run,        \* the run's copies: [spec, statuses, todo, done]
  used,       \* how much of each bound is used up
  failures    \* ... and failed installations

resource == <<spec, statuses, phase, life>>
cluster  == <<ns, record>>
vars == <<spec, statuses, phase, life, template, ns, record, queued, fresh, pc, run, used,
          failures>>

-----------------------------------------------------------------------------
(* Data *)

States   == {"none", "pending", "failed", "deployed"}
None     == [state |-> "none", of |-> NoTemplate]
Records  == [state: States, of: Components \cup {NoTemplate}]
Installed(r) == record[r].state # "none"

NoSpec == [components |-> <<>>, templateRef |-> FALSE, helm |-> <<>>]
NoRun  == [spec |-> NoSpec, statuses |-> <<>>, todo |-> <<>>, done |-> <<>>]

Kinds    == {"faults", "crashes", "edits"}
Bounds   == [faults |-> MaxFaults, crashes |-> MaxCrashes, edits |-> MaxEdits]
Spend(k) == used[k] < Bounds[k] /\ used' = [used EXCEPT ![k] = @ + 1]

Listed(list) == {list[i] : i \in DOMAIN list}

(* resolveComponents: components before the template before the legacy     *)
(* chart; a template that cannot be read falls through to the latter.      *)
Resolve(s) ==
  IF s.components # <<>> THEN s.components
  ELSE IF s.templateRef /\ template # NoTemplate THEN template
  ELSE s.helm

-----------------------------------------------------------------------------
(* How a run starts, goes on and ends *)

Goto(step) == pc' = step
Stay(vs)   == UNCHANGED <<spec, life, template, failures, vs>>

End(again) == pc' = "idle" /\ run' = NoRun /\ queued' = (queued \/ again)

(* A status write: a conflict when the resource was written since the run  *)
(* read it; a fault is an error with or without an effect.                 *)
MutPutError(p, list) == fresh /\ phase' = "Error" /\ statuses' = list /\ fresh' = FALSE
Put(p, list) == fresh /\ phase' = p /\ statuses' = list /\ fresh' = FALSE

Store(p, list, ok) ==
  \/ ok /\ Put(p, list) /\ UNCHANGED used
  \/ ~ok /\ ~fresh /\ UNCHANGED <<phase, statuses, fresh, used>>
  \/ ~ok /\ Spend("faults") /\ (UNCHANGED <<phase, statuses, fresh>> \/ Put(p, list))

(* reconcileHelmFailed: the write of the phase may fail, the run is        *)
(* repeated in any case.  Statuses of this attempt are not kept.           *)
MutNoRetry == /\ \E ok \in BOOLEAN : Store("Failed", run.statuses, ok)
              /\ pc' = "idle" /\ run' = NoRun /\ UNCHANGED queued
HelmFailed ==
  /\ \E ok \in BOOLEAN : Store("Failed", run.statuses, ok)
  /\ End(TRUE)

Begin ==
  /\ pc = "idle" /\ queued
  /\ queued' = FALSE
  /\ fresh' = TRUE
  /\ IF life = "gone"
       THEN UNCHANGED <<pc, run, ns>>
       ELSE /\ run' = [NoRun EXCEPT !.spec = spec, !.statuses = statuses,
                                    !.todo = IF life = "live" THEN <<>> ELSE statuses]
            /\ IF life = "live"
                 THEN /\ Goto("resolve")
                      /\ ns' = IF ns = "absent" THEN "active" ELSE ns
                 ELSE Goto("uninstall") /\ UNCHANGED ns
  /\ Stay(<<statuses, phase, record, used>>)

-----------------------------------------------------------------------------
(* Deployment *)

(* Reconcile asks resolveComponents whether there is anything to deploy... *)
Decide ==
  /\ pc = "resolve"
  /\ Goto(IF Resolve(run.spec) = <<>> THEN "activate" ELSE "ensure")
  /\ Stay(<<statuses, phase, cluster, queued, fresh, run, used>>)

(* ... and ensureHelmRelease asks it again what that is. *)
EnsureHelmRelease ==
  /\ pc = "ensure"
  /\ LET list == Resolve(run.spec)
     IN  IF list = <<>>
           THEN HelmFailed
           ELSE /\ run' = [run EXCEPT !.todo = list]
                /\ Goto("check")
                /\ UNCHANGED <<statuses, phase, queued, fresh, used>>
  /\ Stay(cluster)

Component == Head(run.todo)
Release   == ReleaseOf[Component]

(* The component is in place: go on with the next, or complete. *)
Deployed ==
  LET rest == Tail(run.todo)
      done == Append(run.done, Component)
  IN  IF rest # <<>>
        THEN run' = [run EXCEPT !.todo = rest, !.done = done] /\ Goto("check")
        ELSE run' = [run EXCEPT !.todo = rest, !.done = <<>>, !.statuses = done]
               /\ Goto("activate")

(* deployComponent: any record counts as installed; an error of the read   *)
(* counts as no record.                                                    *)
MutAlwaysInstall == /\ pc = "check" /\ Goto("install")
                    /\ Stay(<<statuses, phase, cluster, queued, fresh, run, used>>)
CheckInstalled ==
  /\ pc = "check"
  /\ \/ Installed(Release) /\ Deployed /\ UNCHANGED used
     \/ ~Installed(Release) /\ Goto("install") /\ UNCHANGED <<run, used>>
     \/ Spend("faults") /\ Goto("install") /\ UNCHANGED run
  /\ Stay(<<statuses, phase, cluster, queued, fresh>>)

(* Install, which upgrades a release that exists.  It is refused while an  *)
(* operation on the release is pending or the namespace is going away, and *)
(* fails when the chart cannot be had; else the new revision is stored.    *)
CanStart == ns = "active" /\ record[Release].state # "pending"

FailOnce == failures < MaxFailures /\ failures' = failures + 1

InstallRefused ==
  /\ pc = "install"
  /\ IF CanStart THEN FailOnce ELSE UNCHANGED failures
  /\ HelmFailed
  /\ UNCHANGED <<spec, life, template, cluster>>

StartInstall ==
  /\ pc = "install" /\ CanStart
  /\ record' = [record EXCEPT ![Release] = [state |-> "pending", of |-> Component]]
  /\ Goto("installing")
  /\ Stay(<<statuses, phase, ns, queued, fresh, run, used>>)

InstallSucceeds ==
  /\ pc = "installing"
  /\ record' = [record EXCEPT ![Release].state = "deployed"]
  /\ Deployed
  /\ Stay(<<statuses, phase, ns, queued, fresh, used>>)

MutContinueOnError == /\ pc = "installing"
                      /\ record' = [record EXCEPT ![Release] = None]
                      /\ Deployed
                      /\ Stay(<<statuses, phase, ns, queued, fresh, used>>)
InstallFails ==
  /\ pc = "installing" /\ FailOnce
  /\ record' = [record EXCEPT ![Release].state = "failed"]
  /\ HelmFailed
  /\ UNCHANGED <<spec, life, template, ns>>

(* The final status write; when it moves a time stamp its own watch event  *)
(* enqueues the key again.                                                 *)
Activate ==
  /\ pc = "activate"
  /\ \E ok \in BOOLEAN :
       /\ Store("Active", run.statuses, ok)
       /\ \E moved \in BOOLEAN : End(moved \/ ~ok)
  /\ Stay(cluster)

-----------------------------------------------------------------------------
(* Teardown *)

(* uninstallHelmRelease: each recorded release in turn; what is missing,   *)
(* cannot be read or cannot be removed is skipped.  With nothing recorded  *)
(* it looks for a release env-<name>, which deployComponent never makes.   *)
MutStopAtMissing ==
  /\ pc = "uninstall" /\ run.todo # <<>>
  /\ LET r == ReleaseOf[Head(run.todo)]
     IN  IF Installed(r)
           THEN record' = [record EXCEPT ![r] = None] /\ run' = [run EXCEPT !.todo = Tail(@)]
           ELSE run' = [run EXCEPT !.todo = <<>>] /\ UNCHANGED record
  /\ Stay(<<statuses, phase, ns, queued, fresh, pc, used>>)
UninstallNext ==
  /\ pc = "uninstall" /\ run.todo # <<>>
  /\ LET r == ReleaseOf[Head(run.todo)]
     IN  \/ record' = [record EXCEPT ![r] = None] /\ UNCHANGED used
         \/ Installed(r) /\ Spend("faults") /\ UNCHANGED record
  /\ run' = [run EXCEPT !.todo = Tail(@)]
  /\ Stay(<<statuses, phase, ns, queued, fresh, pc>>)

(* cleanupNamespace; the namespace ends later and takes its records along. *)
CleanupNamespace ==
  /\ pc = "uninstall" /\ run.todo = <<>>
  /\ ns' = IF ns = "active" THEN "terminating" ELSE ns
  /\ Goto("save")
  /\ Stay(<<statuses, phase, record, queued, fresh, run, used>>)

(* handleExpiration keeps the statuses; handleDeletion drops the finalizer *)
(* and the resource goes.  A resource written since the run read it is a   *)
(* conflict for both.                                                      *)
SaveExpired ==
  /\ pc = "save" /\ life # "deleting"
  /\ \E ok \in BOOLEAN : Store("Expired", run.statuses, ok) /\ End(~ok)
  /\ Stay(cluster)

RemoveFinalizer ==
  /\ pc = "save" /\ life = "deleting"
  /\ \E ok \in BOOLEAN :
       /\ \/ ok /\ fresh /\ life' = "gone" /\ UNCHANGED used
          \/ ~ok /\ ~fresh /\ UNCHANGED <<life, used>>
          \/ ~ok /\ Spend("faults") /\ (UNCHANGED life \/ (fresh /\ life' = "gone"))
       /\ End(~ok)
  /\ UNCHANGED <<spec, statuses, phase, template, cluster, fresh, failures>>

-----------------------------------------------------------------------------
(* Users, time, Kubernetes, restarts *)

Idle(vs) == UNCHANGED <<pc, run, failures, vs>>

(* A change of the resource is watched, a change of the template is not. *)
EditSpec ==
  /\ life \in {"live", "expired"} /\ Spend("edits")
  /\ spec' \in Specs
  /\ queued' = TRUE /\ fresh' = FALSE
  /\ Idle(<<statuses, phase, life, template, cluster>>)

EditTemplate ==
  /\ life # "gone" /\ Spend("edits")
  /\ template' \in Templates \cup {NoTemplate}
  /\ Idle(<<resource, cluster, queued, fresh>>)

Expire ==
  /\ life = "live"
  /\ life' = "expired" /\ queued' = TRUE
  /\ Idle(<<spec, statuses, phase, template, cluster, fresh, used>>)

ExtendTTL ==
  /\ life = "expired" /\ Spend("edits")
  /\ life' = "live" /\ queued' = TRUE /\ fresh' = FALSE
  /\ Idle(<<spec, statuses, phase, template, cluster>>)

Delete ==
  /\ life \in {"live", "expired"}
  /\ life' = "deleting" /\ queued' = TRUE /\ fresh' = FALSE
  /\ Idle(<<spec, statuses, phase, template, cluster, used>>)

NamespaceGone ==
  /\ ns = "terminating"
  /\ ns' = "absent" /\ record' = [r \in Releases |-> None]
  /\ Idle(<<resource, template, queued, fresh, used>>)

Restart ==
  /\ Spend("crashes")
  /\ pc' = "idle" /\ run' = NoRun
  /\ queued' = (life # "gone") /\ fresh' = FALSE
  /\ UNCHANGED <<resource, template, cluster, failures>>

-----------------------------------------------------------------------------
Init ==
  /\ spec \in Specs /\ statuses = <<>> /\ phase = "" /\ life = "live"
  /\ template \in Templates \cup {NoTemplate}
  /\ ns = "absent" /\ record = [r \in Releases |-> None]
  /\ queued = TRUE /\ fresh = FALSE /\ pc = "idle" /\ run = NoRun
  /\ used = [k \in Kinds |-> 0] /\ failures = 0

Reconcile == \/ Begin \/ Decide \/ EnsureHelmRelease \/ CheckInstalled
             \/ InstallRefused \/ StartInstall \/ InstallSucceeds \/ InstallFails
             \/ Activate \/ UninstallNext \/ CleanupNamespace
             \/ SaveExpired \/ RemoveFinalizer

Next == \/ Reconcile \/ EditSpec \/ EditTemplate \/ Expire \/ ExtendTTL
        \/ Delete \/ NamespaceGone \/ Restart

Spec == Init /\ [][Next]_vars

(* The worker and the namespace controller run by themselves. *)
FairSpec == Spec /\ WF_vars(Reconcile) /\ WF_vars(NamespaceGone)

-----------------------------------------------------------------------------
(* Properties *)

Steps == {"idle", "resolve", "ensure", "check", "install", "installing", "activate",
          "uninstall", "save"}

(* Every variable has its type. *)
TypeOK ==
  /\ spec \in Specs /\ statuses \in Lists
  /\ phase \in {"", "Active", "Expired", "Failed"}
  /\ life \in {"live", "expired", "deleting", "gone"}
  /\ template \in Templates \cup {NoTemplate}
  /\ ns \in {"absent", "active", "terminating"}
  /\ record \in [Releases -> Records]
  /\ queued \in BOOLEAN /\ fresh \in BOOLEAN /\ pc \in Steps
  /\ run \in [spec: Specs \cup {NoSpec}, statuses: Lists, todo: Lists, done: Lists]
  /\ used \in [Kinds -> Nat] /\ failures \in Nat

(* Whatever the partial failures, restarts and edits on the way, the       *)
(* statuses a run records name only components Helm has a release for.     *)
RecordedIsInstalled ==
  [][statuses' # statuses /\ ns = "active"
       => \A c \in Listed(statuses') : Installed(ReleaseOf[c])]_vars

(* A retry resumes: a release that is deployed is not touched again, unless *)
(* asking Helm for it failed.                                               *)
DeployedIsLeftAlone ==
  [][\A r \in Releases :
       record[r].state = "deployed" /\ record'[r].state = "pending" => used.faults > 0]_vars

(* Unless a call failed, every recorded release is uninstalled before the  *)
(* namespace goes, also when a teardown is resumed after a restart.        *)
TearsDown == ns = "active" /\ ns' = "terminating"
RecordedIsUninstalled ==
  [][TearsDown /\ used.faults = 0
       => \A c \in Listed(statuses) : ~Installed(ReleaseOf[c])]_vars

(* A deployment that failed is retried until the environment is active. *)
FailureIsRetried ==
  life = "live" /\ phase = "Failed" ~> phase = "Active" \/ life # "live"
==============================================================================
