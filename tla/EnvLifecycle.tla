---------------------------- MODULE EnvLifecycle ----------------------------
(***************************************************************************)
(* The life of one EphemeralEnv: the custom resource at the API server,    *)
(* the controller-runtime cache it is read from, the reconciler of         *)
(* internal/controller/ephemeralenv_controller.go with one action per API  *)
(* call, the objects it creates in the cluster, the work queue that        *)
(* triggers it, the dashboard's "extend TTL" handler, users who create and *)
(* delete the resource, and restarts of the operator.                      *)
(*                                                                         *)
(* A resource version is abstracted to what it is compared for: "fresh"    *)
(* says of each copy of the resource whether it still carries the version  *)
(* the API server holds.  A write through a stale copy is a conflict.      *)
(***************************************************************************)
EXTENDS Integers

CONSTANTS
  TTL,            \* Spec.TTL, in ticks of the clock
  Durations,      \* the durations a user may ask extendTTL for
  MaxTime,        \* bound: the last value of the clock
  Limits,         \* bounds: how often calls may fail, the operator restart and
                  \* users act, in each of the behaviours to look at
  Isolated,       \* Spec.IsIsolationEnabled()
  ByPort,         \* Spec.ServicePort # nil: deploy and discover before routing
  Charts,         \* resolveComponents returns something to deploy
  AdminUI,        \* OperatorService and OperatorNamespace are configured
  LaggingViews    \* the caches of namespaces, policies and routes may lag

LimitKinds == {"faults", "crashes", "creates", "extensions"}

ASSUME TimeAssumption == TTL \in Nat /\ MaxTime \in Nat /\ Durations \subseteq Int
ASSUME LimitsAssumption == Limits \subseteq [LimitKinds -> Nat]
ASSUME FlagsAssumption == {Isolated, ByPort, Charts, AdminUI, LaggingViews} \subseteq BOOLEAN

VARIABLES
  cr,        \* the EphemeralEnv stored by the API server
  cache,     \* the informer's copy, which every Get returns
  env,       \* the reconciler's in-memory copy of the run in progress
  fresh,     \* which copies carry the stored resource version
  pc,        \* the next API call of the reconciler
  queued,    \* the key is in the work queue
  timer,     \* when the delaying queue re-adds the key, or Unset
  ui,        \* the extendTTL handler: "idle", or "read" after its Get
  ns,        \* the namespace env-<name>: "absent", "active", "terminating"
  objs,      \* the other objects that exist
  release,   \* the Helm release in the namespace
  nsSeen,    \* the cached view of ns
  objsSeen,  \* the cached view of objs
  clock,
  budget     \* what is left of the chosen limits

crVars      == <<cr, cache, fresh>>
runVars     == <<env, pc>>
queueVars   == <<queued, timer>>
clusterVars == <<ns, objs, release, nsSeen, objsSeen>>
vars == <<cr, cache, env, fresh, pc, queued, timer, ui, ns, objs, release,
          nsSeen, objsSeen, clock, budget>>

-----------------------------------------------------------------------------
(* Data *)

Unset  == -1                              \* a nil *metav1.Time
Phases == {"", "Pending", "Active", "Expired", "Failed"}

CRs == [there: BOOLEAN, deleting: BOOLEAN, finalizer: BOOLEAN, created: Nat,
        phase: Phases, exp: Int, tracked: BOOLEAN, expiredCond: BOOLEAN]

NoCR == [there |-> FALSE, deleting |-> FALSE, finalizer |-> FALSE, created |-> 0,
         phase |-> "", exp |-> Unset, tracked |-> FALSE, expiredCond |-> FALSE]

InNamespace == {"rbac", "policy", "grant"}   \* removed with the namespace
Routes      == {"app", "admin"}              \* in the gateway's namespace
Objects     == InNamespace \cup Routes

Releases == {"none", "pending", "failed", "deployed"}
NsStates == {"absent", "active", "terminating"}

Setup     == {"namespace", "rbac", "policy"}
Provision == {"grant", "deploy", "install", "installing", "discover", "route",
              "admin", "activate"}
Expiring  == {"exp-route", "exp-helm", "exp-namespace", "exp-save"}
Deleting  == {"del-admin", "del-route", "del-helm", "del-namespace", "drop"}
Steps     == {"idle", "add-finalizer", "re-get", "save-retry"}
               \cup Setup \cup Provision \cup Expiring \cup Deleting

AllStale == [cache |-> FALSE, env |-> FALSE, ui |-> FALSE]

(* An informer without lag reflects every change at once. *)
Views(n, o) == /\ nsSeen' = IF LaggingViews THEN nsSeen ELSE n
               /\ objsSeen' = IF LaggingViews THEN objsSeen ELSE o

Spend(k) == budget[k] > 0 /\ budget' = [budget EXCEPT ![k] = @ - 1]

-----------------------------------------------------------------------------
(* Expiration *)

ExpirationOf(e) == e.created + TTL

MutExpiredEarly(e) == e.exp # Unset /\ clock >= e.exp
IsExpired(e) == e.exp # Unset /\ clock > e.exp

(* Steps 4 and 5 of Reconcile: the defaults of a new status, in memory. *)
Initialised(e) ==
  [e EXCEPT !.phase = IF @ = "" THEN "Pending" ELSE @,
            !.exp   = IF @ = Unset THEN ExpirationOf(e) ELSE @]

MutMarkDeleted(e) == [e EXCEPT !.phase = "Deleted"]
MarkExpired(e) == [e EXCEPT !.phase = "Expired", !.expiredCond = TRUE]

-----------------------------------------------------------------------------
(* Calls to the API server *)

(* A successful write.  "moved": a message or LastReconcileTime changed as *)
(* well; a write that changes nothing keeps the stored version.            *)
Commit(e, moved) ==
  /\ cr' = e
  /\ fresh' = IF moved \/ e # cr THEN AllStale ELSE fresh
  /\ UNCHANGED cache

(* Update or Status().Update of the in-memory copy: a conflict when the    *)
(* copy is stale; a fault is an error with or without an effect.           *)
MutWriteUnchecked(e, moved, ok) ==
  ok /\ cr.there /\ Commit(e, moved) /\ UNCHANGED budget
Write(e, moved, ok) ==
  \/ ok /\ fresh.env /\ Commit(e, moved) /\ UNCHANGED budget
  \/ ~ok /\ ~fresh.env /\ UNCHANGED <<crVars, budget>>
  \/ ~ok /\ Spend("faults") /\ (UNCHANGED crVars \/ (fresh.env /\ Commit(e, moved)))

Creatable(o) == o \notin objs /\ (o \in InNamespace => ns = "active")

Put(o) == objs' = objs \cup {o} /\ Views(ns, objs') /\ UNCHANGED <<ns, release>>

(* controllerutil.CreateOrUpdate of an object whose desired content never  *)
(* changes: nothing to do when the cache shows it, else a Create.          *)
CreateOrUpdate(o, ok) ==
  \/ o \in objsSeen /\ ok /\ UNCHANGED <<clusterVars, budget>>
  \/ o \notin objsSeen /\ Creatable(o) /\ ok /\ Put(o) /\ UNCHANGED budget
  \/ o \notin objsSeen /\ ~Creatable(o) /\ ~ok /\ UNCHANGED <<clusterVars, budget>>
  \/ ~ok /\ Spend("faults") /\ (UNCHANGED clusterVars \/ (o \notin objsSeen /\ Creatable(o) /\ Put(o)))

Remove(o) == objs' = objs \ {o} /\ Views(ns, objs') /\ UNCHANGED <<ns, release>>

(* Get from the cache, then Delete; NotFound is success for both. *)
DeleteObject(o) ==
  \/ o \notin objsSeen /\ UNCHANGED <<clusterVars, budget>>
  \/ o \in objsSeen /\ Remove(o) /\ UNCHANGED budget
  \/ Spend("faults") /\ (UNCHANGED clusterVars \/ (o \in objsSeen /\ Remove(o)))

-----------------------------------------------------------------------------
(* How a run of Reconcile goes on and ends *)

Goto(step) == pc' = step

(* The end of a run.  "again": the key is re-added at once, by the rate    *)
(* limiter after an error or by a RequeueAfter of seconds.                 *)
MutForgetError(again) == pc' = "idle" /\ env' = NoCR /\ UNCHANGED queued
Return(again) ==
  /\ pc' = "idle"
  /\ env' = NoCR
  /\ queued' = (queued \/ again)

(* reconcileStepOnError and reconcileHelmFailed: Failed, then a status     *)
(* write whose own error is only logged.                                   *)
Fail == env' = [env EXCEPT !.phase = "Failed"] /\ pc' = "save-retry"

MutIgnoreError(ok, step) == Goto(step) /\ UNCHANGED env
OkOrFail(ok, step) == IF ok THEN Goto(step) /\ UNCHANGED env ELSE Fail

(* Step 6 of Reconcile: expired environments are torn down. *)
Dispatch(e) ==
  LET i == Initialised(e)
  IN  IF IsExpired(i)
        THEN env' = MarkExpired(i) /\ pc' = "exp-route"
        ELSE env' = i /\ pc' = "namespace"

Idle(vs) == UNCHANGED <<timer, ui, clock, vs>>

-----------------------------------------------------------------------------
(* Reconcile: entry *)

(* Steps 1 to 3: Get, then deletion, the missing finalizer, or the rest. *)
Begin ==
  /\ pc = "idle" /\ queued
  /\ fresh' = [fresh EXCEPT !.env = fresh.cache /\ cache.there]
  /\ IF ~cache.there
       THEN Return(FALSE)
       ELSE /\ queued' = FALSE
            /\ CASE cache.deleting /\ cache.finalizer -> env' = cache /\ Goto("del-admin")
                 [] cache.deleting /\ ~cache.finalizer -> env' = NoCR /\ Goto("idle")
                 [] ~cache.deleting /\ ~cache.finalizer -> env' = cache /\ Goto("add-finalizer")
                 [] OTHER -> Dispatch(cache)
  /\ Idle(<<cr, cache, clusterVars, budget>>)

AddFinalizer ==
  /\ pc = "add-finalizer"
  /\ \E ok \in BOOLEAN :
       /\ Write([env EXCEPT !.finalizer = TRUE], TRUE, ok)
       /\ IF ok THEN Goto("re-get") /\ UNCHANGED <<env, queued>> ELSE Return(TRUE)
  /\ Idle(<<clusterVars>>)

(* The second Get is served by the same cache, which may not show the      *)
(* Update yet; deletion is not looked at again.                            *)
ReGet ==
  /\ pc = "re-get"
  /\ fresh' = [fresh EXCEPT !.env = fresh.cache /\ cache.there]
  /\ IF cache.there THEN Dispatch(cache) /\ UNCHANGED queued ELSE Return(TRUE)
  /\ Idle(<<cr, cache, clusterVars, budget>>)

-----------------------------------------------------------------------------
(* Reconcile: provisioning *)

(* CreateOrUpdate of the namespace: one that is terminating exists. *)
EnsureNamespace ==
  /\ pc = "namespace"
  /\ LET Make == /\ nsSeen = "absent" /\ ns = "absent" /\ ns' = "active"
                 /\ Views(ns', objs) /\ UNCHANGED <<objs, release>>
     IN  \E ok \in BOOLEAN :
           /\ \/ nsSeen # "absent" /\ ok /\ UNCHANGED <<clusterVars, budget>>
              \/ Make /\ ok /\ UNCHANGED budget
              \/ nsSeen = "absent" /\ ns # "absent" /\ ~ok /\ UNCHANGED <<clusterVars, budget>>
              \/ ~ok /\ Spend("faults") /\ (UNCHANGED clusterVars \/ Make)
           /\ OkOrFail(ok, "rbac")
  /\ Idle(<<crVars, queued>>)

(* ServiceAccount, Role and RoleBinding, taken as one object. *)
EnsureDeveloperAccessRBAC ==
  /\ pc = "rbac"
  /\ \E ok \in BOOLEAN : CreateOrUpdate("rbac", ok) /\ OkOrFail(ok, "policy")
  /\ Idle(<<crVars, queued>>)

MutSkipPolicy == pc = "policy" /\ Goto("grant")
                   /\ Idle(<<crVars, env, queued, clusterVars, budget>>)
EnsureNetworkPolicy ==
  /\ pc = "policy"
  /\ IF Isolated
       THEN \E ok \in BOOLEAN : CreateOrUpdate("policy", ok) /\ OkOrFail(ok, "grant")
       ELSE Goto("grant") /\ UNCHANGED <<env, clusterVars, budget>>
  /\ Idle(<<crVars, queued>>)

AfterGrant  == IF ByPort THEN "deploy" ELSE "route"
AfterDeploy == IF ByPort THEN "discover" ELSE "activate"
AfterAdmin  == IF ByPort THEN "activate" ELSE "deploy"

EnsureReferenceGrant ==
  /\ pc = "grant"
  /\ \E ok \in BOOLEAN : CreateOrUpdate("grant", ok) /\ OkOrFail(ok, AfterGrant)
  /\ Idle(<<crVars, queued>>)

(* deployComponent up to IsInstalled, which asks the cluster and takes any *)
(* record for an installed release and any error for none.                 *)
CheckInstalled ==
  /\ pc = "deploy"
  /\ \/ ~Charts /\ Goto(AfterDeploy) /\ UNCHANGED <<env, budget>>
     \/ /\ Charts /\ release # "none"
        /\ env' = [env EXCEPT !.tracked = TRUE] /\ Goto(AfterDeploy) /\ UNCHANGED budget
     \/ /\ Charts /\ release = "none"
        /\ Goto("install") /\ UNCHANGED <<env, budget>>
     \/ Charts /\ Spend("faults") /\ Goto("install") /\ UNCHANGED env
  /\ Idle(<<crVars, queued, clusterVars>>)

(* Install up to the first write to the cluster: the chart is downloaded,  *)
(* then the pending record is stored; with a record there already it is an *)
(* upgrade, refused while that record is pending.                          *)
StartInstall ==
  /\ pc = "install"
  /\ \/ Fail /\ UNCHANGED release
     \/ /\ ns = "active" /\ release # "pending"
        /\ release' = "pending" /\ Goto("installing") /\ UNCHANGED env
  /\ Idle(<<crVars, queued, ns, objs, nsSeen, objsSeen, budget>>)

(* ComponentStatuses is set only when the deployment succeeded. *)
FinishInstall ==
  /\ pc = "installing"
  /\ \/ /\ release' = "deployed"
        /\ env' = [env EXCEPT !.tracked = TRUE] /\ Goto(AfterDeploy)
     \/ release' = "failed" /\ Fail
  /\ Idle(<<crVars, queued, ns, objs, nsSeen, objsSeen, budget>>)

(* discoverService finds a service of the chart or of the developer, or    *)
(* the run ends with the phase as it is and is repeated after 5s.          *)
DiscoverService ==
  /\ pc = "discover"
  /\ Goto("route") \/ Goto("save-retry")
  /\ Idle(<<crVars, env, queued, clusterVars, budget>>)

EnsureHTTPRoute ==
  /\ pc = "route"
  /\ \E ok \in BOOLEAN : CreateOrUpdate("app", ok) /\ OkOrFail(ok, "admin")
  /\ Idle(<<crVars, queued>>)

(* The dashboard's route is optional: its error is only logged. *)
EnsureAdminHTTPRoute ==
  /\ pc = "admin"
  /\ IF AdminUI
       THEN \E ok \in BOOLEAN : CreateOrUpdate("admin", ok)
       ELSE UNCHANGED <<clusterVars, budget>>
  /\ Goto(AfterAdmin)
  /\ Idle(<<crVars, env, queued>>)

(* AddAfter keeps the earlier of two deadlines for the same key. *)
MutNoRequeue(exp) == UNCHANGED timer
RequeueAt(exp) == timer' = IF timer # Unset /\ timer < exp THEN timer ELSE exp

(* The final status write and the requeue before expiration: RequeueAfter  *)
(* is time.Until(expiration), or 1s when that is negative; a RequeueAfter  *)
(* of zero asks for nothing.  At the very instant of expiration the stamp  *)
(* differs from every earlier one.                                         *)
Activate ==
  /\ pc = "activate"
  /\ \E ok, moved \in BOOLEAN :
       /\ clock = env.exp => moved
       /\ Write([env EXCEPT !.phase = "Active"], moved, ok)
       /\ Return(~ok \/ clock > env.exp)
       /\ IF ok /\ clock < env.exp THEN RequeueAt(env.exp) ELSE UNCHANGED timer
  /\ UNCHANGED <<ui, clock, clusterVars>>

SaveAndRetry ==
  /\ pc = "save-retry"
  /\ \E ok, moved \in BOOLEAN : Write(env, moved, ok)
  /\ Return(TRUE)
  /\ Idle(clusterVars)

-----------------------------------------------------------------------------
(* Teardown, shared by handleExpiration and handleDeletion *)

CleanupHTTPRoute(at, then) ==
  /\ pc = at
  /\ DeleteObject("app") /\ Goto(then)
  /\ Idle(<<crVars, env, queued>>)

MutKeepAdminRoute == pc = "del-admin" /\ Goto("del-route")
                       /\ Idle(<<crVars, env, queued, clusterVars, budget>>)
CleanupAdminHTTPRoute ==
  /\ pc = "del-admin"
  /\ DeleteObject("admin") /\ Goto("del-route")
  /\ Idle(<<crVars, env, queued>>)

(* Only releases recorded in ComponentStatuses are found; errors are       *)
(* swallowed.                                                              *)
UninstallHelmRelease(at, then) ==
  /\ pc = at
  /\ \/ env.tracked /\ release' = "none" /\ UNCHANGED budget
     \/ ~env.tracked /\ UNCHANGED <<release, budget>>
     \/ env.tracked /\ Spend("faults") /\ UNCHANGED release
  /\ Goto(then)
  /\ Idle(<<crVars, env, queued, ns, objs, nsSeen, objsSeen>>)

(* cleanupNamespace asks the cache and starts the deletion; it does not    *)
(* wait for the namespace to go.                                           *)
Terminate == /\ nsSeen = "active"
             /\ ns' = IF ns = "active" THEN "terminating" ELSE ns
             /\ Views(ns', objs) /\ UNCHANGED <<objs, release>>

MutCleanupSkipped(ok) == ok /\ UNCHANGED <<clusterVars, budget>>
DeleteNamespace(ok) ==
  \/ nsSeen # "active" /\ ok /\ UNCHANGED <<clusterVars, budget>>
  \/ Terminate /\ ok /\ UNCHANGED budget
  \/ ~ok /\ Spend("faults") /\ (UNCHANGED clusterVars \/ Terminate)

ExpireNamespace ==
  /\ pc = "exp-namespace"
  /\ \E ok \in BOOLEAN :
       DeleteNamespace(ok) /\ Goto(IF ok THEN "exp-save" ELSE "save-retry")
  /\ Idle(<<crVars, env, queued>>)

SaveExpired ==
  /\ pc = "exp-save"
  /\ \E ok, moved \in BOOLEAN : Write(env, moved, ok) /\ Return(~ok)
  /\ Idle(clusterVars)

MutDropAnyway == /\ pc = "del-namespace"
                 /\ \E ok \in BOOLEAN : DeleteNamespace(ok) /\ Goto("drop")
                 /\ Idle(<<crVars, env, queued>>)
DropNamespace ==
  /\ pc = "del-namespace"
  /\ \E ok \in BOOLEAN :
       /\ DeleteNamespace(ok)
       /\ IF ok THEN Goto("drop") /\ UNCHANGED <<env, queued>> ELSE Return(TRUE)
  /\ Idle(crVars)

(* Removing the last finalizer lets the API server remove the resource. *)
RemoveFinalizer ==
  /\ pc = "drop"
  /\ \E ok \in BOOLEAN : Write(NoCR, TRUE, ok) /\ Return(~ok)
  /\ Idle(clusterVars)

-----------------------------------------------------------------------------
(* The dashboard, users, informers, the work queue, Kubernetes, time *)

(* handleCreateEnv, or kubectl create. *)
CreateEnv ==
  /\ ~cr.there /\ clock + TTL < MaxTime /\ Spend("creates")
  /\ cr' = [NoCR EXCEPT !.there = TRUE, !.created = clock]
  /\ fresh' = AllStale
  /\ Idle(<<cache, runVars, queued, clusterVars>>)

(* handleDeleteEnv, or kubectl delete. *)
DeleteEnv ==
  /\ cr.there /\ ~cr.deleting
  /\ cr' = IF cr.finalizer THEN [cr EXCEPT !.deleting = TRUE] ELSE NoCR
  /\ fresh' = AllStale
  /\ Idle(<<cache, runVars, queued, clusterVars, budget>>)

(* extendTTL: the Get, from the same cache ... *)
ExtendRead ==
  /\ ui = "idle" /\ cache.there /\ Spend("extensions")
  /\ ui' = "read"
  /\ fresh' = [fresh EXCEPT !.ui = fresh.cache]
  /\ UNCHANGED <<cr, cache, runVars, queueVars, clusterVars, clock>>

(* ... and the Status().Update, or the answer 500 on an error, always when *)
(* the copy is stale.  While it is fresh, what was read is what is stored. *)
Extended(d) == (IF cr.exp # Unset THEN cr.exp ELSE clock) + d

ExtendSave ==
  /\ ui = "read"
  /\ ui' = "idle"
  /\ \/ UNCHANGED crVars
     \/ \E d \in Durations :
          /\ fresh.ui /\ Extended(d) \in 0 .. (MaxTime - 1)
          /\ cr' = [cr EXCEPT !.exp = Extended(d)]
          /\ fresh' = AllStale
          /\ UNCHANGED cache
  /\ UNCHANGED <<runVars, queueVars, clusterVars, clock, budget>>

(* A watch event updates the cache and enqueues the key. *)
SyncCache ==
  /\ ~fresh.cache
  /\ cache' = cr
  /\ fresh' = [fresh EXCEPT !.cache = TRUE]
  /\ queued' = TRUE
  /\ Idle(<<cr, runVars, clusterVars, budget>>)

(* Nothing the controller creates has an owner reference, so these events  *)
(* enqueue no key.                                                         *)
SyncNamespace ==
  /\ nsSeen # ns
  /\ nsSeen' = ns
  /\ Idle(<<crVars, runVars, queued, ns, objs, release, objsSeen, budget>>)

SyncObject(o) ==
  /\ (o \in objs) # (o \in objsSeen)
  /\ objsSeen' = IF o \in objs THEN objsSeen \cup {o} ELSE objsSeen \ {o}
  /\ Idle(<<crVars, runVars, queued, ns, objs, release, nsSeen, budget>>)

FireTimer ==
  /\ timer # Unset /\ clock >= timer
  /\ timer' = Unset
  /\ queued' = TRUE
  /\ UNCHANGED <<crVars, runVars, ui, clusterVars, clock, budget>>

(* The namespace controller of Kubernetes ends the termination. *)
NamespaceGone ==
  /\ ns = "terminating"
  /\ ns' = "absent"
  /\ objs' = objs \ InNamespace
  /\ release' = "none"
  /\ Views(ns', objs')
  /\ Idle(<<crVars, runVars, queued, budget>>)

(* A restart loses the run, the queue and its timer, the handler and the   *)
(* caches; the new informers list everything and enqueue every resource.   *)
Restart ==
  /\ Spend("crashes")
  /\ pc' = "idle" /\ env' = NoCR /\ ui' = "idle"
  /\ cache' = cr
  /\ fresh' = [cache |-> TRUE, env |-> FALSE, ui |-> FALSE]
  /\ queued' = cr.there /\ timer' = Unset
  /\ nsSeen' = ns /\ objsSeen' = objs
  /\ UNCHANGED <<cr, ns, objs, release, clock>>

Tick ==
  /\ clock < MaxTime
  /\ clock' = clock + 1
  /\ UNCHANGED <<crVars, runVars, queueVars, ui, clusterVars, budget>>

-----------------------------------------------------------------------------
Init ==
  /\ cr = NoCR /\ cache = NoCR /\ env = NoCR
  /\ fresh = [cache |-> TRUE, env |-> FALSE, ui |-> FALSE]
  /\ pc = "idle" /\ ui = "idle"
  /\ queued = FALSE /\ timer = Unset
  /\ ns = "absent" /\ objs = {} /\ release = "none"
  /\ nsSeen = "absent" /\ objsSeen = {}
  /\ clock = 0
  /\ budget \in Limits

ProvisionStep == \/ Begin \/ AddFinalizer \/ ReGet \/ EnsureNamespace
                 \/ EnsureDeveloperAccessRBAC \/ EnsureNetworkPolicy
                 \/ EnsureReferenceGrant \/ CheckInstalled \/ StartInstall
                 \/ FinishInstall \/ DiscoverService \/ EnsureHTTPRoute
                 \/ EnsureAdminHTTPRoute \/ Activate \/ SaveAndRetry

TeardownStep == \/ CleanupHTTPRoute("exp-route", "exp-helm")
                \/ UninstallHelmRelease("exp-helm", "exp-namespace")
                \/ ExpireNamespace \/ SaveExpired
                \/ CleanupAdminHTTPRoute
                \/ CleanupHTTPRoute("del-route", "del-helm")
                \/ UninstallHelmRelease("del-helm", "del-namespace")
                \/ DropNamespace \/ RemoveFinalizer

Reconcile == ProvisionStep \/ TeardownStep

Informers == SyncNamespace \/ \E o \in Objects : SyncObject(o)

Users == CreateEnv \/ DeleteEnv \/ ExtendRead \/ ExtendSave

Next == \/ Reconcile \/ Users \/ SyncCache \/ Informers \/ FireTimer
        \/ NamespaceGone \/ Restart \/ Tick

Spec == Init /\ [][Next]_vars

(* What runs by itself: the worker, the informers and the timer of         *)
(* controller-runtime, the namespace controller, and time.                 *)
FairSpec == /\ Spec
            /\ WF_vars(Reconcile) /\ WF_vars(SyncCache) /\ WF_vars(SyncNamespace)
            /\ \A o \in Objects : WF_vars(SyncObject(o))
            /\ WF_vars(FireTimer) /\ WF_vars(NamespaceGone) /\ WF_vars(Tick)

-----------------------------------------------------------------------------
(* Properties *)

(* Every variable has its type. *)
TypeOK ==
  /\ cr \in CRs /\ cache \in CRs /\ env \in CRs
  /\ fresh \in [cache: BOOLEAN, env: BOOLEAN, ui: BOOLEAN]
  /\ pc \in Steps /\ ui \in {"idle", "read"}
  /\ queued \in BOOLEAN /\ timer \in Int
  /\ ns \in NsStates /\ objs \in SUBSET Objects /\ release \in Releases
  /\ nsSeen \in NsStates /\ objsSeen \in SUBSET Objects
  /\ clock \in Nat
  /\ budget \in [LimitKinds -> Nat]

(* While the caches of namespaces do not lag, a live namespace always has  *)
(* a resource whose finalizer will make the operator clean it up: whatever *)
(* the interleaving of deletions, re-creations, restarts and stale reads   *)
(* of the resource, nothing is provisioned for a resource that is gone.    *)
OwnedNamespace == ns = "active" => cr.there /\ cr.finalizer

(* Workload of an isolated environment never exists in a live namespace    *)
(* without the deny-all NetworkPolicy, also across expiry and re-creation. *)
IsolatedWorkload ==
  Isolated /\ ns = "active" /\ release # "none" => "policy" \in objs

(* Unless a call failed, no route outlives its resource. *)
OwnedRoutes == objs \cap Routes # {} => cr.there /\ cr.finalizer

(* Once stored, the expiration time is moved by extendTTL only: no status  *)
(* write of the reconciler, which sends its whole copy, takes back an      *)
(* extension that was acknowledged.                                        *)
ExpirationMovedByUserOnly ==
  [][cr.there /\ cr'.there /\ cr.exp # Unset /\ cr'.exp # cr.exp
       => ui = "read" /\ ui' = "idle"]_vars

(* The expiration that counts: the stored one, or the default. *)
Deadline == IF cr.exp = Unset THEN ExpirationOf(cr) ELSE cr.exp

TearsDown == ns = "active" /\ ns' = "terminating"

(* A namespace is torn down only when its resource is being deleted, or    *)
(* its deadline has passed, or the resource was written since the run that *)
(* tears it down has read it.                                              *)
TeardownJustified ==
  [][TearsDown => cr.deleting \/ clock > Deadline \/ ~fresh.env]_vars

(* When the phase becomes Active the application is routed and, unless the *)
(* namespace has meanwhile been terminating, everything else is there.     *)
BecomesActive == cr'.phase = "Active" /\ cr.phase # "Active"
ActiveIsProvisioned ==
  [][BecomesActive => /\ "app" \in objs
                      /\ ns = "active" => /\ {"rbac", "grant"} \subseteq objs
                                          /\ Isolated => "policy" \in objs
                                          /\ Charts => release # "none"]_vars

(* A resource that is being deleted does go away. *)
DeletionCompletes == cr.deleting ~> ~cr.deleting

(* Every environment is reclaimed in the end: its namespace and release go *)
(* and stay away, and a resource that remains says Expired.                *)
Reclaimed == <>[](/\ ns = "absent" /\ release = "none"
                  /\ cr.there => cr.phase = "Expired")

-----------------------------------------------------------------------------
(* Statements of the documentation that the code does not keep *)

(* The TTL expiring cleans up everything the environment had. *)
ExpiredLeavesNothing == cr.phase = "Expired" /\ ns = "absent" => objs = {}

(* Active indicates that the environment is running: at the moment the     *)
(* phase becomes Active the release is deployed.                           *)
ActiveIsRunning == [][BecomesActive /\ Charts => release = "deployed"]_vars

=============================================================================
