------------------------------ MODULE Dashboard ------------------------------
(***************************************************************************)
(* Several environments in one cluster, and the dashboard that acts on     *)
(* them by name.  Everything the controller makes is called after the      *)
(* name of the resource alone (env-<name>, route-<name>), so resources of  *)
(* one name in two namespaces share it; the dashboard looks for names in   *)
(* the namespace "default" only.                                           *)
(*                                                                         *)
(* There is one worker: runs of Reconcile never overlap.  A run is one     *)
(* action here, with the call at which it may fail; EnvLifecycle takes it  *)
(* apart.  Deletions of routes do not fail here.                           *)
(***************************************************************************)
EXTENDS Integers

CONSTANTS
  Envs,         \* EphemeralEnv resources
  NameOf,       \* metadata.name
  HomeOf,       \* metadata.namespace
  GatewayOf,    \* Spec.Gateway.Namespace, where the routes are
  MaxFaults, MaxCreates, MaxExtensions   \* bounds

Names    == {NameOf[e] : e \in Envs}
Gateways == {GatewayOf[e] : e \in Envs}
Kinds    == {"app", "admin"}

ASSUME EnvsAssumption == DOMAIN NameOf = Envs /\ DOMAIN HomeOf = Envs
                           /\ DOMAIN GatewayOf = Envs
ASSUME BoundsAssumption == {MaxFaults, MaxCreates, MaxExtensions} \subseteq Nat

VARIABLES
  crs,      \* the stored resources
  space,    \* the namespaces env-<name>
  routes,   \* the routes: gateway's namespace, name and kind
  queued,   \* keys in the work queue
  budget

vars == <<crs, space, routes, queued, budget>>

-----------------------------------------------------------------------------
(* Data *)

NoCR == [state |-> "none", held |-> FALSE, located |-> FALSE, due |-> FALSE]

(* "located": Status.ActiveNamespace is set; "due": the expiration passed. *)
CRs == [state: {"none", "live", "ending"}, held: BOOLEAN, located: BOOLEAN, due: BOOLEAN]

Stored(e) == crs[e].state # "none"

(* The names the code derives from a resource. *)
MutRouteOf(e, kind) == <<HomeOf[e], NameOf[e], kind>>
RouteOf(e, kind) == <<GatewayOf[e], NameOf[e], kind>>

Spend(k) == budget[k] > 0 /\ budget' = [budget EXCEPT ![k] = @ - 1]

(* Every change of a resource is a watch event. *)
Save(e, cr) == crs' = [crs EXCEPT ![e] = cr]
Enqueue(e)  == queued' = queued \cup {e}

(* The end of a run: done, or again after an error.  A run's own write may *)
(* bring the key back, too.                                                *)
Done(e, ok) == queued' = queued \/ (ok /\ queued' = queued \ {e})

-----------------------------------------------------------------------------
(* The controller *)

(* Where a run of steps 7 to 12 ends: before the namespace is there; with  *)
(* it; with the routes as well, when the chart fails; or well.             *)
Reached == {"nothing", "namespace", "routes", "end"}

(* A run stops at the namespace by itself while it waits for the service   *)
(* to route to, or when a namespace that is terminating refuses what is to *)
(* be made in it.  The administration's route is optional.  The status is  *)
(* saved at the end of either outcome, or that write fails as well.        *)
Provision(e) ==
  /\ e \in queued /\ crs[e].state = "live" /\ ~crs[e].due
  /\ \E reached \in Reached, admin, saved \in BOOLEAN :
       LET housed == reached # "nothing"
           routed == reached \in {"routes", "end"}
           smooth == reached \in {"namespace", "end"} /\ saved /\ admin
       IN  /\ IF smooth THEN UNCHANGED budget ELSE Spend("faults")
           /\ space' = [space EXCEPT ![NameOf[e]] = IF @ = "absent" /\ housed THEN "active" ELSE @]
           /\ routes' = routes \cup {RouteOf(e, k) : k \in {k \in Kinds : routed /\ (k = "admin" => admin)}}
           /\ Save(e, [crs[e] EXCEPT !.held = TRUE, !.located = @ \/ (saved /\ housed)])
           /\ Done(e, reached = "end" /\ saved)

(* cleanupNamespace of env-<name>, whoever else lives there. *)
MutEndAnySpace(e) == space' = [n \in Names |-> IF space[n] = "active" THEN "terminating" ELSE space[n]]
EndSpace(e) ==
  space' = [space EXCEPT ![NameOf[e]] = IF @ = "active" THEN "terminating" ELSE @]

(* handleExpiration: the application's route, then the namespace. *)
TearDown(e) ==
  /\ e \in queued /\ crs[e].state = "live" /\ crs[e].due
  /\ routes' = routes \ {RouteOf(e, "app")}
  /\ Save(e, [crs[e] EXCEPT !.held = TRUE])
  /\ \/ EndSpace(e) /\ Done(e, TRUE) /\ UNCHANGED budget
     \/ UNCHANGED space /\ Done(e, FALSE) /\ Spend("faults")

(* handleDeletion: both routes, the namespace, then the finalizer. *)
MutCleanUpApp(e) ==
  /\ e \in queued /\ crs[e].state = "ending"
  /\ routes' = routes \ {RouteOf(e, "app")}
  /\ EndSpace(e) /\ Save(e, NoCR) /\ Done(e, TRUE) /\ UNCHANGED budget
MutCleanUpOnce(e) ==
  /\ e \in queued /\ crs[e].state = "ending"
  /\ routes' = routes \ {RouteOf(e, k) : k \in Kinds}
  /\ Save(e, NoCR) /\ Done(e, TRUE)
  /\ \/ EndSpace(e) /\ UNCHANGED budget
     \/ UNCHANGED space /\ Spend("faults")
CleanUp(e) ==
  /\ e \in queued /\ crs[e].state = "ending"
  /\ routes' = routes \ {RouteOf(e, k) : k \in Kinds}
  /\ \/ EndSpace(e) /\ Save(e, NoCR) /\ Done(e, TRUE) /\ UNCHANGED budget
     \/ UNCHANGED <<space, crs>> /\ Done(e, FALSE) /\ Spend("faults")

Forget(e) ==
  /\ e \in queued /\ ~Stored(e) /\ queued' = queued \ {e}
  /\ UNCHANGED <<crs, space, routes, budget>>

Reconcile(e) == Provision(e) \/ TearDown(e) \/ CleanUp(e) \/ Forget(e)

(* The requeue before expiration brings the key back when it is due. *)
Expire(e) ==
  /\ crs[e].state = "live" /\ ~crs[e].due
  /\ Save(e, [crs[e] EXCEPT !.due = TRUE]) /\ Enqueue(e)
  /\ UNCHANGED <<space, routes, budget>>

NamespaceGone(n) ==
  /\ space[n] = "terminating"
  /\ space' = [space EXCEPT ![n] = "absent"]
  /\ UNCHANGED <<crs, routes, queued, budget>>

-----------------------------------------------------------------------------
(* Users and the dashboard *)

(* handleCreateEnv takes a namespace, "default" when there is none. *)
Create(e) ==
  /\ ~Stored(e) /\ Spend("creates")
  /\ Save(e, [NoCR EXCEPT !.state = "live"]) /\ Enqueue(e)
  /\ UNCHANGED <<space, routes>>

Withdraw(e) ==
  /\ crs[e].state = "live"
  /\ Save(e, IF crs[e].held THEN [crs[e] EXCEPT !.state = "ending"] ELSE NoCR)
  /\ Enqueue(e)
  /\ UNCHANGED <<space, routes, budget>>

KubectlDelete(e) == HomeOf[e] # "default" /\ Withdraw(e)

(* The resource a request by name is about, if there is one. *)
Requested(e) == Stored(e) /\ HomeOf[e] = "default"

HandleDeleteEnv(e) == Requested(e) /\ Withdraw(e)

(* extendTTL with a duration that reaches into the future. *)
ExtendTTL(e) ==
  /\ Requested(e) /\ crs[e].due /\ Spend("extensions")
  /\ Save(e, [crs[e] EXCEPT !.due = FALSE]) /\ Enqueue(e)
  /\ UNCHANGED <<space, routes>>

(* The namespaces whose pods getEnvPods and renderEnvDashboard show: they  *)
(* list the pods in ActiveNamespace, and a List in "" is one in all of     *)
(* them.                                                                   *)
PodsListed(e) ==
  {n \in Names : space[n] # "absent" /\ (crs[e].located => n = NameOf[e])}

-----------------------------------------------------------------------------
Init ==
  /\ crs = [e \in Envs |-> NoCR]
  /\ space = [n \in Names |-> "absent"]
  /\ routes = {} /\ queued = {}
  /\ budget = [faults |-> MaxFaults, creates |-> MaxCreates, extensions |-> MaxExtensions]

Next ==
  \/ \E e \in Envs : \/ Reconcile(e) \/ Expire(e) \/ Create(e) \/ KubectlDelete(e)
                     \/ HandleDeleteEnv(e) \/ ExtendTTL(e)
  \/ \E n \in Names : NamespaceGone(n)

Spec == Init /\ [][Next]_vars

(* The work queue serves every key in turn; namespaces end and time passes *)
(* by themselves.                                                          *)
FairSpec == /\ Spec
            /\ \A e \in Envs : WF_vars(Reconcile(e)) /\ WF_vars(Expire(e))
            /\ \A n \in Names : WF_vars(NamespaceGone(n))

-----------------------------------------------------------------------------
(* Properties *)

(* Every variable has its type. *)
TypeOK ==
  /\ crs \in [Envs -> CRs]
  /\ space \in [Names -> {"absent", "active", "terminating"}]
  /\ routes \subseteq Gateways \X Names \X Kinds
  /\ queued \subseteq Envs
  /\ budget \in [{"faults", "creates", "extensions"} -> Nat]

(* Environments of different names do not interfere: a namespace is ended  *)
(* only when a resource of its name is being deleted or has expired.       *)
TeardownHasCause ==
  [][\A n \in Names : space[n] = "active" /\ space'[n] = "terminating"
       => \E e \in Envs : NameOf[e] = n /\ (crs[e].state = "ending" \/ crs[e].due)]_vars

(* Also when two resources share a route, or have routes of one name in    *)
(* two gateways' namespaces, none outlives the last resource it is for.    *)
RoutesOwned ==
  \A r \in routes : \E e \in Envs : r[1] = GatewayOf[e] /\ r[2] = NameOf[e]
                                      /\ Stored(e) /\ crs[e].held

(* When the last resource of a name is gone for good, so is all that was   *)
(* made for that name, whoever made it and however the teardown of one     *)
(* and the provisioning of the other followed each other.                  *)
LastOneCleans ==
  \A n \in Names :
    (<>[](\A e \in Envs : NameOf[e] = n => ~Stored(e)))
      => <>[](space[n] = "absent" /\ \A r \in routes : r[2] # n)

-----------------------------------------------------------------------------
(* A statement of the source that the code does not keep *)

(* The pods shown for an environment are those in its namespace. *)
PodsAreOwn == \A e \in Envs : Requested(e) => PodsListed(e) \subseteq {NameOf[e]}
=============================================================================
