------------------------- MODULE EnvRefinement_proofs -------------------------
(* EnvLifecycle implements EnvContract, step by step. *)
EXTENDS EnvRefinement, EnvRuns_proofs

(* What the three inductive invariants give the contract: ownership lets   *)
(* namespaces be provided and resources be let go, isolation lets workload *)
(* be deployed, and the copies are written over what they were read from.  *)
RefinementInv == CopyInv /\ OwnedInv /\ IsolatedInv

(* The writes to the resource are requests of users, the hold and the      *)
(* release of the operator, or status writes, which the contract does not  *)
(* see.                                                                    *)
LEMMA ResourceStepAllowed ==
  ASSUME RefinementInv, [Next]_vars, cr' # cr
  PROVE  Contract!Next \/ UNCHANGED Contract!vars
<1>t. cr \in CRs /\ env \in CRs /\ clock \in Nat /\ cr' \in CRs
  BY TypeStep DEF RefinementInv, CopyInv, TypeOK
<1>b. cr.finalizer \in BOOLEAN /\ cr'.finalizer \in BOOLEAN /\ cr.there \in BOOLEAN
        /\ cr.deleting \in BOOLEAN
  BY <1>t DEF CRs
<1>c. UNCHANGED clusterVars
  BY ResourceChanges
<1>d. UNCHANGED <<ns, "policy" \in objs, release # "none">>
  BY <1>c DEF clusterVars
<1>s. Shaped
  BY DEF RefinementInv, CopyInv
<1>q. ASSUME Same(cr', cr) PROVE UNCHANGED Contract!vars
  BY <1>d, <1>q DEF Contract!vars, Asked, Same
<1>1. CASE Created
  <2>1. cr'.there /\ ~cr'.deleting /\ cr'.finalizer = FALSE
    BY <1>1 DEF Created, NoCR
  <2>2. ~cr.there /\ cr.finalizer = FALSE
    BY <1>1, <1>b, <1>s DEF Created, Shaped
  <2>3. Contract!Ask
    BY <1>d, <2>1, <2>2 DEF Contract!Ask, Asked
  <2> QED
    BY <2>3 DEF Contract!Next
<1>2. CASE Withdrawn
  <2>1. cr.there /\ ~cr.deleting
    BY <1>2 DEF Withdrawn
  <2>2. CASE cr.finalizer
    <3>1. cr'.there /\ cr'.deleting /\ cr'.finalizer = cr.finalizer
      BY <1>2, <1>t, <2>1, <2>2 DEF Withdrawn, CRs
    <3>2. Contract!Withdraw
      BY <1>d, <2>1, <2>2, <3>1 DEF Contract!Withdraw, Asked
    <3> QED
      BY <3>2 DEF Contract!Next
  <2>3. CASE ~cr.finalizer
    <3>1. ~cr'.there /\ cr'.finalizer = cr.finalizer
      BY <1>2, <1>b, <2>3, NoCRShaped DEF Withdrawn
    <3>2. Contract!Withdraw
      BY <1>d, <2>1, <2>3, <3>1 DEF Contract!Withdraw, Asked
    <3> QED
      BY <3>2 DEF Contract!Next
  <2> QED
    BY <2>2, <2>3
<1>3. CASE Prolonged
  BY <1>3, <1>q, <1>t DEF Prolonged, Same, CRs
<1>4. CASE Adopted
  <2>1. cr.there /\ Same(env, cr)
    BY <1>4 DEF Adopted, RefinementInv, CopyInv, CopyKept
  <2>2. cr'.there /\ cr'.deleting = cr.deleting /\ cr'.finalizer = TRUE
    BY <1>4, <1>t, <2>1 DEF Adopted, Same, CRs
  <2>3. CASE cr.finalizer
    BY <1>b, <1>q, <2>1, <2>2, <2>3 DEF Same
  <2>4. CASE ~cr.finalizer
    <3>1. ~cr.deleting
      BY <1>s, <2>4 DEF Shaped, Owned
    <3>2. Contract!Hold
      BY <1>d, <2>1, <2>2, <3>1 DEF Contract!Hold, Asked
    <3> QED
      BY <3>2 DEF Contract!Next
  <2> QED
    BY <2>3, <2>4
<1>5. CASE Activated \/ Saved
  <2>1. Same(env, cr)
    BY <1>5 DEF Activated, Saved, RefinementInv, CopyInv, CopyKept
  <2>2. Same(cr', cr)
    BY <1>5, <1>t, <2>1 DEF Activated, Saved, Same, CRs
  <2> QED
    BY <1>q, <2>2
<1>6. CASE Released
  <2>1. cr.there /\ cr.deleting
    BY <1>6 DEF Released, RefinementInv, CopyInv, CopyKept, DeletingKnown, Same, Deleting
  <2>2. cr.finalizer /\ ns # "active"
    BY <1>6, <1>s, <2>1 DEF Released, Shaped, Owned, RefinementInv, OwnedInv, NamespaceGoes
  <2>3. ~cr'.there /\ cr'.finalizer = FALSE
    BY <1>6, <1>b, NoCRShaped DEF Released
  <2>4. Contract!LetGo
    BY <1>d, <2>1, <2>2, <2>3 DEF Contract!LetGo, Asked
  <2> QED
    BY <2>4 DEF Contract!Next
<1> QED
  BY ResourceChanges, <1>1, <1>2, <1>3, <1>4, <1>5, <1>6

(* What a step does to the namespace, the policy and the workload while it *)
(* leaves the resource alone is one of these, and each finds its guard in  *)
(* the code.                                                               *)
LEMMA ClusterStepAllowed ==
  ASSUME ~LaggingViews, RefinementInv, [Next]_vars, cr' = cr
  PROVE  Contract!Next \/ UNCHANGED Contract!vars
<1>v. ViewsExact
  BY DEF RefinementInv, OwnedInv
<1>c. UNCHANGED <<Asked, cr.finalizer>>
  BY DEF Asked
<1>q. ASSUME ns' = ns, "policy" \in objs' <=> "policy" \in objs,
             release' = "none" <=> release = "none"
      PROVE  UNCHANGED Contract!vars
  BY <1>c, <1>q DEF Contract!vars
<1>1. CASE EnsureNamespace
  <2>1. CASE UNCHANGED clusterVars
    BY <1>q, <2>1 DEF clusterVars
  <2>2. CASE ~UNCHANGED clusterVars
    <3>1. ns = "absent" /\ ns' = "active" /\ UNCHANGED <<objs, release>>
      BY <1>1, <2>2 DEF EnsureNamespace, clusterVars
    <3>2. cr.finalizer
      BY <1>1 DEF EnsureNamespace, RefinementInv, OwnedInv, RunKnown, Owned, Setup
    <3>3. Contract!Provide
      BY <1>c, <3>1, <3>2 DEF Contract!Provide
    <3> QED
      BY <3>3 DEF Contract!Next
  <2> QED
    BY <2>1, <2>2
<1>2. CASE EnsureNetworkPolicy
  <2>1. UNCHANGED clusterVars \/ (Isolated /\ Creatable("policy") /\ Put("policy"))
    BY <1>2 DEF EnsureNetworkPolicy, CreateOrUpdate, clusterVars
  <2>2. CASE UNCHANGED clusterVars
    BY <1>q, <2>2 DEF clusterVars
  <2>3. CASE Isolated /\ Creatable("policy") /\ Put("policy")
    <3>1. ns = "active" /\ Isolated /\ "policy" \in objs' /\ UNCHANGED <<ns, release>>
      BY <2>3 DEF Creatable, Put, InNamespace
    <3>2. Contract!Protect
      BY <1>c, <3>1 DEF Contract!Protect
    <3> QED
      BY <3>2 DEF Contract!Next
  <2> QED
    BY <2>1, <2>2, <2>3
<1>o. ASSUME NEW o \in Objects \ {"policy"},
             DeleteObject(o) \/ \E ok \in BOOLEAN : CreateOrUpdate(o, ok)
      PROVE  UNCHANGED Contract!vars
  <2>1. UNCHANGED clusterVars \/ Put(o) \/ Remove(o)
    BY <1>o DEF DeleteObject, CreateOrUpdate, clusterVars
  <2> QED
    BY <1>q, <2>1 DEF Put, Remove, clusterVars
<1>3. CASE \/ EnsureDeveloperAccessRBAC \/ EnsureReferenceGrant \/ EnsureHTTPRoute
           \/ CleanupHTTPRoute("exp-route", "exp-helm")
           \/ CleanupHTTPRoute("del-route", "del-helm")
           \/ CleanupAdminHTTPRoute
  BY <1>3, <1>o DEF EnsureDeveloperAccessRBAC, EnsureReferenceGrant, EnsureHTTPRoute,
     CleanupHTTPRoute, CleanupAdminHTTPRoute, Objects, InNamespace, Routes
<1>4. CASE EnsureAdminHTTPRoute
  <2>1. UNCHANGED clusterVars \/ \E ok \in BOOLEAN : CreateOrUpdate("admin", ok)
    BY <1>4 DEF EnsureAdminHTTPRoute, clusterVars
  <2> QED
    BY <1>o, <1>q, <2>1 DEF Objects, Routes, clusterVars
<1>p. ASSUME pc \in Provision, ns = "active", release' # "none", UNCHANGED <<ns, objs>>
      PROVE  Contract!Next
  <2>1. Isolated => "policy" \in objs
    BY <1>p DEF RefinementInv, IsolatedInv, PolicyFirst
  <2>2. Contract!Deploy
    BY <1>c, <1>p, <2>1 DEF Contract!Deploy
  <2> QED
    BY <2>2 DEF Contract!Next
<1>5. CASE StartInstall
  BY <1>5, <1>p, <1>q DEF StartInstall, Idle, Provision
<1>6. CASE FinishInstall
  <2>1. ns = "active" /\ release' # "none" /\ UNCHANGED <<ns, objs>> /\ pc \in Provision
    BY <1>6 DEF FinishInstall, Idle, RefinementInv, IsolatedInv, Installing, Provision
  <2> QED
    BY <1>p, <2>1
<1>7. CASE \/ UninstallHelmRelease("exp-helm", "exp-namespace")
           \/ UninstallHelmRelease("del-helm", "del-namespace")
  <2>1. UNCHANGED <<ns, objs>> /\ release' \in {release, "none"}
    BY <1>7 DEF UninstallHelmRelease, Idle
  <2>2. CASE release' = release
    BY <1>q, <2>1, <2>2
  <2>3. CASE release' = "none"
    <3>1. Contract!Undeploy
      BY <1>c, <2>1, <2>3 DEF Contract!Undeploy
    <3> QED
      BY <3>1 DEF Contract!Next
  <2> QED
    BY <2>1, <2>2, <2>3
<1>8. CASE ExpireNamespace \/ DropNamespace
  <2>1. \E ok \in BOOLEAN : DeleteNamespace(ok)
    BY <1>8 DEF ExpireNamespace, DropNamespace
  <2>2. /\ UNCHANGED <<objs, release>>
        /\ ns' = ns \/ (ns = "active" /\ ns' = "terminating")
    BY <1>v, <2>1, NamespaceCalls
  <2>3. CASE ns' = ns
    BY <1>q, <2>2, <2>3
  <2>4. CASE ns = "active" /\ ns' = "terminating"
    <3>1. Contract!End
      BY <1>c, <2>2, <2>4 DEF Contract!End
    <3> QED
      BY <3>1 DEF Contract!Next
  <2> QED
    BY <2>2, <2>3, <2>4
<1>9. CASE NamespaceGone
  <2>1. ns = "terminating" /\ ns' = "absent" /\ "policy" \notin objs' /\ release' = "none"
    BY <1>9 DEF NamespaceGone, InNamespace
  <2>2. Contract!Vanish
    BY <1>c, <2>1 DEF Contract!Vanish
  <2> QED
    BY <2>2 DEF Contract!Next
<1>10. CASE \/ Begin \/ AddFinalizer \/ ReGet \/ CheckInstalled \/ DiscoverService
            \/ Activate \/ SaveAndRetry \/ SaveExpired \/ RemoveFinalizer
            \/ Users \/ SyncCache \/ Informers \/ FireTimer \/ Restart \/ Tick
            \/ UNCHANGED vars
  <2>1. UNCHANGED <<ns, objs, release>>
    BY <1>10 DEF Begin, AddFinalizer, ReGet, CheckInstalled, DiscoverService, Activate,
       SaveAndRetry, SaveExpired, RemoveFinalizer, Users, CreateEnv, DeleteEnv, ExtendRead,
       ExtendSave, SyncCache, Informers, SyncNamespace, SyncObject, FireTimer, Restart,
       Tick, Idle, clusterVars, vars
  <2> QED
    BY <1>q, <2>1
<1> QED
  BY <1>1, <1>2, <1>3, <1>4, <1>5, <1>6, <1>7, <1>8, <1>9, <1>10
     DEF Next, Reconcile, ProvisionStep, TeardownStep

(* While the caches of the objects do not lag, every behaviour of the      *)
(* reconciler, the API server and its users, through stale copies of the   *)
(* resource, lost answers and restarts, is one the contract allows: no     *)
(* namespace but for a resource that is held, no workload before the       *)
(* policy, and no resource let go while its namespace lives.               *)
THEOREM ContractImplemented ==
  ASSUME ~LaggingViews PROVE Spec => ImplementsContract
<1>1. Init => Contract!Init
  <2> SUFFICES ASSUME Init PROVE Contract!Init
    OBVIOUS
  <2>1. ~cr.there /\ cr.finalizer = FALSE
    BY DEF Init, NoCR
  <2> QED
    BY <2>1 DEF Init, Contract!Init, Asked
<1>2. Init => RefinementInv
  BY InitCopies, InitOwned, InitTypeOK
     DEF Init, RefinementInv, IsolatedInv, ViewsExact, PolicyFirst, EmptyStart, Installing,
         IsolatedWorkload
<1>3. RefinementInv /\ [Next]_vars => RefinementInv'
  BY CopyStep, OwnedStep, IsolatedStep DEF RefinementInv
<1>4. RefinementInv /\ [Next]_vars => [Contract!Next]_(Contract!vars)
  BY ResourceStepAllowed, ClusterStepAllowed
<1> QED
  BY <1>1, <1>2, <1>3, <1>4, PTL DEF Spec, ImplementsContract, Contract!Spec

=============================================================================
