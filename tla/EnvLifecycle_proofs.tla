------------------------- MODULE EnvLifecycle_proofs -------------------------
(* Proofs about EnvLifecycle, for every value of its constants. *)
EXTENDS EnvLifecycle, TLAPS

-----------------------------------------------------------------------------
(* Type correctness *)

(* TypeOK by the groups of variables that the helpers change together. *)
ResourceOK == /\ cr \in CRs /\ cache \in CRs
              /\ fresh \in [cache: BOOLEAN, env: BOOLEAN, ui: BOOLEAN]
RunOK      == env \in CRs /\ pc \in Steps
QueueOK    == queued \in BOOLEAN /\ timer \in Int
ClusterOK  == /\ ns \in NsStates /\ objs \in SUBSET Objects /\ release \in Releases
              /\ nsSeen \in NsStates /\ objsSeen \in SUBSET Objects
BudgetOK   == budget \in [LimitKinds -> Nat]
OtherOK    == ui \in {"idle", "read"} /\ clock \in Nat

(* The type invariant, cut into groups of variables that change together. *)
LEMMA TypeGroups ==
  TypeOK <=> ResourceOK /\ RunOK /\ QueueOK /\ ClusterOK /\ BudgetOK /\ OtherOK
BY DEF TypeOK, ResourceOK, RunOK, QueueOK, ClusterOK, BudgetOK, OtherOK

(* The same after a step. *)
LEMMA TypeGroupsNext ==
  TypeOK' <=> ResourceOK' /\ RunOK' /\ QueueOK' /\ ClusterOK' /\ BudgetOK' /\ OtherOK'
BY DEF TypeOK, ResourceOK, RunOK, QueueOK, ClusterOK, BudgetOK, OtherOK

(* A resource that does not exist is well formed. *)
LEMMA NoCRType == NoCR \in CRs
BY DEF NoCR, CRs, Phases, Unset

(* The in-memory edits of the reconciler keep a resource well formed. *)
LEMMA EditTypes ==
  ASSUME NEW e \in CRs
  PROVE  /\ \A p \in Phases : [e EXCEPT !.phase = p] \in CRs
         /\ [e EXCEPT !.finalizer = TRUE] \in CRs
         /\ [e EXCEPT !.deleting = TRUE] \in CRs
         /\ [e EXCEPT !.tracked = TRUE] \in CRs
         /\ \A x \in Int : [e EXCEPT !.exp = x] \in CRs
         /\ MarkExpired(e) \in CRs
BY DEF CRs, MarkExpired, Phases

(* The defaults of steps 4 and 5 keep a resource well formed. *)
LEMMA InitialisedType ==
  ASSUME NEW e \in CRs PROVE Initialised(e) \in CRs
<1>1. ExpirationOf(e) \in Int
  BY TimeAssumption DEF ExpirationOf, CRs
<1> QED
  BY <1>1 DEF Initialised, CRs, Phases

(* Using up a budget keeps its type. *)
LEMMA SpendType ==
  ASSUME BudgetOK, NEW k \in LimitKinds, Spend(k) PROVE BudgetOK'
BY DEF BudgetOK, Spend

(* A write to the API server stores a well-formed resource. *)
LEMMA WriteType ==
  ASSUME ResourceOK, BudgetOK, NEW e \in CRs, NEW moved \in BOOLEAN,
         NEW ok \in BOOLEAN, Write(e, moved, ok)
  PROVE  ResourceOK' /\ BudgetOK'
<1>a. AllStale \in [cache: BOOLEAN, env: BOOLEAN, ui: BOOLEAN]
  BY DEF AllStale
<1>b. ASSUME Commit(e, moved) PROVE fresh' = AllStale \/ fresh' = fresh
  BY <1>b DEF Commit
<1>1. Commit(e, moved) => ResourceOK'
  BY <1>a, <1>b DEF Commit, ResourceOK
<1>2. UNCHANGED crVars => ResourceOK'
  BY DEF crVars, ResourceOK
<1>3. UNCHANGED <<crVars, budget>> => UNCHANGED crVars /\ UNCHANGED budget
  BY DEF crVars
<1>4. UNCHANGED budget => BudgetOK'
  BY DEF BudgetOK
<1>5. Spend("faults") => BudgetOK'
  BY SpendType DEF LimitKinds
<1>6. \/ Commit(e, moved) /\ UNCHANGED budget
      \/ UNCHANGED <<crVars, budget>>
      \/ Spend("faults") /\ (UNCHANGED crVars \/ Commit(e, moved))
  BY DEF Write
<1> QED
  BY <1>1, <1>2, <1>3, <1>4, <1>5, <1>6

(* The end of a run keeps the types of the run and of the queue. *)
LEMMA ReturnType ==
  ASSUME QueueOK, NEW again \in BOOLEAN, Return(again)
  PROVE  RunOK' /\ queued' \in BOOLEAN
BY NoCRType DEF Return, RunOK, QueueOK, Steps

(* Dispatch starts a run in one of the named steps. *)
LEMMA DispatchType ==
  ASSUME NEW e \in CRs, Dispatch(e) PROVE RunOK'
<1>1. Initialised(e) \in CRs /\ MarkExpired(Initialised(e)) \in CRs
  BY InitialisedType, EditTypes
<1> QED
  BY <1>1 DEF Dispatch, RunOK, Steps, Setup, Expiring

(* A provisioning step goes on or fails, in one of the named steps. *)
LEMMA OkOrFailType ==
  ASSUME RunOK, NEW ok \in BOOLEAN, NEW step \in Steps, OkOrFail(ok, step)
  PROVE  RunOK'
<1>1. [env EXCEPT !.phase = "Failed"] \in CRs
  BY EditTypes DEF RunOK, Phases
<1> QED
  BY <1>1 DEF OkOrFail, Goto, Fail, RunOK, Steps

(* The calls that create and delete objects keep the types of the cluster. *)
LEMMA ObjectTypes ==
  ASSUME ClusterOK, BudgetOK, NEW o \in Objects
  PROVE  /\ Put(o) => ClusterOK'
         /\ Remove(o) => ClusterOK'
         /\ DeleteObject(o) => ClusterOK' /\ BudgetOK'
         /\ \A ok \in BOOLEAN : CreateOrUpdate(o, ok) => ClusterOK' /\ BudgetOK'
<1>1. Put(o) => ClusterOK'
  BY DEF Put, ClusterOK, Views
<1>2. Remove(o) => ClusterOK'
  BY DEF Remove, ClusterOK, Views
<1>3. UNCHANGED clusterVars => ClusterOK'
  BY DEF clusterVars, ClusterOK
<1>4. UNCHANGED <<clusterVars, budget>> => UNCHANGED clusterVars /\ UNCHANGED budget
  BY DEF clusterVars
<1>5. UNCHANGED budget => BudgetOK'
  BY DEF BudgetOK
<1>6. DeleteObject(o) => ClusterOK' /\ BudgetOK'
  BY <1>2, <1>3, <1>4, <1>5, SpendType DEF DeleteObject, LimitKinds
<1>7. ASSUME NEW ok \in BOOLEAN, CreateOrUpdate(o, ok) PROVE ClusterOK' /\ BudgetOK'
  BY <1>1, <1>3, <1>4, <1>5, <1>7, SpendType DEF CreateOrUpdate, LimitKinds
<1> QED
  BY <1>1, <1>2, <1>6, <1>7

(* The deletion of the namespace keeps the types of the cluster. *)
LEMMA DeleteNamespaceType ==
  ASSUME ClusterOK, BudgetOK, NEW ok \in BOOLEAN, DeleteNamespace(ok)
  PROVE  ClusterOK' /\ BudgetOK'
<1>1. Terminate => ClusterOK'
  BY DEF Terminate, ClusterOK, Views, NsStates
<1>2. UNCHANGED clusterVars => ClusterOK'
  BY DEF clusterVars, ClusterOK
<1>3. UNCHANGED <<clusterVars, budget>> => UNCHANGED clusterVars /\ UNCHANGED budget
  BY DEF clusterVars
<1>4. UNCHANGED budget => BudgetOK'
  BY DEF BudgetOK
<1> QED
  BY <1>1, <1>2, <1>3, <1>4, SpendType DEF DeleteNamespace, LimitKinds

(* Every step keeps the types. *)
LEMMA TypeStep == TypeOK /\ [Next]_vars => TypeOK'
<1> SUFFICES ASSUME TypeOK, [Next]_vars PROVE TypeOK'
  OBVIOUS
<1>t. ResourceOK /\ RunOK /\ QueueOK /\ ClusterOK /\ BudgetOK /\ OtherOK
  BY TypeGroups
<1>u. /\ UNCHANGED crVars => ResourceOK'
      /\ UNCHANGED runVars => RunOK'
      /\ UNCHANGED queueVars => QueueOK'
      /\ UNCHANGED clusterVars => ClusterOK'
      /\ UNCHANGED budget => BudgetOK'
      /\ UNCHANGED <<ui, clock>> => OtherOK'
  BY <1>t DEF crVars, runVars, queueVars, clusterVars, ResourceOK, RunOK, QueueOK,
              ClusterOK, BudgetOK, OtherOK
<1>g. \A s \in Steps : Goto(s) /\ UNCHANGED env => RunOK'
  BY <1>t DEF Goto, RunOK
<1>q. queued' \in BOOLEAN /\ UNCHANGED timer => QueueOK'
  BY <1>t DEF QueueOK
<1>1. CASE Begin
  <2>1. QueueOK' /\ RunOK'
    <3>1. CASE ~cache.there
      BY <1>1, <1>t, <1>q, <3>1, ReturnType DEF Begin, Idle
    <3>2. CASE cache.there
      <4>1. cache \in CRs /\ NoCR \in CRs
        BY <1>t, NoCRType DEF ResourceOK
      <4>2. RunOK'
        BY <1>1, <3>2, <4>1, DispatchType DEF Begin, Goto, RunOK, Steps, Deleting
      <4> QED
        BY <1>1, <1>q, <3>2, <4>2 DEF Begin, Idle
    <3> QED
      BY <3>1, <3>2
  <2>2. ResourceOK'
    BY <1>1, <1>t DEF Begin, Idle, ResourceOK, CRs
  <2> QED
    BY <1>1, <1>u, <2>1, <2>2, TypeGroupsNext DEF Begin, Idle, clusterVars
<1>2. CASE AddFinalizer
  <2> PICK ok \in BOOLEAN :
        /\ Write([env EXCEPT !.finalizer = TRUE], TRUE, ok)
        /\ IF ok THEN Goto("re-get") /\ UNCHANGED <<env, queued>> ELSE Return(TRUE)
    BY <1>2 DEF AddFinalizer
  <2>1. ResourceOK' /\ BudgetOK'
    BY <1>t, WriteType, EditTypes DEF RunOK
  <2>2. RunOK' /\ QueueOK'
    BY <1>t, <1>g, <1>q, <1>2, ReturnType DEF AddFinalizer, Idle, Steps, QueueOK
  <2> QED
    BY <1>2, <1>u, <2>1, <2>2, TypeGroupsNext DEF AddFinalizer, Idle, clusterVars
<1>3. CASE ReGet
  <2>1. RunOK' /\ queued' \in BOOLEAN
    BY <1>t, <1>3, DispatchType, ReturnType DEF ReGet, ResourceOK, QueueOK
  <2>2. ResourceOK'
    BY <1>3, <1>t DEF ReGet, Idle, ResourceOK, CRs
  <2> QED
    BY <1>3, <1>q, <1>u, <2>1, <2>2, TypeGroupsNext DEF ReGet, Idle, clusterVars
<1>4. CASE EnsureNamespace
  <2>1. ClusterOK' /\ BudgetOK'
    <3>1. CASE UNCHANGED clusterVars
      BY <1>4, <1>t, <1>u, <3>1, SpendType DEF EnsureNamespace, LimitKinds, clusterVars
    <3>2. CASE ~UNCHANGED clusterVars
      <4>1. ClusterOK'
        BY <1>4, <1>t, <3>2
           DEF EnsureNamespace, ClusterOK, Views, NsStates, clusterVars
      <4> QED
        BY <1>4, <1>t, <1>u, <3>2, <4>1, SpendType DEF EnsureNamespace, LimitKinds, clusterVars
    <3> QED
      BY <3>1, <3>2
  <2>2. RunOK'
    BY <1>4, <1>t, OkOrFailType DEF EnsureNamespace, Steps, Setup
  <2>3. ResourceOK' /\ QueueOK' /\ OtherOK'
    BY <1>4, <1>t, <1>u, <1>q DEF EnsureNamespace, Idle, QueueOK, crVars
  <2> QED
    BY <2>1, <2>2, <2>3, TypeGroupsNext
<1>c. ASSUME NEW o \in Objects, NEW s \in Steps,
             \E ok \in BOOLEAN : CreateOrUpdate(o, ok) /\ OkOrFail(ok, s)
      PROVE  ClusterOK' /\ BudgetOK' /\ RunOK'
  BY <1>t, <1>c, ObjectTypes, OkOrFailType
<1>5. CASE EnsureDeveloperAccessRBAC
  <2>1. ClusterOK' /\ BudgetOK' /\ RunOK'
    BY <1>5, <1>c DEF EnsureDeveloperAccessRBAC, Objects, InNamespace, Steps, Setup
  <2> QED
    BY <1>5, <1>u, <1>q, <2>1, <1>t, TypeGroupsNext
       DEF EnsureDeveloperAccessRBAC, Idle, QueueOK
<1>6. CASE EnsureNetworkPolicy
  <2>1. ClusterOK' /\ BudgetOK' /\ RunOK'
    <3>1. CASE Isolated
      BY <1>6, <1>c, <3>1 DEF EnsureNetworkPolicy, Objects, InNamespace, Steps, Provision
    <3>2. CASE ~Isolated
      BY <1>6, <1>u, <1>g, <3>2
         DEF EnsureNetworkPolicy, Steps, Provision, clusterVars
    <3> QED
      BY <3>1, <3>2
  <2> QED
    BY <1>6, <1>u, <1>q, <2>1, <1>t, TypeGroupsNext DEF EnsureNetworkPolicy, Idle, QueueOK
<1>a. {AfterGrant, AfterDeploy, AfterAdmin} \subseteq Steps
  BY DEF AfterGrant, AfterDeploy, AfterAdmin, Steps, Provision
<1>7. CASE EnsureReferenceGrant
  <2>1. ClusterOK' /\ BudgetOK' /\ RunOK'
    BY <1>7, <1>a, <1>c DEF EnsureReferenceGrant, Objects, InNamespace
  <2> QED
    BY <1>7, <1>u, <1>q, <2>1, <1>t, TypeGroupsNext DEF EnsureReferenceGrant, Idle, QueueOK
<1>8. CASE CheckInstalled
  <2>1. RunOK'
    BY <1>8, <1>a, <1>t, EditTypes DEF CheckInstalled, Goto, RunOK, Steps, Provision
  <2>2. BudgetOK'
    BY <1>8, <1>t, <1>u, SpendType DEF CheckInstalled, LimitKinds
  <2> QED
    BY <1>8, <1>u, <1>q, <2>1, <2>2, <1>t, TypeGroupsNext DEF CheckInstalled, Idle, QueueOK
<1>f. Fail => RunOK'
  BY <1>t, EditTypes DEF Fail, RunOK, Phases, Steps
<1>9. CASE StartInstall
  <2>1. RunOK'
    BY <1>9, <1>f, <1>g DEF StartInstall, Steps, Provision
  <2>2. ClusterOK'
    BY <1>9, <1>t DEF StartInstall, Idle, ClusterOK, Releases
  <2> QED
    BY <1>9, <1>u, <1>q, <2>1, <2>2, <1>t, TypeGroupsNext DEF StartInstall, Idle, QueueOK
<1>10. CASE FinishInstall
  <2>1. RunOK'
    BY <1>10, <1>f, <1>a, <1>t, EditTypes DEF FinishInstall, Goto, RunOK
  <2>2. ClusterOK'
    BY <1>10, <1>t DEF FinishInstall, Idle, ClusterOK, Releases
  <2> QED
    BY <1>10, <1>u, <1>q, <2>1, <2>2, <1>t, TypeGroupsNext DEF FinishInstall, Idle, QueueOK
<1>11. CASE DiscoverService
  <2>1. RunOK'
    BY <1>11, <1>t DEF DiscoverService, Goto, Idle, RunOK, Steps, Provision
  <2> QED
    BY <1>11, <1>u, <1>q, <2>1, <1>t, TypeGroupsNext DEF DiscoverService, Idle, QueueOK
<1>12. CASE EnsureHTTPRoute
  <2>1. ClusterOK' /\ BudgetOK' /\ RunOK'
    BY <1>12, <1>c DEF EnsureHTTPRoute, Objects, Routes, Steps, Provision
  <2> QED
    BY <1>12, <1>u, <1>q, <2>1, <1>t, TypeGroupsNext DEF EnsureHTTPRoute, Idle, QueueOK
<1>13. CASE EnsureAdminHTTPRoute
  <2>1. ClusterOK' /\ BudgetOK'
    <3>1. CASE AdminUI
      BY <1>13, <1>t, <3>1, ObjectTypes DEF EnsureAdminHTTPRoute, Objects, Routes
    <3>2. CASE ~AdminUI
      BY <1>13, <1>u, <3>2 DEF EnsureAdminHTTPRoute, clusterVars
    <3> QED
      BY <3>1, <3>2
  <2>2. RunOK'
    BY <1>13, <1>a, <1>g DEF EnsureAdminHTTPRoute, Idle
  <2> QED
    BY <1>13, <1>u, <1>q, <2>1, <2>2, <1>t, TypeGroupsNext DEF EnsureAdminHTTPRoute, Idle, QueueOK
<1>w. ASSUME NEW e \in CRs, NEW ok \in BOOLEAN, NEW moved \in BOOLEAN,
             NEW again \in BOOLEAN, Write(e, moved, ok), Return(again)
      PROVE  ResourceOK' /\ BudgetOK' /\ RunOK' /\ queued' \in BOOLEAN
  BY <1>t, <1>w, WriteType, ReturnType
<1>14. CASE Activate
  <2> PICK ok \in BOOLEAN, moved \in BOOLEAN :
        /\ Write([env EXCEPT !.phase = "Active"], moved, ok)
        /\ Return(~ok \/ clock > env.exp)
        /\ IF ok /\ clock < env.exp THEN RequeueAt(env.exp) ELSE UNCHANGED timer
    BY <1>14 DEF Activate
  <2>1. env.exp \in Int /\ [env EXCEPT !.phase = "Active"] \in CRs
    BY <1>t, EditTypes DEF RunOK, CRs, Phases
  <2>2. ResourceOK' /\ BudgetOK' /\ RunOK' /\ queued' \in BOOLEAN
    BY <2>1, <1>w
  <2>3. timer' \in Int
    BY <1>t, <2>1 DEF RequeueAt, QueueOK
  <2> QED
    BY <1>14, <1>u, <2>2, <2>3, TypeGroupsNext DEF Activate, QueueOK
<1>15. CASE SaveAndRetry
  <2>1. ResourceOK' /\ BudgetOK' /\ RunOK' /\ queued' \in BOOLEAN
    BY <1>15, <1>t, <1>w DEF SaveAndRetry, RunOK
  <2> QED
    BY <1>15, <1>u, <1>q, <2>1, TypeGroupsNext DEF SaveAndRetry, Idle
<1>d. ASSUME NEW then \in Steps, NEW at, CleanupHTTPRoute(at, then) PROVE TypeOK'
  <2>1. ClusterOK' /\ BudgetOK' /\ RunOK'
    BY <1>d, <1>t, <1>g, ObjectTypes DEF CleanupHTTPRoute, Idle, Objects, Routes
  <2> QED
    BY <1>d, <1>u, <1>q, <2>1, <1>t, TypeGroupsNext DEF CleanupHTTPRoute, Idle, QueueOK
<1>h. ASSUME NEW then \in Steps, NEW at, UninstallHelmRelease(at, then) PROVE TypeOK'
  <2>1. RunOK'
    BY <1>h, <1>g DEF UninstallHelmRelease, Idle
  <2>2. ClusterOK' /\ BudgetOK'
    BY <1>h, <1>t, <1>u, SpendType
       DEF UninstallHelmRelease, Idle, ClusterOK, Releases, LimitKinds
  <2> QED
    BY <1>h, <1>u, <1>q, <2>1, <2>2, <1>t, TypeGroupsNext
       DEF UninstallHelmRelease, Idle, QueueOK
<1>16. CASE \/ CleanupHTTPRoute("exp-route", "exp-helm")
            \/ CleanupHTTPRoute("del-route", "del-helm")
            \/ UninstallHelmRelease("exp-helm", "exp-namespace")
            \/ UninstallHelmRelease("del-helm", "del-namespace")
  BY <1>16, <1>d, <1>h DEF Steps, Expiring, Deleting
<1>17. CASE CleanupAdminHTTPRoute
  <2>1. ClusterOK' /\ BudgetOK' /\ RunOK'
    BY <1>17, <1>t, <1>g, ObjectTypes
       DEF CleanupAdminHTTPRoute, Idle, Objects, Routes, Steps, Deleting
  <2> QED
    BY <1>17, <1>u, <1>q, <2>1, <1>t, TypeGroupsNext DEF CleanupAdminHTTPRoute, Idle, QueueOK
<1>18. CASE ExpireNamespace
  <2>1. ClusterOK' /\ BudgetOK'
    BY <1>18, <1>t, DeleteNamespaceType DEF ExpireNamespace
  <2>2. RunOK'
    BY <1>18, <1>t DEF ExpireNamespace, Goto, Idle, RunOK, Steps, Expiring
  <2> QED
    BY <1>18, <1>u, <1>q, <2>1, <2>2, <1>t, TypeGroupsNext DEF ExpireNamespace, Idle, QueueOK
<1>19. CASE SaveExpired
  <2>1. ResourceOK' /\ BudgetOK' /\ RunOK' /\ queued' \in BOOLEAN
    BY <1>19, <1>t, <1>w DEF SaveExpired, RunOK
  <2> QED
    BY <1>19, <1>u, <1>q, <2>1, TypeGroupsNext DEF SaveExpired, Idle
<1>20. CASE DropNamespace
  <2>1. ClusterOK' /\ BudgetOK'
    BY <1>20, <1>t, DeleteNamespaceType DEF DropNamespace
  <2>2. RunOK' /\ queued' \in BOOLEAN
    BY <1>20, <1>t, <1>g, ReturnType DEF DropNamespace, Steps, Deleting, QueueOK
  <2> QED
    BY <1>20, <1>u, <1>q, <2>1, <2>2, TypeGroupsNext DEF DropNamespace, Idle
<1>21. CASE RemoveFinalizer
  <2>1. ResourceOK' /\ BudgetOK' /\ RunOK' /\ queued' \in BOOLEAN
    BY <1>21, <1>w, NoCRType DEF RemoveFinalizer
  <2> QED
    BY <1>21, <1>u, <1>q, <2>1, TypeGroupsNext DEF RemoveFinalizer, Idle
<1>s. AllStale \in [cache: BOOLEAN, env: BOOLEAN, ui: BOOLEAN]
  BY DEF AllStale
<1>22. CASE CreateEnv
  <2>1. [NoCR EXCEPT !.there = TRUE, !.created = clock] \in CRs
    BY <1>t, NoCRType DEF CRs, OtherOK
  <2>2. ResourceOK' /\ BudgetOK'
    BY <1>22, <1>t, <1>s, <2>1, SpendType DEF CreateEnv, Idle, ResourceOK, LimitKinds
  <2> QED
    BY <1>22, <1>u, <1>q, <2>2, <1>t, TypeGroupsNext DEF CreateEnv, Idle, QueueOK
<1>23. CASE DeleteEnv
  <2>1. ResourceOK'
    BY <1>23, <1>t, <1>s, EditTypes, NoCRType DEF DeleteEnv, Idle, ResourceOK
  <2> QED
    BY <1>23, <1>u, <1>q, <2>1, <1>t, TypeGroupsNext DEF DeleteEnv, Idle, QueueOK
<1>24. CASE ExtendRead
  <2>1. ResourceOK' /\ BudgetOK' /\ OtherOK'
    BY <1>24, <1>t, SpendType DEF ExtendRead, ResourceOK, OtherOK, LimitKinds
  <2> QED
    BY <1>24, <1>u, <2>1, TypeGroupsNext DEF ExtendRead
<1>25. CASE ExtendSave
  <2>1. \A d \in Durations : Extended(d) \in Int
    BY <1>t, TimeAssumption DEF Extended, ResourceOK, OtherOK, CRs
  <2>2. \A d \in Durations : [cr EXCEPT !.exp = Extended(d)] \in CRs
    BY <1>t, <2>1, EditTypes DEF ResourceOK
  <2>3. ResourceOK'
    BY <1>25, <1>t, <1>u, <1>s, <2>2 DEF ExtendSave, ResourceOK
  <2>4. OtherOK'
    BY <1>25, <1>t DEF ExtendSave, OtherOK
  <2> QED
    BY <1>25, <1>u, <2>3, <2>4, TypeGroupsNext DEF ExtendSave
<1>26. CASE SyncCache
  <2>1. ResourceOK' /\ QueueOK'
    BY <1>26, <1>t DEF SyncCache, Idle, ResourceOK, QueueOK
  <2> QED
    BY <1>26, <1>u, <2>1, TypeGroupsNext DEF SyncCache, Idle
<1>27. CASE Informers
  <2>1. ClusterOK'
    BY <1>27, <1>t DEF Informers, SyncNamespace, SyncObject, Idle, ClusterOK
  <2> QED
    BY <1>27, <1>u, <1>q, <2>1, <1>t, TypeGroupsNext
       DEF Informers, SyncNamespace, SyncObject, Idle, QueueOK
<1>28. CASE FireTimer
  <2>1. QueueOK'
    BY <1>28 DEF FireTimer, QueueOK, Unset
  <2> QED
    BY <1>28, <1>u, <2>1, TypeGroupsNext DEF FireTimer
<1>29. CASE NamespaceGone
  <2>1. ClusterOK'
    BY <1>29, <1>t DEF NamespaceGone, ClusterOK, Views, NsStates, Releases
  <2> QED
    BY <1>29, <1>u, <1>q, <2>1, <1>t, TypeGroupsNext DEF NamespaceGone, Idle, QueueOK
<1>30. CASE Restart
  <2>1. ResourceOK' /\ BudgetOK'
    BY <1>30, <1>t, SpendType DEF Restart, ResourceOK, LimitKinds
  <2>2. RunOK' /\ QueueOK'
    BY <1>30, <1>t, NoCRType DEF Restart, RunOK, QueueOK, Steps, ResourceOK, CRs, Unset
  <2>3. ClusterOK' /\ OtherOK'
    BY <1>30, <1>t DEF Restart, ClusterOK, OtherOK
  <2> QED
    BY <2>1, <2>2, <2>3, TypeGroupsNext
<1>31. CASE Tick
  <2>1. OtherOK'
    BY <1>31, <1>t DEF Tick, OtherOK
  <2> QED
    BY <1>31, <1>u, <2>1, TypeGroupsNext DEF Tick
<1>32. CASE UNCHANGED vars
  BY <1>32 DEF vars, TypeOK
<1> QED
  BY <1>1, <1>2, <1>3, <1>4, <1>5, <1>6, <1>7, <1>8, <1>9, <1>10, <1>11, <1>12, <1>13,
     <1>14, <1>15, <1>16, <1>17, <1>18, <1>19, <1>20, <1>21, <1>22, <1>23, <1>24, <1>25,
     <1>26, <1>27, <1>28, <1>29, <1>30, <1>31, <1>32
     DEF Next, Reconcile, ProvisionStep, TeardownStep, Users

(* The initial states are well typed. *)
LEMMA InitTypeOK == Init => TypeOK
<1> SUFFICES ASSUME Init PROVE TypeOK
  OBVIOUS
<1>1. cr \in CRs /\ cache \in CRs /\ env \in CRs
  BY NoCRType DEF Init
<1>2. fresh \in [cache: BOOLEAN, env: BOOLEAN, ui: BOOLEAN]
  BY DEF Init
<1>3. budget \in [LimitKinds -> Nat]
  BY LimitsAssumption DEF Init
<1>4. clock \in Nat /\ timer = -1
  BY DEF Init, Unset
<1>5. timer \in Int
  BY <1>4
<1> QED
  BY <1>1, <1>2, <1>3, <1>4, <1>5 DEF Init, TypeOK, Steps, NsStates, Releases

(* The program only ever stores well-formed values: every variable of the  *)
(* reconciler, the caches and the API server keeps its type.               *)
THEOREM TypeCorrect == Spec => []TypeOK
<1> QED
  BY InitTypeOK, TypeStep, PTL DEF Spec

-----------------------------------------------------------------------------
(* A live namespace is owned *)

(* The namespace may only be kept alive by a stored resource that carries  *)
(* the finalizer.  The reconciler never looks at the stored resource, only *)
(* at copies of it, so the inductive invariant says what its copies know:  *)
(* a cached resource with the finalizer that is not being deleted is still *)
(* stored; a run that provisions works for a stored resource; a run that   *)
(* deletes has passed a cache that knows of the deletion, and the          *)
(* namespace is gone or going when it removes the finalizer.               *)
Owned(r) == r.there /\ r.finalizer
Same(r, s) == r.there = s.there /\ r.finalizer = s.finalizer /\ r.deleting = s.deleting

ViewsExact    == nsSeen = ns /\ objsSeen = objs
CacheKnown    == Owned(cache) /\ ~cache.deleting => Owned(cr)
CacheExact    == fresh.cache => cache = cr
RunKnown      == pc \in Setup \cup Provision \cup {"re-get"} => Owned(cr)
CopyExact     == fresh.env /\ pc # "idle" => cr.there /\ Same(env, cr)
DeletionKnown == pc \in Deleting => env.deleting /\ (fresh.env => cache.deleting)
NamespaceGoes == pc = "drop" => ns # "active"

OwnedInv == /\ TypeOK /\ ViewsExact /\ CacheKnown /\ CacheExact /\ RunKnown
            /\ CopyExact /\ DeletionKnown /\ NamespaceGoes /\ OwnedNamespace

(* No namespace in use without the policy: once a run is past the policy   *)
(* the policy is there as long as the namespace lives.                     *)
PolicyFirst == Isolated /\ pc \in Provision /\ ns = "active" => "policy" \in objs
EmptyStart  == ns = "absent" => release = "none"
Installing  == pc = "installing" => ns = "active"

IsolatedInv == TypeOK /\ ViewsExact /\ PolicyFirst /\ EmptyStart /\ Installing
                 /\ IsolatedWorkload

(* Without lag an object call leaves the views exact, and the namespace    *)
(* and the release alone.                                                  *)
LEMMA ObjectCalls ==
  ASSUME ~LaggingViews, ViewsExact, NEW o \in Objects,
         \/ DeleteObject(o) /\ o \in Routes
         \/ \E ok \in BOOLEAN : CreateOrUpdate(o, ok)
  PROVE  /\ ViewsExact' /\ ns' = ns /\ release' = release
         /\ "policy" \in objs => "policy" \in objs'
<1>1. \/ UNCHANGED clusterVars
      \/ Put(o)
      \/ Remove(o) /\ o \in Routes
  BY DEF DeleteObject, CreateOrUpdate, clusterVars
<1>2. CASE UNCHANGED clusterVars
  BY <1>2 DEF clusterVars, ViewsExact
<1>3. CASE Put(o)
  BY <1>3 DEF Put, Views, ViewsExact
<1>4. CASE Remove(o) /\ o \in Routes
  BY <1>4 DEF Remove, Views, ViewsExact, Routes
<1> QED
  BY <1>1, <1>2, <1>3, <1>4

(* Without lag the deletion of the namespace leaves the views exact, and   *)
(* only ends an active one.                                                *)
LEMMA NamespaceCalls ==
  ASSUME ~LaggingViews, ViewsExact, NEW ok \in BOOLEAN, DeleteNamespace(ok)
  PROVE  /\ ViewsExact' /\ release' = release /\ objs' = objs
         /\ ns' = ns \/ (ns = "active" /\ ns' = "terminating")
         /\ ok => ns' # "active"
BY DEF DeleteNamespace, Terminate, Views, ViewsExact, clusterVars

(* What a write can do to the stored resource: a copy that is written is   *)
(* the stored one but for the edits, so the stored one stays owned.        *)
LEMMA WriteKeepsOwned ==
  ASSUME CopyExact, pc # "idle", NEW e, NEW moved \in BOOLEAN, NEW ok \in BOOLEAN,
         e.there = env.there, e.deleting = env.deleting, env.finalizer => e.finalizer,
         Write(e, moved, ok)
  PROVE  /\ Owned(cr) => Owned(cr')
         /\ cache' = cache
         /\ (cr' = cr /\ fresh' = fresh) \/ fresh' = AllStale
         /\ ok => cr' = e
<1>1. CASE UNCHANGED crVars /\ ~ok
  BY <1>1 DEF crVars
<1>2. CASE fresh.env /\ Commit(e, moved)
  <2>1. cr' = e /\ cache' = cache
    BY <1>2 DEF Commit
  <2>2. (cr' = cr /\ fresh' = fresh) \/ fresh' = AllStale
    BY <1>2 DEF Commit
  <2>3. Owned(cr) => Owned(cr')
    BY <1>2, <2>1 DEF CopyExact, Same, Owned
  <2> QED
    BY <2>1, <2>2, <2>3
<1> QED
  BY <1>1, <1>2 DEF Write, crVars

(* A step inside a run that writes no resource. *)
LEMMA MoveKeepsOwned ==
  ASSUME OwnedInv, TypeOK', UNCHANGED crVars, Same(env', env), pc # "idle", ViewsExact',
         ns' = "active" => ns = "active" \/ Owned(cr),
         pc' = "drop" => ns' # "active",
         pc' \in Setup \cup Provision \cup {"re-get"} =>
           pc \in Setup \cup Provision \cup {"re-get"},
         pc' \in Deleting => pc \in Deleting
  PROVE  OwnedInv'
<1>1. cr' = cr /\ cache' = cache /\ fresh' = fresh
  BY DEF crVars
<1>2. CacheKnown' /\ CacheExact'
  BY <1>1 DEF OwnedInv, CacheKnown, CacheExact, Owned
<1>3. RunKnown' /\ OwnedNamespace'
  BY <1>1 DEF OwnedInv, RunKnown, OwnedNamespace, Owned
<1>4. CopyExact' /\ DeletionKnown'
  BY <1>1 DEF OwnedInv, CopyExact, DeletionKnown, Same
<1>5. NamespaceGoes'
  BY DEF NamespaceGoes
<1> QED
  BY <1>2, <1>3, <1>4, <1>5 DEF OwnedInv

(* The end of a run, after a write or without one. *)
LEMMA ReturnKeepsOwned ==
  ASSUME OwnedInv, TypeOK', UNCHANGED clusterVars, pc' = "idle",
         Owned(cr) => Owned(cr'), cache' = cache,
         (cr' = cr /\ fresh' = fresh) \/ fresh' = AllStale
  PROVE  OwnedInv'
<1>1. ViewsExact' /\ OwnedNamespace'
  BY DEF OwnedInv, clusterVars, ViewsExact, OwnedNamespace, Owned
<1>2. CacheKnown' /\ CacheExact'
  BY DEF OwnedInv, CacheKnown, CacheExact, Owned, AllStale
<1>3. RunKnown' /\ CopyExact' /\ DeletionKnown' /\ NamespaceGoes'
  BY DEF RunKnown, CopyExact, DeletionKnown, NamespaceGoes, Setup, Provision, Deleting
<1> QED
  BY <1>1, <1>2, <1>3 DEF OwnedInv

(* Dispatch starts a run with the copy it is given. *)
LEMMA DispatchCopies ==
  ASSUME NEW e \in CRs, Dispatch(e)
  PROVE  Same(env', e) /\ pc' \in {"namespace", "exp-route"}
<1>1. \A x \in CRs : Same(Initialised(x), x) /\ Same(MarkExpired(x), x)
  BY DEF Initialised, MarkExpired, Same, CRs
<1>2. Initialised(e) \in CRs
  BY InitialisedType
<1> QED
  BY <1>1, <1>2 DEF Dispatch, Same

(* Every step keeps the inductive invariant of ownership. *)
LEMMA OwnedStep ==
  ASSUME ~LaggingViews, OwnedInv, [Next]_vars PROVE OwnedInv'
<1>t. TypeOK /\ TypeOK'
  BY TypeStep DEF OwnedInv
<1>v. ViewsExact
  BY DEF OwnedInv
<1> USE DEF Setup, Provision, Expiring, Deleting
<1>e. env \in CRs /\ cache \in CRs /\ cr \in CRs
  BY <1>t DEF TypeOK
<1>k. \A r : UNCHANGED env /\ r = env => Same(env', r)
  BY DEF Same
<1>f. /\ Same(env, env) /\ Same([env EXCEPT !.phase = "Failed"], env)
      /\ Same([env EXCEPT !.tracked = TRUE], env)
  BY <1>e DEF Same, CRs
<1>o. ASSUME NEW ok \in BOOLEAN, NEW step \in Provision \cup Setup, pc \in Setup \cup Provision,
             OkOrFail(ok, step), UNCHANGED crVars, ViewsExact',
             ns' = "active" => ns = "active" \/ Owned(cr)
      PROVE  OwnedInv'
  <2>1. Same(env', env) /\ pc' \in {step, "save-retry"}
    BY <1>o, <1>f DEF OkOrFail, Goto, Fail
  <2> QED
    BY <1>o, <1>t, <2>1, MoveKeepsOwned
<1>1. CASE Begin
  <2>1. cr' = cr /\ cache' = cache /\ UNCHANGED clusterVars
    BY <1>1 DEF Begin, Idle
  <2>2. fresh'.cache = fresh.cache /\ (fresh'.env => fresh.cache /\ cache.there)
    BY <1>1, <1>t DEF Begin, TypeOK
  <2>3. ViewsExact' /\ OwnedNamespace' /\ CacheKnown' /\ CacheExact'
    BY <2>1, <2>2 DEF OwnedInv, clusterVars, ViewsExact, OwnedNamespace, CacheKnown,
                      CacheExact, Owned
  <2>4. CASE pc' = "idle"
    BY <2>3, <2>4, <1>t DEF OwnedInv, RunKnown, CopyExact, DeletionKnown, NamespaceGoes
  <2>5. CASE pc' # "idle"
    <3>1. Same(env', cache) /\ cache.there
      BY <1>1, <1>e, <2>5, DispatchCopies DEF Begin, Return, Goto, Same
    <3>2. /\ pc' \in {"del-admin", "add-finalizer", "namespace", "exp-route"}
          /\ pc' = "namespace" => Owned(cache) /\ ~cache.deleting
          /\ pc' = "del-admin" => cache.deleting
      BY <1>1, <1>e, <2>5, DispatchCopies DEF Begin, Return, Goto, Owned
    <3>3. CopyExact'
      BY <2>1, <2>2, <3>1 DEF OwnedInv, CacheExact, CopyExact, Same
    <3>4. RunKnown' /\ NamespaceGoes'
      BY <2>1, <3>2 DEF OwnedInv, RunKnown, CacheKnown, NamespaceGoes, Owned
    <3>5. DeletionKnown'
      BY <2>1, <3>1, <3>2 DEF DeletionKnown, Same
    <3> QED
      BY <2>3, <3>3, <3>4, <3>5, <1>t DEF OwnedInv
  <2> QED
    BY <2>4, <2>5
<1>2. CASE AddFinalizer
  <2> DEFINE e == [env EXCEPT !.finalizer = TRUE]
  <2> PICK ok \in BOOLEAN :
        /\ Write(e, TRUE, ok)
        /\ IF ok THEN Goto("re-get") /\ UNCHANGED <<env, queued>> ELSE Return(TRUE)
    BY <1>2 DEF AddFinalizer
  <2>1. e.there = env.there /\ e.deleting = env.deleting /\ e.finalizer
    BY <1>e DEF CRs
  <2>2. pc # "idle" /\ CopyExact /\ UNCHANGED clusterVars
    BY <1>2 DEF AddFinalizer, Idle, OwnedInv, clusterVars
  <2> HIDE DEF e
  <2>3. /\ Owned(cr) => Owned(cr')
        /\ cache' = cache
        /\ (cr' = cr /\ fresh' = fresh) \/ fresh' = AllStale
        /\ ok => cr' = e
    BY <2>1, <2>2, WriteKeepsOwned
  <2>4. CASE ~ok
    BY <2>2, <2>3, <2>4, <1>t, ReturnKeepsOwned DEF Return
  <2>5. CASE ok
    <3>1. pc' = "re-get" /\ cr' = e
      BY <2>3, <2>5 DEF Goto
    <3>2. fresh.env /\ fresh' = AllStale
      BY <2>5 DEF Write, Commit
    <3>3. Owned(cr')
      BY <2>1, <2>2, <3>1, <3>2 DEF CopyExact, Same, Owned
    <3>4. RunKnown' /\ CopyExact' /\ DeletionKnown' /\ NamespaceGoes' /\ CacheExact'
      BY <3>1, <3>2, <3>3
         DEF RunKnown, CopyExact, DeletionKnown, NamespaceGoes, CacheExact, AllStale
    <3>5. ViewsExact' /\ OwnedNamespace' /\ CacheKnown'
      BY <2>2, <3>3 DEF OwnedInv, ViewsExact, OwnedNamespace, CacheKnown, Owned, clusterVars
    <3> QED
      BY <3>4, <3>5, <1>t DEF OwnedInv
  <2> QED
    BY <2>4, <2>5
<1>3. CASE ReGet
  <2>1. cr' = cr /\ cache' = cache /\ UNCHANGED clusterVars /\ Owned(cr)
    BY <1>3 DEF ReGet, Idle, OwnedInv, RunKnown
  <2>2. fresh'.cache = fresh.cache /\ (fresh'.env => fresh.cache /\ cache.there)
    BY <1>3, <1>t DEF ReGet, TypeOK
  <2>3. ViewsExact' /\ OwnedNamespace' /\ CacheKnown' /\ CacheExact' /\ RunKnown'
    BY <2>1, <2>2 DEF OwnedInv, clusterVars, ViewsExact, OwnedNamespace, CacheKnown,
                      CacheExact, RunKnown, Owned
  <2>4. /\ pc' \in {"idle", "namespace", "exp-route"}
        /\ pc' # "idle" => Same(env', cache) /\ cache.there
    BY <1>3, <1>e, DispatchCopies DEF ReGet, Return
  <2>5. CopyExact' /\ DeletionKnown' /\ NamespaceGoes'
    BY <2>1, <2>2, <2>4 DEF OwnedInv, CacheExact, CopyExact, DeletionKnown,
                            NamespaceGoes, Same
  <2> QED
    BY <2>3, <2>5, <1>t DEF OwnedInv
<1>4. CASE EnsureNamespace
  <2>1. pc = "namespace" /\ Owned(cr) /\ UNCHANGED crVars
    BY <1>4 DEF EnsureNamespace, Idle, OwnedInv, RunKnown, crVars
  <2>2. ViewsExact'
    BY <1>4, <1>v DEF EnsureNamespace, Views, ViewsExact, clusterVars
  <2> QED
    BY <1>4, <1>o, <2>1, <2>2 DEF EnsureNamespace
<1>c. ASSUME NEW o \in Objects, NEW step \in Provision \cup Setup, pc \in Setup \cup Provision,
             \E ok \in BOOLEAN : CreateOrUpdate(o, ok) /\ OkOrFail(ok, step),
             UNCHANGED crVars
      PROVE  OwnedInv'
  BY <1>c, <1>o, <1>v, ObjectCalls
<1>5. CASE EnsureDeveloperAccessRBAC
  BY <1>5, <1>c DEF EnsureDeveloperAccessRBAC, Idle, Objects, InNamespace, crVars
<1>m. ASSUME pc \in Setup \cup Provision, pc' \in Provision \cup {"save-retry"},
             Same(env', env), UNCHANGED <<crVars, ns, objs, nsSeen, objsSeen>>
      PROVE  OwnedInv'
  <2>1. UNCHANGED crVars /\ ViewsExact' /\ ns' = ns
    BY <1>m, <1>v DEF ViewsExact, crVars
  <2> QED
    BY <1>m, <1>t, <2>1, MoveKeepsOwned
<1>6. CASE EnsureNetworkPolicy
  <2>1. CASE Isolated
    BY <1>6, <2>1, <1>c DEF EnsureNetworkPolicy, Idle, Objects, InNamespace, crVars
  <2>2. CASE ~Isolated
    BY <1>6, <2>2, <1>f, <1>k, <1>m DEF EnsureNetworkPolicy, Idle, Goto, crVars, clusterVars
  <2> QED
    BY <2>1, <2>2
<1>a. {AfterGrant, AfterDeploy, AfterAdmin} \subseteq Provision
  BY DEF AfterGrant, AfterDeploy, AfterAdmin
<1>7. CASE EnsureReferenceGrant
  BY <1>7, <1>a, <1>c DEF EnsureReferenceGrant, Idle, Objects, InNamespace, crVars
<1>8. CASE CheckInstalled
  <2>1. Same(env', env) /\ pc' \in Provision
    BY <1>8, <1>a, <1>f, <1>k DEF CheckInstalled, Goto
  <2> QED
    BY <1>8, <1>m, <2>1 DEF CheckInstalled, Idle, clusterVars, crVars
<1>9. CASE StartInstall
  <2>1. Same(env', env) /\ pc' \in Provision \cup {"save-retry"}
    BY <1>9, <1>f, <1>k DEF StartInstall, Goto, Fail
  <2> QED
    BY <1>9, <1>m, <2>1 DEF StartInstall, Idle, crVars
<1>10. CASE FinishInstall
  <2>1. Same(env', env) /\ pc' \in Provision \cup {"save-retry"}
    BY <1>10, <1>a, <1>f, <1>k DEF FinishInstall, Goto, Fail
  <2> QED
    BY <1>10, <1>m, <2>1 DEF FinishInstall, Idle, crVars
<1>11. CASE DiscoverService
  BY <1>11, <1>f, <1>m DEF DiscoverService, Goto, Idle, clusterVars, crVars, Same
<1>12. CASE EnsureHTTPRoute
  BY <1>12, <1>c DEF EnsureHTTPRoute, Idle, Objects, Routes, crVars
<1>13. CASE EnsureAdminHTTPRoute
  <2>1. ViewsExact' /\ ns' = ns
    BY <1>13, <1>v, ObjectCalls
       DEF EnsureAdminHTTPRoute, Objects, Routes, ViewsExact, clusterVars
  <2>2. UNCHANGED crVars /\ Same(env', env) /\ pc = "admin" /\ pc' \in Provision
    BY <1>13, <1>a, <1>f, <1>k DEF EnsureAdminHTTPRoute, Idle, Goto, crVars
  <2> QED
    BY <1>t, <2>1, <2>2, MoveKeepsOwned
<1>w. ASSUME NEW ok \in BOOLEAN, NEW moved \in BOOLEAN, NEW e, pc # "idle",
             e.there = env.there, e.deleting = env.deleting, env.finalizer => e.finalizer,
             Write(e, moved, ok), pc' = "idle", UNCHANGED clusterVars
      PROVE  OwnedInv'
  <2>1. CopyExact
    BY DEF OwnedInv
  <2> QED
    BY <1>w, <1>t, <2>1, WriteKeepsOwned, ReturnKeepsOwned
<1>14. CASE Activate
  <2> DEFINE e == [env EXCEPT !.phase = "Active"]
  <2>1. e.there = env.there /\ e.deleting = env.deleting /\ env.finalizer = e.finalizer
    BY <1>e DEF CRs
  <2>2. PICK ok \in BOOLEAN, moved \in BOOLEAN : Write(e, moved, ok)
    BY <1>14 DEF Activate
  <2>3. pc # "idle" /\ pc' = "idle" /\ UNCHANGED clusterVars
    BY <1>14 DEF Activate, Return
  <2> HIDE DEF e
  <2> QED
    BY <1>w, <2>1, <2>2, <2>3
<1>15. CASE SaveAndRetry
  BY <1>15, <1>w DEF SaveAndRetry, Return, Idle, clusterVars
<1>16. CASE SaveExpired
  BY <1>16, <1>w DEF SaveExpired, Return, Idle, clusterVars
<1>d. ASSUME NEW at \in Expiring \cup Deleting, NEW then \in Expiring \cup Deleting,
             then # "drop", then \in Deleting => at \in Deleting,
             CleanupHTTPRoute(at, then) \/ UninstallHelmRelease(at, then)
      PROVE  OwnedInv'
  <2>1. ViewsExact' /\ ns' = ns
    BY <1>d, <1>v, ObjectCalls DEF CleanupHTTPRoute, UninstallHelmRelease, Idle,
       Objects, Routes, ViewsExact
  <2>2. UNCHANGED crVars /\ Same(env', env) /\ pc = at /\ pc' = then
    BY <1>d, <1>f, <1>k DEF CleanupHTTPRoute, UninstallHelmRelease, Idle, Goto, crVars
  <2> QED
    BY <1>d, <1>t, <2>1, <2>2, MoveKeepsOwned
<1>17. CASE \/ CleanupHTTPRoute("exp-route", "exp-helm")
            \/ CleanupHTTPRoute("del-route", "del-helm")
            \/ UninstallHelmRelease("exp-helm", "exp-namespace")
            \/ UninstallHelmRelease("del-helm", "del-namespace")
  BY <1>17, <1>d
<1>18. CASE CleanupAdminHTTPRoute
  <2>1. ViewsExact' /\ ns' = ns
    BY <1>18, <1>v, ObjectCalls DEF CleanupAdminHTTPRoute, Objects, Routes
  <2>2. UNCHANGED crVars /\ Same(env', env) /\ pc = "del-admin" /\ pc' = "del-route"
    BY <1>18, <1>f, <1>k DEF CleanupAdminHTTPRoute, Idle, Goto, crVars
  <2> QED
    BY <1>t, <2>1, <2>2, MoveKeepsOwned
<1>19. CASE ExpireNamespace
  <2>1. ViewsExact' /\ (ns' = "active" => ns = "active")
    BY <1>19, <1>v, NamespaceCalls DEF ExpireNamespace
  <2>2. /\ UNCHANGED crVars /\ Same(env', env) /\ pc = "exp-namespace"
        /\ pc' \in {"exp-save", "save-retry"}
    BY <1>19, <1>f, <1>k DEF ExpireNamespace, Idle, Goto, crVars
  <2> QED
    BY <1>t, <2>1, <2>2, MoveKeepsOwned
<1>20. CASE DropNamespace
  <2> PICK ok \in BOOLEAN :
        /\ DeleteNamespace(ok)
        /\ IF ok THEN Goto("drop") /\ UNCHANGED <<env, queued>> ELSE Return(TRUE)
    BY <1>20 DEF DropNamespace
  <2>1. ViewsExact' /\ (ns' = "active" => ns = "active") /\ (ok => ns' # "active")
    BY <1>v, NamespaceCalls
  <2>2. pc = "del-namespace" /\ UNCHANGED crVars
    BY <1>20 DEF DropNamespace, Idle, crVars
  <2>3. CASE ok
    BY <1>t, <1>k, <2>1, <2>2, <2>3, MoveKeepsOwned DEF Goto
  <2>4. CASE ~ok
    <3>1. pc' = "idle" /\ cr' = cr /\ cache' = cache /\ fresh' = fresh
      BY <2>2, <2>4 DEF Return, crVars
    <3> QED
      BY <1>t, <2>1, <3>1 DEF OwnedInv, CacheKnown, CacheExact, RunKnown, CopyExact,
         DeletionKnown, NamespaceGoes, OwnedNamespace, Owned
  <2> QED
    BY <2>3, <2>4
<1>21. CASE RemoveFinalizer
  <2>1. /\ pc = "drop" /\ pc' = "idle" /\ ns # "active" /\ UNCHANGED clusterVars
        /\ cache' = cache
    BY <1>21 DEF RemoveFinalizer, Return, Idle, OwnedInv, NamespaceGoes, Write, Commit,
                 crVars, clusterVars
  <2>2. \/ cr' = cr /\ fresh' = fresh
        \/ cr' = NoCR /\ fresh' = AllStale /\ fresh.env
    BY <1>21 DEF RemoveFinalizer, Write, Commit, crVars
  <2>3. CASE cr' = cr /\ fresh' = fresh
    BY <1>t, <2>1, <2>3, ReturnKeepsOwned
  <2>4. CASE cr' = NoCR /\ fresh' = AllStale /\ fresh.env
    <3>1. cache.deleting
      BY <2>1, <2>4 DEF OwnedInv, DeletionKnown
    <3>2. CacheKnown' /\ CacheExact'
      BY <2>1, <2>4, <3>1 DEF CacheKnown, CacheExact, AllStale
    <3>3. ViewsExact' /\ OwnedNamespace'
      BY <2>1, <1>v DEF ViewsExact, OwnedNamespace, clusterVars
    <3> QED
      BY <1>t, <2>1, <3>2, <3>3
         DEF OwnedInv, RunKnown, CopyExact, DeletionKnown, NamespaceGoes
  <2> QED
    BY <2>2, <2>3, <2>4
<1>u. ASSUME UNCHANGED <<runVars, clusterVars>>, cache' = cache, fresh' = AllStale,
             Owned(cr) => Owned(cr')
      PROVE  OwnedInv'
  BY <1>u, <1>t DEF OwnedInv, runVars, clusterVars, AllStale, ViewsExact, CacheKnown,
     CacheExact, RunKnown, CopyExact, DeletionKnown, NamespaceGoes, OwnedNamespace, Owned
<1>22. CASE CreateEnv
  BY <1>22, <1>u DEF CreateEnv, Idle, Owned, runVars, clusterVars
<1>23. CASE DeleteEnv
  <2>1. Owned(cr) => Owned(cr')
    BY <1>23, <1>e DEF DeleteEnv, Owned, CRs
  <2> QED
    BY <1>23, <1>u, <2>1 DEF DeleteEnv, Idle, runVars, clusterVars
<1>24. CASE ExtendRead
  <2>1. fresh'.cache = fresh.cache /\ fresh'.env = fresh.env
    BY <1>24, <1>t DEF ExtendRead, TypeOK
  <2> QED
    BY <1>24, <1>t, <2>1 DEF ExtendRead, OwnedInv, runVars, clusterVars, ViewsExact,
       CacheKnown, CacheExact, RunKnown, CopyExact, DeletionKnown, NamespaceGoes,
       OwnedNamespace, Owned, Same
<1>25. CASE ExtendSave
  <2>1. UNCHANGED <<runVars, clusterVars>>
    BY <1>25 DEF ExtendSave
  <2>2. CASE UNCHANGED crVars
    BY <1>t, <2>1, <2>2 DEF crVars, OwnedInv, runVars, clusterVars, ViewsExact,
       CacheKnown, CacheExact, RunKnown, CopyExact, DeletionKnown, NamespaceGoes,
       OwnedNamespace, Owned, Same
  <2>3. CASE ~UNCHANGED crVars
    <3>1. PICK d \in Durations : cr' = [cr EXCEPT !.exp = Extended(d)]
      BY <1>25, <2>3 DEF ExtendSave
    <3>2. Owned(cr) => Owned(cr')
      BY <3>1, <1>e DEF Owned, CRs
    <3>3. fresh' = AllStale /\ cache' = cache
      BY <1>25, <2>3 DEF ExtendSave
    <3> QED
      BY <1>u, <2>1, <3>2, <3>3
  <2> QED
    BY <2>2, <2>3
<1>26. CASE SyncCache
  <2>1. /\ cache' = cr /\ cr' = cr /\ fresh'.env = fresh.env
        /\ UNCHANGED <<runVars, clusterVars>>
    BY <1>26, <1>t DEF SyncCache, Idle, TypeOK, runVars, clusterVars
  <2>2. DeletionKnown'
    BY <2>1 DEF OwnedInv, DeletionKnown, CopyExact, Same, runVars
  <2> QED
    BY <1>t, <2>1, <2>2 DEF OwnedInv, runVars, clusterVars, ViewsExact,
       CacheKnown, CacheExact, RunKnown, CopyExact, NamespaceGoes,
       OwnedNamespace, Owned, Same
<1>x. ASSUME UNCHANGED <<crVars, runVars>>, ViewsExact', ns' = "active" => ns = "active"
      PROVE  OwnedInv'
  BY <1>x, <1>t DEF crVars, runVars, OwnedInv, CacheKnown, CacheExact, RunKnown,
     CopyExact, DeletionKnown, NamespaceGoes, OwnedNamespace, Owned, Same
<1>27. CASE Informers
  BY <1>27, <1>x, <1>v
     DEF Informers, SyncNamespace, SyncObject, Idle, ViewsExact, crVars, runVars
<1>28. CASE FireTimer \/ Tick
  BY <1>28, <1>x, <1>v DEF FireTimer, Tick, ViewsExact, clusterVars, crVars, runVars
<1>29. CASE NamespaceGone
  BY <1>29, <1>x, <1>v DEF NamespaceGone, Idle, Views, ViewsExact, crVars, runVars
<1>30. CASE Restart
  <2>1. cache' = cr /\ cr' = cr /\ pc' = "idle" /\ ns' = ns /\ ViewsExact'
    BY <1>30 DEF Restart, ViewsExact
  <2> QED
    BY <1>t, <2>1 DEF OwnedInv, CacheKnown, CacheExact, RunKnown,
       CopyExact, DeletionKnown, NamespaceGoes, OwnedNamespace, Owned
<1>31. CASE UNCHANGED vars
  BY <1>31, <1>x, <1>v DEF vars, crVars, runVars, ViewsExact
<1> QED
  BY <1>1, <1>2, <1>3, <1>4, <1>5, <1>6, <1>7, <1>8, <1>9, <1>10, <1>11, <1>12, <1>13,
     <1>14, <1>15, <1>16, <1>17, <1>18, <1>19, <1>20, <1>21, <1>22, <1>23, <1>24, <1>25,
     <1>26, <1>27, <1>28, <1>29, <1>30, <1>31
     DEF Next, Reconcile, ProvisionStep, TeardownStep, Users

(* In the initial states there is neither a resource nor a namespace.      *)
LEMMA InitOwned == Init => OwnedInv
<1> SUFFICES ASSUME Init PROVE OwnedInv
  OBVIOUS
<1>1. TypeOK
  BY InitTypeOK
<1> QED
  BY <1>1 DEF Init, OwnedInv, ViewsExact, CacheKnown, CacheExact, RunKnown, CopyExact,
     DeletionKnown, NamespaceGoes, OwnedNamespace, Owned, NoCR, Setup, Provision, Deleting

(* While the caches of namespaces and policies do not lag, a live          *)
(* namespace always has a stored resource whose finalizer makes the        *)
(* operator clean it up, however late the cache of the resource is and     *)
(* whenever calls fail, users act and the operator restarts.               *)
THEOREM NamespaceOwned ==
  ASSUME ~LaggingViews PROVE Spec => []OwnedNamespace
<1>1. Init => OwnedInv
  BY InitOwned
<1>2. OwnedInv /\ [Next]_vars => OwnedInv'
  BY OwnedStep
<1>3. OwnedInv => OwnedNamespace
  BY DEF OwnedInv
<1> QED
  BY <1>1, <1>2, <1>3, PTL DEF Spec

-----------------------------------------------------------------------------
(* Isolated workload *)

(* Steps that create no namespace, install nothing and keep the policy     *)
(* keep the invariant, wherever the run was past the policy already.       *)
LEMMA QuietKeepsIsolated ==
  ASSUME IsolatedInv, TypeOK', ViewsExact',
         ns' = "active" => ns = "active",
         ns' = "absent" => ns = "absent" \/ release' = "none",
         release' = release \/ release' = "none",
         ns' = "active" /\ "policy" \in objs => "policy" \in objs',
         pc' \in Provision => pc \in Provision,
         pc' = "installing" => ns' = "active"
  PROVE  IsolatedInv'
BY DEF IsolatedInv, PolicyFirst, EmptyStart, Installing, IsolatedWorkload

(* Every step keeps the inductive invariant of isolation. *)
LEMMA IsolatedStep ==
  ASSUME ~LaggingViews, IsolatedInv, [Next]_vars PROVE IsolatedInv'
<1>t. TypeOK /\ TypeOK'
  BY TypeStep DEF IsolatedInv
<1>v. ViewsExact
  BY DEF IsolatedInv
<1> USE DEF Setup, Provision, Expiring, Deleting
<1>a. {AfterGrant, AfterDeploy, AfterAdmin} \subseteq Provision
  BY DEF AfterGrant, AfterDeploy, AfterAdmin
<1>s. ASSUME UNCHANGED clusterVars, pc' \in Provision => pc \in Provision,
             pc' = "installing" => pc = "installing"
      PROVE  IsolatedInv'
  <2>1. ViewsExact' /\ ns' = ns /\ release' = release /\ objs' = objs
    BY <1>s, <1>v DEF ViewsExact, clusterVars
  <2> QED
    BY <1>s, <1>t, <2>1, QuietKeepsIsolated DEF IsolatedInv, EmptyStart, Installing
<1>d. ASSUME NEW e \in CRs, Dispatch(e) PROVE pc' \notin Provision
  BY <1>d, DispatchCopies
<1>1. CASE Begin \/ AddFinalizer \/ ReGet
  <2>1. pc' \notin Provision
    BY <1>1, <1>t, <1>d DEF Begin, AddFinalizer, ReGet, Return, Goto, TypeOK
  <2>2. UNCHANGED clusterVars
    BY <1>1 DEF Begin, AddFinalizer, ReGet, Idle, clusterVars
  <2> QED
    BY <1>s, <2>1, <2>2
<1>2. CASE EnsureNamespace
  <2>1. pc' \notin Provision
    BY <1>2 DEF EnsureNamespace, OkOrFail, Goto, Fail
  <2>2. CASE UNCHANGED clusterVars
    BY <1>s, <2>1, <2>2
  <2>3. CASE ~UNCHANGED clusterVars
    <3>1. ns = "absent" /\ ns' = "active" /\ release' = release /\ ViewsExact'
      BY <1>2, <1>v, <2>3 DEF EnsureNamespace, Views, ViewsExact, clusterVars
    <3> QED
      BY <1>t, <2>1, <3>1
         DEF IsolatedInv, PolicyFirst, EmptyStart, Installing, IsolatedWorkload
  <2> QED
    BY <2>2, <2>3
<1>o. ASSUME NEW o \in Objects,
             \/ DeleteObject(o) /\ o \in Routes
             \/ \E ok \in BOOLEAN : CreateOrUpdate(o, ok),
             pc' \in Provision => pc \in Provision,
             pc' = "installing" => pc = "installing"
      PROVE  IsolatedInv'
  <2>1. /\ ViewsExact' /\ ns' = ns /\ release' = release
        /\ "policy" \in objs => "policy" \in objs'
    BY <1>o, <1>v, ObjectCalls
  <2> QED
    BY <1>o, <1>t, <2>1, QuietKeepsIsolated DEF IsolatedInv, EmptyStart, Installing
<1>3. CASE EnsureDeveloperAccessRBAC
  <2>1. pc' \notin Provision
    BY <1>3 DEF EnsureDeveloperAccessRBAC, OkOrFail, Goto, Fail
  <2> QED
    BY <1>3, <1>o, <2>1 DEF EnsureDeveloperAccessRBAC, Objects, InNamespace
<1>4. CASE EnsureNetworkPolicy
  <2>p. pc' # "installing"
    BY <1>4 DEF EnsureNetworkPolicy, OkOrFail, Goto, Fail
  <2>1. CASE ~Isolated
    <3>1. UNCHANGED clusterVars
      BY <1>4, <2>1 DEF EnsureNetworkPolicy, clusterVars
    <3> QED
      BY <1>t, <1>v, <2>p, <2>1, <3>1 DEF clusterVars, IsolatedInv, ViewsExact,
         PolicyFirst, EmptyStart, Installing, IsolatedWorkload
  <2>2. CASE Isolated
    <3> PICK ok \in BOOLEAN : CreateOrUpdate("policy", ok) /\ OkOrFail(ok, "grant")
      BY <1>4, <2>2 DEF EnsureNetworkPolicy
    <3>1. /\ ViewsExact' /\ ns' = ns /\ release' = release
          /\ "policy" \in objs => "policy" \in objs'
      BY <1>v, ObjectCalls DEF Objects, InNamespace
    <3>2. ok => "policy" \in objs'
      BY <1>v DEF CreateOrUpdate, Put, ViewsExact, clusterVars
    <3>3. ~ok => pc' \notin Provision
      BY DEF OkOrFail, Fail
    <3> QED
      BY <1>t, <2>p, <3>1, <3>2, <3>3
         DEF IsolatedInv, PolicyFirst, EmptyStart, Installing, IsolatedWorkload
  <2> QED
    BY <2>1, <2>2
<1>5. CASE EnsureReferenceGrant
  <2>1. pc = "grant" /\ pc' # "installing"
    BY <1>5 DEF EnsureReferenceGrant, OkOrFail, Goto, Fail, AfterGrant
  <2> QED
    BY <1>5, <1>o, <2>1 DEF EnsureReferenceGrant, Objects, InNamespace
<1>6. CASE CheckInstalled \/ DiscoverService
  <2>1. pc \in Provision /\ pc' # "installing"
    BY <1>6 DEF CheckInstalled, DiscoverService, Goto, AfterDeploy
  <2> QED
    BY <1>6, <1>s, <2>1 DEF CheckInstalled, DiscoverService, Idle, clusterVars
<1>i. ASSUME pc \in Provision, UNCHANGED <<ns, objs, nsSeen, objsSeen>>, ns = "active",
             pc' \in Provision \cup {"save-retry"}
      PROVE  IsolatedInv'
  BY <1>i, <1>t, <1>v
     DEF IsolatedInv, ViewsExact, PolicyFirst, EmptyStart, Installing, IsolatedWorkload
<1>7. CASE StartInstall
  <2>1. CASE release' = release /\ pc' = "save-retry"
    BY <1>7, <1>s, <2>1 DEF StartInstall, Idle, clusterVars
  <2>2. CASE ~(release' = release /\ pc' = "save-retry")
    BY <1>7, <1>i, <2>2 DEF StartInstall, Idle, Goto, Fail
  <2> QED
    BY <2>1, <2>2
<1>8. CASE FinishInstall
  <2>1. pc = "installing" /\ ns = "active" /\ pc' \in Provision \cup {"save-retry"}
    BY <1>8, <1>a DEF FinishInstall, Goto, Fail, IsolatedInv, Installing
  <2> QED
    BY <1>8, <1>i, <2>1 DEF FinishInstall, Idle
<1>9. CASE EnsureHTTPRoute
  <2>1. pc = "route" /\ pc' # "installing"
    BY <1>9 DEF EnsureHTTPRoute, OkOrFail, Goto, Fail
  <2> QED
    BY <1>9, <1>o, <2>1 DEF EnsureHTTPRoute, Objects, Routes
<1>10. CASE EnsureAdminHTTPRoute
  <2>1. pc = "admin" /\ pc' # "installing"
    BY <1>10 DEF EnsureAdminHTTPRoute, Goto, AfterAdmin
  <2>2. \/ UNCHANGED clusterVars
        \/ \E ok \in BOOLEAN : CreateOrUpdate("admin", ok)
    BY <1>10 DEF EnsureAdminHTTPRoute, clusterVars
  <2> QED
    BY <1>o, <1>s, <2>1, <2>2 DEF Objects, Routes
<1>11. CASE Activate \/ SaveAndRetry \/ SaveExpired \/ RemoveFinalizer
  <2>1. pc' = "idle" /\ UNCHANGED clusterVars
    BY <1>11 DEF Activate, SaveAndRetry, SaveExpired, RemoveFinalizer, Return, Idle,
                 clusterVars
  <2> QED
    BY <1>s, <2>1
<1>12. CASE \/ CleanupHTTPRoute("exp-route", "exp-helm")
            \/ CleanupHTTPRoute("del-route", "del-helm")
            \/ CleanupAdminHTTPRoute
  <2>1. pc' \notin Provision
    BY <1>12 DEF CleanupHTTPRoute, CleanupAdminHTTPRoute, Goto
  <2> QED
    BY <1>12, <1>o, <2>1 DEF CleanupHTTPRoute, CleanupAdminHTTPRoute, Objects, Routes
<1>13. CASE \/ UninstallHelmRelease("exp-helm", "exp-namespace")
            \/ UninstallHelmRelease("del-helm", "del-namespace")
  <2>1. /\ pc' \notin Provision /\ UNCHANGED <<ns, objs>> /\ ViewsExact'
        /\ release' = release \/ release' = "none"
    BY <1>13, <1>v DEF UninstallHelmRelease, Goto, Idle, ViewsExact
  <2> QED
    BY <1>t, <2>1, QuietKeepsIsolated
<1>14. CASE ExpireNamespace \/ DropNamespace
  <2>1. PICK ok \in BOOLEAN : DeleteNamespace(ok)
    BY <1>14 DEF ExpireNamespace, DropNamespace
  <2>2. pc' \notin Provision
    BY <1>14 DEF ExpireNamespace, DropNamespace, Goto, Return
  <2>3. /\ ViewsExact' /\ release' = release /\ objs' = objs
        /\ ns' = ns \/ (ns = "active" /\ ns' = "terminating")
    BY <1>v, <2>1, NamespaceCalls
  <2> QED
    BY <1>t, <2>2, <2>3, QuietKeepsIsolated
<1>15. CASE Users \/ SyncCache \/ FireTimer \/ Tick
  BY <1>15, <1>s DEF Users, CreateEnv, DeleteEnv, ExtendRead, ExtendSave, SyncCache,
     FireTimer, Tick, Idle, runVars, clusterVars
<1>16. CASE Informers
  BY <1>16, <1>v DEF Informers, SyncNamespace, SyncObject, ViewsExact
<1>17. CASE NamespaceGone
  <2>1. /\ ns = "terminating" /\ ns' = "absent" /\ release' = "none" /\ pc' = pc
        /\ ViewsExact'
    BY <1>17 DEF NamespaceGone, Views, ViewsExact, Idle, runVars
  <2>2. pc' # "installing"
    BY <2>1 DEF IsolatedInv, Installing
  <2> QED
    BY <1>t, <2>1, <2>2, QuietKeepsIsolated
<1>18. CASE Restart
  <2>1. pc' = "idle" /\ ViewsExact' /\ UNCHANGED <<ns, objs, release>>
    BY <1>18 DEF Restart, ViewsExact
  <2> QED
    BY <1>t, <2>1, QuietKeepsIsolated
<1>19. CASE UNCHANGED vars
  BY <1>19, <1>s DEF vars, clusterVars
<1> QED
  BY <1>1, <1>2, <1>3, <1>4, <1>5, <1>6, <1>7, <1>8, <1>9, <1>10, <1>11, <1>12, <1>13,
     <1>14, <1>15, <1>16, <1>17, <1>18, <1>19
     DEF Next, Reconcile, ProvisionStep, TeardownStep

(* While the caches do not lag, no release record exists in a live         *)
(* namespace of an isolated environment without the deny-all policy, also  *)
(* when the namespace is torn down and provisioned again.                  *)
THEOREM WorkloadIsolated ==
  ASSUME ~LaggingViews PROVE Spec => []IsolatedWorkload
<1>1. Init => IsolatedInv
  BY InitTypeOK DEF Init, IsolatedInv, ViewsExact, PolicyFirst, EmptyStart, Installing,
                    IsolatedWorkload
<1>2. IsolatedInv /\ [Next]_vars => IsolatedInv'
  BY IsolatedStep
<1>3. IsolatedInv => IsolatedWorkload
  BY DEF IsolatedInv
<1> QED
  BY <1>1, <1>2, <1>3, PTL DEF Spec

=============================================================================
