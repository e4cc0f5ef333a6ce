---------------------------- MODULE EnvRuns_proofs ----------------------------
(* Proofs about what a run of the reconciler in EnvLifecycle knows: of the *)
(* resource it has a copy of, of the time, and of the objects it has made. *)
EXTENDS EnvLifecycle_proofs

-----------------------------------------------------------------------------
(* What a copy that could be written says of the stored resource *)

(* A run works on a copy read some calls ago.  While the copy is fresh it  *)
(* agrees with the stored resource, but for what the run itself decides:   *)
(* the phase, and the expiration when none was stored.  These invariants   *)
(* hold however much the caches lag.                                       *)
Shaped        == (~cr.there => ~cr.finalizer) /\ (cr.deleting => Owned(cr))
CopyKept      == fresh.env /\ pc # "idle" =>
                   /\ cr.there /\ Same(env, cr)
                   /\ cr.exp # Unset => env.exp = cr.exp
                   /\ env.phase = "Active" => cr.phase = "Active"
PastDispatch  == pc \in Setup \cup Provision \cup Expiring \cup {"save-retry"}
DeadlineKnown == fresh.env /\ PastDispatch => env.exp = Deadline
ExpiredKnown  == pc \in Expiring => clock > env.exp
DeletingKnown == pc \in Deleting => env.deleting

CopyInv == TypeOK /\ CacheExact /\ Shaped /\ CopyKept /\ DeadlineKnown /\ ExpiredKnown
             /\ DeletingKnown

(* What a run may do to its copy after the entry of Reconcile. *)
Kept(r, s) == Same(r, s) /\ r.exp = s.exp /\ (r.phase = "Active" => s.phase = "Active")

(* A write either leaves the resource and the copies alone, or it went     *)
(* through a fresh copy and makes every copy stale.                        *)
LEMMA WriteEffect ==
  ASSUME NEW e, NEW moved \in BOOLEAN, NEW ok \in BOOLEAN, Write(e, moved, ok)
  PROVE  /\ cache' = cache
         /\ \/ cr' = cr /\ fresh' = fresh
            \/ fresh.env /\ cr' = e /\ fresh' = AllStale
BY DEF Write, Commit, crVars

(* Dispatch takes over the copy and completes its expiration; it chooses   *)
(* the teardown only when that has passed.                                 *)
LEMMA DispatchKnows ==
  ASSUME NEW e \in CRs, clock \in Nat, Dispatch(e)
  PROVE  /\ Same(env', e)
         /\ env'.exp = IF e.exp = Unset THEN ExpirationOf(e) ELSE e.exp
         /\ env'.phase = "Active" => e.phase = "Active"
         /\ pc' \in {"namespace", "exp-route"}
         /\ pc' = "exp-route" => clock > env'.exp
<1> DEFINE i == Initialised(e)
<1>x. ExpirationOf(e) \in Int
  BY TimeAssumption DEF ExpirationOf, CRs
<1>1. /\ Same(i, e) /\ (i.phase = "Active" => e.phase = "Active")
      /\ i.exp = IF e.exp = Unset THEN ExpirationOf(e) ELSE e.exp
  <2>1. Same(i, e)
    BY DEF Initialised, Same, CRs
  <2>2. i.phase = "Active" => e.phase = "Active"
    BY DEF Initialised, CRs
  <2>3. i.exp = IF e.exp = Unset THEN ExpirationOf(e) ELSE e.exp
    BY <1>x DEF Initialised, CRs
  <2> QED
    BY <2>1, <2>2, <2>3
<1>2. i \in CRs
  BY InitialisedType
<1>3. Same(MarkExpired(i), i) /\ MarkExpired(i).exp = i.exp /\ MarkExpired(i).phase = "Expired"
  BY <1>2 DEF MarkExpired, Same, CRs
<1>4. \/ env' = MarkExpired(i) /\ pc' = "exp-route" /\ clock > i.exp
      \/ env' = i /\ pc' = "namespace"
  BY DEF Dispatch, IsExpired
<1> HIDE DEF i
<1> QED
  BY <1>1, <1>3, <1>4 DEF Same

(* A resource that is gone has no finalizer and is not being deleted. *)
LEMMA NoCRShaped == ~NoCR.there /\ ~NoCR.finalizer /\ ~NoCR.deleting
BY DEF NoCR

(* A step inside a run keeps what the run knows. *)
LEMMA MoveKeepsCopies ==
  ASSUME CopyInv, TypeOK', UNCHANGED crVars, Kept(env', env), clock' = clock, pc # "idle",
         PastDispatch' => PastDispatch,
         pc' \in Expiring => pc \in Expiring,
         pc' \in Deleting => pc \in Deleting
  PROVE  CopyInv'
<1>1. cr' = cr /\ cache' = cache /\ fresh' = fresh
  BY DEF crVars
<1>2. CacheExact' /\ Shaped' /\ CopyKept'
  BY <1>1 DEF CopyInv, CacheExact, Shaped, CopyKept, Kept, Same, Owned
<1>3. DeadlineKnown' /\ ExpiredKnown' /\ DeletingKnown'
  BY <1>1 DEF CopyInv, DeadlineKnown, ExpiredKnown, DeletingKnown, Deadline, ExpirationOf,
              Kept, Same
<1> QED
  BY <1>2, <1>3 DEF CopyInv

(* A run that has ended knows nothing. *)
LEMMA ReturnKeepsCopies ==
  ASSUME CopyInv, TypeOK', pc' = "idle", Shaped', CacheExact'
  PROVE  CopyInv'
BY DEF CopyInv, CopyKept, DeadlineKnown, ExpiredKnown, DeletingKnown, PastDispatch, Setup,
       Provision, Expiring, Deleting

(* The same for the writes that end a run. *)
LEMMA WriteKeepsCopies ==
  ASSUME CopyInv, TypeOK', pc # "idle", pc' = "idle", NEW e, Same(e, env),
         NEW moved \in BOOLEAN, NEW ok \in BOOLEAN, Write(e, moved, ok)
  PROVE  CopyInv'
<1>1. /\ cache' = cache
      /\ \/ cr' = cr /\ fresh' = fresh
         \/ fresh.env /\ cr' = e /\ fresh' = AllStale
  BY WriteEffect
<1>2. CacheExact'
  BY <1>1 DEF CopyInv, CacheExact, AllStale
<1>3. Shaped'
  BY <1>1 DEF CopyInv, CopyKept, Shaped, Same, Owned
<1> QED
  BY <1>2, <1>3, ReturnKeepsCopies

(* A step outside a run: what is written elsewhere makes the copies stale, *)
(* and time only grows.                                                    *)
LEMMA OutsideKeepsCopies ==
  ASSUME CopyInv, TypeOK', UNCHANGED runVars, clock' \in {clock, clock + 1},
         Shaped', CacheExact',
         \/ cr' = cr /\ fresh'.env = fresh.env
         \/ fresh' = AllStale
  PROVE  CopyInv'
<1>1. env' = env /\ pc' = pc
  BY DEF runVars
<1>2. CopyKept' /\ DeadlineKnown' /\ DeletingKnown'
  BY <1>1 DEF CopyInv, CopyKept, DeadlineKnown, DeletingKnown, PastDispatch, Deadline,
              ExpirationOf, Same, AllStale
<1>3. env.exp \in Int /\ clock \in Nat
  BY DEF CopyInv, TypeOK, CRs
<1>4. ExpiredKnown'
  BY <1>1, <1>3 DEF CopyInv, ExpiredKnown
<1> QED
  BY <1>2, <1>4 DEF CopyInv

(* A step outside a run that leaves the resource and the clock alone. *)
LEMMA QuietKeepsCopies ==
  ASSUME CopyInv, TypeOK', UNCHANGED <<crVars, runVars>>, clock' \in {clock, clock + 1}
  PROVE  CopyInv'
<1>1. cr' = cr /\ cache' = cache /\ fresh' = fresh /\ UNCHANGED runVars
  BY DEF crVars
<1>2. Shaped' /\ CacheExact'
  BY <1>1 DEF CopyInv, Shaped, CacheExact, Owned
<1> QED
  BY <1>1, <1>2, OutsideKeepsCopies

(* Every step keeps what the runs know of the resource. *)
LEMMA CopyStep == CopyInv /\ [Next]_vars => CopyInv'
<1> SUFFICES ASSUME CopyInv, [Next]_vars PROVE CopyInv'
  OBVIOUS
<1>t. TypeOK /\ TypeOK'
  BY TypeStep DEF CopyInv
<1>e. env \in CRs /\ cache \in CRs /\ cr \in CRs /\ clock \in Nat
  BY <1>t DEF TypeOK
<1> USE DEF Setup, Provision, Expiring, Deleting, PastDispatch
<1>k. /\ UNCHANGED env => Kept(env', env)
      /\ Kept([env EXCEPT !.phase = "Failed"], env)
      /\ Kept([env EXCEPT !.tracked = TRUE], env)
  BY <1>e DEF Kept, Same, CRs
<1>n. {AfterGrant, AfterDeploy, AfterAdmin} \subseteq Provision
  BY DEF AfterGrant, AfterDeploy, AfterAdmin
<1>1. CASE Begin \/ ReGet
  <2>1. UNCHANGED <<cr, cache, clock>>
    BY <1>1 DEF Begin, ReGet, Idle
  <2>2. fresh'.cache = fresh.cache /\ (fresh'.env => fresh.cache /\ cache.there)
    BY <1>1, <1>t DEF Begin, ReGet, TypeOK
  <2>3. Shaped' /\ CacheExact'
    BY <2>1, <2>2 DEF CopyInv, Shaped, CacheExact, Owned
  <2>4. CASE pc' = "idle"
    BY <1>t, <2>3, <2>4, ReturnKeepsCopies
  <2>5. CASE pc' # "idle"
    <3>1. \/ Dispatch(cache)
          \/ env' = cache /\ pc' = "add-finalizer"
          \/ env' = cache /\ pc' = "del-admin" /\ cache.deleting
      BY <1>1, <2>5 DEF Begin, ReGet, Return, Goto
    <3>2. /\ Same(env', cache) /\ (env'.phase = "Active" => cache.phase = "Active")
          /\ cache.exp # Unset => env'.exp = cache.exp
          /\ pc' \in {"namespace", "exp-route", "add-finalizer", "del-admin"}
          /\ pc' \in {"namespace", "exp-route"} =>
               env'.exp = IF cache.exp = Unset THEN ExpirationOf(cache) ELSE cache.exp
          /\ pc' = "exp-route" => clock > env'.exp
          /\ pc' = "del-admin" => cache.deleting
      BY <3>1, <1>e, DispatchKnows DEF Same
    <3>3. CopyKept'
      BY <2>1, <2>2, <3>2 DEF CopyInv, CopyKept, CacheExact, Same
    <3>4. DeadlineKnown'
      BY <2>1, <2>2, <3>2 DEF CopyInv, DeadlineKnown, CacheExact, Deadline, ExpirationOf
    <3>5. ExpiredKnown' /\ DeletingKnown'
      BY <2>1, <3>2 DEF ExpiredKnown, DeletingKnown, Same
    <3> QED
      BY <1>t, <2>3, <3>3, <3>4, <3>5 DEF CopyInv
  <2> QED
    BY <2>4, <2>5
<1>2. CASE AddFinalizer
  <2> DEFINE e == [env EXCEPT !.finalizer = TRUE]
  <2> PICK ok \in BOOLEAN :
        /\ Write(e, TRUE, ok)
        /\ IF ok THEN Goto("re-get") /\ UNCHANGED <<env, queued>> ELSE Return(TRUE)
    BY <1>2 DEF AddFinalizer
  <2>1. e.there = env.there /\ e.deleting = env.deleting /\ e.finalizer
    BY <1>e DEF CRs
  <2>2. pc # "idle"
    BY <1>2 DEF AddFinalizer
  <2> HIDE DEF e
  <2>3. /\ cache' = cache
        /\ \/ cr' = cr /\ fresh' = fresh
           \/ fresh.env /\ cr' = e /\ fresh' = AllStale
    BY WriteEffect
  <2>4. CacheExact' /\ Shaped'
    BY <2>1, <2>2, <2>3 DEF CopyInv, CacheExact, Shaped, CopyKept, Same, Owned, AllStale
  <2>5. CASE ok
    <3>1. pc' = "re-get" /\ fresh' = AllStale
      BY <2>5 DEF Goto, Write, Commit
    <3> QED
      BY <1>t, <2>4, <3>1
         DEF CopyInv, CopyKept, DeadlineKnown, ExpiredKnown, DeletingKnown, AllStale
  <2>6. CASE ~ok
    BY <1>t, <2>4, <2>6, ReturnKeepsCopies DEF Return
  <2> QED
    BY <2>5, <2>6
<1>f. ASSUME NEW ok \in BOOLEAN, NEW step \in Setup \cup Provision, OkOrFail(ok, step),
             pc \in Setup \cup Provision, UNCHANGED <<crVars, clock>>
      PROVE  CopyInv'
  <2>1. Kept(env', env) /\ pc' \in {step, "save-retry"}
    BY <1>f, <1>k DEF OkOrFail, Goto, Fail
  <2> QED
    BY <1>f, <1>t, <2>1, MoveKeepsCopies
<1>3. CASE EnsureNamespace \/ EnsureDeveloperAccessRBAC \/ EnsureReferenceGrant \/ EnsureHTTPRoute
  <2>1. \E ok \in BOOLEAN, step \in Setup \cup Provision : OkOrFail(ok, step)
    BY <1>3, <1>n
       DEF EnsureNamespace, EnsureDeveloperAccessRBAC, EnsureReferenceGrant, EnsureHTTPRoute
  <2>2. pc \in Setup \cup Provision /\ UNCHANGED <<crVars, clock>>
    BY <1>3 DEF EnsureNamespace, EnsureDeveloperAccessRBAC, EnsureReferenceGrant,
       EnsureHTTPRoute, Idle, crVars
  <2> QED
    BY <1>f, <2>1, <2>2
<1>4. CASE EnsureNetworkPolicy
  <2>1. pc = "policy" /\ UNCHANGED <<crVars, clock>>
    BY <1>4 DEF EnsureNetworkPolicy, Idle, crVars
  <2>2. CASE Isolated
    BY <1>4, <1>f, <2>1, <2>2 DEF EnsureNetworkPolicy
  <2>3. CASE ~Isolated
    <3>1. Kept(env', env) /\ pc' = "grant"
      BY <1>4, <1>k, <2>3 DEF EnsureNetworkPolicy, Goto
    <3> QED
      BY <1>t, <2>1, <3>1, MoveKeepsCopies
  <2> QED
    BY <2>2, <2>3
<1>5. CASE CheckInstalled \/ StartInstall \/ FinishInstall \/ DiscoverService
             \/ EnsureAdminHTTPRoute
  <2>1. pc \in Provision /\ UNCHANGED <<crVars, clock>>
    BY <1>5 DEF CheckInstalled, StartInstall, FinishInstall, DiscoverService,
       EnsureAdminHTTPRoute, Idle, crVars
  <2>2. Kept(env', env)
    BY <1>5, <1>k DEF CheckInstalled, StartInstall, FinishInstall, DiscoverService,
       EnsureAdminHTTPRoute, Idle, Fail
  <2>3. pc' \in Provision \cup {"save-retry"}
    BY <1>5, <1>n DEF CheckInstalled, StartInstall, FinishInstall, DiscoverService,
       EnsureAdminHTTPRoute, Goto, Fail
  <2> QED
    BY <1>t, <2>1, <2>2, <2>3, MoveKeepsCopies
<1>6. CASE Activate \/ SaveAndRetry \/ SaveExpired
  <2>1. Same([env EXCEPT !.phase = "Active"], env) /\ Same(env, env)
    BY <1>e DEF Same, CRs
  <2>2. \E ok, moved \in BOOLEAN, e \in {[env EXCEPT !.phase = "Active"], env} :
          Write(e, moved, ok)
    BY <1>6 DEF Activate, SaveAndRetry, SaveExpired
  <2>3. pc # "idle" /\ pc' = "idle"
    BY <1>6 DEF Activate, SaveAndRetry, SaveExpired, Return
  <2> QED
    BY <1>t, <2>1, <2>2, <2>3, WriteKeepsCopies
<1>7. CASE RemoveFinalizer
  <2>1. pc' = "idle" /\ cache' = cache
    BY <1>7, WriteEffect DEF RemoveFinalizer, Return
  <2>2. (cr' = cr /\ fresh' = fresh) \/ (cr' = NoCR /\ fresh' = AllStale)
    BY <1>7, WriteEffect DEF RemoveFinalizer
  <2>3. Shaped'
    BY <2>1, <2>2, NoCRShaped DEF CopyInv, Shaped, Owned
  <2>4. CacheExact'
    BY <2>1, <2>2 DEF CopyInv, CacheExact, AllStale
  <2> QED
    BY <1>t, <2>1, <2>3, <2>4, ReturnKeepsCopies
<1>8. ASSUME NEW at \in Expiring \cup Deleting, NEW then \in Expiring \cup Deleting,
             then \in Expiring => at \in Expiring, then \in Deleting => at \in Deleting,
             CleanupHTTPRoute(at, then) \/ UninstallHelmRelease(at, then)
      PROVE  CopyInv'
  <2>1. UNCHANGED <<crVars, clock>> /\ Kept(env', env) /\ pc = at /\ pc' = then
    BY <1>8, <1>k DEF CleanupHTTPRoute, UninstallHelmRelease, Idle, Goto, crVars
  <2> QED
    BY <1>8, <1>t, <2>1, MoveKeepsCopies
<1>9. CASE \/ CleanupHTTPRoute("exp-route", "exp-helm")
           \/ CleanupHTTPRoute("del-route", "del-helm")
           \/ UninstallHelmRelease("exp-helm", "exp-namespace")
           \/ UninstallHelmRelease("del-helm", "del-namespace")
  BY <1>8, <1>9
<1>10. CASE CleanupAdminHTTPRoute
  <2>1. UNCHANGED <<crVars, clock>> /\ Kept(env', env) /\ pc = "del-admin" /\ pc' = "del-route"
    BY <1>10, <1>k DEF CleanupAdminHTTPRoute, Idle, Goto, crVars
  <2> QED
    BY <1>t, <2>1, MoveKeepsCopies
<1>11. CASE ExpireNamespace
  <2>1. /\ UNCHANGED <<crVars, clock>> /\ Kept(env', env) /\ pc = "exp-namespace"
        /\ pc' \in {"exp-save", "save-retry"}
    BY <1>11, <1>k DEF ExpireNamespace, Idle, Goto, crVars
  <2> QED
    BY <1>t, <2>1, MoveKeepsCopies
<1>12. CASE DropNamespace
  <2>1. UNCHANGED <<crVars, clock>> /\ pc = "del-namespace"
    BY <1>12 DEF DropNamespace, Idle, crVars
  <2>2. (pc' = "drop" /\ Kept(env', env)) \/ pc' = "idle"
    BY <1>12, <1>k DEF DropNamespace, Goto, Return
  <2>3. Shaped' /\ CacheExact'
    BY <2>1 DEF CopyInv, Shaped, CacheExact, Owned, crVars
  <2> QED
    BY <1>t, <2>1, <2>2, <2>3, MoveKeepsCopies, ReturnKeepsCopies
<1>w. fresh' = AllStale => CacheExact'
  BY DEF CacheExact, AllStale
<1>13. CASE CreateEnv
  <2>1. Shaped'
    BY <1>13 DEF CreateEnv, NoCR, Shaped, Owned
  <2>2. UNCHANGED <<runVars, clock>> /\ fresh' = AllStale
    BY <1>13 DEF CreateEnv, Idle, runVars
  <2> QED
    BY <1>t, <1>w, <2>1, <2>2, OutsideKeepsCopies
<1>14. CASE DeleteEnv
  <2>1. Shaped'
    BY <1>14, <1>e DEF DeleteEnv, NoCR, CRs, Shaped, Owned
  <2>2. UNCHANGED <<runVars, clock>> /\ fresh' = AllStale
    BY <1>14 DEF DeleteEnv, Idle, runVars
  <2> QED
    BY <1>t, <1>w, <2>1, <2>2, OutsideKeepsCopies
<1>15. CASE ExtendRead
  <2>1. UNCHANGED <<cr, cache, runVars, clock>>
    BY <1>15 DEF ExtendRead, runVars
  <2>2. fresh'.env = fresh.env /\ fresh'.cache = fresh.cache
    BY <1>15, <1>t DEF ExtendRead, TypeOK
  <2>3. Shaped' /\ CacheExact'
    BY <2>1, <2>2 DEF CopyInv, Shaped, CacheExact, Owned
  <2> QED
    BY <1>t, <2>1, <2>2, <2>3, OutsideKeepsCopies
<1>16. CASE ExtendSave
  <2>1. UNCHANGED <<runVars, clock>>
    BY <1>16 DEF ExtendSave, runVars
  <2>2. CASE UNCHANGED crVars
    BY <1>t, <2>1, <2>2, QuietKeepsCopies
  <2>3. CASE ~UNCHANGED crVars
    <3>1. fresh' = AllStale /\ \E d \in Durations : cr' = [cr EXCEPT !.exp = Extended(d)]
      BY <1>16, <2>3 DEF ExtendSave
    <3>2. Shaped'
      BY <1>e, <3>1 DEF CopyInv, Shaped, Owned, CRs
    <3> QED
      BY <1>t, <1>w, <2>1, <3>1, <3>2, OutsideKeepsCopies
  <2> QED
    BY <2>2, <2>3
<1>17. CASE SyncCache
  <2>1. UNCHANGED <<cr, runVars, clock>> /\ cache' = cr
    BY <1>17 DEF SyncCache, Idle, runVars
  <2>2. fresh'.env = fresh.env
    BY <1>17, <1>t DEF SyncCache, TypeOK
  <2>3. Shaped' /\ CacheExact'
    BY <2>1 DEF CopyInv, Shaped, CacheExact, Owned
  <2> QED
    BY <1>t, <2>1, <2>2, <2>3, OutsideKeepsCopies
<1>18. CASE Informers \/ FireTimer \/ NamespaceGone \/ Tick
  <2>1. UNCHANGED <<crVars, runVars>> /\ clock' \in {clock, clock + 1}
    BY <1>18 DEF Informers, SyncNamespace, SyncObject, FireTimer, NamespaceGone, Tick, Idle,
                 crVars, runVars
  <2> QED
    BY <1>t, <2>1, QuietKeepsCopies
<1>19. CASE Restart
  <2>1. pc' = "idle" /\ cr' = cr /\ cache' = cr
    BY <1>19 DEF Restart
  <2>2. Shaped' /\ CacheExact'
    BY <2>1 DEF CopyInv, Shaped, CacheExact, Owned
  <2> QED
    BY <1>t, <2>1, <2>2, ReturnKeepsCopies
<1>20. CASE UNCHANGED vars
  <2>1. UNCHANGED <<crVars, runVars, clock>>
    BY <1>20 DEF vars, crVars, runVars
  <2> QED
    BY <1>t, <2>1, QuietKeepsCopies
<1> QED
  BY <1>1, <1>2, <1>3, <1>4, <1>5, <1>6, <1>7, <1>9, <1>10, <1>11, <1>12, <1>13, <1>14,
     <1>15, <1>16, <1>17, <1>18, <1>19, <1>20
     DEF Next, Reconcile, ProvisionStep, TeardownStep, Users

(* In the initial states nothing is stored and no run is under way. *)
LEMMA InitCopies == Init => CopyInv
<1> SUFFICES ASSUME Init PROVE CopyInv
  OBVIOUS
<1>1. Shaped
  BY NoCRShaped DEF Init, Shaped, Owned
<1>2. pc = "idle" /\ cache = cr
  BY DEF Init
<1> QED
  BY <1>1, <1>2, InitTypeOK DEF CopyInv, CacheExact, CopyKept, DeadlineKnown, ExpiredKnown,
     DeletingKnown, PastDispatch, Setup, Provision, Expiring, Deleting

-----------------------------------------------------------------------------
(* Who changes what is stored *)

(* The writes of a run, of the dashboard and of users to the resource. *)
Created   == ~cr.there /\ cr' = [NoCR EXCEPT !.there = TRUE, !.created = clock]
Withdrawn == /\ cr.there /\ ~cr.deleting
             /\ cr' = IF cr.finalizer THEN [cr EXCEPT !.deleting = TRUE] ELSE NoCR
Prolonged == /\ ui = "read" /\ ui' = "idle"
             /\ \E d \in Durations : cr' = [cr EXCEPT !.exp = Extended(d)]
Adopted   == fresh.env /\ pc = "add-finalizer" /\ cr' = [env EXCEPT !.finalizer = TRUE]
Activated == fresh.env /\ pc = "activate" /\ cr' = [env EXCEPT !.phase = "Active"]
Saved     == fresh.env /\ pc \in {"save-retry", "exp-save"} /\ cr' = env
Released  == fresh.env /\ pc = "drop" /\ cr' = NoCR

(* Nothing else changes the stored resource, and these steps change        *)
(* nothing in the cluster.                                                 *)
LEMMA ResourceChanges ==
  ASSUME [Next]_vars, cr' # cr
  PROVE  /\ UNCHANGED clusterVars
         /\ \/ Created \/ Withdrawn \/ Prolonged \/ Adopted \/ Activated \/ Saved \/ Released
<1>1. CASE CreateEnv
  BY <1>1 DEF CreateEnv, Created, Idle, clusterVars
<1>2. CASE DeleteEnv
  BY <1>2 DEF DeleteEnv, Withdrawn, Idle, clusterVars
<1>3. CASE ExtendSave
  BY <1>3 DEF ExtendSave, Prolonged, crVars
<1>4. CASE AddFinalizer
  BY <1>4, WriteEffect DEF AddFinalizer, Adopted, Idle, clusterVars
<1>5. CASE Activate
  BY <1>5, WriteEffect DEF Activate, Activated
<1>6. CASE SaveAndRetry \/ SaveExpired
  BY <1>6, WriteEffect DEF SaveAndRetry, SaveExpired, Saved, Idle, clusterVars
<1>7. CASE RemoveFinalizer
  BY <1>7, WriteEffect DEF RemoveFinalizer, Released, Idle, clusterVars
<1>8. CASE \/ Begin \/ ReGet \/ EnsureNamespace \/ EnsureDeveloperAccessRBAC
           \/ EnsureNetworkPolicy \/ EnsureReferenceGrant \/ CheckInstalled
           \/ StartInstall \/ FinishInstall \/ DiscoverService \/ EnsureHTTPRoute
           \/ EnsureAdminHTTPRoute
  BY <1>8 DEF Begin, ReGet, EnsureNamespace, EnsureDeveloperAccessRBAC,
     EnsureNetworkPolicy, EnsureReferenceGrant, CheckInstalled, StartInstall,
     FinishInstall, DiscoverService, EnsureHTTPRoute, EnsureAdminHTTPRoute, Idle, crVars
<1>9. CASE \/ TeardownStep /\ ~SaveExpired /\ ~RemoveFinalizer
           \/ ExtendRead \/ SyncCache \/ Informers
           \/ FireTimer \/ NamespaceGone \/ Restart \/ Tick \/ UNCHANGED vars
  BY <1>9 DEF TeardownStep, CleanupHTTPRoute, CleanupAdminHTTPRoute, UninstallHelmRelease,
     ExpireNamespace, DropNamespace, ExtendRead, SyncCache, Informers, SyncNamespace,
     SyncObject, FireTimer, NamespaceGone, Restart, Tick, Idle, crVars, vars
<1> QED
  BY <1>1, <1>2, <1>3, <1>4, <1>5, <1>6, <1>7, <1>8, <1>9
     DEF Next, Reconcile, ProvisionStep, Users

(* Only the two cleanups end a live namespace. *)
LEMMA NamespaceEnds ==
  ASSUME [Next]_vars, TearsDown
  PROVE  cr' = cr /\ (ExpireNamespace \/ DropNamespace)
<1>1. ns' # ns
  BY DEF TearsDown
<1>2. CASE EnsureNamespace \/ NamespaceGone
  BY <1>2 DEF EnsureNamespace, NamespaceGone, TearsDown, clusterVars
<1>3. CASE \/ EnsureDeveloperAccessRBAC \/ EnsureNetworkPolicy \/ EnsureReferenceGrant
           \/ EnsureHTTPRoute \/ EnsureAdminHTTPRoute \/ CleanupAdminHTTPRoute
           \/ CleanupHTTPRoute("exp-route", "exp-helm")
           \/ CleanupHTTPRoute("del-route", "del-helm")
  <2>1. UNCHANGED clusterVars \/ \E o \in Objects : Put(o) \/ Remove(o)
    BY <1>3 DEF EnsureDeveloperAccessRBAC, EnsureNetworkPolicy, EnsureReferenceGrant,
       EnsureHTTPRoute, EnsureAdminHTTPRoute, CleanupAdminHTTPRoute, CleanupHTTPRoute,
       CreateOrUpdate, DeleteObject, Objects, InNamespace, Routes, clusterVars
  <2> QED
    BY <1>1, <2>1 DEF Put, Remove, clusterVars
<1>4. CASE \/ Begin \/ AddFinalizer \/ ReGet \/ CheckInstalled \/ StartInstall
           \/ FinishInstall \/ DiscoverService \/ Activate \/ SaveAndRetry \/ SaveExpired
           \/ UninstallHelmRelease("exp-helm", "exp-namespace")
           \/ UninstallHelmRelease("del-helm", "del-namespace") \/ RemoveFinalizer
  BY <1>1, <1>4 DEF Begin, AddFinalizer, ReGet, CheckInstalled, StartInstall,
     FinishInstall, DiscoverService, Activate, SaveAndRetry, SaveExpired,
     UninstallHelmRelease, RemoveFinalizer, Idle, clusterVars
<1>5. CASE \/ Users \/ SyncCache \/ Informers \/ FireTimer \/ Restart \/ Tick
           \/ UNCHANGED vars
  BY <1>1, <1>5 DEF Users, CreateEnv, DeleteEnv, ExtendRead, ExtendSave, SyncCache, Informers,
     SyncNamespace, SyncObject, FireTimer, Restart, Tick, Idle, clusterVars, vars
<1>6. CASE ExpireNamespace \/ DropNamespace
  BY <1>6 DEF ExpireNamespace, DropNamespace, Idle, crVars
<1> QED
  BY <1>2, <1>3, <1>4, <1>5, <1>6 DEF Next, Reconcile, ProvisionStep, TeardownStep

-----------------------------------------------------------------------------
(* What follows for expirations and teardowns *)

(* The copies, their deadlines and the deletions they have seen are what   *)
(* the runs take them for, in every reachable state.                       *)
LEMMA CopiesKnown == Spec => []CopyInv
BY InitCopies, CopyStep, PTL DEF Spec

(* A namespace is torn down only when its resource is being deleted or its *)
(* deadline has passed, unless the resource was written since the run that *)
(* tears it down has read it: a run never tears down on an old deadline it *)
(* could have known better.  The caches may lag.                           *)
THEOREM TeardownIsJustified == Spec => TeardownJustified
<1> DEFINE Justified == TearsDown => cr.deleting \/ clock > Deadline \/ ~fresh.env
<1>1. ASSUME CopyInv, [Next]_vars PROVE Justified
  <2> SUFFICES ASSUME TearsDown, fresh.env PROVE cr.deleting \/ clock > Deadline
    OBVIOUS
  <2>1. pc = "exp-namespace" \/ pc = "del-namespace"
    BY <1>1, NamespaceEnds DEF ExpireNamespace, DropNamespace
  <2>2. CASE pc = "exp-namespace"
    BY <1>1, <2>2 DEF CopyInv, DeadlineKnown, ExpiredKnown, PastDispatch, Expiring
  <2>3. CASE pc = "del-namespace"
    BY <1>1, <2>3 DEF CopyInv, DeletingKnown, CopyKept, Same, Deleting
  <2> QED
    BY <2>1, <2>2, <2>3
<1>2. CopyInv /\ [Next]_vars => [Justified]_vars
  BY <1>1
<1> QED
  BY <1>2, CopiesKnown, PTL DEF Spec, TeardownJustified

(* Once it is stored, only extendTTL moves the expiration: the status      *)
(* writes of the reconciler, which send its whole copy, never take back an *)
(* extension that was acknowledged.                                        *)
THEOREM ExpirationKept == Spec => ExpirationMovedByUserOnly
<1> DEFINE Kind == cr.there /\ cr'.there /\ cr.exp # Unset /\ cr'.exp # cr.exp
                     => ui = "read" /\ ui' = "idle"
<1>1. ASSUME CopyInv, [Next]_vars PROVE Kind
  <2> SUFFICES ASSUME cr.there, cr'.there, cr.exp # Unset, cr'.exp # cr.exp
               PROVE  Prolonged
    BY DEF Prolonged
  <2>1. cr \in CRs /\ env \in CRs
    BY <1>1 DEF CopyInv, TypeOK
  <2>2. \/ Created \/ Withdrawn \/ Prolonged \/ Adopted \/ Activated \/ Saved \/ Released
    BY <1>1, ResourceChanges
  <2>3. ~Created /\ ~Released
    BY NoCRShaped DEF Created, Released
  <2>4. ~Withdrawn
    BY <2>1, NoCRShaped DEF Withdrawn, CRs
  <2>5. ASSUME Adopted \/ Activated \/ Saved PROVE FALSE
    <3>1. cr'.exp = env.exp
      BY <2>1, <2>5 DEF Adopted, Activated, Saved, CRs
    <3>2. fresh.env /\ pc # "idle"
      BY <2>5 DEF Adopted, Activated, Saved
    <3> QED
      BY <1>1, <3>1, <3>2 DEF CopyInv, CopyKept
  <2> QED
    BY <2>2, <2>3, <2>4, <2>5
<1>2. CopyInv /\ [Next]_vars => [Kind]_vars
  BY <1>1
<1> QED
  BY <1>2, CopiesKnown, PTL DEF Spec, ExpirationMovedByUserOnly

-----------------------------------------------------------------------------
(* What a run has behind it *)

(* The calls of a run are made in the order of the code, so its position   *)
(* tells what exists while the namespace lives; with a service to discover *)
(* the charts are deployed before the routes, without one after them.      *)
PastRBAC   == {"policy"} \cup Provision
PastGrant  == Provision \ {"grant"}
PastRoute  == {"admin", "activate"}
                \cup IF ByPort THEN {} ELSE {"deploy", "install", "installing"}
PastDeploy == {"activate"} \cup IF ByPort THEN {"discover", "route", "admin"} ELSE {}

RBACMade    == pc \in PastRBAC /\ ns = "active" => "rbac" \in objs
GrantMade   == pc \in PastGrant /\ ns = "active" => "grant" \in objs
RouteMade   == pc \in PastRoute => "app" \in objs
ReleaseMade == pc \in PastDeploy /\ Charts /\ ns = "active" => release # "none"

MadeInv == IsolatedInv /\ RBACMade /\ GrantMade /\ RouteMade /\ ReleaseMade

(* Without lag, CreateOrUpdate reports success only for what is there, and *)
(* takes nothing away.                                                     *)
LEMMA CreateEffect ==
  ASSUME ~LaggingViews, ViewsExact, NEW o, NEW ok \in BOOLEAN, CreateOrUpdate(o, ok)
  PROVE  /\ ns' = ns /\ release' = release /\ objs \subseteq objs'
         /\ objs' \subseteq objs \cup {o}
         /\ ok => o \in objs'
BY DEF CreateOrUpdate, Put, Views, ViewsExact, clusterVars

(* Every step keeps what the run has behind it. *)
LEMMA MadeStep ==
  ASSUME ~LaggingViews, MadeInv, [Next]_vars PROVE MadeInv'
<1>i. IsolatedInv'
  BY IsolatedStep DEF MadeInv
<1>v. ViewsExact
  BY DEF MadeInv, IsolatedInv
<1>t. TypeOK
  BY DEF MadeInv, IsolatedInv
<1> USE DEF Setup, Provision, Expiring, Deleting, PastRBAC, PastGrant, PastRoute, PastDeploy
<1>q. ASSUME pc' \notin PastRBAC PROVE MadeInv'
  BY <1>q, <1>i DEF MadeInv, RBACMade, GrantMade, RouteMade, ReleaseMade
<1>s. ASSUME pc' = pc, ns' = "active" => ns = "active",
             ns' = "active" => objs \subseteq objs' /\ release' = release,
             "app" \in objs => "app" \in objs'
      PROVE  MadeInv'
  BY <1>s, <1>i DEF MadeInv, RBACMade, GrantMade, RouteMade, ReleaseMade
<1>1. CASE Begin \/ AddFinalizer \/ ReGet
  <2>1. ASSUME Dispatch(cache) PROVE pc' \notin PastRBAC
    BY <1>t, <2>1, DispatchCopies DEF TypeOK
  <2>2. pc' \notin PastRBAC
    BY <1>1, <2>1 DEF Begin, AddFinalizer, ReGet, Return, Goto
  <2> QED
    BY <1>q, <2>2
<1>2. CASE EnsureNamespace \/ Activate \/ SaveAndRetry
  BY <1>2, <1>q DEF EnsureNamespace, OkOrFail, Fail, Goto, Activate, SaveAndRetry, Return
<1>3. CASE EnsureDeveloperAccessRBAC
  <2> PICK ok \in BOOLEAN : CreateOrUpdate("rbac", ok) /\ OkOrFail(ok, "policy")
    BY <1>3 DEF EnsureDeveloperAccessRBAC
  <2>1. (ok /\ pc' = "policy") \/ pc' = "save-retry"
    BY DEF OkOrFail, Goto, Fail
  <2>2. ok => "rbac" \in objs'
    BY <1>v, CreateEffect
  <2> QED
    BY <1>i, <2>1, <2>2 DEF MadeInv, RBACMade, GrantMade, RouteMade, ReleaseMade
<1>4. CASE EnsureNetworkPolicy
  <2>1. pc = "policy" /\ pc' \in {"grant", "save-retry"}
    BY <1>4 DEF EnsureNetworkPolicy, OkOrFail, Goto, Fail
  <2>2. ns' = ns /\ objs \subseteq objs'
    BY <1>4, <1>v, CreateEffect DEF EnsureNetworkPolicy, clusterVars
  <2> QED
    BY <1>i, <2>1, <2>2 DEF MadeInv, RBACMade, GrantMade, RouteMade, ReleaseMade
<1>5. CASE EnsureReferenceGrant
  <2> PICK ok \in BOOLEAN : CreateOrUpdate("grant", ok) /\ OkOrFail(ok, AfterGrant)
    BY <1>5 DEF EnsureReferenceGrant
  <2>1. pc = "grant" /\ ((ok /\ pc' = AfterGrant) \/ pc' = "save-retry")
    BY <1>5 DEF EnsureReferenceGrant, OkOrFail, Goto, Fail
  <2>2. ns' = ns /\ objs \subseteq objs' /\ (ok => "grant" \in objs')
    BY <1>v, CreateEffect
  <2> QED
    BY <1>i, <2>1, <2>2 DEF AfterGrant, MadeInv, RBACMade, GrantMade, RouteMade, ReleaseMade
<1>6. CASE CheckInstalled
  <2>1. pc = "deploy" /\ UNCHANGED <<ns, objs, release>>
    BY <1>6 DEF CheckInstalled, Idle, clusterVars
  <2>2. \/ pc' = "install"
        \/ pc' = AfterDeploy /\ (Charts => release # "none")
    BY <1>6 DEF CheckInstalled, Goto
  <2> QED
    BY <1>i, <2>1, <2>2 DEF AfterDeploy, MadeInv, RBACMade, GrantMade, RouteMade, ReleaseMade
<1>7. CASE StartInstall
  <2>1. /\ pc = "install" /\ UNCHANGED <<ns, objs>>
        /\ pc' \in {"installing", "save-retry"}
    BY <1>7 DEF StartInstall, Idle, Goto, Fail
  <2> QED
    BY <1>i, <2>1 DEF MadeInv, RBACMade, GrantMade, RouteMade, ReleaseMade
<1>8. CASE FinishInstall
  <2>1. /\ pc = "installing" /\ UNCHANGED <<ns, objs>>
        /\ (pc' = AfterDeploy /\ release' = "deployed") \/ pc' = "save-retry"
    BY <1>8 DEF FinishInstall, Idle, Goto, Fail
  <2> QED
    BY <1>i, <2>1 DEF AfterDeploy, MadeInv, RBACMade, GrantMade, RouteMade, ReleaseMade
<1>9. CASE DiscoverService
  <2>1. /\ pc = "discover" /\ UNCHANGED <<ns, objs, release>>
        /\ pc' \in {"route", "save-retry"}
    BY <1>9 DEF DiscoverService, Idle, Goto, clusterVars
  <2> QED
    BY <1>i, <2>1 DEF MadeInv, RBACMade, GrantMade, RouteMade, ReleaseMade
<1>10. CASE EnsureHTTPRoute
  <2> PICK ok \in BOOLEAN : CreateOrUpdate("app", ok) /\ OkOrFail(ok, "admin")
    BY <1>10 DEF EnsureHTTPRoute
  <2>1. pc = "route" /\ ((ok /\ pc' = "admin") \/ pc' = "save-retry")
    BY <1>10 DEF EnsureHTTPRoute, OkOrFail, Goto, Fail
  <2>2. ns' = ns /\ release' = release /\ objs \subseteq objs' /\ (ok => "app" \in objs')
    BY <1>v, CreateEffect
  <2> QED
    BY <1>i, <2>1, <2>2 DEF MadeInv, RBACMade, GrantMade, RouteMade, ReleaseMade
<1>11. CASE EnsureAdminHTTPRoute
  <2>1. pc = "admin" /\ pc' = AfterAdmin
    BY <1>11 DEF EnsureAdminHTTPRoute, Goto
  <2>2. ns' = ns /\ release' = release /\ objs \subseteq objs'
    BY <1>11, <1>v, CreateEffect DEF EnsureAdminHTTPRoute, clusterVars
  <2> QED
    BY <1>i, <2>1, <2>2 DEF AfterAdmin, MadeInv, RBACMade, GrantMade, RouteMade, ReleaseMade
<1>12. CASE TeardownStep
  BY <1>12, <1>q DEF TeardownStep, CleanupHTTPRoute, CleanupAdminHTTPRoute,
     UninstallHelmRelease, ExpireNamespace, SaveExpired, DropNamespace, RemoveFinalizer,
     Goto, Return
<1>13. CASE Users \/ SyncCache \/ Informers \/ FireTimer \/ Tick \/ UNCHANGED vars
  <2>1. UNCHANGED <<pc, ns, objs, release>>
    BY <1>13 DEF Users, CreateEnv, DeleteEnv, ExtendRead, ExtendSave, SyncCache, Informers,
       SyncNamespace, SyncObject, FireTimer, Tick, Idle, runVars, clusterVars, vars
  <2> QED
    BY <1>s, <2>1
<1>14. CASE NamespaceGone
  <2>1. pc' = pc /\ ns' = "absent" /\ objs' = objs \ InNamespace
    BY <1>14 DEF NamespaceGone, Idle, runVars
  <2> QED
    BY <1>s, <2>1 DEF InNamespace
<1>15. CASE Restart
  BY <1>15, <1>q DEF Restart
<1> QED
  BY <1>1, <1>2, <1>3, <1>4, <1>5, <1>6, <1>7, <1>8, <1>9, <1>10, <1>11, <1>12, <1>13,
     <1>14, <1>15 DEF Next, Reconcile, ProvisionStep

(* While the caches of the objects do not lag, the phase becomes Active    *)
(* only when the application is routed and, unless the namespace has been  *)
(* terminated meanwhile, its roles, grant, policy and release are there:   *)
(* no run writes an Active that an earlier copy had brought along.         *)
THEOREM ActiveMeansProvisioned ==
  ASSUME ~LaggingViews PROVE Spec => ActiveIsProvisioned
<1> DEFINE There == /\ "app" \in objs
                    /\ ns = "active" => /\ {"rbac", "grant"} \subseteq objs
                                        /\ Isolated => "policy" \in objs
                                        /\ Charts => release # "none"
           Honest == BecomesActive => There
<1>1. ASSUME CopyInv, MadeInv, [Next]_vars PROVE Honest
  <2> SUFFICES ASSUME cr'.phase = "Active", cr.phase # "Active" PROVE There
    BY DEF BecomesActive
  <2>1. cr \in CRs /\ env \in CRs
    BY <1>1 DEF CopyInv, TypeOK
  <2>2. \/ Created \/ Withdrawn \/ Prolonged \/ Adopted \/ Activated \/ Saved \/ Released
    BY <1>1, ResourceChanges
  <2>3. NoCR.phase # "Active" /\ [NoCR EXCEPT !.there = TRUE, !.created = clock].phase # "Active"
    BY DEF NoCR
  <2>4. ~Created /\ ~Withdrawn /\ ~Prolonged /\ ~Released
    BY <2>1, <2>3 DEF Created, Withdrawn, Prolonged, Released, CRs
  <2>5. ASSUME Adopted \/ Saved PROVE FALSE
    <3>1. cr'.phase = env.phase
      BY <2>1, <2>5 DEF Adopted, Saved, CRs
    <3>2. fresh.env /\ pc # "idle"
      BY <2>5 DEF Adopted, Saved
    <3> QED
      BY <1>1, <3>1, <3>2 DEF CopyInv, CopyKept
  <2>6. pc = "activate"
    BY <2>2, <2>4, <2>5 DEF Activated
  <2>7. pc \in PastRBAC \cap PastGrant \cap PastRoute \cap PastDeploy \cap Provision
    BY <2>6 DEF PastRBAC, PastGrant, PastRoute, PastDeploy, Provision
  <2> QED
    BY <1>1, <2>7 DEF MadeInv, RBACMade, GrantMade, RouteMade, ReleaseMade, IsolatedInv,
                      PolicyFirst
<1>2. Init => MadeInv
  BY InitTypeOK DEF Init, MadeInv, IsolatedInv, ViewsExact, PolicyFirst, EmptyStart,
     Installing, IsolatedWorkload, RBACMade, GrantMade, RouteMade, ReleaseMade, PastRBAC,
     PastGrant, PastRoute, PastDeploy, Provision
<1>3. MadeInv /\ [Next]_vars => MadeInv'
  BY MadeStep
<1>4. CopyInv /\ MadeInv /\ [Next]_vars => [Honest]_vars
  BY <1>1
<1> QED
  BY <1>2, <1>3, <1>4, CopiesKnown, PTL DEF Spec, ActiveIsProvisioned

-----------------------------------------------------------------------------
(* Routes, when no call fails *)

NoFaults    == budget.faults = 0
AdminGone   == pc \in Deleting \ {"del-admin"} => "admin" \notin objs
AppGone     == pc \in Deleting \ {"del-admin", "del-route"} => "app" \notin objs

RoutesInv == OwnedInv /\ NoFaults /\ OwnedRoutes /\ AdminGone /\ AppGone

(* What a step spends is one unit of one of the budgets. *)
LEMMA BudgetChanges ==
  ASSUME [Next]_vars PROVE UNCHANGED budget \/ \E k \in LimitKinds : Spend(k)
<1> USE DEF LimitKinds
<1>1. CASE \/ AddFinalizer \/ Activate \/ SaveAndRetry \/ SaveExpired \/ RemoveFinalizer
  BY <1>1 DEF AddFinalizer, Activate, SaveAndRetry, SaveExpired, RemoveFinalizer, Write
<1>2. CASE \/ EnsureDeveloperAccessRBAC \/ EnsureNetworkPolicy \/ EnsureReferenceGrant
           \/ EnsureHTTPRoute \/ EnsureAdminHTTPRoute
  BY <1>2 DEF EnsureDeveloperAccessRBAC, EnsureNetworkPolicy, EnsureReferenceGrant,
     EnsureHTTPRoute, EnsureAdminHTTPRoute, CreateOrUpdate
<1>3. CASE \/ Begin \/ ReGet \/ EnsureNamespace \/ CheckInstalled \/ StartInstall
           \/ FinishInstall \/ DiscoverService
  BY <1>3 DEF Begin, ReGet, EnsureNamespace, CheckInstalled, StartInstall, FinishInstall,
     DiscoverService, Idle
<1>4. CASE TeardownStep
  BY <1>1, <1>4 DEF TeardownStep, CleanupHTTPRoute, CleanupAdminHTTPRoute, DeleteObject,
     UninstallHelmRelease, ExpireNamespace, DropNamespace, DeleteNamespace
<1>5. CASE \/ Users \/ SyncCache \/ Informers \/ FireTimer \/ NamespaceGone \/ Restart
           \/ Tick \/ UNCHANGED vars
  BY <1>5 DEF Users, CreateEnv, DeleteEnv, ExtendRead, ExtendSave, SyncCache, Informers,
     SyncNamespace, SyncObject, FireTimer, NamespaceGone, Restart, Tick, Idle, vars
<1> QED
  BY <1>1, <1>2, <1>3, <1>4, <1>5 DEF Next, Reconcile, ProvisionStep

(* A budget that is used up stays so. *)
LEMMA FaultsStayAway ==
  ASSUME TypeOK, NoFaults, [Next]_vars PROVE ~Spend("faults") /\ NoFaults'
<1>1. ~Spend("faults")
  BY DEF NoFaults, Spend
<1>2. budget \in [LimitKinds -> Nat]
  BY DEF TypeOK
<1>3. ASSUME NEW k \in LimitKinds, Spend(k) PROVE NoFaults'
  BY <1>1, <1>2, <1>3 DEF Spend, NoFaults, LimitKinds
<1> QED
  BY <1>1, <1>3, BudgetChanges DEF NoFaults

(* Without failing calls and without lag a deletion deletes. *)
LEMMA DeleteEffect ==
  ASSUME ViewsExact, ~Spend("faults"), NEW o, DeleteObject(o)
  PROVE  objs' = objs \ {o}
BY DEF DeleteObject, Remove, ViewsExact, clusterVars

(* Only for a stored resource that is held are routes made. *)
LEMMA RouteChanges ==
  ASSUME ~LaggingViews, OwnedInv, [Next]_vars, ~Owned(cr)
  PROVE  objs' \cap Routes \subseteq objs \cap Routes
<1>v. ViewsExact /\ pc \notin Provision
  BY DEF OwnedInv, RunKnown
<1>1. CASE EnsureHTTPRoute \/ EnsureAdminHTTPRoute
  BY <1>1, <1>v DEF EnsureHTTPRoute, EnsureAdminHTTPRoute, Provision
<1>2. CASE EnsureDeveloperAccessRBAC \/ EnsureNetworkPolicy \/ EnsureReferenceGrant
  <2>1. objs' \subseteq objs \cup InNamespace
    BY <1>2, <1>v, CreateEffect DEF EnsureDeveloperAccessRBAC, EnsureNetworkPolicy,
       EnsureReferenceGrant, InNamespace, clusterVars
  <2> QED
    BY <2>1 DEF InNamespace, Routes
<1>3. CASE \/ Begin \/ AddFinalizer \/ ReGet \/ EnsureNamespace \/ CheckInstalled
           \/ StartInstall \/ FinishInstall \/ DiscoverService \/ Activate \/ SaveAndRetry
  BY <1>3 DEF Begin, AddFinalizer, ReGet, EnsureNamespace, CheckInstalled, StartInstall,
     FinishInstall, DiscoverService, Activate, SaveAndRetry, Idle, clusterVars
<1>4. CASE TeardownStep
  <2>1. objs' \subseteq objs
    BY <1>4 DEF TeardownStep, CleanupHTTPRoute, CleanupAdminHTTPRoute, UninstallHelmRelease,
       ExpireNamespace, SaveExpired, DropNamespace, RemoveFinalizer, DeleteObject, Remove,
       DeleteNamespace, Terminate, Idle, clusterVars
  <2> QED
    BY <2>1
<1>5. CASE \/ Users \/ SyncCache \/ Informers \/ FireTimer \/ NamespaceGone \/ Restart
           \/ Tick \/ UNCHANGED vars
  BY <1>5 DEF Users, CreateEnv, DeleteEnv, ExtendRead, ExtendSave, SyncCache, Informers,
     SyncNamespace, SyncObject, FireTimer, NamespaceGone, Restart, Tick, Idle, clusterVars,
     vars
<1> QED
  BY <1>1, <1>2, <1>3, <1>4, <1>5 DEF Next, Reconcile, ProvisionStep

(* The deletion of a resource removes one route after the other, and makes *)
(* none.                                                                   *)
LEMMA DeletionRemovesRoutes ==
  ASSUME ~LaggingViews, RoutesInv, [Next]_vars PROVE AdminGone' /\ AppGone'
<1>v. ViewsExact /\ ~Spend("faults") /\ TypeOK
  BY FaultsStayAway DEF RoutesInv, OwnedInv
<1> USE DEF Setup, Provision, Expiring, Deleting, AdminGone, AppGone
<1>q. ASSUME pc' \notin Deleting \ {"del-admin"} PROVE AdminGone' /\ AppGone'
  BY <1>q
<1>1. CASE CleanupAdminHTTPRoute
  BY <1>1, <1>v, DeleteEffect DEF CleanupAdminHTTPRoute, Goto
<1>2. CASE CleanupHTTPRoute("del-route", "del-helm")
  BY <1>2, <1>v, DeleteEffect DEF CleanupHTTPRoute, Goto, RoutesInv
<1>3. CASE UninstallHelmRelease("del-helm", "del-namespace") \/ DropNamespace
  <2>1. objs' = objs /\ pc \in Deleting \ {"del-admin", "del-route"}
    BY <1>3 DEF UninstallHelmRelease, DropNamespace, DeleteNamespace, Terminate, Idle,
       clusterVars
  <2> QED
    BY <2>1 DEF RoutesInv
<1>4. CASE \/ CleanupHTTPRoute("exp-route", "exp-helm")
           \/ UninstallHelmRelease("exp-helm", "exp-namespace")
           \/ ExpireNamespace \/ SaveExpired \/ RemoveFinalizer \/ Restart
  BY <1>4, <1>q DEF CleanupHTTPRoute, UninstallHelmRelease, ExpireNamespace, SaveExpired,
     RemoveFinalizer, Restart, Goto, Return
<1>5. CASE Begin \/ AddFinalizer \/ ReGet
  <2>1. ASSUME Dispatch(cache) PROVE pc' \notin Deleting
    BY <1>v, <2>1, DispatchCopies DEF TypeOK
  <2> QED
    BY <1>5, <1>q, <2>1 DEF Begin, AddFinalizer, ReGet, Return, Goto
<1>6. CASE \/ EnsureNamespace \/ EnsureDeveloperAccessRBAC \/ EnsureNetworkPolicy
           \/ EnsureReferenceGrant \/ CheckInstalled \/ StartInstall \/ FinishInstall
           \/ DiscoverService \/ EnsureHTTPRoute \/ EnsureAdminHTTPRoute \/ Activate
           \/ SaveAndRetry
  <2>1. pc' \in Setup \cup Provision \cup {"save-retry", "idle"}
    BY <1>6 DEF EnsureNamespace, EnsureDeveloperAccessRBAC, EnsureNetworkPolicy,
       EnsureReferenceGrant, CheckInstalled, StartInstall, FinishInstall, DiscoverService,
       EnsureHTTPRoute, EnsureAdminHTTPRoute, Activate, SaveAndRetry, OkOrFail, Fail, Goto,
       Return, AfterGrant, AfterDeploy, AfterAdmin
  <2> QED
    BY <1>q, <2>1
<1>7. CASE Users \/ SyncCache \/ Informers \/ FireTimer \/ NamespaceGone \/ Tick
             \/ UNCHANGED vars
  <2>1. pc' = pc /\ objs' \subseteq objs
    BY <1>7 DEF Users, CreateEnv, DeleteEnv, ExtendRead, ExtendSave, SyncCache, Informers,
       SyncNamespace, SyncObject, FireTimer, NamespaceGone, Tick, Idle, runVars,
       clusterVars, vars
  <2> QED
    BY <2>1 DEF RoutesInv
<1> QED
  BY <1>1, <1>2, <1>3, <1>4, <1>5, <1>6, <1>7
     DEF Next, Reconcile, ProvisionStep, TeardownStep

(* When no call fails and the caches of the objects do not lag, no route   *)
(* outlives its resource: the operator never lets a resource go before its *)
(* routes are gone, and makes no route for one that is.                    *)
THEOREM NoRouteOutlives ==
  ASSUME ~LaggingViews, \A l \in Limits : l.faults = 0
  PROVE  Spec => []OwnedRoutes
<1>1. Init => RoutesInv /\ CopyInv
  <2> SUFFICES ASSUME Init PROVE RoutesInv
    BY InitCopies
  <2>1. OwnedInv
    BY InitOwned
  <2> QED
    BY <2>1 DEF Init, RoutesInv, NoFaults, OwnedRoutes, AdminGone, AppGone, Deleting
<1>2. ASSUME RoutesInv, CopyInv, [Next]_vars PROVE RoutesInv'
  <2>1. OwnedInv' /\ NoFaults'
    BY <1>2, OwnedStep, FaultsStayAway DEF RoutesInv, OwnedInv
  <2>2. AdminGone' /\ AppGone'
    BY <1>2, DeletionRemovesRoutes
  <2>3. OwnedRoutes'
    <3>1. CASE ~Owned(cr)
      BY <1>2, <3>1, RouteChanges DEF RoutesInv, OwnedRoutes, Owned
    <3>2. CASE Owned(cr) /\ ~Owned(cr')
      <4>1. UNCHANGED clusterVars /\ cr \in CRs /\ env \in CRs
        BY <1>2, <3>2, ResourceChanges DEF CopyInv, TypeOK
      <4>2. Released
        <5>1. ~Created
          BY <3>2 DEF Created, Owned
        <5>2. ~Withdrawn /\ ~Prolonged
          BY <3>2, <4>1 DEF Withdrawn, Prolonged, Owned, CRs
        <5>3. ASSUME Adopted \/ Activated \/ Saved PROVE Owned(cr')
          <6>1. env.there /\ env.finalizer
            BY <1>2, <3>2, <5>3 DEF Adopted, Activated, Saved, CopyInv, CopyKept, Same, Owned
          <6> QED
            BY <4>1, <5>3, <6>1 DEF Adopted, Activated, Saved, Owned, CRs
        <5> QED
          BY <1>2, <3>2, <5>1, <5>2, <5>3, ResourceChanges
      <4>3. "admin" \notin objs /\ "app" \notin objs
        BY <1>2, <4>2 DEF Released, RoutesInv, AdminGone, AppGone, Deleting
      <4> QED
        BY <4>1, <4>3 DEF OwnedRoutes, Routes, clusterVars
    <3>3. CASE Owned(cr')
      BY <3>3 DEF OwnedRoutes, Owned
    <3> QED
      BY <3>1, <3>2, <3>3
  <2> QED
    BY <2>1, <2>2, <2>3 DEF RoutesInv
<1>3. RoutesInv => OwnedRoutes
  BY DEF RoutesInv
<1>4. RoutesInv /\ CopyInv /\ [Next]_vars => RoutesInv'
  BY <1>2
<1> QED
  BY <1>1, <1>3, <1>4, CopiesKnown, PTL DEF Spec

=============================================================================
