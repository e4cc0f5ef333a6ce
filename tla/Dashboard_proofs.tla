--------------------------- MODULE Dashboard_proofs ---------------------------
(* Proofs about Dashboard, for any set of environments, names, homes and   *)
(* gateways.                                                               *)
EXTENDS Dashboard, TLAPS

-----------------------------------------------------------------------------
(* Type correctness *)

Spaces  == {"absent", "active", "terminating"}
Budgets == {"faults", "creates", "extensions"}

(* A resource that does not exist is well formed. *)
LEMMA NoCRType == NoCR \in CRs
BY DEF NoCR, CRs

(* The edits of the controller, of users and of time keep a resource well  *)
(* formed.                                                                 *)
LEMMA EditTypes ==
  ASSUME NEW c \in CRs
  PROVE  /\ \A s \in {"none", "live", "ending"} : [c EXCEPT !.state = s] \in CRs
         /\ \A b \in BOOLEAN : [c EXCEPT !.held = TRUE, !.located = @ \/ b] \in CRs
         /\ [c EXCEPT !.held = TRUE] \in CRs
         /\ \A b \in BOOLEAN : [c EXCEPT !.due = b] \in CRs
BY DEF CRs

(* Saving a well-formed resource keeps the store well formed. *)
LEMMA SaveType ==
  ASSUME TypeOK, NEW e \in Envs, NEW c \in CRs, Save(e, c)
  PROVE  crs' \in [Envs -> CRs]
BY DEF TypeOK, Save

(* Using up a budget keeps its type. *)
LEMMA SpendType ==
  ASSUME TypeOK, NEW k \in Budgets, Spend(k) PROVE budget' \in [Budgets -> Nat]
BY DEF TypeOK, Spend, Budgets

(* The end of a run leaves a set of keys. *)
LEMMA DoneType ==
  ASSUME TypeOK, NEW e \in Envs, NEW ok, Done(e, ok) PROVE queued' \subseteq Envs
BY DEF TypeOK, Done

(* The cleanup of a namespace ends this one, if it lives, and no other.    *)
LEMMA EndSpaceEffect ==
  ASSUME TypeOK, NEW e \in Envs, EndSpace(e)
  PROVE  /\ space' \in [Names -> Spaces]
         /\ \A n \in Names : space'[n] # space[n] => n = NameOf[e]
BY DEF TypeOK, EndSpace, Names, Spaces

(* Every step keeps the types. *)
LEMMA TypeStep == TypeOK /\ [Next]_vars => TypeOK'
<1> SUFFICES ASSUME TypeOK, [Next]_vars PROVE TypeOK'
  OBVIOUS
<1>d. /\ crs \in [Envs -> CRs] /\ space \in [Names -> Spaces] /\ queued \subseteq Envs
      /\ routes \subseteq Gateways \X Names \X Kinds /\ budget \in [Budgets -> Nat]
  BY DEF TypeOK, Spaces, Budgets
<1>i. ASSUME crs' \in [Envs -> CRs], space' \in [Names -> Spaces],
             routes' \subseteq Gateways \X Names \X Kinds, queued' \subseteq Envs,
             budget' \in [Budgets -> Nat]
      PROVE  TypeOK'
  BY <1>i DEF TypeOK, Spaces, Budgets
<1>k. {"faults", "creates", "extensions"} \subseteq Budgets
  BY DEF Budgets
<1>1. ASSUME NEW e \in Envs, Provision(e) PROVE TypeOK'
  <2>1. PICK reached \in Reached, admin \in BOOLEAN, saved \in BOOLEAN :
          LET housed == reached # "nothing"
              routed == reached \in {"routes", "end"}
              smooth == reached \in {"namespace", "end"} /\ saved /\ admin
          IN  /\ IF smooth THEN UNCHANGED budget ELSE Spend("faults")
              /\ space' = [space EXCEPT ![NameOf[e]] = IF @ = "absent" /\ housed THEN "active" ELSE @]
              /\ routes' = routes \cup {RouteOf(e, k) : k \in {k \in Kinds : routed /\ (k = "admin" => admin)}}
              /\ Save(e, [crs[e] EXCEPT !.held = TRUE, !.located = @ \/ (saved /\ housed)])
              /\ Done(e, reached = "end" /\ saved)
    BY <1>1 DEF Provision
  <2>2. budget' \in [Budgets -> Nat] /\ queued' \subseteq Envs
    BY <1>d, <1>k, <2>1, SpendType, DoneType
  <2>3. space' \in [Names -> Spaces]
    BY <1>d, <2>1 DEF Spaces
  <2>4. \A k \in Kinds : RouteOf(e, k) \in Gateways \X Names \X Kinds
    BY DEF RouteOf, Gateways, Names
  <2>5. routes' \subseteq Gateways \X Names \X Kinds
    BY <1>d, <2>1, <2>4
  <2>6. [crs[e] EXCEPT !.held = TRUE, !.located = @ \/ (saved /\ reached # "nothing")] \in CRs
    BY <1>d, EditTypes
  <2>7. crs' \in [Envs -> CRs]
    BY <2>1, <2>6, SaveType
  <2> QED
    BY <1>i, <2>2, <2>3, <2>5, <2>7
<1>2. ASSUME NEW e \in Envs, TearDown(e) PROVE TypeOK'
  <2>1. crs' \in [Envs -> CRs]
    BY <1>d, <1>2, SaveType, EditTypes DEF TearDown
  <2>2. space' \in [Names -> Spaces] /\ budget' \in [Budgets -> Nat] /\ queued' \subseteq Envs
    BY <1>d, <1>k, <1>2, EndSpaceEffect, SpendType, DoneType DEF TearDown
  <2>3. routes' \subseteq Gateways \X Names \X Kinds
    BY <1>d, <1>2 DEF TearDown
  <2> QED
    BY <1>i, <2>1, <2>2, <2>3
<1>3. ASSUME NEW e \in Envs, CleanUp(e) PROVE TypeOK'
  <2>1. crs' \in [Envs -> CRs]
    BY <1>d, <1>3, SaveType, NoCRType DEF CleanUp
  <2>2. space' \in [Names -> Spaces] /\ budget' \in [Budgets -> Nat] /\ queued' \subseteq Envs
    BY <1>d, <1>k, <1>3, EndSpaceEffect, SpendType, DoneType DEF CleanUp
  <2>3. routes' \subseteq Gateways \X Names \X Kinds
    BY <1>d, <1>3 DEF CleanUp
  <2> QED
    BY <1>i, <2>1, <2>2, <2>3
<1>4. ASSUME NEW e \in Envs, Forget(e) PROVE TypeOK'
  BY <1>d, <1>i, <1>4 DEF Forget
<1>q. ASSUME NEW e \in Envs, Enqueue(e) PROVE queued' \subseteq Envs
  BY <1>d, <1>q DEF Enqueue
<1>5. ASSUME NEW e \in Envs, Expire(e) PROVE TypeOK'
  <2>1. crs' \in [Envs -> CRs] /\ queued' \subseteq Envs
    BY <1>d, <1>q, <1>5, SaveType, EditTypes DEF Expire
  <2> QED
    BY <1>d, <1>i, <1>5, <2>1 DEF Expire
<1>6. ASSUME NEW e \in Envs, Create(e) PROVE TypeOK'
  <2>1. [NoCR EXCEPT !.state = "live"] \in CRs
    BY NoCRType, EditTypes
  <2>2. crs' \in [Envs -> CRs] /\ queued' \subseteq Envs /\ budget' \in [Budgets -> Nat]
    BY <1>k, <1>q, <1>6, <2>1, SaveType, SpendType DEF Create
  <2> QED
    BY <1>d, <1>i, <1>6, <2>2 DEF Create
<1>7. ASSUME NEW e \in Envs, KubectlDelete(e) \/ HandleDeleteEnv(e) PROVE TypeOK'
  <2>1. Withdraw(e)
    BY <1>7 DEF KubectlDelete, HandleDeleteEnv
  <2>2. crs' \in [Envs -> CRs] /\ queued' \subseteq Envs
    BY <1>d, <1>q, <2>1, SaveType, EditTypes, NoCRType DEF Withdraw
  <2> QED
    BY <1>d, <1>i, <2>1, <2>2 DEF Withdraw
<1>8. ASSUME NEW e \in Envs, ExtendTTL(e) PROVE TypeOK'
  <2>1. crs' \in [Envs -> CRs] /\ queued' \subseteq Envs /\ budget' \in [Budgets -> Nat]
    BY <1>d, <1>k, <1>q, <1>8, SaveType, EditTypes, SpendType DEF ExtendTTL
  <2> QED
    BY <1>d, <1>i, <1>8, <2>1 DEF ExtendTTL
<1>9. ASSUME NEW n \in Names, NamespaceGone(n) PROVE TypeOK'
  <2>1. space' \in [Names -> Spaces]
    BY <1>d, <1>9 DEF NamespaceGone, Spaces
  <2> QED
    BY <1>d, <1>i, <1>9, <2>1 DEF NamespaceGone
<1>10. CASE UNCHANGED vars
  BY <1>d, <1>i, <1>10 DEF vars
<1> QED
  BY <1>1, <1>2, <1>3, <1>4, <1>5, <1>6, <1>7, <1>8, <1>9, <1>10 DEF Next, Reconcile

(* Whatever the environments are called and wherever they live, every      *)
(* variable keeps its type: the resources, the namespaces, the routes, the *)
(* queue and the bounds.                                                   *)
THEOREM DashboardTypeCorrect == Spec => []TypeOK
<1>1. Init => TypeOK
  <2> SUFFICES ASSUME Init PROVE TypeOK
    OBVIOUS
  <2>1. budget \in [{"faults", "creates", "extensions"} -> Nat]
    BY BoundsAssumption DEF Init
  <2> QED
    BY <2>1, NoCRType DEF Init, TypeOK
<1>2. TypeOK /\ [Next]_vars => TypeOK'
  BY TypeStep
<1> QED
  BY <1>1, <1>2, PTL DEF Spec

-----------------------------------------------------------------------------
(* Environments of different names *)

(* A namespace is ended only when a resource of its very name is being     *)
(* deleted or has expired: whatever happens to the environments of other   *)
(* names, and whoever asks for it, leaves it alone.                        *)
THEOREM NamesDoNotInterfere == Spec => TeardownHasCause
<1> DEFINE Caused == \A n \in Names : space[n] = "active" /\ space'[n] = "terminating"
                       => \E e \in Envs : NameOf[e] = n /\ (crs[e].state = "ending" \/ crs[e].due)
<1>1. ASSUME TypeOK, [Next]_vars PROVE Caused
  <2> SUFFICES ASSUME NEW n \in Names, space[n] = "active", space'[n] = "terminating"
               PROVE  \E e \in Envs : NameOf[e] = n /\ (crs[e].state = "ending" \/ crs[e].due)
    OBVIOUS
  <2>1. ASSUME NEW e \in Envs, TearDown(e) \/ CleanUp(e)
        PROVE  NameOf[e] = n /\ (crs[e].state = "ending" \/ crs[e].due)
    <3>1. EndSpace(e)
      BY <2>1 DEF TearDown, CleanUp
    <3> QED
      BY <1>1, <2>1, <3>1, EndSpaceEffect DEF TearDown, CleanUp
  <2>2. ASSUME NEW e \in Envs, Provision(e) PROVE FALSE
    <3>1. \E v \in BOOLEAN : space' = [space EXCEPT ![NameOf[e]] = IF @ = "absent" /\ v THEN "active" ELSE @]
      BY <2>2 DEF Provision
    <3> QED
      BY <1>1, <3>1 DEF TypeOK
  <2>3. ASSUME NEW e \in Envs,
               \/ Forget(e) \/ Expire(e) \/ Create(e) \/ KubectlDelete(e)
               \/ HandleDeleteEnv(e) \/ ExtendTTL(e) \/ UNCHANGED vars
        PROVE  FALSE
    BY <2>3 DEF Forget, Expire, Create, KubectlDelete, HandleDeleteEnv, Withdraw, ExtendTTL, vars
  <2>4. ASSUME NEW m \in Names, NamespaceGone(m) PROVE FALSE
    BY <1>1, <2>4 DEF NamespaceGone, TypeOK
  <2>5. CASE UNCHANGED vars
    BY <2>5 DEF vars
  <2> QED
    BY <1>1, <2>1, <2>2, <2>3, <2>4, <2>5 DEF Next, Reconcile
<1>2. TypeOK /\ [Next]_vars => [Caused]_vars
  BY <1>1
<1> QED
  BY <1>2, DashboardTypeCorrect, PTL DEF Spec, TeardownHasCause

-----------------------------------------------------------------------------
(* Routes of environments that share them *)

(* A route is owned while a resource of its gateway and name is held.      *)
Owner(e, r) == r[1] = GatewayOf[e] /\ r[2] = NameOf[e] /\ Stored(e) /\ crs[e].held

(* A step that changes one resource keeps the owners of the others, and of *)
(* this one if it still is one.                                            *)
LEMMA OwnersKept ==
  ASSUME TypeOK, RoutesOwned, NEW e \in Envs, NEW c \in CRs, Save(e, c),
         routes' \subseteq routes,
         Stored(e) /\ crs[e].held
           => \/ c.state # "none" /\ c.held
              \/ \A r \in routes' : ~(r[1] = GatewayOf[e] /\ r[2] = NameOf[e])
  PROVE  RoutesOwned'
<1> SUFFICES ASSUME NEW r \in routes' PROVE \E f \in Envs : Owner(f, r)'
  BY DEF RoutesOwned, Owner
<1>1. PICK f \in Envs : Owner(f, r)
  BY DEF RoutesOwned, Owner
<1>2. crs' = [crs EXCEPT ![e] = c] /\ crs \in [Envs -> CRs]
  BY DEF Save, TypeOK
<1>3. CASE f # e
  BY <1>1, <1>2, <1>3 DEF Owner, Stored
<1>4. CASE f = e
  BY <1>1, <1>2, <1>4 DEF Owner, Stored
<1> QED
  BY <1>3, <1>4

(* Also when resources of one name share a route, or have routes of one    *)
(* name in two gateways' namespaces, none outlives the last resource it is *)
(* for: CleanUp removes every route the resource may own before it lets    *)
(* the resource go.                                                        *)
THEOREM SharedRoutesOwned == Spec => []RoutesOwned
<1>1. Init => RoutesOwned
  BY DEF Init, RoutesOwned
<1>2. ASSUME TypeOK, RoutesOwned, [Next]_vars PROVE RoutesOwned'
  <2>t. crs \in [Envs -> CRs] /\ routes \subseteq Gateways \X Names \X Kinds
    BY <1>2 DEF TypeOK
  <2>u. ASSUME crs' = crs, routes' \subseteq routes PROVE RoutesOwned'
    BY <1>2, <2>u DEF RoutesOwned, Stored
  <2>1. ASSUME NEW e \in Envs, Provision(e) PROVE RoutesOwned'
    <3>1. PICK c \in CRs : Save(e, c) /\ c.state = crs[e].state /\ c.held
      <4>1. PICK b \in BOOLEAN : Save(e, [crs[e] EXCEPT !.held = TRUE, !.located = @ \/ b])
        BY <2>1 DEF Provision
      <4>2. crs[e] \in CRs
        BY <2>t
      <4> DEFINE c == [crs[e] EXCEPT !.held = TRUE, !.located = @ \/ b]
      <4>3. c \in CRs
        BY <4>2, EditTypes
      <4>4. c.state = crs[e].state /\ c.held
        BY <4>2 DEF CRs
      <4> HIDE DEF c
      <4> QED
        BY <4>1, <4>3, <4>4 DEF c
    <3>2. \A r \in routes' : r \in routes \/ \E k \in Kinds : r = RouteOf(e, k)
      BY <2>1 DEF Provision
    <3>3. crs' = [crs EXCEPT ![e] = c] /\ crs[e].state = "live"
      BY <2>1, <3>1 DEF Save, Provision
    <3>4. Stored(e)' /\ crs'[e].held
      BY <2>t, <3>1, <3>3 DEF Stored
    <3>5. ASSUME NEW r \in routes' PROVE \E f \in Envs : Owner(f, r)'
      <4>1. CASE \E k \in Kinds : r = RouteOf(e, k)
        BY <3>4, <4>1 DEF RouteOf, Owner
      <4>2. CASE r \in routes
        <5>1. PICK f \in Envs : Owner(f, r)
          BY <1>2, <4>2 DEF RoutesOwned, Owner
        <5> QED
          BY <2>t, <3>3, <3>4, <5>1 DEF Owner, Stored
      <4> QED
        BY <3>2, <4>1, <4>2
    <3> QED
      BY <3>5 DEF RoutesOwned, Owner
  <2>2. ASSUME NEW e \in Envs, TearDown(e) PROVE RoutesOwned'
    <3>1. crs[e] \in CRs /\ Save(e, [crs[e] EXCEPT !.held = TRUE]) /\ crs[e].state = "live"
      BY <2>t, <2>2 DEF TearDown
    <3>2. [crs[e] EXCEPT !.held = TRUE] \in CRs
      BY <3>1, EditTypes
    <3>3. [crs[e] EXCEPT !.held = TRUE].state = "live" /\ [crs[e] EXCEPT !.held = TRUE].held
      BY <3>1 DEF CRs
    <3>4. routes' \subseteq routes
      BY <2>2 DEF TearDown
    <3> QED
      BY <1>2, <3>1, <3>2, <3>3, <3>4, OwnersKept
  <2>3. ASSUME NEW e \in Envs, CleanUp(e) PROVE RoutesOwned'
    <3>1. routes' = routes \ {RouteOf(e, k) : k \in Kinds}
      BY <2>3 DEF CleanUp
    <3>2. ASSUME NEW r \in routes', r[1] = GatewayOf[e], r[2] = NameOf[e] PROVE FALSE
      <4>1. r \in Gateways \X Names \X Kinds
        BY <2>t, <3>1
      <4>2. r = RouteOf(e, r[3]) /\ r[3] \in Kinds
        BY <3>2, <4>1 DEF RouteOf
      <4> QED
        BY <3>1, <4>2
    <3>3. CASE Save(e, NoCR)
      BY <1>2, <3>1, <3>2, <3>3, NoCRType, OwnersKept
    <3>4. CASE UNCHANGED crs
      BY <2>u, <3>1, <3>4
    <3> QED
      BY <2>3, <3>3, <3>4 DEF CleanUp
  <2>4. ASSUME NEW e \in Envs, KubectlDelete(e) \/ HandleDeleteEnv(e) PROVE RoutesOwned'
    <3>1. Withdraw(e) /\ routes' = routes /\ crs[e] \in CRs
      BY <2>t, <2>4 DEF KubectlDelete, HandleDeleteEnv, Withdraw
    <3>2. CASE crs[e].held
      <4>1. Save(e, [crs[e] EXCEPT !.state = "ending"])
        BY <3>1, <3>2 DEF Withdraw
      <4>2. [crs[e] EXCEPT !.state = "ending"] \in CRs
        BY <3>1, EditTypes
      <4>3. /\ [crs[e] EXCEPT !.state = "ending"].state = "ending"
            /\ [crs[e] EXCEPT !.state = "ending"].held
        BY <3>1, <3>2 DEF CRs
      <4> QED
        BY <1>2, <3>1, <4>1, <4>2, <4>3, OwnersKept
    <3>3. CASE ~crs[e].held
      BY <1>2, <3>1, <3>3, NoCRType, OwnersKept DEF Withdraw
    <3> QED
      BY <3>2, <3>3
  <2>5. ASSUME NEW e \in Envs, Expire(e) \/ ExtendTTL(e) PROVE RoutesOwned'
    <3>1. PICK b \in BOOLEAN : Save(e, [crs[e] EXCEPT !.due = b])
      BY <2>5 DEF Expire, ExtendTTL
    <3>2. crs[e] \in CRs /\ routes' = routes
      BY <2>t, <2>5 DEF Expire, ExtendTTL
    <3>3. [crs[e] EXCEPT !.due = b] \in CRs
      BY <3>2, EditTypes
    <3>4. /\ [crs[e] EXCEPT !.due = b].state = crs[e].state
          /\ [crs[e] EXCEPT !.due = b].held = crs[e].held
      BY <3>2 DEF CRs
    <3> QED
      BY <1>2, <3>1, <3>2, <3>3, <3>4, OwnersKept DEF Stored
  <2>6. ASSUME NEW e \in Envs, Create(e) PROVE RoutesOwned'
    <3>1. [NoCR EXCEPT !.state = "live"] \in CRs
      BY NoCRType, EditTypes
    <3> QED
      BY <1>2, <2>6, <3>1, OwnersKept DEF Create
  <2>7. ASSUME NEW e \in Envs, Forget(e) PROVE RoutesOwned'
    BY <2>u, <2>7 DEF Forget
  <2>8. ASSUME NEW n \in Names, NamespaceGone(n) PROVE RoutesOwned'
    BY <2>u, <2>8 DEF NamespaceGone
  <2>9. CASE UNCHANGED vars
    BY <2>u, <2>9 DEF vars
  <2> QED
    BY <1>2, <2>1, <2>2, <2>3, <2>4, <2>5, <2>6, <2>7, <2>8, <2>9 DEF Next, Reconcile
<1>3. TypeOK /\ RoutesOwned /\ [Next]_vars => RoutesOwned'
  BY <1>2
<1> QED
  BY <1>1, <1>3, DashboardTypeCorrect, PTL DEF Spec

=============================================================================
