------------------------ MODULE HelmComponents_proofs ------------------------
(* Proofs about HelmComponents, for every value of its constants. *)
EXTENDS HelmComponents, TLAPS

-----------------------------------------------------------------------------
(* Lists of components *)

(* What a list that is extended at its end names. *)
LEMMA ListedAppend ==
  ASSUME NEW list \in Lists, NEW c \in Components
  PROVE  Append(list, c) \in Lists /\ Listed(Append(list, c)) = Listed(list) \cup {c}
<1> DEFINE more == Append(list, c)
<1>1. more \in Lists /\ Len(more) = Len(list) + 1
  BY DEF Lists
<1>2. DOMAIN more = DOMAIN list \cup {Len(list) + 1} /\ Len(list) + 1 \notin DOMAIN list
  BY DEF Lists
<1>3. \A i \in DOMAIN list : more[i] = list[i]
  BY DEF Lists
<1>4. more[Len(list) + 1] = c
  BY DEF Lists
<1> QED
  BY <1>1, <1>2, <1>3, <1>4 DEF Listed

(* What a list names is its head and what its tail names. *)
LEMMA ListedHeadTail ==
  ASSUME NEW list \in Lists, list # <<>>
  PROVE  /\ Head(list) \in Components /\ Tail(list) \in Lists
         /\ Listed(list) = {Head(list)} \cup Listed(Tail(list))
<1>1. Head(list) \in Components /\ Tail(list) \in Lists /\ Head(list) = list[1]
  BY DEF Lists
<1>2. DOMAIN list = 1 .. Len(list) /\ Len(list) \in Nat \ {0}
  BY DEF Lists
<1>3. DOMAIN Tail(list) = 1 .. (Len(list) - 1)
  BY <1>2 DEF Lists
<1>4. \A i \in DOMAIN Tail(list) : i + 1 \in DOMAIN list /\ Tail(list)[i] = list[i + 1]
  BY <1>2, <1>3 DEF Lists
<1>5. \A i \in DOMAIN list : i = 1 \/ i - 1 \in DOMAIN Tail(list)
  BY <1>2, <1>3
<1>6. \A i \in DOMAIN list : i # 1 => list[i] = Tail(list)[i - 1]
  BY <1>2, <1>3, <1>4, <1>5
<1>7. 1 \in DOMAIN list
  BY <1>2
<1>8. ASSUME NEW i \in DOMAIN list PROVE list[i] \in {Head(list)} \cup Listed(Tail(list))
  BY <1>1, <1>5, <1>6 DEF Listed
<1>9. ASSUME NEW i \in DOMAIN Tail(list) PROVE Tail(list)[i] \in Listed(list)
  BY <1>4 DEF Listed
<1> QED
  BY <1>1, <1>7, <1>8, <1>9 DEF Listed

(* Every component has a release, and an empty list names nothing. *)
LEMMA Names ==
  /\ \A c \in Components : ReleaseOf[c] \in Releases
  /\ \A list \in Lists : Listed(list) \subseteq Components
  /\ <<>> \in Lists /\ Listed(<<>>) = {}
BY DEF Releases, Lists, Listed

-----------------------------------------------------------------------------
(* Type correctness *)

(* What may be asked for is made of lists. *)
LEMMA SpecType ==
  \A s \in Specs \cup {NoSpec} :
    s.components \in Lists /\ s.templateRef \in BOOLEAN /\ s.helm \in Lists
<1>1. NoSpec.components \in Lists /\ NoSpec.templateRef \in BOOLEAN /\ NoSpec.helm \in Lists
  BY Names DEF NoSpec
<1> QED
  BY <1>1, SpecsAssumption

(* The list to deploy is a list of components. *)
LEMMA ResolveType ==
  ASSUME TypeOK, NEW s \in Specs \cup {NoSpec} PROVE Resolve(s) \in Lists
<1>1. template # NoTemplate => template \in Lists
  BY TemplatesAssumption DEF TypeOK
<1> QED
  BY <1>1, SpecType DEF Resolve

(* Using up a bound keeps the type of the counters. *)
LEMMA SpendType ==
  ASSUME TypeOK, NEW k \in Kinds, Spend(k)
  PROVE  used' \in [Kinds -> Nat] /\ used'[k] = used[k] + 1 /\ used[k] \in Nat
<1>1. used \in [Kinds -> Nat]
  BY DEF TypeOK
<1> QED
  BY <1>1 DEF Spend

(* What a status write does: it stores a phase and a list, or it is lost. *)
LEMMA StoreEffect ==
  ASSUME TypeOK, NEW p, NEW list \in Lists, NEW ok \in BOOLEAN, Store(p, list, ok)
  PROVE  /\ phase' \in {phase, p} /\ statuses' \in {statuses, list}
         /\ fresh' \in BOOLEAN /\ used' \in [Kinds -> Nat]
         /\ used'["faults"] >= used["faults"]
<1> used \in [Kinds -> Nat] /\ fresh \in BOOLEAN /\ used["faults"] \in Nat
  BY DEF TypeOK, Kinds
<1>1. CASE Put(p, list) /\ UNCHANGED used
  <2>1. used' \in [Kinds -> Nat] /\ used'["faults"] >= used["faults"]
    BY <1>1
  <2> QED
    BY <1>1, <2>1 DEF Put
<1>2. CASE UNCHANGED <<phase, statuses, fresh, used>>
  BY <1>2
<1>3. CASE Spend("faults") /\ (UNCHANGED <<phase, statuses, fresh>> \/ Put(p, list))
  <2>1. used' \in [Kinds -> Nat] /\ used'["faults"] >= used["faults"]
    BY <1>3, SpendType DEF Kinds
  <2> QED
    BY <1>3, <2>1 DEF Put
<1> QED
  BY <1>1, <1>2, <1>3 DEF Store

(* The empty run is well formed. *)
LEMMA NoRunType ==
  NoRun \in [spec: Specs \cup {NoSpec}, statuses: Lists, todo: Lists, done: Lists]
BY Names DEF NoRun

(* A failed deployment ends the run; it stores the phase at most. *)
LEMMA HelmFailedEffect ==
  ASSUME TypeOK, HelmFailed
  PROVE  /\ phase' \in {phase, "Failed"} /\ statuses' \in {statuses, run.statuses}
         /\ fresh' \in BOOLEAN /\ used' \in [Kinds -> Nat]
         /\ pc' = "idle" /\ run' = NoRun /\ queued' = TRUE
<1>1. PICK ok \in BOOLEAN : Store("Failed", run.statuses, ok)
  BY DEF HelmFailed
<1>2. run.statuses \in Lists
  BY DEF TypeOK
<1> QED
  BY <1>1, <1>2, StoreEffect DEF HelmFailed, End

(* While components are being deployed there is one to deploy. *)
Deploying == pc \in {"check", "install", "installing"} => run.todo # <<>>

(* The parts of a run that is deploying, or not. *)
LEMMA RunParts ==
  ASSUME TypeOK
  PROVE  /\ run.spec \in Specs \cup {NoSpec} /\ run.statuses \in Lists
         /\ run.todo \in Lists /\ run.done \in Lists
BY DEF TypeOK

(* A deploying run has a component and its release. *)
LEMMA ComponentType ==
  ASSUME TypeOK, run.todo # <<>>
  PROVE  Component \in Components /\ Release \in Releases
BY RunParts, ListedHeadTail, Names DEF Component, Release

(* A component in place moves the run on. *)
LEMMA DeployedType ==
  ASSUME TypeOK, run.todo # <<>>, Deployed
  PROVE  /\ run' \in [spec: Specs \cup {NoSpec}, statuses: Lists, todo: Lists, done: Lists]
         /\ pc' \in Steps /\ Deploying'
<1> DEFINE rest == Tail(run.todo)
           done == Append(run.done, Component)
<1>1. rest \in Lists /\ done \in Lists
  BY RunParts, ListedHeadTail, ListedAppend, ComponentType
<1>2. CASE rest # <<>>
  <2>1. run' = [run EXCEPT !.todo = rest, !.done = done] /\ pc' = "check"
    BY <1>2 DEF Deployed, Goto
  <2> HIDE DEF rest, done
  <2>2. run'.todo = rest
    BY <2>1 DEF TypeOK
  <2> QED
    BY <1>1, <1>2, <2>1, <2>2 DEF TypeOK, Steps, Deploying
<1>3. CASE rest = <<>>
  <2>1. run' = [run EXCEPT !.todo = rest, !.done = <<>>, !.statuses = done] /\ pc' = "activate"
    BY <1>3 DEF Deployed, Goto
  <2> HIDE DEF rest, done
  <2> QED
    BY <1>1, <1>3, <2>1, Names DEF TypeOK, Steps, Deploying
<1> QED
  BY <1>2, <1>3

(* A record Helm writes is well formed. *)
LEMMA RecordType ==
  ASSUME TypeOK, NEW r \in Releases
  PROVE  /\ None \in Records
         /\ [record EXCEPT ![r] = None] \in [Releases -> Records]
         /\ \A x \in States : [record EXCEPT ![r].state = x] \in [Releases -> Records]
         /\ \A c \in Components :
              [record EXCEPT ![r] = [state |-> "pending", of |-> c]] \in [Releases -> Records]
<1>1. record \in [Releases -> Records]
  BY DEF TypeOK
<1>2. None \in Records /\ \A c \in Components : [state |-> "pending", of |-> c] \in Records
  BY DEF None, Records, States
<1>3. \A x \in States : [record[r] EXCEPT !.state = x] \in Records
  BY <1>1 DEF Records
<1> QED
  BY <1>1, <1>2, <1>3

(* Counting a failed installation. *)
LEMMA FailOnceType == TypeOK /\ FailOnce => failures' \in Nat
<1>1. TypeOK => failures \in Nat
  BY DEF TypeOK
<1> QED
  BY <1>1 DEF FailOnce

(* The initial states are well typed. *)
LEMMA InitType == Init => TypeOK /\ Deploying
<1> SUFFICES ASSUME Init PROVE TypeOK /\ Deploying
  OBVIOUS
<1>1. record \in [Releases -> Records]
  BY DEF Init, None, Records, States
<1>2. run \in [spec: Specs \cup {NoSpec}, statuses: Lists, todo: Lists, done: Lists]
  BY NoRunType DEF Init
<1>3. used \in [Kinds -> Nat] /\ failures \in Nat
  BY DEF Init
<1> QED
  BY <1>1, <1>2, <1>3, Names DEF Init, TypeOK, Steps, Deploying

(* Every step keeps the types. *)
LEMMA TypeStep == TypeOK /\ Deploying /\ [Next]_vars => TypeOK' /\ Deploying'
<1> SUFFICES ASSUME TypeOK, Deploying, [Next]_vars PROVE TypeOK' /\ Deploying'
  OBVIOUS
<1> DEFINE Runs == [spec: Specs \cup {NoSpec}, statuses: Lists, todo: Lists, done: Lists]
<1>1. CASE Begin
  <2>1. run' \in Runs
    <3>1. CASE life = "gone"
      BY <1>1, <3>1 DEF Begin, TypeOK
    <3>2. CASE life # "gone"
      BY <1>1, <3>2, NoRunType, Names DEF Begin, TypeOK
    <3> QED
      BY <3>1, <3>2
  <2>2. pc' \in Steps /\ Deploying' /\ ns' \in {"absent", "active", "terminating"}
    BY <1>1 DEF Begin, TypeOK, Goto, Steps, Deploying
  <2> QED
    BY <1>1, <2>1, <2>2 DEF Begin, Stay, TypeOK
<1>2. CASE Decide
  BY <1>2 DEF Decide, Stay, cluster, TypeOK, Goto, Steps, Deploying
<1>3. CASE EnsureHelmRelease
  <2> DEFINE list == Resolve(run.spec)
  <2>1. list \in Lists
    BY ResolveType, RunParts
  <2>2. CASE list = <<>>
    <3>1. HelmFailed
      BY <1>3, <2>2 DEF EnsureHelmRelease
    <3> QED
      BY <1>3, <3>1, HelmFailedEffect, RunParts, NoRunType
         DEF EnsureHelmRelease, Stay, cluster, TypeOK, Steps, Deploying
  <2>3. CASE list # <<>>
    <3>1. run' = [run EXCEPT !.todo = list] /\ pc' = "check"
      BY <1>3, <2>3 DEF EnsureHelmRelease, Goto
    <3>2. UNCHANGED <<statuses, phase, queued, fresh, used>>
      BY <1>3, <2>3 DEF EnsureHelmRelease
    <3> HIDE DEF list
    <3>3. run' \in Runs /\ run'.todo # <<>>
      BY <2>1, <2>3, <3>1 DEF TypeOK
    <3> QED
      BY <1>3, <3>1, <3>2, <3>3 DEF EnsureHelmRelease, Stay, cluster, TypeOK, Steps, Deploying
  <2> QED
    BY <2>2, <2>3
<1>4. CASE CheckInstalled
  <2>1. run' \in Runs /\ pc' \in Steps /\ Deploying'
    <3>1. CASE Deployed
      BY <1>4, <3>1, DeployedType DEF CheckInstalled, Deploying
    <3>2. CASE pc' = "install" /\ UNCHANGED run
      BY <1>4, <3>2 DEF CheckInstalled, TypeOK, Deploying, Steps
    <3> QED
      BY <1>4, <3>1, <3>2 DEF CheckInstalled, Goto
  <2>2. used' \in [Kinds -> Nat]
    <3>1. CASE UNCHANGED used
      BY <3>1 DEF TypeOK
    <3>2. CASE Spend("faults")
      BY <3>2, SpendType DEF Kinds
    <3> QED
      BY <1>4, <3>1, <3>2 DEF CheckInstalled
  <2> QED
    BY <1>4, <2>1, <2>2 DEF CheckInstalled, Stay, cluster, TypeOK
<1>5. CASE InstallRefused
  <2>1. failures' \in Nat
    <3>1. CASE CanStart
      BY <1>5, <3>1, FailOnceType DEF InstallRefused
    <3>2. CASE ~CanStart
      BY <1>5, <3>2 DEF InstallRefused, TypeOK
    <3> QED
      BY <3>1, <3>2
  <2> QED
    BY <1>5, <2>1, HelmFailedEffect, RunParts, NoRunType
       DEF InstallRefused, cluster, TypeOK, Steps, Deploying
<1>6. CASE StartInstall
  <2>1. run.todo # <<>>
    BY <1>6 DEF StartInstall, Deploying
  <2>2. record' \in [Releases -> Records]
    BY <1>6, <2>1, ComponentType, RecordType DEF StartInstall
  <2> QED
    BY <1>6, <2>1, <2>2 DEF StartInstall, Stay, Goto, TypeOK, Steps, Deploying
<1>7. CASE InstallSucceeds
  <2>1. run.todo # <<>>
    BY <1>7 DEF InstallSucceeds, Deploying
  <2>2. record' \in [Releases -> Records]
    BY <1>7, <2>1, ComponentType, RecordType DEF InstallSucceeds, States
  <2> QED
    BY <1>7, <2>1, <2>2, DeployedType DEF InstallSucceeds, Stay, TypeOK
<1>8. CASE InstallFails
  <2>1. run.todo # <<>> /\ failures' \in Nat
    BY <1>8, FailOnceType DEF InstallFails, Deploying
  <2>2. record' \in [Releases -> Records]
    BY <1>8, <2>1, ComponentType, RecordType DEF InstallFails, States
  <2> QED
    BY <1>8, <2>1, <2>2, HelmFailedEffect, RunParts, NoRunType
       DEF InstallFails, TypeOK, Steps, Deploying
<1>9. CASE Activate
  <2>1. PICK ok \in BOOLEAN : /\ Store("Active", run.statuses, ok)
                              /\ \E moved \in BOOLEAN : End(moved \/ ~ok)
    BY <1>9 DEF Activate
  <2>2. pc' = "idle" /\ run' = NoRun /\ queued' \in BOOLEAN
    BY <2>1 DEF End, TypeOK
  <2>3. /\ phase' \in {phase, "Active"} /\ statuses' \in {statuses, run.statuses}
        /\ fresh' \in BOOLEAN /\ used' \in [Kinds -> Nat]
    BY <2>1, StoreEffect, RunParts
  <2> QED
    BY <1>9, <2>2, <2>3, RunParts, NoRunType DEF Activate, Stay, cluster, TypeOK, Steps, Deploying
<1>10. CASE UninstallNext
  <2>1. run' \in Runs /\ run.todo # <<>> /\ Head(run.todo) \in Components
    BY <1>10, RunParts, ListedHeadTail DEF UninstallNext, TypeOK
  <2>2. record' \in [Releases -> Records]
    <3>1. ReleaseOf[Head(run.todo)] \in Releases
      BY <2>1, Names
    <3> QED
      BY <1>10, <3>1, RecordType DEF UninstallNext, TypeOK
  <2>3. used' \in [Kinds -> Nat]
    <3>1. CASE UNCHANGED used
      BY <3>1 DEF TypeOK
    <3>2. CASE Spend("faults")
      BY <3>2, SpendType DEF Kinds
    <3> QED
      BY <1>10, <3>1, <3>2 DEF UninstallNext
  <2> QED
    BY <1>10, <2>1, <2>2, <2>3 DEF UninstallNext, Stay, TypeOK, Deploying
<1>11. CASE CleanupNamespace
  BY <1>11 DEF CleanupNamespace, Stay, Goto, TypeOK, Steps, Deploying
<1>12. CASE SaveExpired
  <2>1. PICK ok \in BOOLEAN : Store("Expired", run.statuses, ok) /\ End(~ok)
    BY <1>12 DEF SaveExpired
  <2>2. pc' = "idle" /\ run' = NoRun /\ queued' \in BOOLEAN
    BY <2>1 DEF End, TypeOK
  <2>3. /\ phase' \in {phase, "Expired"} /\ statuses' \in {statuses, run.statuses}
        /\ fresh' \in BOOLEAN /\ used' \in [Kinds -> Nat]
    BY <2>1, StoreEffect, RunParts
  <2> QED
    BY <1>12, <2>2, <2>3, RunParts, NoRunType DEF SaveExpired, Stay, cluster, TypeOK, Steps, Deploying
<1>13. CASE RemoveFinalizer
  <2>1. pc' = "idle" /\ run' = NoRun /\ queued' \in BOOLEAN /\ life' \in {life, "gone"}
    BY <1>13 DEF RemoveFinalizer, End, TypeOK
  <2>2. used' \in [Kinds -> Nat]
    <3>1. CASE UNCHANGED used
      BY <3>1 DEF TypeOK
    <3>2. CASE Spend("faults")
      BY <3>2, SpendType DEF Kinds
    <3> QED
      BY <1>13, <3>1, <3>2 DEF RemoveFinalizer
  <2> QED
    BY <1>13, <2>1, <2>2, NoRunType DEF RemoveFinalizer, cluster, TypeOK, Steps, Deploying
<1>14. CASE EditSpec
  <2>1. used' \in [Kinds -> Nat]
    BY <1>14, SpendType DEF EditSpec, Kinds
  <2> QED
    BY <1>14, <2>1 DEF EditSpec, Idle, cluster, TypeOK, Deploying
<1>15. CASE EditTemplate
  <2>1. used' \in [Kinds -> Nat]
    BY <1>15, SpendType DEF EditTemplate, Kinds
  <2> QED
    BY <1>15, <2>1 DEF EditTemplate, Idle, resource, cluster, TypeOK, Deploying
<1>16. CASE Expire
  BY <1>16 DEF Expire, Idle, cluster, TypeOK, Deploying
<1>17. CASE ExtendTTL
  <2>1. used' \in [Kinds -> Nat]
    BY <1>17, SpendType DEF ExtendTTL, Kinds
  <2> QED
    BY <1>17, <2>1 DEF ExtendTTL, Idle, cluster, TypeOK, Deploying
<1>18. CASE Delete
  BY <1>18 DEF Delete, Idle, cluster, TypeOK, Deploying
<1>19. CASE NamespaceGone
  <2>1. record' \in [Releases -> Records]
    BY <1>19 DEF NamespaceGone, None, Records, States
  <2> QED
    BY <1>19, <2>1 DEF NamespaceGone, Idle, resource, TypeOK, Deploying
<1>20. CASE Restart
  <2>1. used' \in [Kinds -> Nat]
    BY <1>20, SpendType DEF Restart, Kinds
  <2> QED
    BY <1>20, <2>1, NoRunType DEF Restart, resource, cluster, TypeOK, Steps, Deploying
<1>21. CASE UNCHANGED vars
  BY <1>21 DEF vars, TypeOK, Deploying
<1> QED
  BY <1>1, <1>2, <1>3, <1>4, <1>5, <1>6, <1>7, <1>8, <1>9, <1>10, <1>11, <1>12, <1>13,
     <1>14, <1>15, <1>16, <1>17, <1>18, <1>19, <1>20, <1>21 DEF Next, Reconcile

(* Every variable of the deployment and of what Helm stores keeps its type. *)
THEOREM HelmTypeCorrect == Spec => []TypeOK
<1>1. Spec => [](TypeOK /\ Deploying)
  BY InitType, TypeStep, PTL DEF Spec
<1> QED
  BY <1>1, PTL

-----------------------------------------------------------------------------
(* What is recorded, resumed and uninstalled *)

Busy == {"check", "install", "installing"}

(* What this run has deployed so far is installed while the namespace is   *)
(* live, and only a run that deploys has deployed anything.                *)
DoneInstalled == ns = "active" => \A c \in Listed(run.done) : Installed(ReleaseOf[c])
DoneInBusy    == pc \notin Busy => run.done = <<>>

(* The statuses a run carries are those stored, or the result of a         *)
(* complete deployment.                                                    *)
StatusesKept == pc \notin {"idle", "activate"} => run.statuses = statuses
Complete     == pc = "activate" =>
                  \/ run.statuses = statuses
                  \/ ns = "active" => \A c \in Listed(run.statuses) : Installed(ReleaseOf[c])

(* Unless a call failed, what is about to be installed is not there.       *)
Missing == pc = "install" /\ used["faults"] = 0 => ~Installed(Release)

(* Unless a call failed, what is recorded and still installed is still to  *)
(* be uninstalled.                                                         *)
Remaining == pc = "uninstall" /\ used["faults"] = 0 =>
               \A c \in Listed(statuses) :
                 Installed(ReleaseOf[c]) =>
                   \E d \in Listed(run.todo) : ReleaseOf[d] = ReleaseOf[c]

Accounted == /\ DoneInstalled /\ DoneInBusy /\ StatusesKept /\ Complete
             /\ Missing /\ Remaining

HelmInv == TypeOK /\ Deploying /\ Accounted

(* The end of a run leaves nothing to account for. *)
LEMMA EndAccounts ==
  ASSUME pc' = "idle", run' = NoRun PROVE Accounted'
BY Names DEF Accounted, DoneInstalled, DoneInBusy, StatusesKept, Complete, Missing,
             Remaining, NoRun, Busy

(* A step of anybody else leaves the account as it is. *)
LEMMA OthersAccount ==
  ASSUME Accounted, UNCHANGED <<pc, run, statuses, ns, record>>,
         used'["faults"] = used["faults"]
  PROVE  Accounted'
BY DEF Accounted, DoneInstalled, DoneInBusy, StatusesKept, Complete, Missing,
       Remaining, Installed, Release, Component

(* Using up another bound leaves the count of failed calls as it is. *)
LEMMA SpendOther ==
  ASSUME TypeOK, NEW k \in {"crashes", "edits"}, Spend(k)
  PROVE  used'["faults"] = used["faults"]
<1>1. used \in [Kinds -> Nat] /\ k \in Kinds /\ "faults" \in Kinds /\ k # "faults"
  BY DEF TypeOK, Kinds
<1> QED
  BY <1>1 DEF Spend

(* A failed call is counted. *)
LEMMA SpendFault ==
  ASSUME TypeOK, Spend("faults") PROVE used'["faults"] # 0
<1>1. used["faults"] \in Nat /\ used'["faults"] = used["faults"] + 1
  BY SpendType DEF TypeOK, Kinds
<1> QED
  BY <1>1

(* A component that is installed moves the run on, with its account.       *)
LEMMA DeployedAccounts ==
  ASSUME TypeOK, Accounted, pc \in Busy, run.todo # <<>>, Deployed,
         UNCHANGED <<statuses, ns>>,
         record'[Release].state # "none",
         \A r \in Releases : Installed(r) => record'[r].state # "none"
  PROVE  Accounted'
<1> DEFINE rest == Tail(run.todo)
           done == Append(run.done, Component)
<1>1. Listed(done) = Listed(run.done) \cup {Component}
  BY RunParts, ComponentType, ListedAppend
<1>2. ns' = "active" => \A c \in Listed(done) : Installed(ReleaseOf[c])'
  <2>1. ASSUME ns' = "active", NEW c \in Listed(done) PROVE Installed(ReleaseOf[c])'
    <3>1. CASE c = Component
      BY <3>1 DEF Release, Installed
    <3>2. CASE c \in Listed(run.done)
      <4>1. ReleaseOf[c] \in Releases
        BY <3>2, RunParts, Names
      <4> QED
        BY <2>1, <3>2, <4>1 DEF Accounted, DoneInstalled, Installed
    <3> QED
      BY <1>1, <2>1, <3>1, <3>2
  <2> QED
    BY <2>1
<1>3. CASE rest # <<>>
  <2>1. run' = [run EXCEPT !.todo = rest, !.done = done] /\ pc' = "check"
    BY <1>3 DEF Deployed, Goto
  <2> HIDE DEF rest, done
  <2>2. run'.done = done /\ run'.statuses = run.statuses
    BY <2>1 DEF TypeOK
  <2>3. run.statuses = statuses
    BY DEF Accounted, StatusesKept, Busy
  <2> QED
    BY <1>2, <2>1, <2>2, <2>3
       DEF Accounted, DoneInstalled, DoneInBusy, StatusesKept, Complete, Missing, Remaining,
           Busy, Installed
<1>4. CASE rest = <<>>
  <2>1. run' = [run EXCEPT !.todo = rest, !.done = <<>>, !.statuses = done]
          /\ pc' = "activate"
    BY <1>4 DEF Deployed, Goto
  <2> HIDE DEF rest, done
  <2>2. run'.done = <<>> /\ run'.statuses = done
    BY <2>1 DEF TypeOK
  <2> QED
    BY <1>2, <2>1, <2>2, Names
       DEF Accounted, DoneInstalled, DoneInBusy, StatusesKept, Complete, Missing, Remaining,
           Busy, Installed
<1> QED
  BY <1>3, <1>4

(* Every step keeps the account. *)
LEMMA HelmStep == HelmInv /\ [Next]_vars => HelmInv'
<1> SUFFICES ASSUME TypeOK, Deploying, Accounted, [Next]_vars PROVE Accounted'
  BY TypeStep DEF HelmInv
<1> USE DEF Busy
<1>1. CASE Begin
  <2>1. CASE life = "gone"
    <3>1. UNCHANGED <<pc, run, ns, statuses, record, used>>
      BY <1>1, <2>1 DEF Begin, Stay
    <3> QED
      BY <3>1, OthersAccount
  <2>2. CASE life = "live"
    <3>1. /\ run' = [NoRun EXCEPT !.spec = spec, !.statuses = statuses, !.todo = <<>>]
          /\ pc' = "resolve" /\ UNCHANGED <<statuses, record, used>>
      BY <1>1, <2>2 DEF Begin, Stay, Goto
    <3> QED
      BY <3>1, Names DEF Accounted, DoneInstalled, DoneInBusy, StatusesKept, Complete,
                         Missing, Remaining, NoRun
  <2>3. CASE life \notin {"live", "gone"}
    <3>1. /\ run' = [NoRun EXCEPT !.spec = spec, !.statuses = statuses, !.todo = statuses]
          /\ pc' = "uninstall" /\ UNCHANGED <<statuses, record, used>>
      BY <1>1, <2>3 DEF Begin, Stay, Goto
    <3> QED
      BY <3>1, Names DEF Accounted, DoneInstalled, DoneInBusy, StatusesKept, Complete,
                         Missing, Remaining, NoRun
  <2> QED
    BY <2>1, <2>2, <2>3
<1>2. CASE Decide
  <2>1. /\ pc = "resolve" /\ pc' \in {"activate", "ensure"}
        /\ UNCHANGED <<statuses, ns, record, run, used>>
    BY <1>2 DEF Decide, Stay, cluster, Goto
  <2> QED
    BY <2>1 DEF Accounted, DoneInstalled, DoneInBusy, StatusesKept, Complete, Missing,
                Remaining, Installed
<1>3. CASE EnsureHelmRelease
  <2> DEFINE list == Resolve(run.spec)
  <2>1. CASE list = <<>>
    BY <1>3, <2>1, HelmFailedEffect, EndAccounts DEF EnsureHelmRelease
  <2>2. CASE list # <<>>
    <3>1. /\ run' = [run EXCEPT !.todo = list] /\ pc' = "check" /\ pc = "ensure"
          /\ UNCHANGED <<statuses, ns, record>>
      BY <1>3, <2>2 DEF EnsureHelmRelease, Goto, Stay, cluster
    <3>2. run'.done = run.done /\ run'.statuses = run.statuses
      BY <3>1 DEF TypeOK
    <3> QED
      BY <3>1, <3>2 DEF Accounted, DoneInstalled, DoneInBusy, StatusesKept, Complete,
                        Missing, Remaining, Installed
  <2> QED
    BY <2>1, <2>2
<1>4. CASE CheckInstalled
  <2>1. run.todo # <<>> /\ pc = "check" /\ UNCHANGED <<statuses, ns, record>>
    BY <1>4 DEF CheckInstalled, Deploying, Stay, cluster
  <2>2. CASE Installed(Release) /\ Deployed
    BY <2>1, <2>2, DeployedAccounts DEF Installed
  <2>3. CASE ~Installed(Release) /\ pc' = "install" /\ UNCHANGED <<run, used>>
    BY <2>1, <2>3 DEF Accounted, DoneInstalled, DoneInBusy, StatusesKept, Complete, Missing,
                      Remaining, Installed, Release, Component
  <2>4. CASE Spend("faults") /\ pc' = "install" /\ UNCHANGED run
    <3>1. used'["faults"] # 0
      BY <2>4, SpendFault
    <3> QED
      BY <2>1, <2>4, <3>1
         DEF Accounted, DoneInstalled, DoneInBusy, StatusesKept, Complete, Missing, Remaining,
             Installed
  <2> QED
    BY <1>4, <2>2, <2>3, <2>4 DEF CheckInstalled, Goto
<1>5. CASE InstallRefused
  BY <1>5, HelmFailedEffect, EndAccounts DEF InstallRefused
<1>6. CASE StartInstall
  <2>1. /\ pc = "install" /\ pc' = "installing"
        /\ UNCHANGED <<statuses, ns, run, used>>
    BY <1>6 DEF StartInstall, Stay, Goto
  <2>2. \A r \in Releases : Installed(r) => record'[r].state # "none"
    BY <1>6 DEF StartInstall, Installed, TypeOK
  <2>3. \A c \in Listed(run.done) : ReleaseOf[c] \in Releases
    BY RunParts, Names
  <2>4. DoneInstalled'
    BY <2>1, <2>2, <2>3 DEF Accounted, DoneInstalled, Installed
  <2> QED
    BY <2>1, <2>4 DEF Accounted, DoneInBusy, StatusesKept, Complete, Missing, Remaining
<1>7. CASE InstallSucceeds
  <2>1. /\ pc = "installing" /\ run.todo # <<>> /\ Deployed /\ UNCHANGED <<statuses, ns>>
    BY <1>7 DEF InstallSucceeds, Stay, Deploying
  <2>2. record \in [Releases -> Records] /\ Release \in Releases
    BY <2>1, ComponentType DEF TypeOK
  <2>3. record' = [record EXCEPT ![Release].state = "deployed"]
    BY <1>7 DEF InstallSucceeds
  <2>4. record'[Release].state = "deployed"
    BY <2>2, <2>3 DEF Records
  <2>5. \A r \in Releases : Installed(r) => record'[r].state # "none"
    BY <2>2, <2>3, <2>4 DEF Installed
  <2> QED
    BY <2>1, <2>4, <2>5, DeployedAccounts
<1>8. CASE InstallFails
  BY <1>8, HelmFailedEffect, EndAccounts DEF InstallFails
<1>9. CASE Activate
  BY <1>9, EndAccounts DEF Activate, End
<1>10. CASE UninstallNext
  <2> DEFINE r == ReleaseOf[Head(run.todo)]
  <2>1. /\ pc = "uninstall" /\ pc' = "uninstall" /\ run.todo # <<>>
        /\ run' = [run EXCEPT !.todo = Tail(@)] /\ UNCHANGED <<statuses, ns>>
    BY <1>10 DEF UninstallNext, Stay
  <2>2. run'.done = run.done /\ run'.statuses = run.statuses /\ run'.todo = Tail(run.todo)
    BY <2>1 DEF TypeOK
  <2>3. run.done = <<>> /\ run.statuses = statuses
    BY <2>1 DEF Accounted, DoneInBusy, StatusesKept
  <2>4. DoneInstalled' /\ DoneInBusy' /\ StatusesKept' /\ Complete' /\ Missing'
    BY <2>1, <2>2, <2>3, Names
       DEF DoneInstalled, DoneInBusy, StatusesKept, Complete, Missing
  <2>5. CASE record' = [record EXCEPT ![r] = None] /\ UNCHANGED used
    <3>1. ASSUME used["faults"] = 0, NEW c \in Listed(statuses), Installed(ReleaseOf[c])'
          PROVE  \E d \in Listed(run'.todo) : ReleaseOf[d] = ReleaseOf[c]
      <4>1. Head(run.todo) \in Components /\ r \in Releases
              /\ ReleaseOf[c] \in Releases
        BY <2>1, RunParts, ListedHeadTail, Names DEF TypeOK
      <4>2. ReleaseOf[c] # r /\ Installed(ReleaseOf[c])
        BY <2>5, <3>1, <4>1 DEF Installed, None, TypeOK
      <4>3. PICK d \in Listed(run.todo) : ReleaseOf[d] = ReleaseOf[c]
        BY <2>1, <3>1, <4>2 DEF Accounted, Remaining
      <4>4. d \in Listed(Tail(run.todo))
        BY <2>1, <4>2, <4>3, RunParts, ListedHeadTail
      <4> QED
        BY <2>2, <4>3, <4>4
    <3> QED
      BY <2>1, <2>4, <2>5, <3>1 DEF Accounted, Remaining
  <2>6. CASE Spend("faults")
    <3>1. used'["faults"] # 0
      BY <2>6, SpendFault
    <3> QED
      BY <2>4, <3>1 DEF Accounted, Remaining
  <2> QED
    BY <1>10, <2>5, <2>6 DEF UninstallNext
<1>11. CASE CleanupNamespace
  <2>1. /\ pc = "uninstall" /\ pc' = "save" /\ (ns' = "active" => ns = "active")
        /\ UNCHANGED <<statuses, record, run, used>>
    BY <1>11 DEF CleanupNamespace, Stay, Goto
  <2> QED
    BY <2>1 DEF Accounted, DoneInstalled, DoneInBusy, StatusesKept, Complete, Missing,
                Remaining, Installed
<1>12. CASE SaveExpired
  BY <1>12, EndAccounts DEF SaveExpired, End
<1>13. CASE RemoveFinalizer
  BY <1>13, EndAccounts DEF RemoveFinalizer, End
<1>14. CASE EditSpec
  BY <1>14, SpendOther, OthersAccount DEF EditSpec, Idle, cluster
<1>15. CASE EditTemplate
  BY <1>15, SpendOther, OthersAccount DEF EditTemplate, Idle, resource, cluster
<1>16. CASE Expire
  BY <1>16, OthersAccount DEF Expire, Idle, cluster
<1>17. CASE ExtendTTL
  BY <1>17, SpendOther, OthersAccount DEF ExtendTTL, Idle, cluster
<1>18. CASE Delete
  BY <1>18, OthersAccount DEF Delete, Idle, cluster
<1>19. CASE NamespaceGone
  <2>1. /\ ns' = "absent" /\ UNCHANGED <<pc, run, statuses, used>>
        /\ \A r \in Releases : record'[r] = None
    BY <1>19 DEF NamespaceGone, Idle, resource
  <2>2. pc = "install" => Release \in Releases
    BY ComponentType DEF Deploying
  <2>3. \A c \in Listed(statuses) : ReleaseOf[c] \in Releases
    BY Names DEF TypeOK
  <2>4. Missing' /\ Remaining'
    BY <2>1, <2>2, <2>3 DEF Missing, Remaining, Installed, None, Release, Component
  <2> QED
    BY <2>1, <2>4 DEF Accounted, DoneInstalled, DoneInBusy, StatusesKept, Complete
<1>20. CASE Restart
  BY <1>20, EndAccounts DEF Restart
<1>21. CASE UNCHANGED vars
  BY <1>21, OthersAccount DEF vars
<1> QED
  BY <1>1, <1>2, <1>3, <1>4, <1>5, <1>6, <1>7, <1>8, <1>9, <1>10, <1>11, <1>12, <1>13,
     <1>14, <1>15, <1>16, <1>17, <1>18, <1>19, <1>20, <1>21 DEF Next, Reconcile

(* Nothing is deployed or recorded at the start. *)
LEMMA HelmInit == Init => HelmInv
<1>1. ASSUME Init PROVE Accounted
  <2>1. pc = "idle" /\ run.done = <<>>
    BY <1>1 DEF Init, NoRun
  <2> QED
    BY <2>1, Names DEF Accounted, DoneInstalled, DoneInBusy, StatusesKept, Complete, Missing,
                       Remaining
<1> QED
  BY <1>1, InitType DEF HelmInv

(* The account is kept for ever. *)
LEMMA HelmInvariant == Spec => []HelmInv
BY HelmInit, HelmStep, PTL DEF Spec

(* The status write of a failed deployment or of a teardown stores the     *)
(* statuses that were stored.                                              *)
LEMMA StoresSame ==
  ASSUME HelmInv, HelmFailed, pc \notin {"idle", "activate"}
  PROVE  statuses' = statuses
BY HelmFailedEffect DEF HelmInv, Accounted, StatusesKept

(* Only a complete deployment changes the recorded statuses. *)
LEMMA OnlyActivateRecords ==
  ASSUME HelmInv, [Next]_vars, statuses' # statuses
  PROVE  Activate /\ statuses' = run.statuses
<1> TypeOK
  BY DEF HelmInv
<1>1. CASE EnsureHelmRelease
  BY <1>1, StoresSame DEF EnsureHelmRelease
<1>2. CASE InstallRefused
  BY <1>2, StoresSame DEF InstallRefused
<1>3. CASE InstallFails
  BY <1>3, StoresSame DEF InstallFails
<1>4. CASE SaveExpired
  <2>1. PICK ok \in BOOLEAN : Store("Expired", run.statuses, ok)
    BY <1>4 DEF SaveExpired
  <2>2. run.statuses = statuses
    BY <1>4 DEF SaveExpired, HelmInv, Accounted, StatusesKept
  <2> QED
    BY <2>1, <2>2, StoreEffect, RunParts
<1>5. CASE Activate
  <2>1. PICK ok \in BOOLEAN : Store("Active", run.statuses, ok)
    BY <1>5 DEF Activate
  <2> QED
    BY <1>5, <2>1, StoreEffect, RunParts
<1>6. CASE Begin \/ Decide \/ CheckInstalled \/ StartInstall \/ InstallSucceeds
  BY <1>6 DEF Begin, Decide, CheckInstalled, StartInstall, InstallSucceeds, Stay
<1>7. CASE UninstallNext \/ CleanupNamespace \/ RemoveFinalizer
  BY <1>7 DEF UninstallNext, CleanupNamespace, RemoveFinalizer, Stay
<1>8. CASE EditSpec \/ EditTemplate \/ Expire \/ ExtendTTL \/ Delete \/ NamespaceGone
  BY <1>8 DEF EditSpec, EditTemplate, Expire, ExtendTTL, Delete, NamespaceGone, Idle, resource
<1>9. CASE Restart \/ UNCHANGED vars
  BY <1>9 DEF Restart, resource, vars
<1> QED
  BY <1>1, <1>2, <1>3, <1>4, <1>5, <1>6, <1>7, <1>8, <1>9 DEF Next, Reconcile

(* Whatever the partial failures, restarts and edits on the way, the       *)
(* ComponentStatuses that ensureHelmRelease's caller stores name only      *)
(* components Helm has a release for.                                      *)
THEOREM OnlyInstalledRecorded == Spec => RecordedIsInstalled
<1>1. ASSUME HelmInv, [Next]_vars
      PROVE  statuses' # statuses /\ ns = "active"
               => \A c \in Listed(statuses') : Installed(ReleaseOf[c])
  BY <1>1, OnlyActivateRecords DEF HelmInv, Accounted, Complete, Activate
<1>2. HelmInv /\ [Next]_vars
        => [statuses' # statuses /\ ns = "active"
              => \A c \in Listed(statuses') : Installed(ReleaseOf[c])]_vars
  BY <1>1
<1> QED
  BY <1>2, HelmInvariant, PTL DEF Spec, RecordedIsInstalled

(* A retry resumes where it failed: deployComponent never touches a        *)
(* release that is deployed, unless asking Helm for it failed.             *)
THEOREM RetryResumes == Spec => DeployedIsLeftAlone
<1> DEFINE Alone == \A r \in Releases :
                      record[r].state = "deployed" /\ record'[r].state = "pending"
                        => used.faults > 0
<1>1. ASSUME HelmInv, [Next]_vars, NEW r \in Releases,
             record[r].state = "deployed", record'[r].state = "pending"
      PROVE  used.faults > 0
  <2>1. record \in [Releases -> Records] /\ used["faults"] \in Nat
    BY <1>1 DEF HelmInv, TypeOK, Kinds
  <2>2. CASE StartInstall
    <3>1. r = Release
      BY <1>1, <2>1, <2>2 DEF StartInstall
    <3>2. used["faults"] # 0
      BY <1>1, <2>2, <3>1 DEF StartInstall, HelmInv, Accounted, Missing, Installed
    <3> QED
      BY <2>1, <3>2
  <2>3. CASE InstallSucceeds \/ InstallFails
    BY <1>1, <2>1, <2>3 DEF InstallSucceeds, InstallFails, Records
  <2>4. CASE UninstallNext
    BY <1>1, <2>1, <2>4 DEF UninstallNext, None
  <2>5. CASE NamespaceGone
    BY <1>1, <2>5 DEF NamespaceGone, None
  <2>6. CASE \/ Begin \/ Decide \/ EnsureHelmRelease \/ CheckInstalled \/ InstallRefused
             \/ Activate \/ CleanupNamespace \/ SaveExpired \/ RemoveFinalizer
    BY <1>1, <2>6 DEF Begin, Decide, EnsureHelmRelease, CheckInstalled, InstallRefused,
       Activate, CleanupNamespace, SaveExpired, RemoveFinalizer, Stay, cluster
  <2>7. CASE \/ EditSpec \/ EditTemplate \/ Expire \/ ExtendTTL \/ Delete
             \/ Restart \/ UNCHANGED vars
    BY <1>1, <2>7 DEF EditSpec, EditTemplate, Expire, ExtendTTL, Delete, Restart, Idle,
       cluster, vars
  <2> QED
    BY <1>1, <2>2, <2>3, <2>4, <2>5, <2>6, <2>7 DEF Next, Reconcile
<1>2. HelmInv /\ [Next]_vars => [Alone]_vars
  BY <1>1
<1> QED
  BY <1>2, HelmInvariant, PTL DEF Spec, DeployedIsLeftAlone

(* Unless a call failed, uninstallHelmRelease has removed every recorded   *)
(* release when the namespace is deleted, also when the teardown was       *)
(* interrupted and resumed.                                                *)
THEOREM TeardownUninstalls == Spec => RecordedIsUninstalled
<1> DEFINE Gone == TearsDown /\ used.faults = 0
                     => \A c \in Listed(statuses) : ~Installed(ReleaseOf[c])
<1>1. ASSUME HelmInv, [Next]_vars, TearsDown, used.faults = 0
      PROVE  \A c \in Listed(statuses) : ~Installed(ReleaseOf[c])
  <2>1. CASE CleanupNamespace
    BY <1>1, <2>1, Names DEF CleanupNamespace, HelmInv, Accounted, Remaining
  <2>2. CASE Begin
    BY <1>1, <2>2 DEF Begin, TearsDown
  <2>3. CASE \/ Decide \/ EnsureHelmRelease \/ CheckInstalled \/ InstallRefused
             \/ StartInstall \/ InstallSucceeds \/ InstallFails \/ Activate
             \/ UninstallNext \/ SaveExpired \/ RemoveFinalizer
    BY <1>1, <2>3 DEF Decide, EnsureHelmRelease, CheckInstalled, InstallRefused,
       StartInstall, InstallSucceeds, InstallFails, Activate, UninstallNext, SaveExpired,
       RemoveFinalizer, Stay, cluster, TearsDown
  <2>4. CASE \/ EditSpec \/ EditTemplate \/ Expire \/ ExtendTTL \/ Delete
             \/ NamespaceGone \/ Restart \/ UNCHANGED vars
    BY <1>1, <2>4 DEF EditSpec, EditTemplate, Expire, ExtendTTL, Delete, NamespaceGone,
       Restart, Idle, cluster, vars, TearsDown
  <2> QED
    BY <1>1, <2>1, <2>2, <2>3, <2>4 DEF Next, Reconcile
<1>2. HelmInv /\ [Next]_vars => [Gone]_vars
  BY <1>1
<1> QED
  BY <1>2, HelmInvariant, PTL DEF Spec, RecordedIsUninstalled
=============================================================================
