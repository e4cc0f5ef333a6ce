------------------------------- MODULE Catalog -------------------------------
(***************************************************************************)
(* The catalogue of templates and one environment that may use them: the   *)
(* handlers of internal/ui/templates.go, the page that shows templates and *)
(* makes environments of them, and the steps of a run of Reconcile that    *)
(* reads the template three times: to decide whether to deploy, to deploy, *)
(* and to find the service to route to.  Spec.ServicePort is set;          *)
(* HelmComponents shows the other order, and how charts are deployed.      *)
(*                                                                         *)
(* A run may start at any time: nothing here depends on why it does.       *)
(***************************************************************************)
EXTENDS ServiceDiscovery

CONSTANTS
  Contents,     \* lists of components a template may have: [name, primary]
  Wanted,       \* specs kubectl may create: [own, ref, chart]
  MakesOf,      \* the services a component comes with
  Own,          \* services developers may make themselves
  MaxWrites,    \* bound: templates that are written
  MaxShifts     \* bound: services that come or go

SystemNs   == "ephemeral-system"
DefaultNs  == "default"
TemplateNs == {SystemNs, DefaultNs}
Missing    == << >>
NoRef      == "no reference"
Components == [name: Names, primary: BOOLEAN]
Specs      == [own: Contents \cup {Missing}, ref: {NoRef, ""} \cup TemplateNs,
               chart: Names \cup {NoName}]

ASSUME CatalogAssumption ==
  /\ Contents \subseteq Seq(Components) \ {Missing} /\ Wanted \subseteq Specs
  /\ MakesOf \in [Names -> SUBSET Services] /\ Own \subseteq Services
  /\ {MaxWrites, MaxShifts} \subseteq Nat

VARIABLES
  templates,  \* the templates of one name, in each namespace, or Missing
  listed,     \* the namespaces of those the page shows
  env,        \* the environment's spec: [own, ref, chart]
  pc,         \* the next step of the run
  todo,       \* what the run deploys
  deployed,   \* the components that have a release
  services,   \* the services in the environment's namespace
  chosen,     \* the service the run has discovered
  route,      \* the service the route leads to
  basis,      \* what that choice was made of
  routedBy,   \* ... and that of the route
  steady,     \* the template was not written since the run began
  writes, shifts

user    == <<templates, listed, env>>
run     == <<pc, todo, chosen, basis, steady>>
cluster == <<deployed, services, route, routedBy>>
vars    == <<user, run, cluster, writes, shifts>>

NoEnv == [own |-> Missing, ref |-> NoRef, chart |-> NoName]
NoBasis == [services |-> {}, name |-> NoName]

-----------------------------------------------------------------------------
(* Names and lists *)

NameSet(list) == {list[i].name : i \in DOMAIN list}

(* The first component that is marked. *)
PrimaryOf(list) ==
  LET i == SelectInSeq(list, LAMBDA c : c.primary)
  IN  IF i = 0 THEN NoName ELSE list[i].name

(* getTemplate: an empty namespace is the environment's own, "default"     *)
(* here.                                                                   *)
MutNamespaceOf(ref) == DefaultNs
NamespaceOf(ref) == IF ref = "" THEN DefaultNs ELSE ref
GetTemplate(e) == IF e.ref = NoRef THEN Missing ELSE templates[NamespaceOf(e.ref)]

MutLegacy(e) == <<[name |-> e.chart, primary |-> TRUE]>>
Legacy(e) == IF e.chart = NoName THEN Missing ELSE <<[name |-> e.chart, primary |-> TRUE]>>

(* resolveComponents *)
Resolve(e) ==
  CASE e.own # Missing -> e.own
    [] e.own = Missing /\ GetTemplate(e) # Missing -> GetTemplate(e)
    [] OTHER -> Legacy(e)

(* getPrimaryComponentName: the first of the three that has one, whichever *)
(* was deployed.                                                           *)
MutChartFirst(e) == IF e.chart # NoName THEN e.chart ELSE PrimaryOf(Resolve(e))
GetPrimaryComponentName(e) ==
  LET names == <<PrimaryOf(e.own), PrimaryOf(GetTemplate(e)), e.chart>>
      first == SelectInSeq(names, LAMBDA n : n # NoName)
  IN  IF first = 0 THEN NoName ELSE names[first]

-----------------------------------------------------------------------------
(* The templates API and the page *)

WriteTemplate(ns, content) ==
  /\ writes > 0 /\ writes' = writes - 1
  /\ templates' = [templates EXCEPT ![ns] = content]
  /\ steady' = FALSE
  /\ UNCHANGED <<listed, env, pc, todo, chosen, basis, cluster, shifts>>

(* The namespace of a request, ephemeral-system when it has none.          *)
Target(ns) == IF ns = "" THEN SystemNs ELSE ns

(* handleCreateTemplate, which refuses a list that is empty; Create fails  *)
(* when there is one.                                                      *)
HandleCreateTemplate(ns, content) ==
  templates[Target(ns)] = Missing /\ WriteTemplate(Target(ns), content)

HandleDeleteTemplate(ns) ==
  templates[Target(ns)] # Missing /\ WriteTemplate(Target(ns), Missing)

(* kubectl edit; the API has no update. *)
EditTemplate(ns, content) ==
  templates[ns] \notin {Missing, content} /\ WriteTemplate(ns, content)

(* handleListTemplates, which the page asks without a namespace. *)
HandleListTemplates ==
  /\ listed' = {ns \in TemplateNs : templates[ns] # Missing}
  /\ listed' # listed
  /\ UNCHANGED <<templates, env, run, cluster, writes, shifts>>

NewEnv(e) ==
  /\ env = NoEnv /\ env' = e
  /\ UNCHANGED <<templates, listed, run, cluster, writes, shifts>>

(* The page finds the template by name among those it was given, so of two *)
(* of one name it takes the one that comes first.                          *)
CreateFromPage == \E ns \in listed : NewEnv([NoEnv EXCEPT !.ref = ns])

CreateByKubectl == \E e \in Wanted : NewEnv(e)

-----------------------------------------------------------------------------
(* A run, whose variables end with it *)

End == pc' = "idle" /\ todo' = Missing /\ chosen' = NoService /\ basis' = NoBasis /\ steady' = FALSE
Goto(step) == pc' = step /\ UNCHANGED steady

Begin ==
  /\ pc = "idle" /\ env # NoEnv
  /\ steady' = TRUE
  /\ pc' = IF Resolve(env) = Missing THEN "discover" ELSE "resolve"
  /\ UNCHANGED <<user, todo, chosen, basis, cluster, writes, shifts>>

(* ensureHelmRelease resolves again; with nothing left to deploy it fails. *)
ResolveAgain ==
  /\ pc = "resolve"
  /\ IF Resolve(env) = Missing
       THEN End
       ELSE todo' = Resolve(env) /\ Goto("deploy") /\ UNCHANGED <<chosen, basis>>
  /\ UNCHANGED <<user, cluster, writes, shifts>>

(* Every component of the list, or those up to one that fails. *)
Deploy ==
  /\ pc = "deploy"
  /\ \E n \in DOMAIN todo \cup {0} :
       /\ deployed' = deployed \cup NameSet(SubSeq(todo, 1, n))
       /\ IF n = Len(todo) THEN Goto("discover") /\ UNCHANGED <<todo, chosen, basis>> ELSE End
  /\ UNCHANGED <<user, services, route, routedBy, writes, shifts>>

(* One listing of the services and, for the heuristics, the template again.*)
DiscoverService ==
  /\ pc = "discover"
  /\ LET name == GetPrimaryComponentName(env)
         best == Discover(services, name)
     IN  IF best = {NoService}
           THEN End
           ELSE /\ chosen' \in best /\ basis' = [services |-> services, name |-> name]
                /\ Goto("route") /\ UNCHANGED todo
  /\ UNCHANGED <<user, cluster, writes, shifts>>

(* The route is written, or the call fails. *)
EnsureHTTPRoute ==
  /\ pc = "route" /\ End
  /\ (route' = chosen /\ routedBy' = basis) \/ UNCHANGED <<route, routedBy>>
  /\ UNCHANGED <<user, deployed, services, writes, shifts>>

(* Charts make their services in their own time, and services go.          *)
Shift ==
  /\ shifts > 0 /\ shifts' = shifts - 1
  /\ \E s \in Own \cup UNION {MakesOf[c] : c \in deployed} :
       services' = IF s \in services THEN services \ {s} ELSE services \cup {s}
  /\ UNCHANGED <<user, run, deployed, route, routedBy, writes>>

Init ==
  /\ templates = [ns \in TemplateNs |-> Missing] /\ listed = {} /\ env = NoEnv
  /\ pc = "idle" /\ todo = Missing /\ chosen = NoService /\ steady = FALSE
  /\ basis = NoBasis /\ routedBy = NoBasis
  /\ deployed = {} /\ services = {} /\ route = NoService
  /\ writes = MaxWrites /\ shifts = MaxShifts

Next ==
  \/ \E ns \in TemplateNs \cup {""} : \/ \E c \in Contents : HandleCreateTemplate(ns, c)
                                      \/ HandleDeleteTemplate(ns)
  \/ \E ns \in TemplateNs, c \in Contents : EditTemplate(ns, c)
  \/ HandleListTemplates \/ CreateFromPage \/ CreateByKubectl
  \/ Begin \/ ResolveAgain \/ Deploy \/ DiscoverService \/ EnsureHTTPRoute \/ Shift

Spec == Init /\ [][Next]_vars

-----------------------------------------------------------------------------
(* Properties *)

(* Every variable has its type. *)
TypeOK ==
  /\ templates \in [TemplateNs -> Contents \cup {Missing}] /\ listed \subseteq TemplateNs
  /\ env \in Specs
  /\ pc \in {"idle", "resolve", "deploy", "discover", "route"}
  /\ todo \in Contents \cup {Missing} \cup {Legacy(env)}
  /\ deployed \subseteq Names /\ services \subseteq Services
  /\ {chosen, route} \subseteq Services \cup {NoService}
  /\ \A b \in {basis, routedBy} : b.services \subseteq Services
                                            /\ b.name \in Names \cup {NoName}
  /\ steady \in BOOLEAN /\ writes \in 0 .. MaxWrites /\ shifts \in 0 .. MaxShifts

(* Whatever services there are and whatever component is the primary one,  *)
(* sorting and scanning finds exactly the services that are best without   *)
(* any order.                                                              *)
ChoiceIsBest == \A name \in Names \cup {NoName} : Discover(services, name) = Best(services, name)

(* What a run deploys for an environment that refers to a template, from   *)
(* the page or by hand, is that template's list and neither the legacy     *)
(* chart nor nothing, unless the template was missing or was written       *)
(* between the reads of the run: the defaults that the API, the page and   *)
(* the reconciler have for its namespace agree.                            *)
TemplateUsed ==
  /\ env.own = Missing /\ env.ref \in TemplateNs /\ steady
  /\ templates[env.ref] # Missing /\ pc \in {"deploy", "discover", "route"}
  => todo = templates[env.ref]

(* A route moves to another service only if the services or the primary    *)
(* component have changed since it was last written, or between services   *)
(* whose names have the same length.                                       *)
RouteMovesForAReason ==
  [][route # NoService /\ route' # route
       => routedBy' # routedBy \/ Length(route') = Length(route)]_vars

DeployedPrimary == PrimaryOf(todo)

(* Three reads of the template later, traffic still goes to the primary    *)
(* component of what this very run has deployed, if one of its services    *)
(* can be found and nobody wrote the template meanwhile.                   *)
RoutedToDeployed ==
  pc = "route" /\ steady /\ DeployedPrimary # NoName
    /\ (\E s \in basis.services : Eligible(s) /\ Has(s, DeployedPrimary))
    => Has(chosen, DeployedPrimary)
=============================================================================
