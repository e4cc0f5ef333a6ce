----------------------------- MODULE Kubeconfig -----------------------------
(***************************************************************************)
(* One request for the kubeconfig of an environment: the handler           *)
(* handleKubeconfigByName of internal/ui/server.go, which asks for a token *)
(* and then looks for a URL and a CA of the API server in several places,  *)
(* one after the other, while each of these places may change.  URLs and   *)
(* certificates are named by where they come from.                         *)
(***************************************************************************)
EXTENDS Integers, FiniteSetsExt

CONSTANTS
  Infos,       \* the forms of the cluster-info ConfigMap to look at
  Configs,     \* the configurations of the process to look at
  TTLs,        \* Spec.TTL of the environment, in minutes
  MaxChanges   \* bound: how often the surroundings change

Nothing == "nothing"

(* The cluster-info ConfigMap may be missing or damaged, or name a server  *)
(* without or with its CA, of which there may be a newer pair.             *)
Damaged      == {"no ConfigMap", "no key", "no YAML", "no cluster", "no server", "bad CA"}
WithCA       == {"server and CA", "new server and CA"}
ClusterInfos == Damaged \cup {"server"} \cup WithCA

(* The rest.Config, given or found in the cluster, holds its CA itself or  *)
(* in a file, or has none.                                                 *)
AllConfigs == [client: BOOLEAN,      \* there is a Kubernetes client
               rest: {Nothing, "data", "file", "no CA"},
               override: BOOLEAN,    \* KUBECONFIG_SERVER_URL is set
               operatorNs: BOOLEAN]  \* the operator's namespace is known

ASSUME KubeconfigAssumption ==
  /\ Infos \subseteq ClusterInfos /\ Configs \subseteq AllConfigs
  /\ TTLs \subseteq Nat /\ MaxChanges \in Nat

VARIABLES
  config, ttl,   \* do not change
  around,        \* what the handler reads, in the cluster and on disk
  span,          \* the values of "around" since the request came
  changes,       \* how many changes there may still be
  pc, url, ca, life, code   \* the handler: its next call, what it found, its answer

vars == <<config, ttl, around, span, changes, pc, url, ca, life, code>>

Surroundings == [info: Infos,
                 caFile: BOOLEAN,      \* the CA file can be read
                 configMap: BOOLEAN,   \* the operator's ConfigMap has a URL
                 env: {"none", "bare", "ready"}]   \* "ready": with its account

-----------------------------------------------------------------------------
Found(u, c) == url' = u /\ ca' = c
Goto(step)  == pc' = step /\ UNCHANGED code
Answer(c)   == pc' = "done" /\ code' = c

Inside == UNCHANGED <<config, ttl, around, span, changes>>

Request ==
  /\ pc = "idle"
  /\ span' = {around}
  /\ CASE around.env = "none"                     -> Answer(404)
       [] around.env # "none" /\ ~config.client   -> Answer(503)
       [] around.env # "none" /\ config.client    -> Goto("token")
  /\ UNCHANGED <<config, ttl, around, changes, url, ca, life>>

(* In minutes; the API server issues no token that lives less than ten.    *)
DefaultTokenLife == 720
MinTokenLife     == 10

MutTokenLife == DefaultTokenLife
MutUncapped == ttl
TokenLife == Min({ttl, DefaultTokenLife})

CreateToken ==
  /\ pc = "token"
  /\ IF around.env = "ready" /\ TokenLife >= MinTokenLife
       THEN life' = TokenLife /\ Goto("cluster-info")
       ELSE Answer(500) /\ UNCHANGED life
  /\ Inside /\ UNCHANGED <<url, ca>>

(* GetClusterInfoServerAndCA gives both from one Get, or nothing. *)
GetClusterInfoServerAndCA ==
  /\ pc = "cluster-info"
  /\ CASE around.info \notin Damaged ->
            Found(around.info, IF around.info \in WithCA THEN around.info ELSE Nothing) /\ Goto("CA")
       [] around.info \in Damaged /\ config.rest # Nothing ->
            Found("rest", IF config.rest = "data" THEN "rest data" ELSE Nothing) /\ Goto("CA")
       [] around.info \in Damaged /\ config.rest = Nothing ->
            Answer(503) /\ UNCHANGED <<url, ca>>
  /\ Inside /\ UNCHANGED life

(* A CA that is still missing is the one of rest.Config. *)
MutFindCA ==
  /\ pc = "CA"
  /\ ca' = IF around.info \in WithCA THEN around.info ELSE ca
  /\ Goto("override")
  /\ Inside /\ UNCHANGED <<url, life>>
FindCA ==
  /\ pc = "CA"
  /\ ca' = CASE ca # Nothing -> ca
             [] ca = Nothing /\ config.rest = "data" -> "rest data"
             [] ca = Nothing /\ config.rest = "file" /\ around.caFile -> "rest file"
             [] OTHER -> Nothing
  /\ Goto("override")
  /\ Inside /\ UNCHANGED <<url, life>>

(* First the variable replaces the URL, then the ConfigMap does. *)
MutOverride ==
  /\ pc = "override"
  /\ url' = CASE config.override -> "variable"
              [] ~config.override /\ config.operatorNs /\ around.configMap -> "ConfigMap"
              [] OTHER -> url
  /\ Answer(200)
  /\ Inside /\ UNCHANGED <<ca, life>>
OverrideURL ==
  /\ pc = "override"
  /\ LET byVariable == IF config.override THEN "variable" ELSE url
     IN  url' = IF config.operatorNs /\ around.configMap THEN "ConfigMap" ELSE byVariable
  /\ Answer(200)
  /\ Inside /\ UNCHANGED <<ca, life>>

(* Somebody edits a ConfigMap or the file, or the environment is made or   *)
(* torn down.                                                              *)
Change ==
  /\ changes > 0 /\ changes' = changes - 1
  /\ \E now \in Surroundings :
       /\ now \in {[around EXCEPT !.info = now.info], [around EXCEPT !.caFile = now.caFile],
                   [around EXCEPT !.configMap = now.configMap], [around EXCEPT !.env = now.env]}
       /\ around' = now
  /\ span' = IF pc \in {"idle", "done"} THEN span ELSE span \cup {around'}
  /\ UNCHANGED <<config, ttl, pc, url, ca, life, code>>

Init ==
  /\ config \in Configs /\ ttl \in TTLs /\ around \in Surroundings
  /\ span = {} /\ changes = MaxChanges
  /\ pc = "idle" /\ url = Nothing /\ ca = Nothing /\ life = 0 /\ code = 0

Next == Request \/ CreateToken \/ GetClusterInfoServerAndCA \/ FindCA \/ OverrideURL \/ Change

Spec == Init /\ [][Next]_vars

-----------------------------------------------------------------------------
(* The reference, from Appendix D of ARCHITECTURE.md: "ConfigMap key, env  *)
(* KUBECONFIG_SERVER_URL, cluster-info, rest.Config.  CA always comes from *)
(* cluster-info or rest.Config".                                           *)

(* The first member of a list that is on offer. *)
FirstOf(list, offered) ==
  LET which == {i \in DOMAIN list : list[i] \in offered}
  IN  IF which = {} THEN Nothing ELSE list[Min(which)]

URLFor(s) ==
  FirstOf(<<"ConfigMap", "variable", s.info, "rest">>,
          UNION {IF config.operatorNs /\ s.configMap THEN {"ConfigMap"} ELSE {},
                 IF config.override THEN {"variable"} ELSE {},
                 ClusterInfos \ Damaged,
                 IF config.rest = Nothing THEN {} ELSE {"rest"}})

CAFor(s) ==
  FirstOf(<<s.info, "rest data", "rest file">>,
          WithCA \cup CASE config.rest = "data" -> {"rest data"}
                        [] config.rest = "file" /\ s.caFile -> {"rest file"}
                        [] OTHER -> {})

(* Each source as it was at some moment of the request. *)
Mixed == {[x EXCEPT !.caFile = y.caFile, !.configMap = z.configMap] : x, y, z \in span}

(* Every variable has its type. *)
TypeOK ==
  /\ config \in Configs /\ ttl \in TTLs /\ around \in Surroundings
  /\ span \subseteq Surroundings /\ changes \in 0 .. MaxChanges
  /\ pc \in {"idle", "token", "cluster-info", "CA", "override", "done"}
  /\ url \in ClusterInfos \cup {Nothing, "rest", "variable", "ConfigMap"}
  /\ ca \in WithCA \cup {Nothing, "rest data", "rest file"}
  /\ life \in 0 .. DefaultTokenLife /\ code \in {0, 200, 404, 500, 503}

(* However the surroundings change while the handler asks, the kubeconfig  *)
(* has the URL and the CA that the list of priorities in Appendix D gives  *)
(* for sources of the time of the request; the code gets there by a        *)
(* default, two fallbacks and two overrides.                               *)
ServedByPriority ==
  code = 200 => \E s \in Mixed : url = URLFor(s) /\ ca = CAFor(s)

(* A server named by cluster-info together with its CA is never served     *)
(* with another CA, also when the pair is replaced during the request.     *)
PairKept == code = 200 /\ url \in WithCA => ca = url

(* A request is refused only for a reason that held during it, and a token *)
(* lives at most as long as the TTL.                                       *)
RefusedForAReason ==
  /\ code = 404 => \E s \in span : s.env = "none"
  /\ code = 500 => ttl < MinTokenLife \/ \E s \in span : s.env # "ready"
  /\ code = 503 => ~config.client \/ (config.rest = Nothing /\ \E s \in span : s.info \in Damaged)
  /\ life <= ttl
=============================================================================
