-------------------------- MODULE Kubeconfig_proofs --------------------------
(* Proofs about Kubeconfig, for any set of forms of cluster-info, any      *)
(* configurations of the process, any TTLs and any number of changes.      *)
EXTENDS Kubeconfig, TLAPS

-----------------------------------------------------------------------------
(* The operators *)

(* The least member of a set of numbers is the one below all others. *)
LEMMA MinIs ==
  ASSUME NEW S \in SUBSET Int, NEW m \in S, \A x \in S : m <= x PROVE Min(S) = m
<1>1. Min(S) \in S /\ \A y \in S : Min(S) <= y
  BY DEF Min
<1>2. Min(S) <= m /\ m <= Min(S) /\ m \in Int /\ Min(S) \in Int
  BY <1>1
<1> QED
  BY <1>2

(* A token lives as long as the environment, but at most twelve hours. *)
LEMMA TokenLifeIs ==
  ASSUME ttl \in Nat
  PROVE  TokenLife \in 0 .. DefaultTokenLife /\ TokenLife <= ttl /\ (TokenLife < MinTokenLife <=> ttl < MinTokenLife)
<1>1. CASE ttl <= DefaultTokenLife
  <2>1. Min({ttl, DefaultTokenLife}) = ttl
    BY <1>1, MinIs DEF DefaultTokenLife
  <2> QED
    BY <1>1, <2>1 DEF TokenLife, DefaultTokenLife
<1>2. CASE ~(ttl <= DefaultTokenLife)
  <2>1. Min({ttl, DefaultTokenLife}) = DefaultTokenLife
    BY <1>2, MinIs DEF DefaultTokenLife
  <2> QED
    BY <1>2, <2>1 DEF TokenLife, DefaultTokenLife, MinTokenLife
<1> QED
  BY <1>1, <1>2

(* The first member of a list that is on offer comes before the others. *)
LEMMA FirstOfIs ==
  ASSUME NEW list, DOMAIN list \subseteq Int, NEW offered, NEW i \in DOMAIN list,
         list[i] \in offered, \A j \in DOMAIN list : j < i => list[j] \notin offered
  PROVE  FirstOf(list, offered) = list[i]
<1> DEFINE which == {j \in DOMAIN list : list[j] \in offered}
<1>1. i \in which /\ which \subseteq Int /\ \A j \in which : i <= j
  OBVIOUS
<1>2. Min(which) = i
  BY <1>1, MinIs
<1> QED
  BY <1>1, <1>2 DEF FirstOf

(* If none of them is on offer, there is nothing. *)
LEMMA FirstOfNothing ==
  ASSUME NEW list, NEW offered, \A j \in DOMAIN list : list[j] \notin offered
  PROVE  FirstOf(list, offered) = Nothing
BY DEF FirstOf

(* The address that the handler starts from and the one it ends with. *)
BaseURL(x) == CASE x.info \notin Damaged -> x.info
                [] x.info \in Damaged /\ config.rest # Nothing -> "rest"
                [] OTHER -> Nothing
FinalURL(x, base) == CASE config.operatorNs /\ x.configMap -> "ConfigMap"
                       [] ~(config.operatorNs /\ x.configMap) /\ config.override -> "variable"
                       [] OTHER -> base

(* The two fallbacks and two overrides of the code give the address of the *)
(* list of priorities.                                                     *)
LEMMA URLForIs ==
  ASSUME NEW s \in Surroundings PROVE URLFor(s) = FinalURL(s, BaseURL(s))
<1> DEFINE list == <<"ConfigMap", "variable", s.info, "rest">>
           offered == UNION {IF config.operatorNs /\ s.configMap THEN {"ConfigMap"} ELSE {},
                             IF config.override THEN {"variable"} ELSE {},
                             ClusterInfos \ Damaged,
                             IF config.rest = Nothing THEN {} ELSE {"rest"}}
<1>1. s.info \in ClusterInfos
  BY KubeconfigAssumption DEF Surroundings
<1>2. \A u : u \in offered <=> \/ u = "ConfigMap" /\ config.operatorNs /\ s.configMap
                               \/ u = "variable" /\ config.override
                               \/ u \in ClusterInfos \ Damaged
                               \/ u = "rest" /\ config.rest # Nothing
  OBVIOUS
<1>3. ClusterInfos \cap {"ConfigMap", "variable", "rest"} = {}
  BY DEF ClusterInfos, Damaged, WithCA
<1>4. DOMAIN list = 1 .. 4 /\ list[1] = "ConfigMap" /\ list[2] = "variable" /\ list[3] = s.info /\ list[4] = "rest"
  OBVIOUS
<1>5. URLFor(s) = FirstOf(list, offered)
  BY DEF URLFor
<1> HIDE DEF list, offered
<1>6. CASE config.operatorNs /\ s.configMap
  <2>1. FirstOf(list, offered) = list[1]
    BY <1>2, <1>4, <1>6, FirstOfIs
  <2> QED
    BY <1>4, <1>5, <1>6, <2>1 DEF FinalURL
<1>7. CASE ~(config.operatorNs /\ s.configMap) /\ config.override
  <2>1. list[2] \in offered /\ list[1] \notin offered
    BY <1>2, <1>3, <1>4, <1>7
  <2>2. FirstOf(list, offered) = list[2]
    BY <1>4, <2>1, FirstOfIs
  <2> QED
    BY <1>4, <1>5, <1>7, <2>2 DEF FinalURL
<1>8. CASE ~(config.operatorNs /\ s.configMap) /\ ~config.override
  <2>0. list[1] \notin offered /\ list[2] \notin offered
    BY <1>2, <1>3, <1>4, <1>8
  <2>1. CASE s.info \notin Damaged
    <3>1. FirstOf(list, offered) = list[3]
      BY <1>1, <1>2, <1>4, <2>0, <2>1, FirstOfIs
    <3> QED
      BY <1>4, <1>5, <1>8, <2>1, <3>1 DEF FinalURL, BaseURL
  <2>2. CASE s.info \in Damaged /\ config.rest # Nothing
    <3>1. list[3] \notin offered /\ list[4] \in offered
      BY <1>1, <1>2, <1>3, <1>4, <2>2
    <3>2. FirstOf(list, offered) = list[4]
      BY <1>4, <2>0, <3>1, FirstOfIs
    <3> QED
      BY <1>4, <1>5, <1>8, <2>2, <3>2 DEF FinalURL, BaseURL
  <2>3. CASE s.info \in Damaged /\ config.rest = Nothing
    <3>1. list[3] \notin offered /\ list[4] \notin offered
      BY <1>1, <1>2, <1>3, <1>4, <2>3
    <3>2. FirstOf(list, offered) = Nothing
      BY <1>4, <2>0, <3>1, FirstOfNothing
    <3> QED
      BY <1>5, <1>8, <2>3, <3>2 DEF FinalURL, BaseURL
  <2> QED
    BY <2>1, <2>2, <2>3
<1> QED
  BY <1>6, <1>7, <1>8

(* The certificate found with the address, and the one that is used. *)
BaseCA(x) == CASE x.info \in WithCA -> x.info
               [] x.info \in Damaged /\ config.rest = "data" -> "rest data"
               [] OTHER -> Nothing
FinalCA(x, base) == CASE base # Nothing -> base
                      [] base = Nothing /\ config.rest = "data" -> "rest data"
                      [] base = Nothing /\ config.rest = "file" /\ x.caFile -> "rest file"
                      [] OTHER -> Nothing

(* So does the lookup of the certificate. *)
LEMMA CAForIs ==
  ASSUME NEW s \in Surroundings PROVE CAFor(s) = FinalCA(s, BaseCA(s))
<1> DEFINE list == <<s.info, "rest data", "rest file">>
           offered == WithCA \cup CASE config.rest = "data" -> {"rest data"}
                                    [] config.rest = "file" /\ s.caFile -> {"rest file"}
                                    [] OTHER -> {}
<1>1. s.info \in ClusterInfos
  BY KubeconfigAssumption DEF Surroundings
<1>2. \A c : c \in offered <=> \/ c \in WithCA
                               \/ c = "rest data" /\ config.rest = "data"
                               \/ c = "rest file" /\ config.rest = "file" /\ s.caFile
  OBVIOUS
<1>3. ClusterInfos \cap {"rest data", "rest file"} = {} /\ WithCA \subseteq ClusterInfos /\ Nothing \notin WithCA
      /\ WithCA \cap Damaged = {}
  BY DEF ClusterInfos, Damaged, WithCA, Nothing
<1>4. /\ DOMAIN list = 1 .. 3 /\ {1, 2, 3} \subseteq DOMAIN list /\ DOMAIN list \subseteq Int
      /\ list[1] = s.info /\ list[2] = "rest data" /\ list[3] = "rest file"
  OBVIOUS
<1>4a. \A j \in 1 .. 3 : ~(j < 1) /\ (j < 2 => j = 1) /\ (j < 3 => j = 1 \/ j = 2) /\ (j = 1 \/ j = 2 \/ j = 3)
  OBVIOUS
<1>5. CAFor(s) = FirstOf(list, offered)
  BY DEF CAFor
<1> HIDE DEF list, offered
<1>6. CASE s.info \in WithCA
  <2>1. 1 \in DOMAIN list /\ list[1] \in offered /\ \A j \in DOMAIN list : j < 1 => list[j] \notin offered
    BY <1>2, <1>4, <1>4a, <1>6
  <2>2. FirstOf(list, offered) = list[1]
    BY <1>4, <2>1, FirstOfIs
  <2> QED
    BY <1>3, <1>4, <1>5, <1>6, <2>2 DEF FinalCA, BaseCA
<1>7. CASE s.info \notin WithCA /\ config.rest = "data"
  <2>1. list[1] \notin offered /\ list[2] \in offered
    BY <1>1, <1>2, <1>3, <1>4, <1>7
  <2>2. 2 \in DOMAIN list /\ \A j \in DOMAIN list : j < 2 => list[j] \notin offered
    BY <1>4, <1>4a, <2>1
  <2>3. FirstOf(list, offered) = list[2]
    BY <1>4, <2>1, <2>2, FirstOfIs
  <2> QED
    BY <1>3, <1>4, <1>5, <1>7, <2>3 DEF FinalCA, BaseCA, Nothing
<1>8. CASE s.info \notin WithCA /\ config.rest # "data"
  <2>0. list[1] \notin offered /\ list[2] \notin offered
    BY <1>1, <1>2, <1>3, <1>4, <1>8
  <2>1. CASE config.rest = "file" /\ s.caFile
    <3>1. list[3] \in offered
      BY <1>2, <1>4, <2>1
    <3>2. 3 \in DOMAIN list /\ \A j \in DOMAIN list : j < 3 => list[j] \notin offered
      BY <1>4, <1>4a, <2>0
    <3>3. FirstOf(list, offered) = list[3]
      BY <1>4, <3>1, <3>2, FirstOfIs
    <3> QED
      BY <1>4, <1>5, <1>8, <2>1, <3>3 DEF FinalCA, BaseCA
  <2>2. CASE ~(config.rest = "file" /\ s.caFile)
    <3>1. list[3] \notin offered
      BY <1>2, <1>3, <1>4, <2>2
    <3>2. FirstOf(list, offered) = Nothing
      BY <1>4, <1>4a, <2>0, <3>1, FirstOfNothing
    <3> QED
      BY <1>5, <1>8, <2>2, <3>2 DEF FinalCA, BaseCA
  <2> QED
    BY <2>1, <2>2
<1> QED
  BY <1>6, <1>7, <1>8


-----------------------------------------------------------------------------
(* The inductive invariant *)

(* While the request runs, the moment it reads at is one of its moments,   *)
(* and there is no answer before its end.                                  *)
RequestRuns ==
  /\ pc \in {"token", "cluster-info", "CA", "override"} => around \in span
  /\ pc # "done" => code = 0

(* What the handler holds between two of its calls was read at moments of  *)
(* the request: the address and its certificate at one moment, the file of *)
(* the certificate and the override of the address each at another.        *)
WasRead ==
  /\ pc = "CA" => \E x \in span : url = BaseURL(x) /\ ca = BaseCA(x)
  /\ pc = "override" => \E x, y \in span : url = BaseURL(x) /\ ca = FinalCA(y, BaseCA(x))
  /\ code = 200 => \E x, y, z \in span : url = FinalURL(z, BaseURL(x)) /\ ca = FinalCA(y, BaseCA(x))

RequestInv == TypeOK /\ RequestRuns /\ WasRead /\ RefusedForAReason

-----------------------------------------------------------------------------
(* The steps of the request *)

(* The names of the types. *)
Steps == {"idle", "token", "cluster-info", "CA", "override", "done"}
URLs  == ClusterInfos \cup {Nothing, "rest", "variable", "ConfigMap"}
CAs   == WithCA \cup {Nothing, "rest data", "rest file"}
Lives == 0 .. DefaultTokenLife
Codes == {0, 200, 404, 500, 503}

(* Every variable is in the set of that name. *)
LEMMA Types ==
  TypeOK <=> /\ config \in Configs /\ ttl \in TTLs /\ around \in Surroundings
             /\ span \subseteq Surroundings /\ changes \in 0 .. MaxChanges
             /\ pc \in Steps /\ url \in URLs /\ ca \in CAs /\ life \in Lives /\ code \in Codes
BY DEF TypeOK, Steps, URLs, CAs, Lives, Codes

(* The same after a step. *)
LEMMA NextTypes ==
  TypeOK' <=> /\ config' \in Configs /\ ttl' \in TTLs /\ around' \in Surroundings
              /\ span' \subseteq Surroundings /\ changes' \in 0 .. MaxChanges
              /\ pc' \in Steps /\ url' \in URLs /\ ca' \in CAs /\ life' \in Lives /\ code' \in Codes
BY DEF TypeOK, Steps, URLs, CAs, Lives, Codes

(* The sets of the values that the handler finds. *)
LEMMA BaseTypes ==
  ASSUME NEW x \in Surroundings, NEW u \in URLs, NEW c \in CAs
  PROVE  /\ BaseURL(x) \in URLs /\ FinalURL(x, u) \in URLs
         /\ BaseCA(x) \in CAs /\ FinalCA(x, c) \in CAs
<1>1. BaseURL(x) \in URLs /\ FinalURL(x, u) \in URLs
  BY KubeconfigAssumption DEF BaseURL, FinalURL, Surroundings, URLs
<1>2. BaseCA(x) \in CAs /\ FinalCA(x, c) \in CAs
  BY DEF BaseCA, FinalCA, CAs
<1> QED
  BY <1>1, <1>2

(* A step that only moves the handler on keeps the invariant, if the new    *)
(* state has its types, what the handler holds was read and the answer has *)
(* a reason.                                                               *)
LEMMA InsideStep ==
  ASSUME RequestInv, Inside,
         pc \in Steps \ {"idle", "done"}, pc' \in Steps \ {"idle"}, pc' # "done" => code' = 0,
         url' \in URLs, ca' \in CAs, life' \in Lives, code' \in Codes,
         WasRead', RefusedForAReason'
  PROVE  RequestInv'
<1>1. TypeOK'
  BY Types, NextTypes DEF RequestInv, Inside
<1>2. RequestRuns'
  BY DEF RequestInv, RequestRuns, Inside, Steps
<1> QED
  BY <1>1, <1>2 DEF RequestInv

(* What a moment holds for the request does not depend on when it is asked. *)
LEMMA ReadsKept ==
  ASSUME UNCHANGED config
  PROVE  \A x, y : /\ BaseURL(x)' = BaseURL(x) /\ FinalURL(y, BaseURL(x))' = FinalURL(y, BaseURL(x))
                   /\ BaseCA(x)' = BaseCA(x) /\ FinalCA(y, BaseCA(x))' = FinalCA(y, BaseCA(x))
BY DEF BaseURL, FinalURL, BaseCA, FinalCA

(* After a look at cluster-info the handler may go on to the certificate. *)
LEMMA LookStep ==
  ASSUME RequestInv, Inside, UNCHANGED life, around \in span, pc = "cluster-info", pc' = "CA", code' = 0,
         url' = BaseURL(around), ca' = BaseCA(around)
  PROVE  RequestInv'
<1>1. url' = (BaseURL(around))' /\ ca' = (BaseCA(around))'
  BY DEF Inside, BaseURL, BaseCA
<1>2. around' \in span'
  BY DEF Inside
<1>3. (\E x \in span : url = BaseURL(x) /\ ca = BaseCA(x))'
  BY <1>1, <1>2
<1>4. WasRead'
  BY <1>3 DEF WasRead
<1>5. RefusedForAReason'
  BY DEF RequestInv, RefusedForAReason, Inside
<1>6. url' \in URLs /\ ca' \in CAs /\ life' \in Lives
  BY Types, BaseTypes DEF RequestInv
<1>7. pc \in Steps \ {"idle", "done"} /\ pc' \in Steps \ {"idle"} /\ code' \in Codes
  BY DEF Steps, Codes
<1> QED
  BY <1>4, <1>5, <1>6, <1>7, InsideStep

(* The arrival of the request keeps the invariant. *)
LEMMA RequestStep == RequestInv /\ Request => RequestInv'
<1> SUFFICES ASSUME RequestInv, Request PROVE RequestInv'
  OBVIOUS
<1>1. /\ around \in Surroundings /\ span' = {around} /\ code = 0 /\ pc = "idle" /\ life <= ttl
      /\ UNCHANGED <<config, ttl, around, changes, url, ca, life>>
  BY DEF RequestInv, TypeOK, RequestRuns, RefusedForAReason, Request
<1>2. \/ around.env = "none" /\ pc' = "done" /\ code' = 404
      \/ ~config.client /\ pc' = "done" /\ code' = 503
      \/ pc' = "token" /\ code' = 0
  BY <1>1 DEF Request, Answer, Goto
<1>3. TypeOK'
  <2>1. code' \in Codes /\ pc' \in Steps /\ span' \subseteq Surroundings
    BY <1>1, <1>2 DEF Codes, Steps
  <2> QED
    BY <1>1, <2>1, Types, NextTypes DEF RequestInv
<1>4. RequestRuns' /\ WasRead'
  BY <1>1, <1>2 DEF RequestRuns, WasRead
<1>5. RefusedForAReason'
  BY <1>1, <1>2 DEF RefusedForAReason
<1> QED
  BY <1>3, <1>4, <1>5 DEF RequestInv

(* So does the creation of the token. *)
LEMMA TokenStep == RequestInv /\ CreateToken => RequestInv'
<1> SUFFICES ASSUME RequestInv, CreateToken PROVE RequestInv'
  OBVIOUS
<1>0. /\ TypeOK /\ around \in span /\ code = 0 /\ pc = "token" /\ life <= ttl /\ Inside
      /\ UNCHANGED <<url, ca>> /\ ttl \in Nat
  BY KubeconfigAssumption DEF RequestInv, TypeOK, RequestRuns, RefusedForAReason, CreateToken
<1>1. /\ TokenLife \in 0 .. DefaultTokenLife /\ TokenLife <= ttl
      /\ (TokenLife < MinTokenLife <=> ttl < MinTokenLife)
  BY <1>0, TokenLifeIs
<1>2. \/ life' = TokenLife /\ pc' = "cluster-info" /\ code' = 0
      \/ (ttl < MinTokenLife \/ around.env # "ready") /\ life' = life /\ pc' = "done" /\ code' = 500
  <2>1. CASE around.env = "ready" /\ TokenLife >= MinTokenLife
    BY <1>0, <2>1 DEF CreateToken, Goto
  <2>2. CASE ~(around.env = "ready" /\ TokenLife >= MinTokenLife)
    BY <1>0, <1>1, <2>2 DEF CreateToken, Answer, MinTokenLife
  <2> QED
    BY <2>1, <2>2
<1>3. WasRead'
  BY <1>2 DEF WasRead
<1>4. RefusedForAReason'
  BY <1>0, <1>1, <1>2 DEF RefusedForAReason, Inside
<1>5. pc \in Steps \ {"idle", "done"} /\ pc' \in Steps \ {"idle"} /\ (pc' # "done" => code' = 0) /\ code' \in Codes
  BY <1>0, <1>2 DEF Steps, Codes
<1>6. url' \in URLs /\ ca' \in CAs /\ life' \in Lives
  BY <1>0, <1>1, <1>2, Types DEF Lives
<1> QED
  BY <1>0, <1>3, <1>4, <1>5, <1>6, InsideStep

(* So does the look at cluster-info: what it finds it found at this moment. *)
LEMMA InfoStep == RequestInv /\ GetClusterInfoServerAndCA => RequestInv'
<1> SUFFICES ASSUME RequestInv, GetClusterInfoServerAndCA PROVE RequestInv'
  OBVIOUS
<1>0. /\ TypeOK /\ RefusedForAReason /\ around \in span /\ around \in Surroundings /\ code = 0
      /\ pc = "cluster-info" /\ Inside /\ UNCHANGED life
  BY DEF RequestInv, TypeOK, RequestRuns, GetClusterInfoServerAndCA
<1>1. CASE around.info \notin Damaged
  <2>1. /\ url' = around.info /\ ca' = (IF around.info \in WithCA THEN around.info ELSE Nothing)
        /\ pc' = "CA" /\ code' = 0
    BY <1>0, <1>1 DEF GetClusterInfoServerAndCA, Found, Goto
  <2>2. url' = BaseURL(around) /\ ca' = BaseCA(around)
    BY <1>1, <2>1 DEF BaseURL, BaseCA
  <2> QED
    BY <1>0, <2>1, <2>2, LookStep
<1>2. CASE around.info \in Damaged /\ config.rest # Nothing
  <2>1. /\ url' = "rest" /\ ca' = (IF config.rest = "data" THEN "rest data" ELSE Nothing)
        /\ pc' = "CA" /\ code' = 0
    BY <1>0, <1>2 DEF GetClusterInfoServerAndCA, Found, Goto
  <2>2. around.info \notin WithCA
    BY <1>2 DEF WithCA, Damaged
  <2>3. url' = BaseURL(around) /\ ca' = BaseCA(around)
    BY <1>2, <2>1, <2>2 DEF BaseURL, BaseCA
  <2> QED
    BY <1>0, <2>1, <2>3, LookStep
<1>3. CASE around.info \in Damaged /\ config.rest = Nothing
  <2>1. pc' = "done" /\ code' = 503 /\ UNCHANGED <<url, ca>>
    BY <1>0, <1>3 DEF GetClusterInfoServerAndCA, Answer
  <2>2. WasRead'
    BY <2>1 DEF WasRead
  <2>3. RefusedForAReason'
    BY <1>0, <1>3, <2>1 DEF RefusedForAReason, Inside
  <2>4. pc \in Steps \ {"idle", "done"} /\ pc' \in Steps \ {"idle"} /\ code' \in Codes
    BY <1>0, <2>1 DEF Steps, Codes
  <2>5. url' \in URLs /\ ca' \in CAs /\ life' \in Lives
    BY <1>0, <2>1, Types
  <2> QED
    BY <1>0, <2>1, <2>2, <2>3, <2>4, <2>5, InsideStep
<1> QED
  BY <1>1, <1>2, <1>3

(* So does the search for a certificate that is still missing. *)
LEMMA CAStep == RequestInv /\ FindCA => RequestInv'
<1> SUFFICES ASSUME RequestInv, FindCA PROVE RequestInv'
  OBVIOUS
<1>0. /\ TypeOK /\ RefusedForAReason /\ around \in span /\ around \in Surroundings /\ code = 0
      /\ pc = "CA" /\ Inside /\ UNCHANGED <<url, life>> /\ pc' = "override" /\ code' = 0
  BY DEF RequestInv, TypeOK, RequestRuns, FindCA, Goto
<1>1. ca' = FinalCA(around, ca)
  BY DEF FindCA, FinalCA
<1>2. PICK x \in span : url = BaseURL(x) /\ ca = BaseCA(x)
  BY <1>0 DEF RequestInv, WasRead
<1>3. PICK y \in span : ca' = FinalCA(y, BaseCA(x))
  BY <1>0, <1>1, <1>2
<1>4. WasRead'
  BY <1>0, <1>2, <1>3, ReadsKept DEF WasRead, Inside
<1>5. RefusedForAReason'
  BY <1>0 DEF RefusedForAReason, Inside
<1>6. url' \in URLs /\ ca' \in CAs /\ life' \in Lives
  BY <1>0, <1>1, Types, BaseTypes
<1>7. pc \in Steps \ {"idle", "done"} /\ pc' \in Steps \ {"idle"} /\ code' \in Codes
  BY <1>0 DEF Steps, Codes
<1> QED
  BY <1>0, <1>4, <1>5, <1>6, <1>7, InsideStep

(* So does the override of the address, which ends the request. *)
LEMMA OverrideStep == RequestInv /\ OverrideURL => RequestInv'
<1> SUFFICES ASSUME RequestInv, OverrideURL PROVE RequestInv'
  OBVIOUS
<1>0. /\ TypeOK /\ RefusedForAReason /\ around \in span /\ around \in Surroundings /\ code = 0
      /\ pc = "override" /\ Inside /\ UNCHANGED <<ca, life>> /\ pc' = "done" /\ code' = 200
  BY DEF RequestInv, TypeOK, RequestRuns, OverrideURL, Answer
<1>1. url' = FinalURL(around, url)
  BY DEF OverrideURL, FinalURL
<1>2. PICK x \in span, y \in span : url = BaseURL(x) /\ ca = FinalCA(y, BaseCA(x))
  BY <1>0 DEF RequestInv, WasRead
<1>3. PICK z \in span : url' = FinalURL(z, BaseURL(x))
  BY <1>0, <1>1, <1>2
<1>4. WasRead'
  BY <1>0, <1>2, <1>3, ReadsKept DEF WasRead, Inside
<1>5. RefusedForAReason'
  BY <1>0 DEF RefusedForAReason, Inside
<1>6. url' \in URLs /\ ca' \in CAs /\ life' \in Lives
  BY <1>0, <1>1, Types, BaseTypes
<1>7. pc \in Steps \ {"idle", "done"} /\ pc' \in Steps \ {"idle"} /\ code' \in Codes
  BY <1>0 DEF Steps, Codes
<1> QED
  BY <1>0, <1>4, <1>5, <1>6, <1>7, InsideStep

(* So does a change of the surroundings: it adds a moment to the request,  *)
(* and what was read stays read.                                           *)
LEMMA ChangeStep == RequestInv /\ Change => RequestInv'
<1> SUFFICES ASSUME RequestInv, Change PROVE RequestInv'
  OBVIOUS
<1>0. TypeOK
  BY DEF RequestInv
<1>1. /\ around' \in Surroundings /\ changes' \in 0 .. MaxChanges
      /\ UNCHANGED <<config, ttl, pc, url, ca, life, code>>
      /\ span \subseteq span' /\ span' \subseteq Surroundings
      /\ (pc \notin {"idle", "done"} => around' \in span')
  <2>1. PICK now \in Surroundings : around' = now
    BY DEF Change
  <2>2. changes' \in 0 .. MaxChanges
    BY <1>0, KubeconfigAssumption, Types DEF Change
  <2> QED
    BY <1>0, <2>1, <2>2, Types DEF Change
<1>2. TypeOK'
  BY <1>1, Types, NextTypes DEF RequestInv
<1>3. RequestRuns'
  BY <1>1 DEF RequestInv, RequestRuns
<1>4. WasRead'
  BY <1>1, ReadsKept DEF RequestInv, WasRead
<1>5. RefusedForAReason'
  BY <1>1 DEF RequestInv, RefusedForAReason
<1> QED
  BY <1>2, <1>3, <1>4, <1>5 DEF RequestInv

(* The invariant holds of every behaviour. *)
THEOREM RequestCorrect == Spec => []RequestInv
<1>1. Init => RequestInv
  BY KubeconfigAssumption
  DEF Init, RequestInv, TypeOK, RequestRuns, WasRead, RefusedForAReason, Nothing, DefaultTokenLife
<1>2. RequestInv /\ [Next]_vars => RequestInv'
  <2> SUFFICES ASSUME RequestInv, [Next]_vars PROVE RequestInv'
    OBVIOUS
  <2>1. CASE UNCHANGED vars
    <3>1. TypeOK'
      BY <2>1, Types, NextTypes DEF RequestInv, vars
    <3>2. WasRead'
      BY <2>1, ReadsKept DEF RequestInv, WasRead, vars
    <3>3. RequestRuns' /\ RefusedForAReason'
      BY <2>1 DEF RequestInv, RequestRuns, RefusedForAReason, vars
    <3> QED
      BY <3>1, <3>2, <3>3 DEF RequestInv
  <2> QED
    BY <2>1, RequestStep, TokenStep, InfoStep, CAStep, OverrideStep, ChangeStep DEF Next
<1> QED
  BY <1>1, <1>2, PTL DEF Spec

-----------------------------------------------------------------------------
(* The properties *)

(* An address that was found with its certificate. *)
LEMMA BasePair ==
  ASSUME NEW x, NEW u, u = BaseURL(x), u \in WithCA PROVE BaseCA(x) = u /\ u # Nothing
<1>1. "rest" \notin WithCA /\ Nothing \notin WithCA
  BY DEF WithCA, Nothing
<1>2. u = x.info \/ u = "rest" \/ u = Nothing
  BY DEF BaseURL
<1>3. u = x.info /\ x.info \in WithCA
  BY <1>1, <1>2
<1>4. BaseCA(x) = x.info
  BY <1>3 DEF BaseCA, WithCA, Damaged
<1> QED
  BY <1>1, <1>3, <1>4

(* An address that has a certificate is served with that one. *)
LEMMA PairOf ==
  ASSUME NEW x, NEW y, NEW z, FinalURL(z, BaseURL(x)) \in WithCA
  PROVE  FinalCA(y, BaseCA(x)) = FinalURL(z, BaseURL(x))
<1>1. "ConfigMap" \notin WithCA /\ "variable" \notin WithCA
  BY DEF WithCA
<1>2. \A u, v : v = FinalURL(z, u) /\ v \in WithCA => v = u
  BY <1>1 DEF FinalURL
<1>3. \A c : c # Nothing => FinalCA(y, c) = c
  BY DEF FinalCA
<1> QED
  BY <1>2, <1>3, BasePair

(* The moments of the request may be mixed freely. *)
LEMMA MixedHas ==
  ASSUME NEW a \in span, NEW b \in span, NEW c \in span
  PROVE  [a EXCEPT !.caFile = b.caFile, !.configMap = c.configMap] \in Mixed
<1> DEFINE F(x, y, z) == [x EXCEPT !.caFile = y.caFile, !.configMap = z.configMap]
<1>1. Mixed = {F(x, y, z) : x, y, z \in span}
  BY DEF Mixed
<1> HIDE DEF F
<1>2. F(a, b, c) \in Mixed
  BY <1>1
<1> QED
  BY <1>2 DEF F

(* Every variable keeps its type, whatever changes while the handler asks. *)
THEOREM KubeconfigTypeCorrect == Spec => []TypeOK
<1>1. RequestInv => TypeOK
  BY DEF RequestInv
<1> QED
  BY <1>1, RequestCorrect, PTL

(* A refusal has a reason that held during the request, and no token lives *)
(* longer than the TTL, for every TTL: also where the cap of twelve hours  *)
(* and the least life of ten minutes take over.                            *)
THEOREM RefusalsExplained == Spec => []RefusedForAReason
<1>1. RequestInv => RefusedForAReason
  BY DEF RequestInv
<1> QED
  BY <1>1, RequestCorrect, PTL

(* However often cluster-info is replaced during the request, its address  *)
(* is never served with another certificate than its own: both were read   *)
(* at one moment, and no fallback replaces a certificate that was found.   *)
THEOREM PairServedTogether == Spec => []PairKept
<1>1. RequestInv => PairKept
  <2> SUFFICES ASSUME RequestInv, code = 200, url \in WithCA PROVE ca = url
    BY DEF PairKept
  <2>1. PICK x \in span, y \in span, z \in span :
          url = FinalURL(z, BaseURL(x)) /\ ca = FinalCA(y, BaseCA(x))
    BY DEF RequestInv, WasRead
  <2> QED
    BY <2>1, PairOf
<1> QED
  BY <1>1, RequestCorrect, PTL

(* The kubeconfig has the address and the certificate that the list of     *)
(* priorities of Appendix D gives, each source as it was at some moment of *)
(* the request: the order of the fallbacks and overrides in the code is    *)
(* the order of the list.                                                  *)
THEOREM PriorityServed == Spec => []ServedByPriority
<1>1. RequestInv => ServedByPriority
  <2> SUFFICES ASSUME RequestInv, code = 200 PROVE \E s \in Mixed : url = URLFor(s) /\ ca = CAFor(s)
    BY DEF ServedByPriority
  <2>1. PICK x \in span, y \in span, z \in span :
          url = FinalURL(z, BaseURL(x)) /\ ca = FinalCA(y, BaseCA(x))
    BY DEF RequestInv, WasRead
  <2>2. x \in Surroundings /\ y \in Surroundings /\ z \in Surroundings
    BY Types DEF RequestInv
  <2> DEFINE s == [x EXCEPT !.caFile = y.caFile, !.configMap = z.configMap]
  <2>3. s \in Mixed
    BY MixedHas
  <2>4. s \in Surroundings /\ s.info = x.info /\ s.caFile = y.caFile /\ s.configMap = z.configMap
    BY <2>2 DEF Surroundings
  <2> HIDE DEF s
  <2>5. BaseURL(s) = BaseURL(x) /\ BaseCA(s) = BaseCA(x)
    BY <2>4 DEF BaseURL, BaseCA
  <2>6. URLFor(s) = FinalURL(z, BaseURL(x))
    BY <2>4, <2>5, URLForIs DEF FinalURL
  <2>7. CAFor(s) = FinalCA(y, BaseCA(x))
    BY <2>4, <2>5, CAForIs DEF FinalCA
  <2> QED
    BY <2>1, <2>3, <2>6, <2>7
<1> QED
  BY <1>1, RequestCorrect, PTL
=============================================================================
