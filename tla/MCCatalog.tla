------------------------------ MODULE MCCatalog ------------------------------
(* Instances of Catalog for TLC. *)
EXTENDS Catalog

Service(ports, length, has) ==
  [ports |-> ports, headless |-> FALSE, external |-> FALSE, metrics |-> FALSE,
   length |-> length, has |-> has]

(* The primary's service, its headless twin and its metrics, two of the    *)
(* other component, one with the names of both, one of a developer.        *)
Found ==
  [s \in {"web", "web-headless", "web-metrics", "db", "kv", "db-for-web", "alias"} |->
     CASE s = "web"          -> Service({80}, 3, {"web"})
       [] s = "web-headless" -> [Service({80}, 12, {"web"}) EXCEPT !.headless = TRUE]
       [] s = "web-metrics"  -> [Service({80}, 11, {"web"}) EXCEPT !.metrics = TRUE]
       [] s = "db"           -> Service({80, 5432}, 2, {"db"})
       [] s = "kv"           -> Service({80}, 2, {})
       [] s = "db-for-web"   -> Service({80}, 10, {"web", "db"})
       [] s = "alias"        -> [Service({80}, 5, {}) EXCEPT !.external = TRUE]]

Made == [n \in {"web", "db"} |-> IF n = "web" THEN {"web", "web-headless", "web-metrics"}
                                              ELSE {"db", "db-for-web"}]

Component(name, primary) == [name |-> name, primary |-> primary]
Lists == {<<Component("web", TRUE), Component("db", FALSE)>>, <<Component("db", TRUE)>>}

(* With components of its own and a template; with the template of its own *)
(* namespace; with one in ephemeral-system and, if that fails, a chart.    *)
Asked == {[own |-> <<Component("db", TRUE)>>, ref |-> "", chart |-> NoName],
          [NoEnv EXCEPT !.ref = ""],
          [NoEnv EXCEPT !.ref = SystemNs, !.chart = "web"]}
=============================================================================
