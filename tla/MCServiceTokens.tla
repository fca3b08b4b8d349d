--------------------------- MODULE MCServiceTokens ---------------------------
(***************************************************************************)
(* Service clusters: their keys and tokens, and the routes to them.  The   *)
(* routes share no state with the tokens and no property is about both, so *)
(* each moves while the other rests in its initial state.                  *)
(***************************************************************************)
EXTENDS ServiceTokens, ProxyRoutes, TLC

(* Two clusters without an id.  The first reports "i1"; the nodes of the   *)
(* second report different ids, "i1" among them.  The table holds one      *)
(* entry, so that it is full as soon as one issuer was tried.              *)

MCClusters == {"c1", "c2"}
MCProbeOrder == <<"c1", "c2">>
MCReports == [c \in MCClusters |-> IF c = "c1" THEN {"i1"} ELSE {"i1", "i2"}]
MCInitialIds == [c \in MCClusters |-> "none"]

(* Keys change while no token is validated, and tokens are validated while *)
(* no key changes: the two meet only in the last step, Verify.             *)
KeysRest == created = 1 /\ DOMAIN keys = {1} /\ \A e \in Editors : editor[e].pc = "idle"
TokensRest ==
  /\ \A t \in Threads : thread[t].pc = "idle"
  /\ \A s \in Savers : saver[s] = Resting
  /\ sid = InitialIds /\ uptime = Cooldown /\ DOMAIN table = {}

(* All keys are of one cluster: those of two clusters never meet.  Clusters*)
(* are written back while the clock stands, and it goes on only if no id   *)
(* was lost by it.                                                         *)
OneAtATime ==
  /\ \A k \in DOMAIN keys : KeysRest \/ keys[k].cluster = "c1"
  /\ \A e \in Editors : editor[e].pc # "idle" => editor[e].cluster = "c1"
  /\ uptime # Cooldown => /\ \A s \in Savers : saver[s] = Resting
                         /\ \A c \in Clusters : had[c] = {NoId, sid[c]}

-----------------------------------------------------------------------------
(* The gateway's own route, a service route of EDA and an additional route *)
(* of it on another port, with a path that is reserved on the API port.    *)
MCTypeOf == [c \in {"gw", "eda", "hub"} |-> IF c = "gw" THEN "gateway" ELSE c]
MCClusterOfNode == [n \in {"n1", "n2"} |-> "eda"]
MCInitialTags == [n \in {"n1", "n2"} |-> IF n = "n1" THEN {"a"} ELSE {}]
Service(c, s) == [Blank EXCEPT !.kind = "service", !.cluster = c, !.sport = 1, !.slug = s]
Hook == [Blank EXCEPT !.kind = "additional", !.port = "other", !.cluster = "eda", !.sport = 1, !.path = <<"api", "x">>]
MCInitialRoutes == <<Saved(Service("gw", "gateway")), Saved(Service("eda", "eda")), Saved(Hook)>>

Post(kind, attrs) == [kind |-> kind, attrs |-> attrs]
MCPosts ==
  {Post("service", [cluster |-> "hub", sport |-> 1, slug |-> "hub", internal |-> i, auth |-> TRUE]) : i \in BOOLEAN} \cup
  {Post("additional", [port |-> "api", cluster |-> "eda", sport |-> 1, path |-> <<"free">>, mtls |-> TRUE]),
   Post("plugin", [port |-> "api", cluster |-> "eda", sport |-> 2, slug |-> "ui", tags |-> {"a"}])}
MCPatches ==
  {[tags |-> {"a"}], [tags |-> {"*"}], [sport |-> 2], [auth |-> FALSE], [internal |-> TRUE], [mtls |-> TRUE],
   [mtls |-> TRUE, auth |-> FALSE], [port |-> "api"], [path |-> <<"free">>],
   [port |-> "api", path |-> <<"api", "eda">>], [timeout |-> 2]}
MCConfigs ==
  {[cluster |-> "eda", sport |-> 2, slug |-> "eda", auth |-> FALSE, mtls |-> FALSE, tags |-> {}, extra |-> NoPath],
   [cluster |-> "hub", sport |-> 1, slug |-> "hub", auth |-> TRUE, mtls |-> FALSE, tags |-> {"a"}, extra |-> <<"free">>]}

-----------------------------------------------------------------------------
RoutesRest == writes = 0 /\ \A a \in Admins : admin[a] = Free

MCInit == TokensInit /\ RoutesInit /\ (KeysRest \/ TokensRest)
MCNext ==
  \/ RoutesRest /\ TokensRest /\ KeysNext /\ UNCHANGED <<tokenVars, routeVars>>
  \/ RoutesRest /\ KeysRest /\ ClustersNext /\ UNCHANGED routeVars
  \/ KeysRest /\ TokensRest /\ RoutesNext /\ UNCHANGED allVars
  \/ (writes = MaxWrites \/ created = MaxKeys) /\ UNCHANGED <<allVars, routeVars>>  \* a bound is reached
MCSpec == MCInit /\ [][MCNext]_<<allVars, routeVars>>

Symmetry == Permutations(Editors) \cup Permutations(Threads)
=============================================================================
