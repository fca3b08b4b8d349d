----------------------------- MODULE ProxyRoutes -----------------------------
(***************************************************************************)
(* The routes of the proxy and the configuration of Envoy that is built    *)
(* from them: models/route.py and its three subclasses, the serializers    *)
(* that validate them, the command register_service, and the clusters and  *)
(* listeners that the discovery services return (models/http_port.py).     *)
(* XdsCache is about when a response is rebuilt; this module is about what *)
(* a response built from one state of the database says.                   *)
(*                                                                         *)
(* A path is what its prefix tells: <<"root">> is "/", <<"api", s>> is     *)
(* "/api/s/", <<"plugin", c, s>> is "/plugin/c/s/", any other is free.     *)
(* The order of routes, TLS and the layout of the configuration are left   *)
(* out.  A write that the API refuses to proxied requests is possible for  *)
(* direct ones, so both are the same request here.                         *)
(***************************************************************************)
EXTENDS Naturals, FiniteSets, FiniteSetsExt

CONSTANTS
  Admins,          \* requests that change a route at the same time
  TypeOf,          \* cluster -> name of its service type
  ClusterOfNode,   \* node -> the cluster it is in when it exists
  ApiPort,         \* the port with is_api_port; it cannot be deleted or demoted
  OtherPorts,
  InitialRoutes, InitialTags, InitialFloor,
  Posts,           \* [kind, attrs]: the routes that requests create
  Patches,         \* attributes of the requests that change a route
  Configs,         \* what register_service may find in its file
  TagSets,         \* the tags that a node may be given
  Floors,          \* values of the preference request_timeout
  MaxWrites        \* bound: changes of the database

ASSUME RoutesAssumption ==
  /\ MaxWrites \in Nat
  /\ Floors \subseteq Nat \ {0} /\ InitialFloor \in Floors
  /\ ApiPort \notin OtherPorts

VARIABLES
  routes,  \* primary key -> row
  nodes,   \* node -> its tags, of the nodes that exist
  ports,   \* HTTP ports that exist
  floor,   \* the preference proxy.request_timeout
  admin,   \* request -> the row it loaded, and its key
  setup,   \* where register_service stands
  lastId,  \* primary keys given out
  writes

routeVars == <<routes, nodes, ports, floor, admin, setup, lastId, writes>>

Free == [id |-> 0]
Off == [pc |-> "off"]
NoPath == <<"none">>

\* f, and g where f is not defined.
Over(f, g) == [x \in DOMAIN f \cup DOMAIN g |-> IF x \in DOMAIN f THEN f[x] ELSE g[x]]

\* The routes after row is inserted as id, or written there.
With(id, row) == [j \in DOMAIN routes \cup {id} |-> IF j = id THEN row ELSE routes[j]]

Write == writes < MaxWrites /\ writes' = writes + 1

RoutesInit ==
  /\ routes = InitialRoutes /\ lastId = Cardinality(DOMAIN InitialRoutes)
  /\ nodes = InitialTags
  /\ ports = OtherPorts \cup {ApiPort}
  /\ floor = InitialFloor
  /\ admin = [a \in Admins |-> Free]
  /\ setup = Off
  /\ writes = 0

-----------------------------------------------------------------------------
(* Saving a route.                                                         *)

Reserved(path) == path[1] \in {"api", "plugin"}

\* Mutant: the tags do not make a difference.
EnvoyClusterNameUntagged(row) == <<row.cluster, row.sport>>

\* Route.save: one Envoy cluster for each service port and set of tags; no tags are
\* written as a star, which is also what a tag may be.
EnvoyClusterName(row) == <<row.cluster, row.sport, IF row.tags = {} THEN {"*"} ELSE row.tags>>

\* What ServiceAPIRoute.save works out before, and UIPluginRoute.save.
ServiceRow(row) ==
  [row EXCEPT !.port = ApiPort, !.path = IF row.slug = "gateway" THEN <<"root">> ELSE <<"api", row.slug>>]
PluginRow(row) ==
  [row EXCEPT !.path = <<"plugin", row.cluster, row.slug>>, !.auth = FALSE, !.internal = FALSE]

Saved(row) ==
  LET r == CASE row.kind = "service"    -> ServiceRow(row)
             [] row.kind = "plugin"     -> PluginRow(row)
             [] row.kind = "additional" -> row
  IN  [r EXCEPT !.name = EnvoyClusterName(r)]

\* Mutant: AdditionalRoute.save does not call clean.
CleanNever(row) == TRUE

\* AdditionalRoute.clean, called by its save.
Clean(row) == row.kind = "additional" => ~(row.port = ApiPort /\ Reserved(row.path))

\* The foreign key and the unique constraint on http_port and gateway_path.
Storable(id, row) ==
  /\ row.port \in ports
  /\ \A other \in DOMAIN routes \ {id} : <<routes[other].port, routes[other].path>> # <<row.port, row.path>>

-----------------------------------------------------------------------------
(* The API.  Attributes are a function of the fields that the request has. *)

Writable(kind) ==
  {"port", "cluster", "sport", "tags", "timeout"} \cup
  CASE kind = "service"    -> {"slug", "auth", "internal", "mtls"}
    [] kind = "additional" -> {"path", "auth", "internal", "mtls"}
    [] kind = "plugin"     -> {"slug"}

Given(kind, attrs) == [f \in DOMAIN attrs \cap Writable(kind) |-> attrs[f]]

FieldsValid(kind, attrs) ==
  /\ (kind = "service" /\ "port" \in DOMAIN attrs) => attrs.port = ApiPort
  /\ (kind = "plugin" /\ "cluster" \in DOMAIN attrs) => TypeOf[attrs.cluster] # "gateway"
  /\ (kind = "additional" /\ {"port", "path"} \subseteq DOMAIN attrs) =>
       ~(attrs.port = ApiPort /\ Reserved(attrs.path))

\* BaseRouteSerializer.validate; 0 is a timeout that is not set.
Accepts(v) ==
  /\ ~(v.internal /\ ~v.auth)
  /\ ~(v.mtls /\ v.auth)
  /\ v.timeout = 0 \/ v.timeout >= floor

Blank ==
  [kind |-> "none", port |-> ApiPort, cluster |-> "none", sport |-> 0, slug |-> "none", path |-> NoPath,
   auth |-> TRUE, internal |-> FALSE, mtls |-> FALSE, tags |-> {}, timeout |-> 0, name |-> <<>>, by |-> "api"]

\* A new route is validated as if a field that the request leaves out were false;
\* the row gets the default of the model, which is true for enable_gateway_auth.
Create(post) ==
  /\ Write
  /\ \E given \in {Given(post.kind, post.attrs)} :
       LET defaulted == post.kind # "plugin" /\ "auth" \notin DOMAIN given
           row == Saved(Over(given, [Blank EXCEPT !.kind = post.kind, !.by = IF defaulted THEN "default" ELSE "api"]))
       IN  /\ FieldsValid(post.kind, given) /\ Accepts(Over(given, [Blank EXCEPT !.auth = FALSE]))
           /\ Clean(row) /\ Storable(lastId + 1, row)
           /\ routes' = With(lastId + 1, row)
  /\ lastId' = lastId + 1
  /\ UNCHANGED <<nodes, ports, floor, admin, setup>>

Load(a, id) ==
  /\ admin[a] = Free
  /\ admin' = [admin EXCEPT ![a] = [id |-> id, row |-> routes[id]]]
  /\ UNCHANGED <<routes, nodes, ports, floor, setup, lastId, writes>>

\* Mutant: only the fields of the request are validated.
MergedGivenOnly(row, given) == Over(given, [row EXCEPT !.auth = TRUE, !.internal = FALSE, !.mtls = FALSE])

\* What a change is validated as.
Merged(row, given) == Over(given, row)

\* PUT or PATCH: the row as it was loaded, with the changes, is written as a whole;
\* if it is gone by then it is inserted again.
Patch(a, attrs) ==
  /\ admin[a] # Free /\ Write
  /\ \E given \in {Given(admin[a].row.kind, attrs)} :
       LET row == Saved([Over(given, admin[a].row) EXCEPT !.by = "api"])
       IN  /\ FieldsValid(admin[a].row.kind, given) /\ Accepts(Merged(admin[a].row, given))
           /\ Clean(row) /\ Storable(admin[a].id, row)
           /\ routes' = With(admin[a].id, row)
  /\ admin' = [admin EXCEPT ![a] = Free]
  /\ UNCHANGED <<nodes, ports, floor, setup, lastId>>

\* The request is refused, or fails.
GiveUp(a) ==
  /\ admin[a] # Free
  /\ admin' = [admin EXCEPT ![a] = Free]
  /\ UNCHANGED <<routes, nodes, ports, floor, setup, lastId, writes>>

Without(ids) == [id \in DOMAIN routes \ ids |-> routes[id]]

Delete(id) ==
  /\ Write
  /\ routes' = Without({id})
  /\ UNCHANGED <<nodes, ports, floor, admin, setup, lastId>>

\* HTTPPortViewSet.destroy, with the routes on the port.
DeletePort(p) ==
  /\ Write /\ p # ApiPort
  /\ ports' = ports \ {p}
  /\ routes' = Without({id \in DOMAIN routes : routes[id].port = p})
  /\ UNCHANGED <<nodes, floor, admin, setup, lastId>>

TagNode(n, tags) ==
  /\ Write
  /\ nodes' = [nodes EXCEPT ![n] = tags]
  /\ UNCHANGED <<routes, ports, floor, admin, setup, lastId>>

SetFloor(v) ==
  /\ Write /\ v # floor
  /\ floor' = v
  /\ UNCHANGED <<routes, nodes, ports, admin, setup, lastId>>

-----------------------------------------------------------------------------
(* register_service, for one service of its file.  update_or_create writes *)
(* a row it finds with update_fields: what save works out, the path and    *)
(* the name of the Envoy cluster, stays as it was.                         *)

Found(found, new, changes) ==
  IF found = {}
    THEN /\ Clean(Saved(new)) /\ Storable(lastId + 1, Saved(new))
         /\ routes' = With(lastId + 1, Saved(new))
         /\ lastId' = lastId + 1
    ELSE /\ \A id \in found : routes' = [routes EXCEPT ![id] = Over(changes, @)]
         /\ UNCHANGED lastId

RegisterService(config) ==
  /\ setup = Off /\ Write
  /\ \E found \in {{id \in DOMAIN routes : routes[id].kind = "service" /\ routes[id].cluster = config.cluster}} :
       LET changes == [sport |-> config.sport, slug |-> config.slug,
                       auth |-> config.auth, mtls |-> config.mtls, by |-> "command"]
       IN  /\ Cardinality(found) < 2
           /\ Found(found, Over(changes, [Blank EXCEPT !.kind = "service", !.cluster = config.cluster]), changes)
  /\ setup' = [pc |-> "clear", config |-> config]
  /\ UNCHANGED <<nodes, ports, floor, admin>>

NodesOf(c) == {n \in DOMAIN ClusterOfNode : ClusterOfNode[n] = c}

ClearNodes ==
  /\ setup.pc = "clear"
  /\ nodes' = [n \in DOMAIN nodes \ NodesOf(setup.config.cluster) |-> nodes[n]]
  /\ setup' = [setup EXCEPT !.pc = "nodes"]
  /\ UNCHANGED <<routes, ports, floor, admin, lastId, writes>>

AddNode ==
  /\ setup.pc = "nodes"
  /\ \E n \in NodesOf(setup.config.cluster) \ DOMAIN nodes : 
       nodes' = [m \in DOMAIN nodes \cup {n} |-> IF m = n THEN setup.config.tags ELSE nodes[m]]
  /\ UNCHANGED <<routes, ports, floor, admin, setup, lastId, writes>>

RegisterAdditional ==
  /\ setup.pc = "nodes" /\ NodesOf(setup.config.cluster) \subseteq DOMAIN nodes
  /\ setup' = Off
  /\ IF setup.config.extra = NoPath
       THEN UNCHANGED <<routes, lastId>>
       ELSE \E c \in {setup.config} :
              LET changes == [sport |-> c.sport, cluster |-> c.cluster,
                              auth |-> c.auth, mtls |-> c.mtls, by |-> "command"]
              IN  Found({id \in DOMAIN routes : /\ routes[id].kind = "additional"
                                                /\ routes[id].port = ApiPort /\ routes[id].path = c.extra},
                        Over(changes, [Blank EXCEPT !.kind = "additional", !.path = c.extra]), changes)
  /\ UNCHANGED <<nodes, ports, floor, admin, writes>>

\* A missing key, a refused row or a kill: nothing is undone.
SetupFails ==
  /\ setup # Off
  /\ setup' = Off
  /\ UNCHANGED <<routes, nodes, ports, floor, admin, lastId, writes>>

RoutesNext ==
  \/ \E post \in Posts : Create(post)
  \/ \E a \in Admins :
       \/ \E id \in DOMAIN routes : Load(a, id)
       \/ \E attrs \in Patches : Patch(a, attrs)
       \/ GiveUp(a)
  \/ \E id \in DOMAIN routes : Delete(id)
  \/ \E p \in ports : DeletePort(p)
  \/ \E n \in DOMAIN nodes, tags \in TagSets : TagNode(n, tags)
  \/ \E v \in Floors : SetFloor(v)
  \/ \E config \in Configs : RegisterService(config)
  \/ ClearNodes \/ AddNode \/ RegisterAdditional \/ SetupFails

RoutesSpec == RoutesInit /\ [][RoutesNext]_routeVars

-----------------------------------------------------------------------------
(* The configuration of Envoy.                                             *)

\* Route.get_xds_cluster_config: the nodes with one of the route's tags.
Endpoints(row) ==
  {<<n, row.sport>> : n \in {m \in DOMAIN nodes \cap NodesOf(row.cluster) :
                               row.tags = {} \/ nodes[m] \cap row.tags # {}}}

\* What a route tells Envoy's filter about the authorization server.
Authz(row) ==
  CASE row.auth -> [on |-> TRUE, internal |-> row.internal, type |-> "JWT"]
    [] ~row.auth /\ TypeOf[row.cluster] = "eda" -> [on |-> TRUE, internal |-> row.internal, type |-> "NONE"]
    [] OTHER -> [on |-> FALSE]

\* The Envoy cluster of the gateway's first route.
GatewayNames ==
  LET ids == {id \in DOMAIN routes : TypeOf[routes[id].cluster] = "gateway"}
  IN  IF ids = {} THEN {} ELSE {routes[Min(ids)].name}

\* get_login_path and get_logout_path: only for types that have one.
SignPaths(row) ==
  CASE TypeOf[row.cluster] \in {"controller", "eda"} -> {<<"login", row.path>>, <<"logout", row.path>>}
    [] TypeOf[row.cluster] = "hub" -> {<<"login">>, <<"logout">>}
    [] OTHER -> {}

SignEntries(id) ==
  LET row == routes[id]
  IN  {[match |-> m, cluster |-> c, route |-> id, authz |-> [on |-> TRUE, internal |-> row.internal, type |-> "JWT"]] :
         m \in SignPaths(row), c \in IF row.auth THEN GatewayNames ELSE {}}

RouteEntry(id) ==
  [match |-> routes[id].path, cluster |-> routes[id].name, route |-> id, authz |-> Authz(routes[id])]

\* HTTPPort.get_xds_listener_config; /up and the redirects that a port adds lead to no cluster.
Listener(p) ==
  UNION {SignEntries(id) \cup {RouteEntry(id)} : id \in {i \in DOMAIN routes : routes[i].port = p}}

-----------------------------------------------------------------------------
(* What the fields of a row and of a request may be. *)
Kinds == {"service", "additional", "plugin"}

RowTyped(row) ==
  /\ DOMAIN row = DOMAIN Blank
  /\ row.kind \in Kinds /\ row.by \in {"api", "default", "command"}
  /\ row.auth \in BOOLEAN /\ row.internal \in BOOLEAN /\ row.mtls \in BOOLEAN
  /\ row.timeout \in Nat

AttrsTyped(attrs) ==
  \A f \in DOMAIN attrs :
    /\ f \in {"auth", "internal", "mtls"} => attrs[f] \in BOOLEAN
    /\ f = "timeout" => attrs[f] \in Nat

(* The rules about one row, some of them for rows the command left alone.  *)
Lawful(row) ==
  /\ row.by # "command" => row.name = EnvoyClusterName(row) /\ (row.internal => row.auth)
  /\ row.by = "api" => ~(row.mtls /\ row.auth)
  /\ Clean(row)

ASSUME RoutesInputs ==
  /\ IsFiniteSet(DOMAIN InitialRoutes)
  /\ \A id \in DOMAIN InitialRoutes : RowTyped(InitialRoutes[id]) /\ Lawful(InitialRoutes[id])
  /\ \A post \in Posts : post.kind \in Kinds /\ AttrsTyped(post.attrs)
  /\ \A attrs \in Patches : AttrsTyped(attrs)
  /\ \A config \in Configs : config.auth \in BOOLEAN /\ config.mtls \in BOOLEAN

(* Types; the unique constraint holds, and a stored row is one that its    *)
(* subclass can have saved (Route, its subclasses, unique_together).       *)
RoutesTypeOK ==
  /\ ports \subseteq OtherPorts \cup {ApiPort} /\ ApiPort \in ports
  /\ floor \in Floors /\ lastId >= Cardinality(DOMAIN routes)
  /\ \A id \in DOMAIN routes :
       /\ id \in 1..lastId /\ routes[id].port \in ports
       /\ Storable(id, routes[id])
       /\ routes[id].by # "command" => Saved(routes[id]) = routes[id]
  /\ \A a \in Admins : admin[a] # Free => admin[a].id \in 1..lastId

(* Whatever a listener does with a request for an internal route, the      *)
(* authorization server is asked first and is told that the route is       *)
(* internal; only register_service, which checks nothing, can undo that.   *)
InternalGuarded ==
  \A p \in ports : \A e \in Listener(p) :
    (routes[e.route].internal /\ routes[e.route].by # "command") => e.authz.on /\ e.authz.internal

(* Mutual TLS and gateway authentication exclude each other in every row   *)
(* the API wrote, except when a new route was accepted without             *)
(* enable_gateway_auth and then got the default.                           *)
TlsExcludesAuth ==
  \A id \in DOMAIN routes : routes[id].by = "api" => ~(routes[id].mtls /\ routes[id].auth)

(* The paths of the API and of plugins on the API port belong to service   *)
(* and plugin routes, although the serializer compares path and port only  *)
(* if a request has both, and a request may write a row back that is old.  *)
ReservedPathsKept ==
  \A id \in DOMAIN routes :
    (routes[id].port = ApiPort /\ Reserved(routes[id].path)) => routes[id].kind # "additional"

(* The rules that the serializers and clean() state about a single row     *)
(* hold of every row the API wrote, whatever the requests left out and     *)
(* whatever they found when they loaded the row (validate, clean).         *)
RulesKept == TlsExcludesAuth /\ ReservedPathsKept

(* Discovery returns one row for each name, whichever the database picks   *)
(* (DISTINCT ON envoy_cluster_name), and all routes with that name are     *)
(* sent there: the nodes are the ones each of them asks for, whatever      *)
(* requests wrote the rows and however the nodes' tags changed since.  Two *)
(* exceptions: register_service changes a row and its name stays behind;   *)
(* and a route tagged with a star has the name of one without tags         *)
(* (Route.save, get_xds_cluster_config).                                   *)
EndpointsAsTagged ==
  \A id, chosen \in DOMAIN routes :
    ( /\ routes[id].name = routes[chosen].name
      /\ "command" \notin {routes[id].by, routes[chosen].by}
      /\ {routes[id].tags, routes[chosen].tags} # {{}, {"*"}} )
      => Endpoints(routes[id]) = Endpoints(routes[chosen])
=============================================================================
