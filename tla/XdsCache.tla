------------------------------ MODULE XdsCache ------------------------------
(***************************************************************************)
(* The configuration that Envoy polls from the gateway: clusters (CDS),    *)
(* listeners (LDS) and trusted certificates (SDS), each built from the     *)
(* database and cached (views/api/envoy/rest_control_plane.py), and the    *)
(* signals that invalidate the cache after a commit (signals/xds_cache.py).*)
(*                                                                         *)
(* A table is its version, the number of transactions that changed it.  A  *)
(* response is the version of each table it was built from.                *)
(***************************************************************************)
EXTENDS Naturals, Sequences, FiniteSets

CONSTANTS
  Workers,   \* web workers that answer Envoy
  Writers,   \* web workers and commands that change the database
  Keys,      \* the discovery services that Envoy polls
  MaxWrites, \* bound: transactions
  MaxDeaths  \* bound: writers that die, and server starts

ASSUME XdsAssumption ==
  /\ Keys \subseteq {"cds", "lds", "sds"}
  /\ MaxWrites \in Nat /\ MaxDeaths \in Nat

Tables == {"route", "port", "cluster", "node", "type", "preference", "ca"}

VARIABLES
  db,        \* table -> version
  cache,     \* key -> response, or NoResponse
  expires,   \* key -> whether the entry has a time to live
  worker,    \* worker -> what it is doing
  pending,   \* writer -> keys its committed transaction has still to invalidate
  served,    \* key -> the response Envoy has
  overtaken, \* worker -> a table it reads changed since it started (for the properties only)
  excused,   \* key -> the entry was overtaken or its invalidation lost (for the properties only)
  writes, deaths

xdsVars == <<db, cache, expires, worker, pending, served, overtaken, excused, writes, deaths>>

NoResponse == [t \in {} |-> 0]

Idle == [key |-> "none", step |-> 0, got |-> NoResponse]

\* The queries that build a response, in their order.  A table that is read twice
\* counts as of the first time.  Preferences come last: the timeouts are worked
\* out when the rows are turned into configuration.
Queries(k) ==
  CASE k = "cds" -> <<{"route", "cluster"}, {"node", "type"}, {"preference"}>>
    [] k = "lds" -> <<{"cluster", "type"}, {"route"}, {"port"}, {"preference"}>>
    [] k = "sds" -> <<{"ca"}>>

Reads(k) == UNION {Queries(k)[i] : i \in DOMAIN Queries(k)}

\* Mutant: a changed cluster is taken to concern the clusters only.
SignalsOfOwnKind(t) ==
  CASE t = "route" -> {"cds", "lds"}
    [] t = "cluster" -> {"cds"}
    [] t = "port" -> {"lds"}
    [] t = "node" -> {"cds"}
    [] t = "ca" -> {"sds"}
    [] OTHER -> {}

\* The keys that a change to a row of the table invalidates.  No signal is
\* connected to service types and preferences.
Signals(t) ==
  CASE t \in {"route", "cluster"} -> {"cds", "lds"}
    [] t = "port" -> {"lds"}
    [] t = "node" -> {"cds"}
    [] t = "ca" -> {"sds"}
    [] OTHER -> {}

Signalled == {t \in Tables : Signals(t) # {}}

\* What one transaction changes: a row, or a row with all that its deletion
\* cascades to.
Changes ==
  {{t} : t \in Tables}
    \cup {{"port", "route"}, {"cluster", "node", "route"}, {"type", "cluster", "node", "route"}}

XdsInit ==
  /\ db \in [Tables -> {0, 1}]
  /\ \A t \in Tables \ {"route", "port"} : db[t] = 1
  /\ cache = [k \in Keys |-> NoResponse]
  /\ expires = [k \in Keys |-> TRUE]
  /\ worker = [w \in Workers |-> Idle]
  /\ pending = [p \in Writers |-> {}]
  /\ served = [k \in Keys |-> NoResponse]
  /\ overtaken = [w \in Workers |-> FALSE]
  /\ excused = [k \in Keys |-> FALSE]
  /\ writes = 0 /\ deaths = 0

----------------------------------------------------------------------------
(* The views.                                                              *)

CacheHit(w, k) ==
  /\ worker[w] = Idle /\ cache[k] # NoResponse
  /\ served' = [served EXCEPT ![k] = cache[k]]
  /\ UNCHANGED <<db, cache, expires, worker, pending, overtaken, excused, writes, deaths>>

CacheMiss(w, k) ==
  /\ worker[w] = Idle /\ cache[k] = NoResponse
  /\ worker' = [worker EXCEPT ![w] = [key |-> k, step |-> 1, got |-> NoResponse]]
  /\ overtaken' = [overtaken EXCEPT ![w] = FALSE]
  /\ UNCHANGED <<db, cache, expires, pending, served, excused, writes, deaths>>

Query(w) ==
  /\ worker[w] # Idle
  /\ LET job == worker[w]
     IN  /\ job.step \in DOMAIN Queries(job.key)
         /\ worker' = [worker EXCEPT
              ![w].step = @ + 1,
              ![w].got = [t \in DOMAIN @ \cup Queries(job.key)[job.step] |->
                            IF t \in DOMAIN @ THEN @[t] ELSE db[t]]]
  /\ UNCHANGED <<db, cache, expires, pending, served, overtaken, excused, writes, deaths>>

\* Responses without a cluster or without a listener are not cached.
Cacheable(k, got) ==
  CASE k = "cds" -> got["route"] > 0
    [] k = "lds" -> got["port"] > 0
    [] k = "sds" -> TRUE

\* Mutant: the entry is set without the default time to live.
RespondForGood(w) ==
  /\ worker[w] # Idle
  /\ LET job == worker[w]
         k == job.key
     IN  /\ job.step \notin DOMAIN Queries(k)
         /\ served' = [served EXCEPT ![k] = job.got]
         /\ cache' = [cache EXCEPT ![k] = IF Cacheable(k, job.got) THEN job.got ELSE @]
         /\ expires' = [expires EXCEPT ![k] = FALSE]
         /\ excused' = [excused EXCEPT ![k] = IF Cacheable(k, job.got) THEN overtaken[w] ELSE @]
  /\ worker' = [worker EXCEPT ![w] = Idle]
  /\ overtaken' = [overtaken EXCEPT ![w] = FALSE]
  /\ UNCHANGED <<db, pending, writes, deaths>>

Respond(w) ==
  /\ worker[w] # Idle
  /\ LET job == worker[w]
         k == job.key
     IN  /\ job.step \notin DOMAIN Queries(k)
         /\ served' = [served EXCEPT ![k] = job.got]
         /\ cache' = [cache EXCEPT ![k] = IF Cacheable(k, job.got) THEN job.got ELSE @]
         /\ expires' = [expires EXCEPT ![k] = TRUE]
         /\ excused' = [excused EXCEPT ![k] = IF Cacheable(k, job.got) THEN overtaken[w] ELSE @]
  /\ worker' = [worker EXCEPT ![w] = Idle]
  /\ overtaken' = [overtaken EXCEPT ![w] = FALSE]
  /\ UNCHANGED <<db, pending, writes, deaths>>

----------------------------------------------------------------------------
(* Changes of the database.                                                *)

\* The receivers run within the transaction and register the invalidation for
\* after the commit.
Commit(p) ==
  /\ pending[p] = {} /\ writes < MaxWrites
  /\ writes' = writes + 1
  /\ \E change \in Changes :
       /\ db' = [t \in Tables |-> IF t \in change THEN db[t] + 1 ELSE db[t]]
       /\ pending' = [pending EXCEPT ![p] = Keys \cap UNION {Signals(t) : t \in change}]
       /\ overtaken' = [w \in Workers |->
            overtaken[w] \/ (worker[w] # Idle /\ Reads(worker[w].key) \cap change # {})]
  /\ UNCHANGED <<cache, expires, worker, served, excused, deaths>>

\* invalidate_xds_cache.
Invalidate(p) ==
  /\ \E k \in pending[p] :
       /\ cache' = [cache EXCEPT ![k] = NoResponse]
       /\ excused' = [excused EXCEPT ![k] = FALSE]
       /\ pending' = [pending EXCEPT ![p] = @ \ {k}]
  /\ UNCHANGED <<db, expires, worker, served, overtaken, writes, deaths>>

\* A writer dies between its commit and the invalidation.
WriterDies(p) ==
  /\ pending[p] # {} /\ deaths < MaxDeaths
  /\ deaths' = deaths + 1
  /\ excused' = [k \in Keys |-> excused[k] \/ k \in pending[p]]
  /\ pending' = [pending EXCEPT ![p] = {}]
  /\ UNCHANGED <<db, cache, expires, worker, served, overtaken, writes>>

\* The default timeout of the cache.
Expire(k) ==
  /\ cache[k] # NoResponse /\ expires[k]
  /\ cache' = [cache EXCEPT ![k] = NoResponse]
  /\ excused' = [excused EXCEPT ![k] = FALSE]
  /\ UNCHANGED <<db, expires, worker, pending, served, overtaken, writes, deaths>>

\* A server process starts and clears all keys.
ServerStarts ==
  /\ deaths < MaxDeaths
  /\ deaths' = deaths + 1
  /\ cache' = [k \in Keys |-> NoResponse]
  /\ excused' = [k \in Keys |-> FALSE]
  /\ UNCHANGED <<db, expires, worker, pending, served, overtaken, writes>>

XdsNext ==
  \/ \E w \in Workers, k \in Keys : CacheHit(w, k) \/ CacheMiss(w, k)
  \/ \E w \in Workers : Query(w) \/ Respond(w)
  \/ \E p \in Writers : Commit(p) \/ Invalidate(p) \/ WriterDies(p)
  \/ \E k \in Keys : Expire(k)
  \/ ServerStarts

XdsSpec == XdsInit /\ [][XdsNext]_xdsVars

\* Envoy polls every key for ever and gets a worker, a worker finishes its
\* request, and the time to live of an entry passes.
Fairness ==
  /\ \A w \in Workers : WF_xdsVars(Query(w)) /\ WF_xdsVars(Respond(w))
  /\ \A k \in Keys : SF_xdsVars(\E w \in Workers : CacheHit(w, k) \/ CacheMiss(w, k))
  /\ \A k \in Keys : WF_xdsVars(Expire(k))

FairSpec == XdsSpec /\ Fairness

----------------------------------------------------------------------------
(* Properties.                                                             *)

Responses(k) == [Reads(k) -> Nat]

\* What a worker has read so far for a request of Envoy.
Jobs(read) == [key : Keys, step : 1 .. 5, got : [read -> Nat]]

\* Types; a response is complete.
XdsTypeOK ==
  /\ db \in [Tables -> Nat]
  /\ DOMAIN cache = Keys /\ \A k \in Keys : cache[k] = NoResponse \/ cache[k] \in Responses(k)
  /\ DOMAIN worker = Workers
  /\ \A w \in Workers : worker[w] = Idle \/ \E read \in SUBSET Tables : worker[w] \in Jobs(read)
  /\ pending \in [Writers -> SUBSET Keys]
  /\ overtaken \in [Workers -> BOOLEAN] /\ excused \in [Keys -> BOOLEAN]

\* The signals cover what the views read: a cached response is out of date in a
\* signalled table only while an invalidation is still to come, or if the change
\* overtook the worker that built it, or if the invalidation died with its writer.
StaleOnlyIfOvertaken ==
  \A k \in Keys :
    (cache[k] # NoResponse /\ \E t \in Reads(k) \cap Signalled : cache[k][t] < db[t])
      => excused[k] \/ \E p \in Writers : k \in pending[p]

\* Envoy gets the current configuration in the end, in spite of overtaken
\* responses, lost invalidations and tables without a signal.
EventuallyFresh ==
  \A k \in Keys : <>[](served[k] = [t \in Reads(k) |-> db[t]])
============================================================================
