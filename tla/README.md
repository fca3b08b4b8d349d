# A TLA+ model of the AAP gateway

The gateway (`src/aap_gateway_api`) is the Django service in front of the services of the
Ansible Automation Platform: controller, hub and EDA. It owns users, organizations, teams and
role assignments, authenticates every request on behalf of the Envoy proxy, issues the tokens the
services trust, and tells Envoy how to route. On an upgrade it takes over the resources that the
services used to own.

The modules here model the parts of that code in which several processes, databases or caches
have to agree although no transaction spans them. `PROJECT.json` maps every definition to the
lines it translates; this file says what the parts are, how the modules relate to them, what is
checked and proved, and what is not.

## 1. Inventory

| Component | Source (`src/aap_gateway_api/`) | State | Operations | What is hard | What makes it correct |
|---|---|---|---|---|---|
| Resource migration | `management/commands/_migrate_service_data/resource_migration.py` | the gateway's and the services' resource registries; page, chunk, retry and progress counters | fetch, validate, reconcile, create locally, hand over in bulk, judge progress | two databases, lost answers, items refused one by one, crash and rerun | what a service has handed over exists in the gateway under the same identity; the loop ends |
| Role assignment migration | `role_assignments.py`, `cursor_store.py` there | cursor table, assignments, RBAC cache | page, resolve, create, store the cursor, rebuild the cache | the service changes meanwhile; three transactions per page; a finally block | nothing lost or doubled; the cache is not left stale |
| The command and its gate | `migrate_service_data.py`, `service_orchestration.py`, `models/migrate_data.py`, `authentication/service_token_auth.py` | completion flag, per-worker copies | loop over services, summary, flag; token authentication | one service of several fails; caches of other processes | the flag and all copies of it tell the truth |
| User merge | `user_merge.py` there, `utils/user_migration.py` | users, original accounts, services' rows | group, link, take over | transaction with requests inside | no account is dropped; a retry is safe |
| Superuser flags | `superuser_sync.py` there, `resource_migration.py` | flags in four places | promote, send, collect, demote | read early, used late | hub and EDA never make anybody superuser |
| Session limit | `models/user_session_membership.py`, `signals/session.py` | membership rows, row locks | login, evict, log out, expire | concurrent logins at READ COMMITTED | limit, no deadlock |
| Envoy configuration | `views/api/envoy/rest_control_plane.py`, `signals/xds_cache.py`, `proxy/` | database versions, cache entries | poll, build, store, commit, invalidate | a change overtakes a response being built | every read table is signalled; Envoy gets the current configuration |
| Authorization server | `proxy/control_plane.py`, `utils/jwt_cache.py`, `utils/jwt_token.py`, `models/user.py`, `utils/rbac.py` | user, cached token, lifetimes | check, sign, cache, invalidate | invalidation before the write becomes visible; lifetimes | no expired token; an outdated one for a bounded time |
| Resource client, map reconciliation | `utils/resources_client.py`, `authentication/reconcile.py`, `views/` mixins | requests under way in each worker's pool, copies in the services | create, update, delete, grant, flush a login's two lists | order and loss; tasks handed over before the commit | a copy differs only for a reason, and not for ever |
| Service keys | `models/service_key.py`, `models/service_cluster.py`, `generate_service_secret` | keys | generate, retire, change, delete | count and save are two statements | the limit, but for requests at the same time |
| Service tokens, discovery of ids | `utils/service_token.py`, `utils/service_id_sync.py` | service ids, cooldown table | look up the issuer, probe, store, verify | threads share an unguarded table that is full | a token counts for the cluster that issued it; ids stay |
| Proxy routes | `models/route.py` and subclasses, `models/http_port.py`, `serializers/`, `register_service` | routes, nodes, ports, timeout | create, change, delete, register, build clusters and listeners | partial requests; rows written back as loaded; names derived when saving | internal routes are guarded, reserved paths kept, requests reach the nodes asked for |
| Preferences | `utils/preferences.py`, `models/preference.py`, `serializers/preferences.py`, `registered_preferences.py` | rows, shared cache | read, fill, save, revert | no transaction around a request; two rows that belong together | the cache agrees with the rows; the public key fits the private one |
| Secret key rotation | `management/commands/rotate_secret_key.py` | encrypted values, the deployed key | re-encrypt, clear, print, restart | cache filled during the transaction; failure half way | everything under one key, which somebody has |
| User accounts | `serializers/user.py`, `models/user.py` | usernames, links to authenticators | create, change, delete | two generations of fields for the same thing; rows loaded earlier | what was asked for is what is stored |
| Rehearsal of an upgrade | `tools/scripts/migration_upgrade.py`, `tools/scripts/ci/` (not in `src/aap_gateway_api`) | databases, dump, summary | stages, round trip, clean-up | commands that fail after they had their effect | nothing changes silently, nothing is left behind |
| Status, changed emails | `views/api/v1/status.py` and others | none | pure functions | corner cases | agree with their definitions |

How they interact: `Command.handle` merges partially migrated users, then runs the resource
migration and the role assignment migration service by service, compares superusers and sets the
flag. Every web worker reads a copy of that flag before it accepts a service token. Envoy asks the
authorization server about every request and polls the configuration views; both answer from
caches in front of the same database, and signals of the models drop entries of those caches. All
writes of the gateway that concern the services go through the resource client; what the services
send to the gateway is signed with service keys. The private key of the tokens and most timeouts are
preferences, and the secret key encrypts preferences, service keys and authenticators alike.

## 2. Modules

| Module | Models | Composition |
|---|---|---|
| `ResourceMigration` | `ResourceMigrationMixin` | base of the command |
| `MigrateServiceData` | `Command.handle`, `MigrateServiceDataHasRan`, the gate in the token authentication | extends `ResourceMigration` and interleaves it with the workers |
| `RoleAssignments` | `RoleAssignmentsMixin`, `CursorStore` | stand-alone; `MigrateServiceData` has it as one step that succeeds or raises |
| `UserMerge` | the merge of partially migrated users, `link_account`, `migrate_account` | stand-alone; part of the step `Prepare` / `PrepareFails` |
| `SuperuserSync` | `_sync_user_superuser_flag`, `_ensure_superuser_consistency` | stand-alone; repeats the page loop with the level of a user as its only data |
| `SessionLimit` | `track_user_session`, `get_active_memberships_over_limit` | stand-alone |
| `XdsCache` | the discovery views, their cache and signals | stand-alone |
| `ExtAuthz` | `Check`, token cache, invalidations | stand-alone |
| `SharedRegistry` | what the gateway promises of the copies in the services | abstract; implemented by `ResourceClient` |
| `ResourceClient` | `AllServicesClient`, the mixins of the views, `ReconcileUser` | instantiates `SharedRegistry` |
| `ServiceKeys` | `ServiceKey.save`, `generate_key`, the endpoint of the keys | base of the tokens |
| `ServiceTokens` | validation of a service's token, `populate_service_id` | extends `ServiceKeys` |
| `ProxyRoutes` | routes with their serializers, `register_service`, what clusters and listeners say | stand-alone; `XdsCache` is about when they are rebuilt |
| `RegisteredPreferences` | the calls of `register` | constants of `Preferences` |
| `Preferences` | the preference manager with its cache, the views and serializer | base of the rotation |
| `RotateSecretKey` | the command and the procedure around it | extends `Preferences`; the workers go on during the command |
| `UserAccounts` | the user serializer's handling of authenticators and uids | stand-alone |
| `MigrationUpgrade` | the rehearsal of an upgrade | stand-alone |
| `RoleAssignmentsProofs`, `UserMergeProofs`, `RotateSecretKeyProofs` | theorems | extend the module they are named after and `TLAPS` |
| `ApiChangesProofs` | theorems | extends `UserAccounts` and `ResourceClient` |
| `UpgradeProofs` | theorems | extends `MigrateServiceData` (with `ResourceMigration`) and `MigrationUpgrade` |
| `ServiceClusterProofs` | theorems | extends `ServiceTokens` (with `ServiceKeys`) and `ProxyRoutes` |
| `ConsistencyProofs` | theorems | extends `SuperuserSync` and `XdsCache` |
| `AuthenticationProofs` | theorems | extends `ExtAuthz` and `SessionLimit` |
| `MC*` | constants for TLC | extend the module they instantiate; `MCServiceTokens` and `MCAccountsUpgrade` two unrelated modules |

Each component module has its state as variables, one action per database write, request or
answer (never several of them in one step, unless one transaction makes them visible together),
and a fault action for each way the step can go wrong. Definitions whose comment starts with
"Mutant" or "A faulty variant" are not part of the specification: they are the bugs that the
properties are tried against.

**ResourceMigration.** `gw` is the gateway's registry and `up` the row of every upstream
resource (its `ansible_id` and `service_id`). `FetchPage` takes any page the endpoint may return and
decides with `Reconcile` what to create and what to merge; `CreateLocal` is the transaction of the
page; `NextChunk`, `ChunkAnswered`, `ChunkRetried` and their error siblings are
`_send_bulk_update`; `FinishPage` is the progress rule that breaks the loop. An answer may be lost after any part of the
request took effect, and `Crash` may happen anywhere. Resource contents are reduced to the unique
fields and the parent, and validation to whether a row can be repaired. Assumed is the maintenance
window the command is made for: nobody else renames or deletes resources while it runs.

**MigrateServiceData.** `hpc` walks through `handle`. The step relation of `ResourceMigration` is
reused unchanged for the service at hand. `rolesDone` and `served` are history. `cached` is the copy
of the flag that each worker keeps for five seconds.

**RoleAssignments.** A row is a type and an id. `IsPage` defines what the list endpoint returns for
`id__gt`, with deletions and late commits taken into account. `uncached` are object roles whose permissions are out of date. The service
is external: it draws ids in order and commits in any order. `overlapped` is history: rows whose transaction was open
when a page beyond them was read. `excused` too: object roles that were out of date before the
invocation, or belong to the type in which it raised.

**UserMerge.** `gateway` is what is committed and `tx` what the open transaction sees; `rows` are the
services' rows, which no rollback restores. `Histories` are the databases that an earlier
release may have left behind.

**SuperuserSync.** A user is a level (absent, ordinary, superuser) per database. Administrators may
change levels at any time.

**SessionLimit.** PostgreSQL's `SELECT ... FOR UPDATE` at READ COMMITTED: a snapshot of committed
rows when the query starts, then row locks one after the other in the order of the query.

**XdsCache.** A table is the number of transactions that changed it and a response the versions it
was built from, read query by query.

**ExtAuthz.** One user, a clock in half seconds, a token as the fields and roles it was made from.
`Outcome` is the chain of early returns of `Check`.

**SharedRegistry** and **ResourceClient.** An item's content is the number of the change that made it, 0 if it
is absent. `Load` reads the row that a request will change, before its transaction and without a lock;
`Change` writes all of it, with the request's changes or as it was loaded, and publishes it if it differs from what
was loaded (`common.py:107`). `Finish` ends a request's transaction; its tasks are in `pool` from the moment they were
handed over, so a thread may send a change that is rolled back later. `Send` takes any task of the
pool and may lose the request or its answer; `ReverseSync` is the services' own synchronisation
(external). `excuse` is history: why a copy may be wrong. The refinement mapping takes `gateway`,
`service` and `offered` for the source, the copies and what was proposed; creating an item that
exists and updating one that does not are refused by the service, as its API does. For assignments a service owns,
requests about one assignment overlap freely (`CallOwner`); `broken` is history: assignments whose removal broke off,
or met a creation.

**ServiceKeys** and **ServiceTokens.** Every statement is a step: reading the active keys, retiring them
one by one, counting, inserting. A thread reads the clock once, looks at the length of the cooldown table, prunes it and
enters its issuer in separate steps. The clusters' metadata endpoint is external and may report different ids from
different nodes. `LoadCluster` and `SaveCluster` are the other writers of a cluster's row: `migrate_service_data`, which
writes the id it was told, and requests that write back the one they loaded; `had` is history.

**ProxyRoutes.** A row holds what is computed in `save()` (`path`, `name` of the Envoy cluster) beside
what it was given, because `register_service` saves without it. A request loads a row, and another
step validates the request against that row and writes all of it back. `Endpoints` and
`Listener` are what a discovery response says if it is built now; properties quantify over every
row that `DISTINCT ON` may pick. Left out of a row is `is_service_https`, which is not in the name either (section 5).

**Preferences.** A row and an entry are a value, the key it is encrypted with and how often it is
encrypted. A read that misses the cache fills it in a second step. Saving the private key saves the
public key afterwards. `Inspecting` is `ENHANCED_INPUT_VALIDATION_ENABLED` and `Excluded` the settings
whose text is never inspected. An instance in the managed cloud, where some preferences cannot be
changed, is described by `RegisteredPreferences` but is not the one checked.

**RotateSecretKey.** `txn` holds what the command's transaction has written; a worker that wants to
write such a row waits. A generated key is new; one that the operator passes may be any but the present one. `orderly` says whether traffic was stopped and the key deployed as the command's text
demands; `OneKey` and `StartsAfterRotation` are about that case, the others are not restricted to it.

**UserAccounts.** `Receive` validates a request against the rows it has loaded; a later step applies
it in one transaction, in the order of the serializer. `Null` is an explicit null for
`authenticators`, which is as if it were absent but for `_handle_partial_update`; `NameAfter` is the username
after an empty list, which reloads the user. A uid that is the list of several uids is a
value of its own (`Joined`). A transaction is a record that each function of the serializer maps to the next: the table,
the rows as loaded, and whether all went well (`Changed`); a constraint that is broken at any point makes it fail.

**MigrationUpgrade.** A database is the set of migrations recorded in it and the state of the
seeded fixture. Every command may fail, before or after it had its effect; the server may also finish a
`createdb` that was killed only later (`Late`), and `dropdb --if-exists` may then come too early. Checkouts hold the
distributions installed, policies the stages whose sources must be pinned.

## 3. Runs

Twelve runs, one for each group of modules that share state, and two of them for two groups.

| Run | Bounds | Shows |
|---|---|---|
| `MCResourceMigration` | two services with an organization, a team and users in common, one unrepairable user, system user, second page, chunks of one, four states of the gateway's registry | `ManagedByGateway`, `TeamsFindTheirOrganization`, `DoneMeansMigrated`; `Terminates` |
| `MCMigrateServiceData` | two services, two workers, any number of invocations | `FlagMeansComplete`, `NoServiceBeforeCompletion`; `GateOpens` |
| `MCRoleAssignments` | three ids per type, pages of two, a global, an unresolvable, two known and two new rows, two of them inserted meanwhile and committed in either order, any number of invocations | `NoAssignmentLost`, `NoDuplicateAssignment`, `RunRebuiltCache`, `EmptyPageMeansComplete`; `RunEnds` |
| `MCSessionLimit` | two workers, five logins, no limit, one and two sessions | `ExcessBounded`; `LoginCompletes` |
| `MCUserMerge` | four accounts of three services, three histories, three invocations | `MergeIsComplete`, `NoAccountDropped` |
| `MCSuperuserSync` | two users, controller, hub and EDA in every combination of levels, two invocations, one change by an administrator | `NoEscalation`, `NoSuperuserBeyondGateway` |
| `MCXdsCache` | one worker, one writer, all three discovery services, one transaction of any kind, one death or restart | `StaleOnlyIfOvertaken`; `EventuallyFresh` |
| `MCExtAuthz` | one thread, one saver, two values, four half seconds, lifetimes of 0 and 2 s with a buffer of 1 s, two changes, one change of the preference | `InternalNeedsServiceToken`, `LiveInCache`, `StaleAtMostLifetime` |
| `MCServiceTokens` | two editors, four keys, a limit of two; two threads, two clusters that both claim one id, a third id that nobody has, a cooldown table of one entry, one writer of whole clusters; three routes, two nodes, two ports, two requests at a time and `register_service`, two writes | `ActiveBounded`, `NewKeyReplaces`, `AcceptedForIssuer`, `TableBounded`; `InternalGuarded`, `RulesKept`, `EndpointsAsTagged` |
| `MCRotateSecretKey` | two workers, the key pair and one ordinary preference, a column and two authenticator configurations in pages of two, three secret keys | `ServedAsStored`, `PairMatches`; `OneKnownKey`, `StartsAfterRotation` |
| `MCResourceClient` | two processes with pools of two, one service, a resource, two assignments of the gateway and one of the service, three changes | `DivergenceExplained`; the refinement `ImplementsRegistry`, with the liveness of `SharedRegistry` |
| `MCAccountsUpgrade` | two users, two authenticators, two requests out of some three hundred; three stages, two migrations, 27 histories of their files, seven policies | `StoredAsAsked`, `ValidIsApplied`; `NothingLeftBehind`, `PassIsEarned` |

Several of these are conjunctions, whose parts have names and comments of their own in the modules:
`MergeIsComplete` (`TakenOverEverywhere`, `ReturnMeansMerged`), `NoAccountDropped` (`OriginalsKept`,
`FirstAttemptSpares`), `RulesKept` (`TlsExcludesAuth`, `ReservedPathsKept`), `ServedAsStored` (`StaleOnlyIfLate`, `ServedClear`), `OneKnownKey`
(`OneKey`, `KeyNeverLost`), `DivergenceExplained` (`CopiesExplained`, `OwnedIsBacked`), `StoredAsAsked`
(`LocalUidKept`, `ProvidersAsAsked`, `UidsAsAsked`) and `PassIsEarned` (`NoSilentChange`, `SourcesPinned`,
`RehearsalFaithful`, `SummaryAgrees`). Each module states its types (`TypeOK` and the like) for the
proofs; the runs are about the rest.

Why the bounds are enough. The resource and role migrations have no bound on the number of
invocations, and their safety is proved for all sizes besides; the instances are chosen so that
every action fires: a second page and a second chunk, a merge and a creation of the same object, a
unique constraint that is violated. Two workers are the fewest that overlap in `SessionLimit`, and
five logins let an excess build up twice. In `UserMerge` the three histories are a group that merges,
a group whose members clash with each other and one that clashes with its main account; a third invocation
shows what repeated failures do. `XdsCache` needs one writer and one worker for each of its races
(overtaken response, lost invalidation), but all tables and all three responses, since the question
is whether the signals cover the queries. In `ExtAuthz` the time is long enough for an entry to be
stored late, to time out and to be replaced.

`MCServiceTokens` and `MCAccountsUpgrade` check two modules each that share no state and no property. In
both of them one module moves while the other rests in an initial state: interleaving the two would multiply the
states and show nothing that their own steps do not. Inside `MCServiceTokens` the constraint
`OneAtATime` does the same for changes of keys and validations of tokens, which meet in one step
(`Verify` reads the active keys), and keeps the keys in one cluster. A table with one entry is full as
soon as an issuer was tried, which is the case the cap is about; with two threads that find room at the same time it
comes to hold two. Two ids that two clusters report are the fewest that can collide. Clusters are written back while the
clock stands, and it goes on only if no id was lost by that. Two writes to the routes are that of a request which has loaded
its row and that of the one which overtakes it; longer chains of stale writes are not covered. `Focus`, with the guards of `MCNext`, in
`MCRotateSecretKey` lets two workers meet each other while no rotation runs, and one worker meet the
rotation; three keys allow the command to be run twice. In `MCResourceClient` three changes let a
creation, an update and a removal of one item be under way at once, and let two requests write back rows they loaded
before; the assignment that the service owns, which shares no state with the others, moves while they rest. Two requests in `MCAccountsUpgrade`
are a request and the one that overtakes it. Threads, editors, workers and unused secret keys are
symmetric where the run has no liveness property.

Deadlock checking is switched off where a behaviour ends for a bound (logins, invocations).

### Fairness

* `ResourceMigration` (`FairSpec`) and `RoleAssignments`: the command is one sequential process, so
  its step is weakly fair. Nothing is assumed of the services: requests may fail for ever, and nobody
  has to call the command again.
* `MigrateServiceData` (`HandleFairSpec`): the same, and each worker keeps being asked and its copy of
  the flag is five seconds old in the end (`CacheExpires`, `ServiceTokenAuth` weakly fair).
* `SessionLimit`: weak fairness of each login; PostgreSQL grants a released lock.
* `XdsCache`: Envoy polls each key for ever (strong fairness, since the workers are shared by the
  keys), a worker finishes its request, and the default timeout of the cache passes. Neither the
  invalidation nor the writers are fair: `EventuallyFresh` rests on the timeout alone.
* `ResourceClient` (`ClientSpec`): a request that has begun ends, a process sends what is in its pool, and
  each service's reverse synchronisation keeps running (every 15 minutes, as
  `resources_client.py` says of it). No request has to succeed: the fair step of
  `SharedRegistry` is implemented by the synchronisation alone.

## 4. Proofs

`tlapm` checks eight modules. Together they establish for every value of the constants each
invariant and every action property that a run checks on an instance, and the safety part of the refinement.
The assumptions are those named in the component modules, which TLC evaluates in every run; where a
theorem needs one more it is said below. None of the invariants is inductive as it stands; for each component the
conjunction that is inductive is named, with what the added parts are for.

**RoleAssignmentsProofs.** `NoAssignmentLost` speaks of the stored cursor only and is not inductive. `LostInv` adds the window: rows at or below `id__gt` are
settled (`WindowSettled`), the page in hand has no visible row missing below its last one
(`PageIsClosed`), rows of it are created in the order global, object, cursor (`PageProgress`), and
ids that were seen are below the sequence's next and not in flight (`SeenIsOld`). The last one is
where commits out of order come in: a row in flight is above everything the command has looked at, or was overtaken, and
then it is in `overlapped` for good. `CacheInv` does the same for the roles whose permissions have to be rebuilt.

**UpgradeProofs, resource migration.** `IndInv` consists of the types, of `GatewayConsistent` (unique constraints and
ownership in the gateway), of what the plan of a page means before and after the local transaction
(`PlanOfPage`, `PlanBeforeCreate`, `PlanBeforeSend`), of `OwnerOrGateway`, `ParentsFirst` and
`EarlierTypesDone` (the order of types), and of the two properties. The central fact is that when an item of a chunk
is applied, whenever and however often, its target row is already committed in the gateway
(`BulkKeeps`). `IdentityIsShared` (two services' rows of the same object carry one identity) follows
from it with the unique constraints and has no run of its own.

**UpgradeProofs, the command.** `HandleInv` is `IndInv`, the types, `LoopInv` (services before the
position are settled or counted as failed), `GateInv` (a copy that says yes implies the flag) and
`FlagMeansComplete`. `HandoverIsFinal` (no step gives a row back) is the reason why a settled service stays settled.
`CommandKeepsHandover` lifts the handover invariant to the whole command.

**UpgradeProofs, the rehearsal.** `UpgradeInv` ties the stage to its results and inventories (`StagesInStep`), each inventory
to the one before and to the files of its checkout (`InventoriesTrue`), and the fingerprints to the first stage
that found a migration applied (`FirstKnown`, `Compared`). From these follows what the code does not say: a
migration whose file is missing where it is first found applied must have been there before the first stage.
`Pinned` says the same of the provenance of each stage's sources. `RoundTripOnce`, `SourceTrue` and `CopyTrue` follow the copy; `LeftKnown` says who still knows of the temporary
database and the dump at every step. The summary lags behind the results and never runs ahead (`SummaryBehind`).

**UserMergeProofs.** `MergeInv`. `Counted` is the argument for the count at the end: accounts merged in
earlier groups, in the group at hand, and accounts still partially migrated add up to the total, so the check never
raises. `TransactionSound` says how far the open transaction and the requests it has sent are, `Placed` says where the
account in hand is in each service between the two requests of `link_account`, and `DatabaseSound` that an
account that is gone has no originals. `FirstAttemptSpares` needs `Placed` for the first attempt only; it is
false for later ones (section 5).

**ServiceClusterProofs.** For the keys, `KeysInv` counts: `ActiveAccounted` gives every active key beyond the
limit to an editor that is between its count and its insertion, and `PlacesBounded` bounds those. For the tokens,
`ClusterKnown` (the cluster of a thread has had the issuer's id) and `IdsFounded` (an id was reported by its cluster)
carry `AcceptedForIssuer`. `EntriesBounded` counts for `TableBounded`: the entries, and the threads that were let in and have yet
to make theirs (`LetIn`), stay below the limit and the number of threads. For the routes, `RoutesInv`: every row, and every row a request holds, was valid when written, so a stale
write puts back a valid row.

**ApiChangesProofs, user accounts.** `AccountsInv` is what the database promises (`DatabaseOK`), and of every request
under way that what it has loaded was in the database when it was validated (`Sound`). Each function of the
transaction has a lemma on the links it leaves, of the user and of the others (`SaveFacts`, `RemovedFacts`,
`CreatedFacts`, `RenamedFacts`), and `Sane` is what all of them keep. That gives `AccountsTypeCorrect`. For `WhatIsAskedIsStored`
the loaded rows are those of the table (`BegunFacts`); the uids it is about are kept because an update that would change
them meets a removed row and fails (`RemovingStep`). The name under which links are made is that of `NameAfter`; where it
differs from the one that is saved, `RenamedTooLate` is what remains. For `WhatIsValidIsApplied`, `Fit` says that the
user has one link for each authenticator, with a uid that no one else has, and is carried through the
functions; from it follow the constraints. `Unforeseen` came out of this proof in its present form: two of its cases do
not happen within the bounds of the run (section 5).

**ApiChangesProofs, resource client.** `ClientInv` has the numbers given to changes (`Numbered`), the lock on a row
(`Locked`), what every task and login carries (`TasksTrue`, `LoginsTrue`), and `CopiesAccounted`: a copy that differs
from the newest change that was committed or that the services are told of (`IsNewest`) has a task on its way or a recorded reason.
`OwnersAsked` says what a request that waits for an owner may rely on, with or without a rival. The steps are sorted into kinds
first (`StepKinds`), and each part of the invariant is shown kind by kind. `ClientRefinesRegistry` shows the initial states and
every step of the client to be initial states and steps (or stuttering) of `SharedRegistry`; its fairness is left to TLC.

**RotateSecretKeyProofs.** `RotateInv` says of each worker whether what it holds is current or
late (`HeldIsCurrent`, `StaleOnlyIfLate`), of the key pair how an update in two writes looks half-way (`PubFollows`,
`PairKeys`), and of the command what is under which key at each step of its transaction (`TxnKeys`, `OrderlyKeys`,
`Progress`). The theorems hold without the constraint that `MCRotateSecretKey` puts on the traffic.

**ConsistencyProofs.** `SyncInv`: the users of the page in hand are known (`PageKnown`), whoever is promoted was trusted
(`AllTrusted`), and a service that was gone through has no superuser beyond the gateway's unless somebody
interfered (`Undisturbed`). `XdsInv`: a worker that was not overtaken holds the tables of the queries behind it as they
are (`JobSound`).

**AuthenticationProofs.** `AuthzInv` carries times: since when a check has held what it read (`HeldSince`), until
when an entry may live (`EntryBound`) and when it disagrees with its user (`DueDates`, `EntryDue`).
`CacheServesLiveTokens` has the hypothesis `QuickChecks`, that a check takes no longer than the buffer less a second; with the
buffer of 15 s that the code has, up to 14 s. `SessionInv` bounds the sessions by the limit and the logins that overlapped;
their history is an existential in the invariant.

Only model-checked: all liveness (`Terminates`, `GateOpens`, `RunEnds`, `LoginCompletes`, `EventuallyFresh` and
that of `SharedRegistry`). Liveness under fairness is out of the prover's reach.

## 5. Disagreements

Where a comment, a docstring or a message says more than the code does. The properties are stated so
that they hold of the code; each entry says what the stronger statement would be.

The migration command:

* `role_assignments.py:292` says the RBAC cache is rebuilt in a finally block. The block knows only the roles
  of the types that were finished (line 312): those of the type in which an exception was raised are
  not rebuilt. `RunRebuiltCache` excepts them, and holds of all others whether the run returned or raised.
* `cursor_store.py:19-20` says the `id__gt` filter is immutable within a run; `role_assignments.py:86`
  moves it with every page, which is what makes the loop end (`RunEnds` fails without it).
* `role_assignments.py:297-299` says new rows get higher ids and appear on later pages, and the only undetected
  ones are those created during the last page. Ids are drawn before the transaction commits; a row that is committed after a page
  with a higher id was read is behind the window and is never copied, on whatever page that happens.
  `EmptyPageMeansComplete` and `NoAssignmentLost` except such rows (`overlapped`) and no others.
* `resource_migration.py:168-170` gives an upstream resource the `service_id` of the gateway row that it finds, whatever that is. The check at the beginning of the
  merge sees to it that the users are the gateway's; of organizations and teams it is an assumption of the model
  (`InitialGatewaysAssumption`) that the gateway has made its rows under its own id.
* `utils/user_migration.py:139` says references to the original account are cleaned up. After a merge whose answer was lost
  the copy is the account that was handed over, and the next attempt deletes it (line 142):
  `FirstAttemptSpares` is about the first attempt.
* `superuser_sync.py:120` says superusers of hub and EDA who are none in the gateway are demoted. The list is
  read before the promotions of the same comparison (line 103), so a user promoted by it is demoted in
  hub and EDA as well.
* `utils/user_migration.py:113` says all changes are rolled back if a part fails; the requests that were
  sent are not. `TakenOverEverywhere` is what remains true.
* `user_merge.py:153` says all users are validated before any merge; each is compared with the main user
  only, and two of them may clash after the first was merged (`LinkConflict`).
* `superuser_sync.py:93` says superusers of controller and gateway match exactly; a gateway superuser who
  is none in the controller is left alone (`NoSuperuserBeyondGateway` is one inclusion).
* `models/user.py:141-142` says a changed user's token is invalidated; it is dropped before the row is
  written, and a check in between caches it again (`StaleAtMostLifetime` bounds the damage).
* `jwt_cache.py:16-18` says the cache never serves an expired token; the preference is read twice, and if it
  is raised in between the entry outlives the token (`LiveInCache` holds for an unchanged preference).
* `docs/authentication.md:10` says a failed login is passed on to the service; with
  `reject_failed_basic_auth`, and on internal routes, it is refused.

Sessions, tokens and keys:

* `models/user_session_membership.py:52-54` says the row locks prevent two concurrent logins from exceeding the
  limit. They do not see each other's rows and do exceed it; `ExcessBounded` says by how much.
* `utils/service_id_sync.py` says `populate_service_id` never raises. Two threads that prune the same
  expired entry both delete it, and the second gets a `KeyError` (`Prune`). An issuer without an
  entry is compared with time 0, so for the first 60 s after boot all are put off. When the table is full of fresh entries all
  issuers are refused, those that have an entry included.
* `service_id_sync.py:51-52` says the table cannot grow without bound. It exceeds its limit when threads find room at the same
  time; `TableBounded` says by how much.

Routes:

* `register_service.py:46` and `:84` call `update_or_create`, which saves the given fields only; the Envoy
  cluster name and the path computed in `save()` are not stored. After a service was registered again with another port
  or slug its routes share a cluster with routes of the old name. It also checks neither that an internal route is
  authenticated nor that mutual TLS and authentication exclude each other. `EndpointsAsTagged`,
  `InternalGuarded` and `TlsExcludesAuth` except it.
* "Mutual TLS can only be enabled when gateway auth is disabled": a POST with `enable_mtls` and
  without `enable_gateway_auth` is accepted and the latter defaults to true. By the same token an
  internal route posted without it is refused although the default would do.
* "The same route can result in the same envoy cluster if the set of nodes and service port are the same"
  (`models/route.py:152`). A route without tags gets the name of one whose tag is a star, and they ask for
  different nodes: all, and those tagged with a star. `EndpointsAsTagged` excepts that pair. Routes that differ in `is_service_https`
  only share a name as well. Which of the two the cluster is made from is up to the database.
* A PATCH of an additional route with `http_port` or `gateway_path` alone passes the serializer and fails in `clean()`,
  as an error of the server. The path of a plugin route keeps the cluster's old name when the cluster is renamed.

Preferences and rotation:

* The rotation's docstring says every secret is re-encrypted. Configurations whose plugin cannot be loaded are
  skipped without a word (`Unloadable`; `OneKey` excepts them).
* The cache is cleared before the transaction commits, and a failure to clear it is a warning. A worker that
  was not stopped fills it with values under the old key, or writes rows back under it (`orderly`).
* Deleting a section saves the defaults one by one; where one cannot be changed the others before it are
  reverted already.

Published changes:

* A PUT or PATCH compares the row before and after with the row as it had loaded it (`views/api/v1/common.py:107`). If another request
  changed the row meanwhile, one that changes nothing writes the old row back and publishes nothing; the services keep the
  other's change until their next synchronisation. A row that was deleted meanwhile is inserted again.
* `views/api/v1/role.py:210` asks the owner of an object first and changes the gateway afterwards, without a lock. If a removal
  and a creation of one assignment overlap, the two sides may end up different in either way (`OwnedIsBacked` excepts it).
  Creating an assignment that is there already is not modelled.

User accounts:

* A comment in `serializers/user.py` (near line 818) says explicitly set uids are preserved; those of the local
  authenticator become the username.
* `authenticator_uid` shows several uids as one text, and a PUT of what GET returned stores that text as a uid. On its own the
  field is not checked for conflicts, and beside `associated_authenticators` it is applied without being
  validated. An empty mapping passes the rule that only superusers may change it.
* Rows loaded before are used after others were deleted or inserted: a request that removes an authenticator may save a
  deleted row, and one for a user without links takes the first of none; both end as errors of the
  server. `Unforeseen` lists them, and `ValidIsApplied` says there are no more.
* A request with a new username, an empty list for `authenticators` and `associated_authenticators` with the local
  authenticator: `refresh_from_db()` (`serializers/user.py:716`) brings the old username back, the local link is made with it
  (lines 179-184), and the new one is saved afterwards (line 870). The uid of the local link is then the old name, against
  "For local authenticators, UID must match username" (line 752). `LocalUidKept` excepts it (`RenamedTooLate`).
* A PATCH with null for `authenticators`, which the field allows (line 57), names no uid, but line 530 takes the user's first one and
  lines 728-768 put it on the link of the last login, without a look at conflicts. `UidsAsAsked` and `Unforeseen` except it.
* A uid that another request takes between validation and transaction ends as an error of the server, from the unique constraint;
  `ValidIsApplied` is about requests that nothing came between.
* `validate` does not check the username against the uids of local links. If another user's local link has the old
  or the new username as its uid, a rename may end in an error of the server. So it does for a user with two links to
  the local authenticator: the first is given the new username, the second is then found to have the old one, and either may
  be taken. A rename of stale rows can leave such a user, because its plain `save()` brings back a link that was removed.

The rehearsal of an upgrade:

* `run()` handles `MigrationUpgradeError` only; an `OSError` outside the round trip skips the clean-up and the
  summary (`NothingLeftBehind` is about runs that end by themselves).
* `_cleanup_snapshot_database` drops the temporary database whatever failed before. A `createdb` that timed out is killed, the server may go on, and
  `dropdb --if-exists` succeeds if it comes before the database is there; `NothingLeftBehind` excepts that (`Late`).
* The summary says "Fixed fixture identity: verified" for a stage whenever the file with the identity is there, also when the
  comparison failed (`migration_upgrade.py:839`). That line is not part of the modelled summary; `SummaryAgrees` is about the
  results.

## 6. Not modelled

Signatures, key material and libraries (Django, ansible_base, PyJWT, gRPC) are external. Views and
registration code that work inside one request or one process without a decision of their own have
no interleavings worth a model: login, status, OIDC and workload tokens, changed emails, legacy authenticators,
thin subclasses of library views. The endpoint that moves an authenticator from one user to another
(`authenticator_user.py`), the order of routes, TLS and outlier detection of clusters, and cloud instances
with unchangeable preferences are left out. The database migrations are generated and run once. Logging and formatting of
the command is left out. `PROJECT.json` lists every part with its reason.

## 7. Plan

Every safety property that a run checks is proved. What is left is to state more: what holds of the parts in
`PROJECT.json` that are only partly modelled, each with a run and then a theorem. Liveness stays with TLC.
