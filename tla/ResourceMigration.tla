-------------------------- MODULE ResourceMigration --------------------------
(***************************************************************************)
(* ResourceMigrationMixin of the migrate_service_data command: how the     *)
(* gateway takes over the resources (organizations, teams, users, role     *)
(* definitions, feature flags) that upstream services own.                 *)
(*                                                                         *)
(* Two databases are involved and no transaction spans them.  `gw` is the  *)
(* gateway's resource registry; `up` is the registry row of every upstream *)
(* resource.  A page of upstream rows is fetched, the rows unknown to the  *)
(* gateway are created there in one transaction that commits, and only     *)
(* then is the page sent back as a bulk update that stamps the rows with   *)
(* the gateway's service_id.  Replies can be lost after they took effect,  *)
(* items can be refused one by one, and the command can die anywhere and   *)
(* be run again.                                                           *)
(*                                                                         *)
(* The maintenance window the command runs in is assumed: nobody renames   *)
(* or deletes gateway resources, and no upstream resource is created, while*)
(* it runs.  The partially migrated users left by an older release have    *)
(* been merged already (the command raises otherwise).                     *)
(***************************************************************************)
EXTENDS Naturals, Sequences, FiniteSets

CONSTANTS
  Service,          \* upstream services
  Gateway,          \* the gateway's own service_id
  Item,             \* rows of the upstream resource registries
  ServiceOf,        \* [Item -> Service]
  TypeOf,           \* [Item -> ResourceType]
  NameOf,           \* [Item -> Name], the type's unique fields but the parent
  ParentOf,         \* [Item -> Item \cup {NoParent}], a team's organization
  NoParent,
  Name,
  AnsibleId,
  InitialAid,       \* [Item -> AnsibleId], ids before the migration
  InitialGateways,  \* the registries the gateway may hold at the start
  SystemUser,       \* rows of the user named settings.SYSTEM_USERNAME
  Uncorrectable,    \* rows whose resource_data cannot be made valid
  PageSize,         \* default page size of the upstream list endpoint
  MaxBulkChunkSize, \* MAX_BULK_CHUNK_SIZE
  NoService

VARIABLES
  gw,       \* resource rows of the gateway
  up,       \* [Item -> [aid, sid]], resource rows of the services
  svc,      \* service being migrated
  typ,      \* index in TypeOrder of the type being migrated
  phase,    \* where migrate_resource stands
  plan,     \* what is to be done for the rows of the current page
  todo,     \* bulk-update items not yet acknowledged
  chunk,    \* bulk-update items of the request being sent
  attempt,  \* transient failures of that request so far
  updated,  \* items the service said it updated on this page
  zero      \* consecutive_zero_progress

vars == <<gw, up, svc, typ, phase, plan, todo, chunk, attempt, updated, zero>>

pageVars == <<plan, todo, chunk, attempt, updated>>

(***************************************************************************)
(* Limits the code fixes.                                                  *)
(***************************************************************************)
MaxTransientRetries == 3
MaxZeroProgressPages == 3

(* A faulty order: teams before the organizations they belong to. *)
TypeOrderTeamsFirst ==
  <<"team", "organization", "user", "role_definition", "feature_flag">>

(***************************************************************************)
(* The order handle() migrates the types in: a team's organization must be *)
(* known to the gateway before the team is.                                *)
(***************************************************************************)
TypeOrder ==
  <<"organization", "team", "user", "role_definition", "feature_flag">>

ResourceType ==
  {"organization", "team", "user", "role_definition", "feature_flag"}

GatewayRow == [aid : AnsibleId, sid : Service \cup {Gateway},
               type : ResourceType, name : Name,
               parent : AnsibleId \cup {NoParent}]

PlanItem == [item : Item, lookup : AnsibleId, target : AnsibleId,
             sid : Service \cup {Gateway}, create : BOOLEAN,
             parent : AnsibleId \cup {NoParent}]

Phases == {"idle", "fetch", "create", "send", "done", "failed"}

SameKey(r, s) == r.type = s.type /\ r.name = s.name /\ r.parent = s.parent

(***************************************************************************)
(* The gateway's unique constraints: one row per ansible_id, one object    *)
(* per value of the type's unique fields.                                  *)
(***************************************************************************)
UniqueRows(rows) ==
  \A r, s \in rows : r.aid = s.aid \/ SameKey(r, s) => r = s

ASSUME ConstantsAssumption ==
  /\ Gateway \notin Service
  /\ NoService \notin Service
  /\ NoParent \notin AnsibleId
  /\ NoParent \notin Item
  /\ IsFiniteSet(Item)
  /\ ServiceOf \in [Item -> Service]
  /\ TypeOf \in [Item -> ResourceType]
  /\ NameOf \in [Item -> Name]
  /\ ParentOf \in [Item -> Item \cup {NoParent}]
  /\ InitialAid \in [Item -> AnsibleId]
  /\ SystemUser \subseteq Item
  /\ Uncorrectable \subseteq Item
  /\ PageSize \in Nat \ {0, 1}
  /\ MaxBulkChunkSize \in Nat \ {0}

(* A team belongs to an organization of its own service. *)
ASSUME ParentAssumption ==
  \A i \in Item : ParentOf[i] # NoParent =>
    /\ TypeOf[i] = "team"
    /\ TypeOf[ParentOf[i]] = "organization"
    /\ ServiceOf[ParentOf[i]] = ServiceOf[i]

(* A service has at most one system user. *)
ASSUME SystemUserAssumption ==
  /\ \A i \in SystemUser : TypeOf[i] = "user"
  /\ \A i, j \in SystemUser : ServiceOf[i] = ServiceOf[j] => i = j

(* What the gateway holds before: its own rows, unique as its database     *)
(* demands.  No user is still owned by a service, because                  *)
(* _merge_partially_migrated_users ran before and raised if one was; for   *)
(* the other types it is an assumption: the gateway makes their rows with  *)
(* its own service_id, and the command does not look whether it did.       *)
ASSUME InitialGatewaysAssumption ==
  \A rows \in InitialGateways :
    /\ rows \subseteq GatewayRow
    /\ \A r \in rows : r.sid = Gateway
    /\ UniqueRows(rows)

-----------------------------------------------------------------------------
(***************************************************************************)
(* The upstream list endpoint: rows of a type still owned by the service.  *)
(***************************************************************************)
Unmigrated(s, t) ==
  {i \in Item : ServiceOf[i] = s /\ TypeOf[i] = t /\ up[i].sid = s}

Pages(s, t) ==
  LET rows == Unmigrated(s, t) IN
  {p \in SUBSET rows :
     Cardinality(p) = IF Cardinality(rows) < PageSize THEN Cardinality(rows)
                                                      ELSE PageSize}

(* The organization a team's resource_data names. *)
ParentAid(i) ==
  IF ParentOf[i] = NoParent THEN NoParent ELSE up[ParentOf[i]].aid

(* Validation resolves the organization and rejects data beyond repair. *)
Valid(i) ==
  /\ i \notin Uncorrectable
  /\ ParentOf[i] # NoParent =>
       \E r \in gw : r.type = "organization" /\ r.aid = ParentAid(i)

(* Gateway objects with the unique fields of row i: none or one. *)
Existing(i) ==
  {r \in gw : /\ r.type = TypeOf[i]
              /\ r.name = NameOf[i]
              /\ r.parent = ParentAid(i)}

(***************************************************************************)
(* _reconcile_existing_resource and the payloads built around it.  An      *)
(* unknown row is created under its own ansible_id; a known one is merged  *)
(* into the gateway's: upstream takes over the gateway's ansible_id.       *)
(***************************************************************************)
Reconcile(i) ==
  LET known == CHOOSE r \in Existing(i) : TRUE IN
  IF Existing(i) = {}
    THEN [item |-> i, lookup |-> up[i].aid, target |-> up[i].aid,
          sid |-> Gateway, create |-> TRUE, parent |-> ParentAid(i)]
    ELSE [item |-> i, lookup |-> up[i].aid, target |-> known.aid,
          sid |-> IF known.aid = up[i].aid THEN known.sid ELSE Gateway,
          create |-> FALSE, parent |-> ParentAid(i)]

CreatedRow(p) ==
  [aid |-> p.target, sid |-> Gateway, type |-> TypeOf[p.item],
   name |-> NameOf[p.item], parent |-> p.parent]

(* A faulty variant that takes one handed-over row for all of them. *)
AlreadySyncedIfTouched(s) ==
  \E i \in Item : ServiceOf[i] = s /\ up[i].sid = Gateway

(* _is_service_already_synced: nothing is left but the system user, and    *)
(* the registry is not simply empty so far.                                *)
AlreadySynced(s) ==
  /\ UNION {Unmigrated(s, t) : t \in ResourceType} \subseteq SystemUser
  /\ \E i \in Item : ServiceOf[i] = s

-----------------------------------------------------------------------------
Init ==
  /\ gw \in InitialGateways
  /\ up = [i \in Item |-> [aid |-> InitialAid[i], sid |-> ServiceOf[i]]]
  /\ svc = NoService /\ typ = 1 /\ phase = "idle"
  /\ plan = {} /\ todo = {} /\ chunk = {}
  /\ attempt = 0 /\ updated = 0 /\ zero = 0

(* The stack of migrate_resource is gone: returned, raised or killed. *)
Leave(p) ==
  /\ phase' = p
  /\ plan' = {} /\ todo' = {} /\ chunk' = {}
  /\ attempt' = 0 /\ updated' = 0 /\ zero' = 0

(* _migrate_single_service reaches a service: skip it or start over. *)
StartService(s) ==
  /\ phase \in {"idle", "done", "failed"}
  /\ svc' = s
  /\ typ' = 1
  /\ phase' = IF AlreadySynced(s) THEN "done" ELSE "fetch"
  /\ UNCHANGED <<gw, up, pageVars, zero>>

(* No row comes back (the system user does not count): on to the next type.*)
FetchNothing ==
  /\ phase = "fetch"
  /\ \E page \in Pages(svc, TypeOrder[typ]) : page \subseteq SystemUser
  /\ IF typ = Len(TypeOrder)
       THEN Leave("done") /\ UNCHANGED typ
       ELSE Leave("fetch") /\ typ' = typ + 1
  /\ UNCHANGED <<gw, up, svc>>

(* A page of valid rows: decide what to create and what to merge. *)
FetchPage ==
  /\ phase = "fetch"
  /\ \E page \in Pages(svc, TypeOrder[typ]) :
       LET results == page \ SystemUser IN
       /\ results # {}
       /\ \A i \in results : Valid(i)
       /\ plan' = {Reconcile(i) : i \in results}
  /\ phase' = "create"
  /\ UNCHANGED <<gw, up, svc, typ, todo, chunk, attempt, updated, zero>>

(* One row of the page is beyond repair: the whole service is given up. *)
FetchInvalid ==
  /\ phase = "fetch"
  /\ \E page \in Pages(svc, TypeOrder[typ]) :
       \E i \in page \ SystemUser : ~Valid(i)
  /\ Leave("failed")
  /\ UNCHANGED <<gw, up, svc, typ>>

(* The list request itself fails; it is not retried. *)
FetchError ==
  /\ phase = "fetch"
  /\ Leave("failed")
  /\ UNCHANGED <<gw, up, svc, typ>>

(* The transaction that creates the page's new rows commits. *)
CreateLocal ==
  /\ phase = "create"
  /\ LET rows == {CreatedRow(p) : p \in {q \in plan : q.create}} IN
     /\ UniqueRows(gw \cup rows)
     /\ gw' = gw \cup rows
  /\ phase' = "send"
  /\ todo' = plan
  /\ UNCHANGED <<up, svc, typ, plan, chunk, attempt, updated, zero>>

(* A faulty variant that logs the failure and sends the page all the same. *)
CreateFailureIgnored ==
  /\ phase = "create"
  /\ phase' = "send"
  /\ todo' = plan
  /\ UNCHANGED <<gw, up, svc, typ, plan, chunk, attempt, updated, zero>>

(* It fails, on a unique constraint or otherwise, and rolls back. *)
CreateFails ==
  /\ phase = "create"
  /\ Leave("failed")
  /\ UNCHANGED <<gw, up, svc, typ>>

(* _send_bulk_update slices off the next chunk. *)
NextChunk ==
  /\ phase = "send"
  /\ chunk = {}
  /\ todo # {}
  /\ \E c \in SUBSET todo :
       /\ Cardinality(c) = IF Cardinality(todo) < MaxBulkChunkSize
                             THEN Cardinality(todo) ELSE MaxBulkChunkSize
       /\ chunk' = c
  /\ attempt' = 0
  /\ UNCHANGED <<gw, up, svc, typ, phase, plan, todo, updated, zero>>

(***************************************************************************)
(* The upstream bulk-update endpoint (external).  Any part `done` of the   *)
(* request takes effect; an item is refused if its ansible_id is unknown   *)
(* (it was re-identified by an earlier attempt) or its new one is taken.   *)
(***************************************************************************)
BulkUpdate(done) ==
  LET new == [i \in Item |->
                IF \E p \in done : p.item = i
                  THEN LET p == CHOOSE p \in done : p.item = i
                       IN [aid |-> p.target, sid |-> p.sid]
                  ELSE up[i]] IN
  /\ \A p \in done : up[p.item].aid = p.lookup
  /\ \A i, j \in Item :
       ServiceOf[i] = ServiceOf[j] /\ new[i].aid = new[j].aid => i = j
  /\ up' = new

(* 200 with a JSON object: count what was updated, go on with the rest. *)
ChunkAnswered ==
  /\ phase = "send"
  /\ chunk # {}
  /\ \E done \in SUBSET chunk :
       /\ BulkUpdate(done)
       /\ updated' = updated + Cardinality(done)
  /\ chunk' = {}
  /\ todo' = todo \ chunk
  /\ UNCHANGED <<gw, svc, typ, phase, plan, attempt, zero>>

(* 200 with JSON that is not an object: counted as nothing updated. *)
ChunkAnsweredOddly ==
  /\ phase = "send"
  /\ chunk # {}
  /\ \E done \in SUBSET chunk : BulkUpdate(done)
  /\ chunk' = {}
  /\ todo' = todo \ chunk
  /\ UNCHANGED <<gw, svc, typ, phase, plan, attempt, updated, zero>>

(* 502, 503, 504, a network error or a garbled reply, with or without      *)
(* effect: try the same chunk again.                                       *)
ChunkRetried ==
  /\ phase = "send"
  /\ chunk # {}
  /\ attempt < MaxTransientRetries - 1
  /\ \E done \in SUBSET chunk : BulkUpdate(done)
  /\ attempt' = attempt + 1
  /\ UNCHANGED <<gw, svc, typ, phase, plan, todo, chunk, updated, zero>>

(* The retries are used up, or the error is permanent: RuntimeError. *)
ChunkFails ==
  /\ phase = "send"
  /\ chunk # {}
  /\ \E done \in SUBSET chunk : BulkUpdate(done)
  /\ Leave("failed")
  /\ UNCHANGED <<gw, svc, typ>>

(* A faulty variant without the stall check. *)
FinishPageUnlimited ==
  /\ phase = "send"
  /\ chunk = {}
  /\ todo = {}
  /\ phase' = "fetch"
  /\ plan' = {} /\ attempt' = 0 /\ updated' = 0
  /\ UNCHANGED <<gw, up, svc, typ, todo, chunk, zero>>

(* The page is sent: fetch the filter again, unless nothing moved thrice. *)
FinishPage ==
  /\ phase = "send"
  /\ chunk = {}
  /\ todo = {}
  /\ IF updated = 0 /\ zero + 1 >= MaxZeroProgressPages
       THEN Leave("failed")
       ELSE /\ phase' = "fetch"
            /\ zero' = IF updated = 0 THEN zero + 1 ELSE 0
            /\ plan' = {} /\ attempt' = 0 /\ updated' = 0
            /\ UNCHANGED <<todo, chunk>>
  /\ UNCHANGED <<gw, up, svc, typ>>

(* The command is killed; a later invocation starts from the databases. *)
Crash ==
  /\ phase \in {"fetch", "create", "send"}
  /\ Leave("idle")
  /\ UNCHANGED <<gw, up, svc, typ>>

Step ==
  \/ FetchNothing \/ FetchPage \/ FetchInvalid \/ FetchError
  \/ CreateLocal \/ CreateFails
  \/ NextChunk \/ ChunkAnswered \/ ChunkAnsweredOddly \/ ChunkRetried
  \/ ChunkFails \/ FinishPage

Next ==
  \/ \E s \in Service : StartService(s)
  \/ Step
  \/ Crash

Spec == Init /\ [][Next]_vars

(* A running command keeps taking steps: it is a single sequential process.*)
FairSpec == Spec /\ WF_vars(Step)

-----------------------------------------------------------------------------
(* Types of all variables. *)
TypeOK ==
  /\ gw \subseteq GatewayRow
  /\ up \in [Item -> [aid : AnsibleId, sid : Service \cup {Gateway}]]
  /\ svc \in Service \cup {NoService}
  /\ typ \in 1..Len(TypeOrder)
  /\ phase \in Phases
  /\ plan \subseteq PlanItem
  /\ todo \subseteq plan
  /\ chunk \subseteq todo
  /\ attempt \in 0..(MaxTransientRetries - 1)
  /\ updated \in Nat
  /\ zero \in 0..(MaxZeroProgressPages - 1)

Migrated(i) == up[i].sid = Gateway

(***************************************************************************)
(* The invariant the whole two-database protocol exists for.  A row that a *)
(* service has handed over (its service_id is the gateway's, so the service*)
(* will never offer it again) is backed by a gateway row with its          *)
(* ansible_id, its unique fields and its organization, whatever was lost,  *)
(* retried or killed on the way.                                           *)
(***************************************************************************)
ManagedByGateway ==
  \A i \in Item : Migrated(i) =>
    \E r \in gw : /\ r.aid = up[i].aid
                  /\ r.type = TypeOf[i]
                  /\ r.name = NameOf[i]
                  /\ r.parent = ParentAid(i)

(***************************************************************************)
(* Merging works across services: two handed-over rows carry the same      *)
(* ansible_id exactly when they are the same object (type, unique fields,  *)
(* organization), whichever services they come from and in whatever order. *)
(***************************************************************************)
OneIdentityPerObject ==
  \A i, j \in Item : Migrated(i) /\ Migrated(j) =>
    (up[i].aid = up[j].aid <=> /\ TypeOf[i] = TypeOf[j]
                               /\ NameOf[i] = NameOf[j]
                               /\ ParentAid(i) = ParentAid(j))

(***************************************************************************)
(* While teams are being migrated, every team still owned by the service   *)
(* names an organization that the gateway knows by that very ansible_id:   *)
(* a merged organization was re-identified upstream before its teams were  *)
(* read.  Otherwise validation would stop the migration of the service.    *)
(***************************************************************************)
TeamsFindTheirOrganization ==
  phase \in {"fetch", "create", "send"} /\ TypeOrder[typ] = "team" =>
    \A i \in Item :
      ServiceOf[i] = svc /\ TypeOf[i] = "team" /\ ParentOf[i] # NoParent =>
        \E r \in gw : r.type = "organization" /\ r.aid = ParentAid(i)

(***************************************************************************)
(* A service the loop declares migrated has no row left but the system     *)
(* user, although the loop only ever sees one page and stops at the first  *)
(* page that is empty after filtering.                                     *)
(***************************************************************************)
DoneMeansMigrated ==
  phase = "done" =>
    \A i \in Item : ServiceOf[i] = svc /\ i \notin SystemUser => Migrated(i)

(***************************************************************************)
(* The refetch loop ends: it declares the service migrated or failed, or   *)
(* is killed, although it keeps asking the same filter and the service may *)
(* refuse any item any number of times.                                    *)
(***************************************************************************)
Terminates == (phase = "fetch") ~> (phase \in {"idle", "done", "failed"})
=============================================================================
