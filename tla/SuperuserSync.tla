--------------------------- MODULE SuperuserSync ---------------------------
(***************************************************************************)
(* Superuser flags during migrate_service_data.  While users are migrated  *)
(* (_sync_user_superuser_flag) the controller's superusers are promoted in *)
(* the gateway and the gateway's flags are given to hub and EDA; after all *)
(* services are migrated _ensure_superuser_consistency compares once more  *)
(* (_migrate_service_data/superuser_sync.py).                              *)
(*                                                                         *)
(* Of a user only the level is kept: absent, ordinary or superuser.  Users *)
(* of different services with one username are one user.                   *)
(***************************************************************************)
EXTENDS Naturals, FiniteSets

CONSTANTS
  Users,
  Controller,  \* the controller
  HubEda,      \* the hub and EDA services
  MaxRuns,     \* bound: invocations of the command
  MaxChanges   \* bound: changes by administrators

Services == {Controller} \cup HubEda

ASSUME ServicesAssumption == Controller \notin HubEda
ASSUME BoundsAssumption == MaxRuns \in Nat /\ MaxChanges \in Nat

Levels == {"none", "user", "super"}

VARIABLES
  gateway,     \* username -> level in the gateway
  up,          \* service -> username -> level in that service
  ours,        \* service -> the users the gateway owns there
  pc,
  left,        \* services not yet processed in this phase
  at,          \* the service being processed
  page,        \* users of the page at hand
  plan,        \* users of the page -> the level to send, or "keep"
  failedServices,
  snapshot,    \* gateway_superusers
  found,       \* controller_superusers
  unseen,      \* users that the listing has not reached
  trusted,     \* users once superuser of gateway or controller (for the properties only)
  runs, changes

listing == <<snapshot, found, unseen>>
paging == <<page, plan>>
vars == <<gateway, up, ours, pc, left, at, paging, failedServices, listing, trusted, runs, changes>>

Known(s) == {u \in Users : up[s][u] # "none"}

Superusers == {u \in Users : gateway[u] = "super"}

\* What earlier runs and earlier releases handed over is known to the gateway.
Init ==
  /\ gateway \in [Users -> Levels]
  /\ up \in [Services -> [Users -> Levels]]
  /\ ours \in [Services -> SUBSET Users]
  /\ \A s \in Services : ours[s] \subseteq {u \in Known(s) : gateway[u] # "none"}
  /\ pc = "idle"
  /\ left = {} /\ at = Controller /\ page = {} /\ plan = <<>>
  /\ failedServices = FALSE /\ snapshot = {} /\ found = {} /\ unseen = {}
  /\ trusted = Superusers \cup {u \in Users : up[Controller][u] = "super"}
  /\ runs = 0 /\ changes = 0

Start ==
  /\ pc = "idle" /\ runs < MaxRuns
  /\ runs' = runs + 1
  /\ left' = HubEda /\ at' = Controller
  /\ failedServices' = FALSE
  /\ pc' = "users"
  /\ UNCHANGED <<gateway, up, ours, paging, listing, trusted, changes>>

----------------------------------------------------------------------------
(* The user pages of one service.                                          *)

\* _sync_controller_superuser: a controller superuser is promoted at once.
Promoted(p) ==
  [u \in Users |->
     IF at = Controller /\ u \in p /\ up[at][u] = "super" /\ gateway[u] = "user"
     THEN "super" ELSE gateway[u]]

\* _reconcile_existing_resource sends the gateway's data of a user it knows; of a
\* new user only the owner changes upstream.
SyncFlags ==
  /\ pc = "users"
  /\ \E p \in SUBSET (Known(at) \ ours[at]) \ {{}} :
       /\ page' = p
       /\ gateway' = Promoted(p)
       /\ plan' = [u \in p |-> IF gateway[u] = "none" THEN "keep" ELSE gateway'[u]]
  /\ pc' = "create"
  /\ UNCHANGED <<up, ours, left, at, failedServices, listing, trusted, runs, changes>>

\* Mutant: the flag of the service is taken as it is.
NewLevelAsIs(u) == up[at][u]

\* A new user gets the flag that _sync_user_superuser_flag wrote into the data:
\* the controller's own, and none for hub and EDA.
NewLevel(u) == IF at = Controller THEN up[at][u] ELSE "user"

CreateUsers ==
  /\ pc = "create"
  /\ gateway' = [u \in Users |-> IF u \in page /\ plan[u] = "keep" THEN NewLevel(u) ELSE gateway[u]]
  /\ pc' = "send"
  /\ UNCHANGED <<up, ours, left, at, paging, failedServices, listing, trusted, runs, changes>>

\* The items of the bulk update that the service accepts.
SendPage ==
  /\ pc = "send"
  /\ \E accepted \in SUBSET page :
       /\ up' = [up EXCEPT ![at] = [u \in Users |->
                   IF u \in accepted /\ plan[u] # "keep" THEN plan[u] ELSE @[u]]]
       /\ ours' = [ours EXCEPT ![at] = @ \cup accepted]
       /\ trusted' = trusted \cup {u \in Users : up'[Controller][u] = "super"}
  /\ pc' = "users"
  /\ page' = {} /\ plan' = <<>>
  /\ UNCHANGED <<gateway, left, at, failedServices, listing, runs, changes>>

NextService ==
  IF left = {}
  THEN /\ pc' = IF failedServices' THEN "failed" ELSE "snapshot"
       /\ UNCHANGED <<left, at>>
  ELSE /\ at' \in left
       /\ left' = left \ {at'}
       /\ pc' = "users"

ServiceDone ==
  /\ pc = "users" /\ Known(at) \subseteq ours[at]
  /\ UNCHANGED failedServices
  /\ NextService
  /\ UNCHANGED <<gateway, up, ours, paging, listing, trusted, runs, changes>>

\* Refused items, failed requests and failed transactions: the other services are
\* still migrated, then the command fails.
ServiceFails ==
  /\ pc \in {"users", "create", "send"}
  /\ failedServices' = TRUE
  /\ NextService
  /\ page' = {} /\ plan' = <<>>
  /\ UNCHANGED <<gateway, up, ours, listing, trusted, runs, changes>>

----------------------------------------------------------------------------
(* _ensure_superuser_consistency.                                          *)

TakeSnapshot ==
  /\ pc = "snapshot"
  /\ snapshot' = Superusers
  /\ found' = {}
  /\ unseen' = Users
  /\ pc' = "collect"
  /\ UNCHANGED <<gateway, up, ours, left, at, paging, failedServices, trusted, runs, changes>>

\* One page of _collect_controller_superusers.
CollectPage ==
  /\ pc = "collect"
  /\ \E p \in SUBSET unseen \ {{}} :
       /\ found' = found \cup {u \in p : up[Controller][u] = "super"}
       /\ unseen' = unseen \ p
  /\ UNCHANGED <<gateway, up, ours, pc, left, at, paging, failedServices, snapshot, trusted,
                 runs, changes>>

\* Mutant: nobody is promoted.
PromoteMissingLater ==
  /\ pc = "collect" /\ unseen = {}
  /\ left' = HubEda /\ pc' = "demote"
  /\ UNCHANGED <<gateway, up, ours, at, paging, failedServices, listing, trusted, runs, changes>>

\* Controller superusers that were none in the gateway.  Missing ones are an error,
\* after the others have been promoted.
PromoteMissing ==
  /\ pc = "collect" /\ unseen = {}
  /\ gateway' = [u \in Users |-> IF u \in found \ snapshot /\ gateway[u] # "none"
                                 THEN "super" ELSE gateway[u]]
  /\ IF \E u \in found \ snapshot : gateway[u] = "none"
     THEN pc' = "failed" /\ UNCHANGED left
     ELSE pc' = "demote" /\ left' = HubEda
  /\ UNCHANGED <<up, ours, at, paging, failedServices, listing, trusted, runs, changes>>

Extra(p) == {u \in p : up[at][u] = "super" /\ u \notin snapshot}

\* One page of _demote_extra_superusers.
DemotePage ==
  /\ pc = "demote" /\ page = {}
  /\ \E p \in SUBSET unseen \ {{}} :
       /\ page' = Extra(p)
       /\ unseen' = unseen \ p
  /\ UNCHANGED <<gateway, up, ours, pc, left, at, plan, failedServices, snapshot, found,
                 trusted, runs, changes>>

DemoteUser ==
  /\ pc = "demote"
  /\ \E u \in page :
       /\ up' = [up EXCEPT ![at][u] = IF @ = "none" THEN "none" ELSE "user"]
       /\ page' = page \ {u}
  /\ UNCHANGED <<gateway, ours, pc, left, at, plan, failedServices, listing, trusted, runs, changes>>

\* The next service, or the end.
DemoteDone ==
  /\ pc = "demote" /\ page = {} /\ unseen = {}
  /\ IF left = {}
     THEN pc' = "done" /\ UNCHANGED <<left, at, unseen>>
     ELSE /\ at' \in left
          /\ left' = left \ {at'}
          /\ unseen' = ours[at']
          /\ UNCHANGED pc
  /\ UNCHANGED <<gateway, up, ours, paging, failedServices, snapshot, found, trusted, runs, changes>>

\* A request of the second phase fails, or the command is killed.
CommandFails ==
  /\ pc \notin {"idle", "done", "failed"}
  /\ pc' = "failed"
  /\ page' = {} /\ plan' = <<>>
  /\ UNCHANGED <<gateway, up, ours, left, at, failedServices, listing, trusted, runs, changes>>

Again ==
  /\ pc \in {"done", "failed"} /\ runs < MaxRuns
  /\ pc' = "idle"
  /\ UNCHANGED <<gateway, up, ours, left, at, paging, failedServices, listing, trusted, runs, changes>>

----------------------------------------------------------------------------
(* Administrators of the gateway and of the services, at any time.         *)

GatewayAdmin ==
  /\ changes < MaxChanges
  /\ changes' = changes + 1
  /\ \E u \in Users, l \in {"user", "super"} :
       gateway[u] # l /\ gateway' = [gateway EXCEPT ![u] = l]
  /\ trusted' = trusted \cup {u \in Users : gateway'[u] = "super"}
  /\ UNCHANGED <<up, ours, pc, left, at, paging, failedServices, listing, runs>>

ServiceAdmin ==
  /\ changes < MaxChanges
  /\ changes' = changes + 1
  /\ \E s \in Services, u \in Users, l \in {"user", "super"} :
       up[s][u] # l /\ up' = [up EXCEPT ![s][u] = l]
  /\ trusted' = trusted \cup {u \in Users : up'[Controller][u] = "super"}
  /\ UNCHANGED <<gateway, ours, pc, left, at, paging, failedServices, listing, runs>>

Command ==
  \/ Start \/ SyncFlags \/ CreateUsers \/ SendPage \/ ServiceDone
  \/ TakeSnapshot \/ CollectPage \/ PromoteMissing
  \/ DemotePage \/ DemoteUser \/ DemoteDone

Next == Command \/ ServiceFails \/ CommandFails \/ Again \/ GatewayAdmin \/ ServiceAdmin

Spec == Init /\ [][Next]_vars

----------------------------------------------------------------------------
(* Properties.                                                             *)

\* Types; a user that the gateway owns in a service is one it has.
TypeOK ==
  /\ gateway \in [Users -> Levels]
  /\ up \in [Services -> [Users -> Levels]]
  /\ ours \in [Services -> SUBSET {u \in Users : gateway[u] # "none"}]
  /\ pc \in {"idle", "users", "create", "send", "snapshot", "collect", "demote", "done", "failed"}
  /\ left \subseteq HubEda /\ at \in Services
  /\ pc \in {"create", "send"} => plan \in [page -> {"keep", "user", "super"}]
  /\ page \subseteq Users /\ unseen \subseteq Users
  /\ snapshot \subseteq Users /\ found \subseteq Users /\ trusted \subseteq Users
  /\ failedServices \in BOOLEAN /\ runs \in Nat /\ changes \in Nat

\* Being superuser of the hub or of EDA never makes anybody superuser of the
\* gateway: only the gateway's own superusers and those of the controller are
\* (_sync_hub_eda_superuser), whatever administrators do meanwhile.
NoEscalation == Superusers \subseteq trusted

\* When the command succeeds, and nobody else changed anything, no service has a
\* superuser that the gateway has not (_ensure_superuser_consistency).
NoSuperuserBeyondGateway ==
  pc = "done" /\ changes = 0 =>
    \A s \in Services : {u \in Users : up[s][u] = "super"} \subseteq Superusers
============================================================================
