-------------------------- MODULE MigrateServiceData --------------------------
(***************************************************************************)
(* Command.handle of migrate_service_data around ResourceMigration, and    *)
(* the gate it opens: services may authenticate to the gateway with their  *)
(* tokens only after the command has recorded that it completed.           *)
(*                                                                         *)
(* The record is a database flag.  Every gateway worker process keeps its  *)
(* own copy of the flag for five seconds; the command runs in a process of *)
(* its own and cannot clear the copies of the workers.                     *)
(*                                                                         *)
(* migrate_role_assignments (module RoleAssignments), the merge of         *)
(* partially migrated users and the superuser check appear here as single  *)
(* steps that succeed or raise.                                            *)
(***************************************************************************)
EXTENDS ResourceMigration

CONSTANTS
  ServiceOrder,   \* services of the known types, in SERVICE_TYPE_ORDER
  Worker          \* gateway web worker processes

ASSUME ServiceOrderAssumption ==
  /\ ServiceOrder \in Seq(Service)
  /\ ServiceOrder # <<>>
  /\ \A s \in Service : \E n \in 1..Len(ServiceOrder) : ServiceOrder[n] = s

VARIABLES
  hpc,         \* where handle() stands; "off" when no command runs
  pos,         \* index in ServiceOrder
  failures,    \* keys of failed_services
  rolesDone,   \* services whose role assignments were migrated (history)
  hasRan,      \* the has_ran column of MigrateServiceDataHasRan
  cached,      \* per worker: has_migration_completed._val, or "unset"
  served       \* workers that let a service token through (history)

handleVars == <<hpc, pos, failures, rolesDone, hasRan>>
gateVars == <<cached, served>>
allVars == <<vars, handleVars, gateVars>>

HandleInit ==
  /\ Init
  /\ hpc = "off" /\ pos = 1 /\ failures = {} /\ rolesDone = {}
  /\ hasRan = FALSE
  /\ cached = [w \in Worker |-> "unset"]
  /\ served = {}

-----------------------------------------------------------------------------
(* The command starts; without --rerun it returns at once when has_ran. *)
Invoke(rerun) ==
  /\ hpc = "off"
  /\ ~hasRan \/ rerun
  /\ hpc' = "prepare"
  /\ UNCHANGED <<vars, gateVars, pos, failures, rolesDone, hasRan>>

(* Everything before the services that can raise: unknown user, no         *)
(* services, legacy authenticators, merging partially migrated users.      *)
PrepareFails ==
  /\ hpc = "prepare"
  /\ hpc' = "off"
  /\ UNCHANGED <<vars, gateVars, pos, failures, rolesDone, hasRan>>

(* Clean-up and user merge succeeded; failed_services starts empty. *)
Prepare ==
  /\ hpc = "prepare"
  /\ hpc' = "service"
  /\ pos' = 1
  /\ failures' = {}
  /\ UNCHANGED <<vars, gateVars, rolesDone, hasRan>>

(* _migrate_single_service: the metadata can be read and the type fits. *)
BeginService ==
  /\ hpc = "service"
  /\ pos <= Len(ServiceOrder)
  /\ StartService(ServiceOrder[pos])
  /\ hpc' = "resources"
  /\ UNCHANGED <<gateVars, pos, failures, rolesDone, hasRan>>

(* It cannot, or the type is unknown or differs from the configured one. *)
ServiceRejected ==
  /\ hpc = "service"
  /\ pos <= Len(ServiceOrder)
  /\ failures' = failures \cup {ServiceOrder[pos]}
  /\ pos' = pos + 1
  /\ UNCHANGED <<vars, gateVars, hpc, rolesDone, hasRan>>

ResourceStep ==
  /\ hpc = "resources"
  /\ Step
  /\ UNCHANGED <<handleVars, gateVars>>

(* migrate_resource raised; the next service is tried all the same. *)
ResourcesFailed ==
  /\ hpc = "resources"
  /\ phase = "failed"
  /\ failures' = failures \cup {ServiceOrder[pos]}
  /\ pos' = pos + 1
  /\ hpc' = "service"
  /\ UNCHANGED <<vars, gateVars, rolesDone, hasRan>>

(* migrate_role_assignments returned: the service was migrated. *)
RolesMigrated ==
  /\ hpc = "resources"
  /\ phase = "done"
  /\ rolesDone' = rolesDone \cup {ServiceOrder[pos]}
  /\ pos' = pos + 1
  /\ hpc' = "service"
  /\ UNCHANGED <<vars, gateVars, failures, hasRan>>

(* It raised. *)
RolesFailed ==
  /\ hpc = "resources"
  /\ phase = "done"
  /\ failures' = failures \cup {ServiceOrder[pos]}
  /\ pos' = pos + 1
  /\ hpc' = "service"
  /\ UNCHANGED <<vars, gateVars, rolesDone, hasRan>>

(* A faulty summary: failures are reported but do not stop the command. *)
ReportSummaryIgnoresFailures ==
  /\ hpc = "service"
  /\ pos > Len(ServiceOrder)
  /\ hpc' = "superusers"
  /\ UNCHANGED <<vars, gateVars, pos, failures, rolesDone, hasRan>>

(* _report_migration_summary: CommandError if any service failed. *)
ReportSummary ==
  /\ hpc = "service"
  /\ pos > Len(ServiceOrder)
  /\ hpc' = IF failures = {} THEN "superusers" ELSE "off"
  /\ UNCHANGED <<vars, gateVars, pos, failures, rolesDone, hasRan>>

(* _ensure_superuser_consistency returns or raises. *)
SuperusersChecked ==
  /\ hpc = "superusers"
  /\ hpc' \in {"mark", "off"}
  /\ UNCHANGED <<vars, gateVars, pos, failures, rolesDone, hasRan>>

(* mark_migration_completed *)
MarkCompleted ==
  /\ hpc = "mark"
  /\ hasRan' = TRUE
  /\ hpc' = "off"
  /\ UNCHANGED <<vars, gateVars, pos, failures, rolesDone>>

(* The command is killed between any two steps. *)
CommandKilled ==
  /\ hpc # "off"
  /\ hpc' = "off"
  /\ Leave("idle")
  /\ UNCHANGED <<gw, up, svc, typ, gateVars, pos, failures, rolesDone, hasRan>>

HandleStep ==
  \/ PrepareFails \/ Prepare \/ BeginService \/ ServiceRejected
  \/ ResourceStep \/ ResourcesFailed \/ RolesMigrated \/ RolesFailed
  \/ ReportSummary \/ SuperusersChecked \/ MarkCompleted

-----------------------------------------------------------------------------
(* A faulty variant that lets tokens pass until the flag has been read. *)
HasMigrationCompletedFailOpen(w) == cached[w] \in {"unset", "true"}

(* What has_migration_completed returns in worker w. *)
HasMigrationCompleted(w) ==
  IF cached[w] = "unset" THEN hasRan ELSE cached[w] = "true"

(* A service presents its token: 423 until the migration has completed. *)
ServiceTokenAuth(w) ==
  /\ cached' = [cached EXCEPT ![w] =
                  IF HasMigrationCompleted(w) THEN "true" ELSE "false"]
  /\ served' = IF HasMigrationCompleted(w) THEN served \cup {w} ELSE served
  /\ UNCHANGED <<vars, handleVars>>

(* A faulty variant that never reads the flag again after a "no". *)
CacheExpiresWhenTrue(w) ==
  /\ cached[w] = "true"
  /\ cached' = [cached EXCEPT ![w] = "unset"]
  /\ UNCHANGED <<vars, handleVars, served>>

(* Five seconds pass in worker w. *)
CacheExpires(w) ==
  /\ cached[w] # "unset"
  /\ cached' = [cached EXCEPT ![w] = "unset"]
  /\ UNCHANGED <<vars, handleVars, served>>

HandleNext ==
  \/ \E rerun \in BOOLEAN : Invoke(rerun)
  \/ HandleStep
  \/ CommandKilled
  \/ \E w \in Worker : ServiceTokenAuth(w) \/ CacheExpires(w)

HandleSpec == HandleInit /\ [][HandleNext]_allVars

(* The command keeps running, time passes, and services keep calling: a    *)
(* token whose request is answered 423 is presented again.                 *)
HandleFairSpec ==
  /\ HandleSpec
  /\ WF_allVars(HandleStep)
  /\ \A w \in Worker : /\ WF_allVars(CacheExpires(w))
                       /\ WF_allVars(ServiceTokenAuth(w))

-----------------------------------------------------------------------------
(* Types of the command's state, of the flag and of the copies the workers *)
(* keep of it (Command.handle, AccessEnabledForUser).                      *)
HandleTypeOK ==
  /\ TypeOK
  /\ hpc \in {"off", "prepare", "service", "resources", "superusers", "mark"}
  /\ pos \in 1..(Len(ServiceOrder) + 1)
  /\ failures \subseteq Service
  /\ rolesDone \subseteq Service
  /\ hasRan \in BOOLEAN
  /\ cached \in [Worker -> {"unset", "true", "false"}]
  /\ served \subseteq Worker

(* Nothing is left to migrate in service s. *)
Settled(s) ==
  /\ \A i \in Item : ServiceOf[i] = s /\ i \notin SystemUser => Migrated(i)
  /\ s \in rolesDone

(***************************************************************************)
(* The completion flag tells the truth: once set, every service's          *)
(* resources but the system user are the gateway's and its role            *)
(* assignments were migrated, after any number of failed, killed and       *)
(* repeated commands, each of which skips what it believes was done.       *)
(***************************************************************************)
FlagMeansComplete == hasRan => \A s \in Service : Settled(s)

(***************************************************************************)
(* Service authentication is blocked until the migration has completed: a  *)
(* worker that let a token through did so when all services were settled,  *)
(* although it decides from a copy of the flag.                            *)
(***************************************************************************)
NoServiceBeforeCompletion == served # {} => \A s \in Service : Settled(s)

(***************************************************************************)
(* Once the flag is set, every worker starts to accept service tokens: a   *)
(* negative answer is kept for a while, not for good.                      *)
(***************************************************************************)
GateOpens == \A w \in Worker : hasRan ~> (w \in served)
=============================================================================
