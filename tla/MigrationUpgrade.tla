--------------------------- MODULE MigrationUpgrade ---------------------------
(***************************************************************************)
(* The rehearsal of an upgrade (tools/scripts/migration_upgrade.py with    *)
(* its helpers ci/migration_inventory.py, ci/migration_snapshot_fixture.py)*)
(* It migrates one database through a sequence of checkouts and, after a   *)
(* chosen stage, dumps the database, restores it under a temporary name    *)
(* and carries on with the copy.                                           *)
(*                                                                         *)
(* Every command may fail, or time out after it had its effect or a part   *)
(* of it.  Commands that change nothing the checks look at are one step.   *)
(***************************************************************************)
EXTENDS Naturals, Sequences, FiniteSets

CONSTANTS
  Stages,        \* number of checkouts
  Migrations,
  Fingerprints,
  Absent,        \* stands for a file, a fixture or a state that is not there
  Late,          \* stands for a database that the server goes on creating when createdb
                 \* was killed
  Checkouts,     \* sequences of [files, dists, local]: the files of the migrations, the
                 \* distributions installed, and whether the settings name a local database
  Policies,      \* records [enforced, missing, changed, immutable]
  Histories      \* migrations that may be recorded in the database before

ASSUME UpgradeAssumption ==
  /\ Stages \in Nat \ {0} /\ Absent \notin Fingerprints /\ Late # Absent
  /\ \A c \in Checkouts : DOMAIN c = 1..Stages
       /\ \A n \in 1..Stages : c[n].files \in [Migrations -> Fingerprints \cup {Absent}]
                               /\ c[n].local \in BOOLEAN
  /\ \A p \in Policies : p.missing \cup p.changed \cup p.enforced \subseteq Migrations
  /\ Histories \subseteq SUBSET Migrations

VARIABLES
  checkout, policy,
  after,        \* snapshot_round_trip_after, 0 if it is not asked for
  stage,        \* number of the current stage
  upc,          \* the step of run() or of the stage
  results,      \* status of the stages begun
  inventories,
  dbs,          \* name -> contents of the database, or Absent
  env,          \* base_env["DATABASE_NAME"]
  named,        \* snapshot_database_name is set
  source,       \* source_state of the round trip
  dump,         \* the dump file, or Absent
  expected,     \* expected_fixture_snapshot
  warning,      \* snapshot_cleanup_warning
  summary,      \* summary.md, or Absent
  outcome

input == <<checkout, policy, after>>
files == <<dump, summary>>
upgradeVars == <<input, stage, upc, results, inventories, dbs, env, named,
                 source, dump, expected, warning, summary, outcome>>

Original == "original"
Snapshot == "snapshot"
Contents == [applied : SUBSET Migrations, fixture : {Absent, "seeded", "altered"}]

UpgradeInit ==
  /\ checkout \in Checkouts /\ policy \in Policies /\ after \in 0..Stages
  /\ \E old \in Histories :
       dbs = [d \in {Original, Snapshot} |->
                IF d = Original THEN [applied |-> old, fixture |-> Absent] ELSE Absent]
  /\ stage = 1 /\ upc = "start" /\ results = <<>> /\ inventories = <<>>
  /\ env = Original /\ named = FALSE /\ source = Absent /\ expected = Absent
  /\ dump = Absent /\ warning = FALSE /\ summary = Absent
  /\ outcome = "running"

-----------------------------------------------------------------------------
(* MigrationUpgradeError in a stage: it is marked and cleaning up begins. *)
FailStage ==
  /\ upc' = "cleanup" /\ outcome' = "failing"
  /\ results' = [results EXCEPT ![stage] = "failed"]

Continue(pc) == upc' = pc /\ UNCHANGED <<results, outcome>>

(* load_policy: an exception for an app that is not enforced is an error. *)
PolicyValid == policy.missing \cup policy.changed \subseteq policy.enforced

(* run() checks its arguments: a round trip needs a later stage and an     *)
(* environment that it is meant for, the helpers have to be copied.        *)
StartRun ==
  /\ upc = "start"
  /\ \/ after # Stages /\ PolicyValid /\ upc' = "sha" /\ UNCHANGED outcome
     \/ upc' = "end" /\ outcome' = "failed"
  /\ UNCHANGED <<input, stage, results, inventories, dbs, env, named, source, expected, warning, files>>

(* _stage_sha *)
BeginStage ==
  /\ upc = "sha"
  /\ \/ /\ results' = Append(results, "pending") /\ upc' = "install" /\ UNCHANGED outcome
     \/ /\ results' = Append(results, "failed") /\ upc' = "cleanup" /\ outcome' = "failing"
  /\ UNCHANGED <<input, stage, inventories, dbs, env, named, source, expected, warning, files>>

(* validate_effective_database *)
ConnectionValid == checkout[stage].local

(* The virtual environment, with helpers for a checkout that has none; the *)
(* database of the stage must be a local one if a round trip is asked for. *)
Install ==
  /\ upc = "install"
  /\ \/ (after # 0 => ConnectionValid) /\ Continue("migrate")
     \/ FailStage
  /\ UNCHANGED <<input, stage, inventories, dbs, env, named, source, expected, warning, files>>

(* _stage_env: every command of a stage, and the database tools, go to the *)
(* database named in DATABASE_NAME.                                        *)
StageDb == dbs[env]

Files == {m \in Migrations : checkout[stage].files[m] # Absent}

(* The contents a migrate command may leave behind; a migration may touch  *)
(* the fixture's rows.                                                     *)
MigratedTo(done) ==
  {[applied |-> StageDb.applied \cup done, fixture |-> f] :
     f \in {StageDb.fixture} \cup (IF StageDb.fixture = Absent \/ done \subseteq StageDb.applied
                                     THEN {} ELSE {"altered"})}

Migrate ==
  /\ upc = "migrate"
  /\ \/ /\ \E c \in MigratedTo(Files) : dbs' = [dbs EXCEPT ![env] = c]
        /\ Continue("inventory")
     \/ /\ \E done \in SUBSET Files : \E c \in MigratedTo(done) : dbs' = [dbs EXCEPT ![env] = c]
        /\ FailStage
  /\ UNCHANGED <<input, stage, inventories, env, named, source, expected, warning, files>>

(* _vcs_dependencies: distributions that come from version control. *)
VcsDependencies == {d \in checkout[stage].dists : d.vcs # Absent}

(* build_inventory *)
Inventory == [stage |-> stage, available |-> checkout[stage].files,
              applied |-> StageDb.applied, deps |-> VcsDependencies]

(* validate_inventory: whatever the collector got wrong is Absent here. *)
InventoryValid(inv) == inv # Absent /\ inv.stage = stage

(* validate_vcs_provenance: dependencies that may be others tomorrow. *)
Unsafe(dep) == dep.editable \/ dep.vcs # "git" \/ dep.requested # dep.commit

ProvenanceViolations(inv) == IF inv.stage \in policy.immutable THEN {d \in inv.deps : Unsafe(d)} ELSE {}

(* A faulty variant that compares with the stage before. *)
FirstFingerprintPrevious(invs, m) ==
  invs[IF Len(invs) = 1 THEN 1 ELSE Len(invs) - 1].available[m]

(* The fingerprint in the first inventory that lists m as applied. *)
FirstFingerprint(invs, m) ==
  LET n == CHOOSE i \in DOMAIN invs :
             m \in invs[i].applied /\ \A j \in 1..(i - 1) : m \notin invs[j].applied
  IN invs[n].available[m]

(* _inventory_events, for the last of the inventories. *)
PolicyViolations(invs) ==
  LET now == invs[Len(invs)].available IN
  {m \in policy.enforced :
     /\ \E i \in DOMAIN invs : m \in invs[i].applied
     /\ \/ now[m] = Absent /\ m \notin policy.missing
        \/ /\ now[m] # Absent /\ FirstFingerprint(invs, m) # Absent
           /\ now[m] # FirstFingerprint(invs, m) /\ m \notin policy.changed}

NextInStage ==
  IF stage = after THEN "seed" ELSE IF expected # Absent THEN "verify" ELSE "summary"

(* migrate --check, a second migrate, the inventory, the two policies. *)
CheckInventory ==
  /\ upc = "inventory"
  /\ \/ \E inv \in {Inventory, Absent} :
          IF InventoryValid(inv)
            THEN /\ inventories' = Append(inventories, inv)
                 /\ IF ProvenanceViolations(inv) = {} /\ PolicyViolations(inventories') = {}
                      THEN Continue(NextInStage) ELSE FailStage
            ELSE FailStage /\ UNCHANGED inventories
     \/ FailStage /\ UNCHANGED inventories
  /\ UNCHANGED <<input, stage, dbs, env, named, source, expected, warning, files>>

-----------------------------------------------------------------------------
(* _run_snapshot_round_trip.  An error leads to its finally block. *)
RoundTripFails == upc' = "unlink-failed" /\ UNCHANGED <<results, outcome>>

(* seed_snapshot_fixture: the organization and its team are created or     *)
(* repaired.                                                               *)
Seeded == [dbs EXCEPT ![env].fixture = "seeded"]

(* _snapshot: there must be exactly one of each. *)
Identity(c) == c.fixture

(* database_state_snapshot *)
State(c) == [applied |-> c.applied, fixture |-> Identity(c)]

(* _read_state_snapshot *)
StateValid(st) == st.fixture # Absent

(* A faulty variant that does not remember the name. *)
SeedUnnamed ==
  /\ upc = "seed"
  /\ \/ dbs' = Seeded /\ Continue("capture")
     \/ dbs' \in {dbs, Seeded} /\ RoundTripFails
  /\ UNCHANGED <<input, stage, inventories, env, named, source, expected, warning, files>>

(* A valid name is made and remembered; then the fixture is seeded. *)
Seed ==
  /\ upc = "seed"
  /\ \/ /\ named' = TRUE
        /\ \/ dbs' = Seeded /\ Continue("capture")
           \/ dbs' \in {dbs, Seeded} /\ RoundTripFails
     \/ FailStage /\ UNCHANGED <<dbs, named>>
  /\ UNCHANGED <<input, stage, inventories, env, source, expected, warning, files>>

(* The state is captured and dumped; a dump that fails may leave a file. *)
Dump ==
  /\ upc = "capture"
  /\ source' = State(StageDb)
  /\ \/ StateValid(source') /\ dump' = StageDb /\ Continue("createdb")
     \/ dump' \in {Absent, StageDb} /\ RoundTripFails
  /\ UNCHANGED <<input, stage, inventories, dbs, env, named, expected, warning, summary>>

CreateDb ==
  /\ upc = "createdb"
  /\ LET new == [dbs EXCEPT ![Snapshot] = [applied |-> {}, fixture |-> Absent]] IN
     \/ dbs' = new /\ Continue("restore")
     \/ dbs' \in {dbs, new, [dbs EXCEPT ![Snapshot] = Late]} /\ RoundTripFails
  /\ UNCHANGED <<input, stage, inventories, env, named, source, expected, warning, files>>

(* The dump is restored, or something of it. *)
Restore ==
  /\ upc = "restore"
  /\ \E c \in Contents :
       /\ c.applied \subseteq dump.applied /\ c.fixture \in {Absent, "altered", dump.fixture}
       /\ dbs' = [dbs EXCEPT ![Snapshot] = c]
  /\ Continue("compare") \/ RoundTripFails
  /\ UNCHANGED <<input, stage, inventories, env, named, source, expected, warning, files>>

(* The copy is captured and compared with the source. *)
Compare ==
  /\ upc = "compare"
  /\ \/ /\ StateValid(State(dbs[Snapshot])) /\ State(dbs[Snapshot]) = source
        /\ Continue("unlink")
     \/ RoundTripFails
  /\ UNCHANGED <<input, stage, inventories, dbs, env, named, source, expected, warning, files>>

(* The dump is removed in any case; only then do the stages move on to the *)
(* copy.                                                                   *)
FinishRoundTrip ==
  /\ upc \in {"unlink", "unlink-failed"}
  /\ \/ /\ dump' = Absent /\ UNCHANGED warning
        /\ IF upc = "unlink" THEN /\ expected' = source.fixture /\ env' = Snapshot
                                  /\ Continue("summary")
                             ELSE FailStage /\ UNCHANGED <<expected, env>>
     \/ dump # Absent /\ warning' = TRUE /\ FailStage /\ UNCHANGED <<dump, expected, env>>
  /\ UNCHANGED <<input, stage, inventories, dbs, named, source, summary>>

(* _verify_fixture_after_stage *)
VerifyFixture ==
  /\ upc = "verify"
  /\ \/ Identity(StageDb) = expected /\ Continue("summary")
     \/ FailStage
  /\ UNCHANGED <<input, stage, inventories, dbs, env, named, source, expected, warning, files>>

-----------------------------------------------------------------------------
(* _write_summary *)
Summary(rs) == [results |-> rs, warning |-> warning]

(* The stage has passed, if that can be written down; a write that fails   *)
(* may leave a file that cannot be used.                                   *)
PassStage ==
  /\ upc = "summary"
  /\ LET passed == [results EXCEPT ![stage] = "passed"] IN
     \/ /\ results' = passed /\ summary' = Summary(passed)
        /\ IF stage = Stages THEN upc' = "cleanup" /\ outcome' = "passing" /\ UNCHANGED stage
                             ELSE upc' = "sha" /\ stage' = stage + 1 /\ UNCHANGED outcome
     \/ FailStage /\ summary' \in {summary, Absent} /\ UNCHANGED stage
  /\ UNCHANGED <<input, inventories, dbs, env, named, source, expected, warning, dump>>

(* _cleanup_snapshot_database: dropdb --if-exists, and a warning if that   *)
(* fails.  A database that is still being created does not exist yet.      *)
Cleanup ==
  /\ upc = "cleanup"
  /\ IF ~named THEN UNCHANGED <<dbs, warning>>
     ELSE LET dropped == [dbs EXCEPT ![Snapshot] = Absent] IN
          \/ dbs' = dropped /\ UNCHANGED warning
          \/ dbs[Snapshot] = Late /\ UNCHANGED <<dbs, warning>>
          \/ dbs' \in {dbs, dropped} /\ warning' = TRUE
  /\ named' = FALSE
  /\ upc' = "final"
  /\ UNCHANGED <<input, stage, results, inventories, env, source, expected, files, outcome>>

(* The last summary: an error of its own only if there was none before. *)
FinishRun ==
  /\ upc = "final"
  /\ \/ /\ summary' = Summary(results)
        /\ outcome' = IF outcome = "passing" THEN "passed" ELSE "failed"
     \/ summary' \in {summary, Absent} /\ outcome' = "failed"
  /\ upc' = "end"
  /\ UNCHANGED <<input, stage, results, inventories, dbs, env, named, source, expected, warning, dump>>

(* The runner is killed, or an OSError of the log file, which is handled   *)
(* nowhere but in the round trip, ends it.                                 *)
RunnerDies ==
  /\ upc \notin {"start", "end"}
  /\ upc' = "end" /\ outcome' = "died"
  /\ UNCHANGED <<input, stage, results, inventories, dbs, env, named, source, expected, warning, files>>

UpgradeNext ==
  \/ StartRun \/ BeginStage \/ Install \/ Migrate \/ CheckInventory
  \/ Seed \/ Dump \/ CreateDb \/ Restore \/ Compare \/ FinishRoundTrip \/ VerifyFixture
  \/ PassStage \/ Cleanup \/ FinishRun \/ RunnerDies

UpgradeSpec == UpgradeInit /\ [][UpgradeNext]_upgradeVars

-----------------------------------------------------------------------------
InStage == {"install", "migrate", "inventory", "seed", "capture", "createdb", "restore",
            "compare", "unlink", "unlink-failed", "verify", "summary"}

(* Types; a database is dropped only where it is a copy. *)
UpgradeTypeOK ==
  /\ checkout \in Checkouts /\ policy \in Policies /\ after \in 0..Stages /\ stage \in 1..Stages
  /\ upc \in InStage \cup {"start", "sha", "cleanup", "final", "end"}
  /\ results \in Seq({"pending", "failed", "passed"})
  /\ dbs \in [{Original, Snapshot} -> Contents \cup {Absent, Late}] /\ dbs[Original] \in Contents
  /\ env \in {Original, Snapshot} /\ named \in BOOLEAN /\ warning \in BOOLEAN
  /\ dump \in Contents \cup {Absent}
  /\ outcome \in {"running", "failing", "passing", "passed", "failed", "died"}

(***************************************************************************)
(* A run that ends by itself leaves neither the temporary database nor the *)
(* dump behind without a warning, wherever it failed and although commands *)
(* that failed may have had their effect, unless the server has created    *)
(* the database only after it was dropped (_cleanup_snapshot_database).    *)
(***************************************************************************)
NothingLeftBehind ==
  outcome \in {"passed", "failed"} => (dbs[Snapshot] \in {Absent, Late} /\ dump = Absent) \/ warning

(***************************************************************************)
(* When a run passes, no migration of an enforced app that was applied in  *)
(* some stage is missing from a later one, or different there, unless the  *)
(* policy allows it; a different one also escapes if it was missing, as    *)
(* allowed, in the first stage that found it applied (_inventory_events).  *)
(***************************************************************************)
NoSilentChange ==
  outcome = "passed" =>
    \A i, j \in 1..Stages : \A m \in policy.enforced :
      i <= j /\ m \in inventories[i].applied =>
        LET was == checkout[i].files[m]
            is  == checkout[j].files[m]
        IN \/ is = Absent /\ m \in policy.missing
           \/ is # Absent /\ (was = is \/ was = Absent)
           \/ is # Absent /\ m \in policy.changed
           \/ is # Absent /\ m \in inventories[1].applied /\ checkout[1].files[m] = Absent

(***************************************************************************)
(* When a run with a round trip passes, the copy that the later stages     *)
(* migrated was the original as the chosen stage left it, and the seeded   *)
(* fixture has come through all of them (_run_snapshot_round_trip,         *)
(* _verify_fixture_after_stage).                                           *)
(***************************************************************************)
RehearsalFaithful ==
  upc = "cleanup" /\ outcome = "passing" /\ after # 0 =>
    /\ State(dbs[Original]) = source /\ source.fixture = "seeded"
    /\ source.applied = inventories[after].applied
    /\ \A n \in after..Stages : source.applied \subseteq inventories[n].applied
    /\ Identity(dbs[Snapshot]) = source.fixture

(***************************************************************************)
(* When a run passes, no stage that the policy holds to it has depended on *)
(* sources that may be others tomorrow (validate_vcs_provenance).          *)
(***************************************************************************)
SourcesPinned ==
  outcome = "passed" =>
    \A n \in policy.immutable \cap (1..Stages) : \A d \in checkout[n].dists : d.vcs # Absent => ~Unsafe(d)

(***************************************************************************)
(* The summary and the exit status agree: a stage that failed is reported  *)
(* as failed by the last summary, and a run passes only if all have.       *)
(***************************************************************************)
SummaryAgrees ==
  /\ outcome = "passed" => /\ summary.results = [n \in 1..Stages |-> "passed"]
                           /\ summary.warning = warning
  /\ summary # Absent => \A n \in DOMAIN summary.results :
       summary.results[n] = "passed" => results[n] = "passed"

(***************************************************************************)
(* A rehearsal that passes has shown what it is for: the migrations are    *)
(* those of the earlier releases, data came through the round trip and all *)
(* stages, the sources were pinned where they have to be, and the summary  *)
(* says so (MigrationUpgradeRunner.run).                                   *)
(***************************************************************************)
PassIsEarned == NoSilentChange /\ RehearsalFaithful /\ SourcesPinned /\ SummaryAgrees
=============================================================================
