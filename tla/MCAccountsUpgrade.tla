-------------------------- MODULE MCAccountsUpgrade --------------------------
(***************************************************************************)
(* The user API and the rehearsal of an upgrade.  They share no state and  *)
(* their properties are about one of them each, so an interleaving of the  *)
(* two shows nothing that their own steps do not: each moves while the     *)
(* other rests in one of its initial states.                               *)
(***************************************************************************)
EXTENDS UserAccounts, MigrationUpgrade

(* Two users, the second of whom may not exist yet; the first has any of   *)
(* the links, in one case the wrong way round.                             *)
Row(i, u, p, uid) == [id |-> i, user |-> u, provider |-> p, uid |-> uid]
Two(a, b) == [u \in {"u1", "u2"} |-> IF u = "u1" THEN a ELSE b]
MCAccounts ==
  {[username |-> Two("a", b.n), rows |-> l \cup b.l, lastFrom |-> Two(f, None)] :
     l \in {{}, {Row(1, "u1", "local", "a")}, {Row(2, "u1", "sso", "b")},
            {Row(1, "u1", "local", "a"), Row(2, "u1", "sso", "b")}, {Row(1, "u1", "local", "b"), Row(2, "u1", "sso", "a")}},
     f \in {"local", "sso"},
     b \in {[n |-> None, l |-> {}], [n |-> "c", l |-> {Row(3, "u2", "local", "c"), Row(4, "u2", "sso", "c")}]}}
NoMap == [p \in {} |-> None]
Only(p, uid) == [x \in {p} |-> uid]
Both(a, b) == [x \in {"local", "sso"} |-> IF x = "local" THEN a ELSE b]
Legacy ==
  [user : {"u1"}, username : {None, "b"}, authenticators : {None, Null} \cup SUBSET {"local", "sso"},
   uid : {None, "", "a", "c", "a,b"}, associated : {None}, partial : BOOLEAN, superuser : {TRUE}]
New ==
  [user : {"u1"}, username : {None, "b"}, authenticators : {None, Null, {}, {"sso"}}, uid : {None, "c"},
   associated : {NoMap, Only("local", "c"), Only("sso", "c"), Both("a", "b")},
   partial : {TRUE}, superuser : {TRUE}]
NotSuper ==
  [user : {"u1"}, username : {None}, authenticators : {None}, uid : {None},
   associated : {NoMap, Only("sso", "c"), Both("a", "b")}, partial : {TRUE}, superuser : {FALSE}]
Other ==
  [user : {"u2"}, username : {None, "b"}, authenticators : {None, {"sso"}}, uid : {None, "b"},
   associated : {None, Both("b", "b")}, partial : {FALSE}, superuser : {TRUE}]
MCRequests == Legacy \cup New \cup NotSuper \cup Other

(* Three stages; the first migration's file may be missing or changed in   *)
(* any of them, the second comes with the second stage.                    *)
Dist(vcs, requested, editable) == [vcs |-> vcs, requested |-> requested, commit |-> "sha1", editable |-> editable]
MCDists == [n \in 1..3 |-> IF n = 1 THEN {Dist("git", "v1", FALSE), Dist(Absent, Absent, TRUE)}
                                   ELSE {Dist("git", "sha1", FALSE), Dist(Absent, Absent, TRUE)}]
MCFile(f, n, m) == IF m = "m1" THEN f[n] ELSE IF n = 1 THEN Absent ELSE "f1"
MCCheckouts ==
  {[n \in 1..3 |-> [files |-> [m \in Migrations |-> MCFile(f, n, m)], dists |-> MCDists[n],
                     local |-> n # 3 \/ f # [i \in 1..3 |-> "f2"]]] :
     f \in [1..3 -> Fingerprints \cup {Absent}]}
Policy(e, m, c, i) == [enforced |-> e, missing |-> m, changed |-> c, immutable |-> i]
MCPolicies ==
  {Policy({"m1"}, m, c, {}) : m, c \in SUBSET {"m1"}} \cup
  {Policy({}, {}, {}, {1, 2}), Policy({}, {}, {}, {2, 3}), Policy({}, {"m1"}, {}, {})}
MCHistories == {{}, {"m1"}}

-----------------------------------------------------------------------------
AccountsRest ==
  /\ username = Two("a", None) /\ rows = {} /\ lastFrom = Two("local", None)
  /\ pending = {} /\ received = 0
UpgradeRest ==
  /\ upc = "start" /\ after = 0 /\ policy = Policy({"m1"}, {}, {}, {})
  /\ dbs[Original].applied = {}
  /\ \A n \in 1..Stages : checkout[n].files["m1"] = "f1"

MCInit == AccountsInit /\ UpgradeInit /\ (AccountsRest \/ UpgradeRest)
MCNext ==
  \/ AccountsNext /\ UpgradeRest /\ UNCHANGED upgradeVars
  \/ UpgradeNext /\ AccountsRest /\ UNCHANGED accountVars
MCSpec == MCInit /\ [][MCNext]_<<accountVars, upgradeVars>>
=============================================================================
