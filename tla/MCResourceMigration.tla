------------------------- MODULE MCResourceMigration -------------------------
(***************************************************************************)
(* Two services that both have an organization "default" with a team "ops" *)
(* in it, and a user "ann".  Service A also has the system user, service B *)
(* enough users for a second page.  The gateway starts empty, with an      *)
(* organization "default" of its own, with A's user already known under    *)
(* A's ansible_id, or with A's organization under another name, so that    *)
(* creating it violates a unique constraint.                               *)
(***************************************************************************)
EXTENDS ResourceMigration

MCService == {"A", "B"}

MCItem == {"orgA", "teamA", "userA", "sysA", "orgB", "teamB", "userB",
           "bobB", "eveB"}

MCServiceOf == [i \in MCItem |->
  IF i \in {"orgA", "teamA", "userA", "sysA"} THEN "A" ELSE "B"]

MCTypeOf == [i \in MCItem |->
  CASE i \in {"orgA", "orgB"}   -> "organization"
    [] i \in {"teamA", "teamB"} -> "team"
    [] OTHER                    -> "user"]

MCNameOf == [i \in MCItem |->
  CASE i \in {"orgA", "orgB"}   -> "default"
    [] i \in {"teamA", "teamB"} -> "ops"
    [] i \in {"userA", "userB"} -> "ann"
    [] i = "bobB"               -> "bob"
    [] i = "eveB"               -> "eve"
    [] i = "sysA"               -> "_system"]

MCParentOf == [i \in MCItem |->
  CASE i = "teamA" -> "orgA"
    [] i = "teamB" -> "orgB"
    [] OTHER       -> "none"]

MCName == {"default", "ops", "ann", "bob", "eve", "_system", "renamed"}

MCAnsibleId == MCItem \cup {"gw1"}

MCInitialAid == [i \in MCItem |-> i]

Row(a, t, n) ==
  [aid |-> a, sid |-> "gateway", type |-> t, name |-> n, parent |-> "none"]

MCInitialGateways ==
  { {},
    {Row("gw1", "organization", "default")},
    {Row("userA", "user", "ann")},
    {Row("orgA", "organization", "renamed")} }
=============================================================================
