------------------------ MODULE MCMigrateServiceData ------------------------
(***************************************************************************)
(* A controller and a hub that share the organization "default"; the hub   *)
(* also has a user and the system user.  The gateway starts empty or with  *)
(* that organization.                                                      *)
(***************************************************************************)
EXTENDS MigrateServiceData

MCService == {"controller", "hub"}
MCServiceOrder == <<"controller", "hub">>
MCItem == {"orgC", "orgH", "userH", "sysH"}
MCServiceOf == [i \in MCItem |-> IF i = "orgC" THEN "controller" ELSE "hub"]
MCTypeOf == [i \in MCItem |->
  IF i \in {"orgC", "orgH"} THEN "organization" ELSE "user"]
MCNameOf == [i \in MCItem |->
  CASE i \in {"orgC", "orgH"} -> "default"
    [] i = "userH"            -> "ann"
    [] i = "sysH"             -> "_system"]
MCParentOf == [i \in MCItem |-> "none"]
MCName == {"default", "ann", "_system"}
MCAnsibleId == MCItem \cup {"gw1"}
MCInitialAid == [i \in MCItem |-> i]
MCInitialGateways ==
  { {},
    {[aid |-> "gw1", sid |-> "gateway", type |-> "organization",
      name |-> "default", parent |-> "none"]} }
=============================================================================
