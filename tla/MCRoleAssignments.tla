-------------------------- MODULE MCRoleAssignments --------------------------
(***************************************************************************)
(* Three user and three team assignments at most: a global one, one that   *)
(* cannot be resolved, two that the gateway already has, and two that      *)
(* are new to an object role which all of them share.  Two of the users'   *)
(* are inserted while the command runs and commit in either order.         *)
(***************************************************************************)
EXTENDS RoleAssignments

MCInitialPk == [t \in AssignmentType |-> IF t = "user" THEN 1 ELSE 3]
MCGlobalRow == {<<"user", 1>>}
MCUnresolvable == {<<"team", 2>>}
MCAlreadyAssigned == {<<"team", 1>>, <<"team", 3>>}
MCObjectRole == {"o1"}
MCObjectRoleOf == [r \in Row |-> "o1"]
=============================================================================
