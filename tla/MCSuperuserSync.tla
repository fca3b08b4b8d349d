-------------------------- MODULE MCSuperuserSync --------------------------
(* SuperuserSync for the model checker.  Users are interchangeable.         *)
EXTENDS SuperuserSync, TLC

Permuted == Permutations(Users)
============================================================================
