-------------------------- MODULE MCResourceClient --------------------------
(***************************************************************************)
(* Two processes, one service, a resource and two assignments the gateway  *)
(* owns, each there or not at the start, and one assignment the service    *)
(* owns; three changes, so that a creation and its update, an update and a *)
(* removal, two updates of a row loaded before, or the two lists of a      *)
(* login may overtake each other.                                          *)
(*                                                                         *)
(* The assignment that the service owns shares no state with the others    *)
(* and no property is about both: it changes while they rest, and rests    *)
(* while they change.                                                      *)
(***************************************************************************)
EXTENDS ResourceClient

MCOwner == [o \in {"job"} |-> "s1"]

ItemsRest ==
  /\ \A i \in Items : ver[i] = 0
  /\ \A p \in Processes : proc[p].pc \in {"loaded", "owned"} => proc[p].item \in Owned
  /\ \A p \in Processes : pool[p] = {} /\ proc[p].pc \notin {"open", "login", "flush"}
OwnedRest ==
  /\ \A o \in Owned : owned[o] = [gateway |-> FALSE, service |-> FALSE] /\ o \notin broken
  /\ \A p \in Processes : proc[p].pc = "loaded" => proc[p].item \in Items
  /\ \A p \in Processes : proc[p].pc # "owned"

MCInit == ClientInit /\ (ItemsRest \/ OwnedRest)
MCNext == ClientNext /\ (ItemsRest' \/ OwnedRest')
MCSpec == MCInit /\ [][MCNext]_vars /\ ClientFairness
=============================================================================
