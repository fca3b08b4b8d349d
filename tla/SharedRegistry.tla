---------------------------- MODULE SharedRegistry ----------------------------
(***************************************************************************)
(* What the gateway promises about the copies of its resources and role    *)
(* assignments in the services: a copy holds nothing that no request ever  *)
(* put forward, and again and again it is brought to the gateway's state.  *)
(* How the changes travel is left open.                                    *)
(***************************************************************************)
CONSTANTS Services, Items

VARIABLES
  source,     \* item -> its state in the gateway
  copies,     \* service -> item -> its state there
  proposed    \* item -> the states that requests have put forward

vars == <<source, copies, proposed>>

Init ==
  /\ proposed = [i \in Items |-> {source[i]}]
  /\ copies = [s \in Services |-> source]

(* Requests put states forward ... *)
Propose ==
  /\ \A i \in Items : proposed[i] \subseteq proposed'[i]
  /\ UNCHANGED copies

(* ... the gateway adopts some of them ... *)
Adopt == \A i \in Items : source'[i] \in proposed'[i]

(* ... and a copy may follow. *)
Follow ==
  /\ \A s \in Services, i \in Items : copies'[s][i] \in {copies[s][i]} \cup proposed[i]
  /\ UNCHANGED <<source, proposed>>

Next == (Propose /\ Adopt) \/ Follow

(* A copy is brought to the gateway's state. *)
Reconcile(s) ==
  /\ copies' = [copies EXCEPT ![s] = source]
  /\ UNCHANGED <<source, proposed>>

Spec == Init /\ [][Next]_vars /\ \A s \in Services : WF_vars(Reconcile(s))
=============================================================================
