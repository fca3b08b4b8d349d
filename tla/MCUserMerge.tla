---------------------------- MODULE MCUserMerge ----------------------------
(* UserMerge for the model checker: three services, one account in the      *)
(* controller and the hub and two in EDA, and three ways they may be named. *)
EXTENDS UserMerge

CONSTANTS c1, h1, e1, e2

MCServiceOrder == <<"controller", "hub", "eda">>

MCServicePrefixes == {"galaxy_", "eda_"}

\* bob of the controller, and the bobs of hub and EDA under prefixed names.  EDA
\* also had an eda_bob, whom the gateway has taken over already.
Plain ==
  [username |-> [a \in Accounts |->
                   CASE a = c1 -> <<"bob">>
                     [] a = h1 -> <<"galaxy_", "bob">>
                     [] a = e1 -> <<"eda_", "bob">>
                     [] a = e2 -> <<"eda_", "eda_", "bob">>],
   early |-> {e2}]

\* EDA has a bob and someone who really is called galaxy_bob.
Clash ==
  [username |-> [a \in Accounts |->
                   CASE a = c1 -> <<"bob">>
                     [] a = h1 -> <<"hugo">>
                     [] a = e1 -> <<"eda_", "bob">>
                     [] a = e2 -> <<"galaxy_", "bob">>],
   early |-> {}]

\* The same, and there is no bob in the controller who would come first.
ClashWithMain ==
  [username |-> [a \in Accounts |->
                   CASE a = c1 -> <<"carl">>
                     [] a = h1 -> <<"hugo">>
                     [] a = e1 -> <<"bob">>
                     [] a = e2 -> <<"galaxy_", "bob">>],
   early |-> {}]

MCHistories == {Plain, Clash, ClashWithMain}

MCHome ==
  [a \in Accounts |-> CASE a = c1 -> "controller" [] a = h1 -> "hub" [] a \in {e1, e2} -> "eda"]

MCOriginals == [a \in Accounts |-> {MCHome[a]}]
============================================================================
