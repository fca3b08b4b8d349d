----------------------------- MODULE MCExtAuthz -----------------------------
(***************************************************************************)
(* An instance of ExtAuthz for TLC.                                        *)
(***************************************************************************)
EXTENDS ExtAuthz, TLC

\* A user at a service and at an internal path of the gateway, and a service at an
\* internal route.
MCRequests ==
  {r \in AllRequests :
     /\ ~r.oidc_path /\ ~r.auth_none /\ ~r.reject_basic
     /\ \/ r.credential = "session" /\ r.internal = r.gateway_path
        \/ r.credential = "service" /\ r.internal /\ ~r.gateway_path}

ValuesAreAlike == Permutations(Values)
=============================================================================
