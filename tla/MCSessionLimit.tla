---------------------------- MODULE MCSessionLimit ----------------------------
(* No limit, one session, two sessions. *)
EXTENDS SessionLimit

MCLimits == {-1, 0, 1}
=============================================================================
