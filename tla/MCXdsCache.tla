----------------------------- MODULE MCXdsCache -----------------------------
(* XdsCache for the model checker: a change of any table or a deletion that *)
(* cascades, at any point of the polls of the three discovery services.     *)
EXTENDS XdsCache
=============================================================================
