-------------------------- MODULE MCRotateSecretKey --------------------------
(***************************************************************************)
(* The key pair and one ordinary preference, with what they are registered *)
(* as; a column of another table and two configurations of authenticators, *)
(* in pages of two; three values of SECRET_KEY, so that the command may be *)
(* run twice.                                                              *)
(***************************************************************************)
EXTENDS RotateSecretKey, RegisteredPreferences, TLC

Chosen == {"jwt_private_key", "jwt_public_key", "request_timeout"}
ChosenOrder == SelectSeq(Registered, LAMBDA p : p.name \in Chosen)
MCPrefOrder == [n \in DOMAIN ChosenOrder |-> ChosenOrder[n].name]
ChosenSet == {ChosenOrder[n] : n \in DOMAIN ChosenOrder}
MCEncrypted == {p.name : p \in {q \in ChosenSet : q.encrypted}}
MCReadOnly == {p.name : p \in {q \in ChosenSet : IsReadOnly(q)}}
MCColumnOrder == <<"column">>
MCConfigOrder == <<"config", "unloadable">>
MCPrefIds == <<"jwt_public_key", "request_timeout", "jwt_private_key">>

Body(priv, timeout) ==
  [p \in {"jwt_private_key", "request_timeout"} |-> IF p = "jwt_private_key" THEN priv ELSE timeout]
MCRequests ==
  { [p \in {"jwt_private_key"} |-> "v1"], [p \in {"jwt_private_key"} |-> "v2"],
    Body("v2", "v1"), Body("mask", "v1"), Body("v1", "invalid"), Body("v2", "unclean"),
    [p \in {"jwt_public_key"} |-> "v2"], [p \in {"jwt_public_key"} |-> "mask"] }

(* Two workers meet on the key pair; one worker meets the rotation, with   *)
(* the third preference at its default.  MCNext leaves out the steps that  *)
(* would only lead beyond that.                                            *)
Busy == {w \in Workers : worker[w].pc # "idle"}
AtDefault == db["request_timeout"].val = "empty" /\ cache["request_timeout"] = Missing
Focus ==
  \/ rotation.pc = "none" /\ (Cardinality(Busy) <= 1 \/ AtDefault)
  \/ Cardinality(Busy) <= 1 /\ AtDefault /\ late = {} /\ ~disturbed

Command ==
  \/ \E custom, dry \in BOOLEAN :
       Cardinality(Busy) <= 1 /\ AtDefault /\ late = {} /\ ~disturbed /\ Begin(custom, dry)
  \/ RotateEncryptedFields \/ RotateAuthenticatorConfigs \/ RotatePreferences
  \/ ReencryptRows \/ FlushCache \/ FlushRefused \/ PrintKey \/ Commit \/ RotationFails
  \/ UpdateSecret \/ Restart

MCNext ==
  \/ Command
  \/ \E w \in Workers : (rotation.pc = "none" \/ Busy \subseteq {w}) /\ Traffic(w)
  \/ (\E p \in Prefs : Expire(p)) /\ UNCHANGED rotVars
MCSpec == RotateInit /\ [][MCNext]_allVars

Symmetry == Permutations(Workers) \cup Permutations(Keys \ {FirstKey})
=============================================================================
