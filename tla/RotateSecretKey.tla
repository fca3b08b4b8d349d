--------------------------- MODULE RotateSecretKey ---------------------------
(***************************************************************************)
(* The command rotate_secret_key and the procedure around it: stop         *)
(* traffic, run the command, put the printed key into the deployment       *)
(* secret, restart the services.  The command re-encrypts every secret in  *)
(* one transaction; the cache of the preferences is cleared before that    *)
(* transaction commits.                                                    *)
(*                                                                         *)
(* Traffic that is not stopped, failures of the command and an operator    *)
(* who runs it twice are part of the model.                                *)
(***************************************************************************)
EXTENDS Preferences

CONSTANTS
  FirstKey,
  ColumnOrder,   \* the encrypted columns' rows, in the order of their keys
  ConfigOrder,   \* the secrets in the configurations of authenticators
  PrefIds,       \* the preferences in the order of their keys
  Unloadable,    \* those of ConfigOrder whose plugin cannot be loaded
  BatchSize,     \* _FETCH_BATCH_SIZE
  Requests       \* bound: the bodies of PUT requests

SetOf(order) == {order[n] : n \in DOMAIN order}

(* _iter_models_with_encrypted_fields: every column once. *)
Columns == SetOf(ColumnOrder)
Configs == SetOf(ConfigOrder)

ASSUME RotateAssumption ==
  /\ FirstKey \in Keys /\ BatchSize \in Nat \ {0}
  /\ Columns \cup Configs = Rows /\ Columns \cap Configs = {}
  /\ SetOf(PrefIds) = Prefs /\ Unloadable \subseteq Configs
  /\ Prefs \cap Rows = {}
  /\ \A order \in {ColumnOrder, ConfigOrder, PrefIds} : DOMAIN order = 1..Len(order) /\ Len(order) \in Nat
  /\ \A data \in Requests : DOMAIN data \subseteq Prefs /\ \A p \in DOMAIN data : data[p] \in Texts

VARIABLES
  rotation,   \* the command
  deployed,   \* the deployment secret
  known,      \* keys the operator has been given
  orderly     \* the procedure was kept to (history)

rotVars == <<rotation, deployed, known, orderly>>
allVars == <<prefVars, rotVars>>

NotRunning == [pc |-> "none"]
Running == rotation.pc \in {"columns", "configs", "preferences", "flush", "print", "commit"}
Secrets == Prefs \cup Rows
NoRows == [i \in {} |-> Missing]

(* The database as the command's transaction sees it. *)
InTxn(i) == IF i \in DOMAIN rotation.txn THEN rotation.txn[i] ELSE db[i]
Locked(i) == Running /\ i \in DOMAIN rotation.txn

RotateInit ==
  /\ PrefsInit(FirstKey)
  /\ rotation = NotRunning
  /\ deployed = FirstKey /\ known = {FirstKey} /\ orderly = TRUE

-----------------------------------------------------------------------------
(* The command starts with the deployed key as the old one.  A generated   *)
(* key is a random one; a custom key is any other that the operator has    *)
(* chosen, an earlier one included.                                        *)
Begin(custom, dry) ==
  /\ rotation.pc \in {"none", "ended"}
  /\ \E new \in Keys \ {deployed} :
       /\ custom \/ new \notin known
       /\ rotation' = [pc |-> "columns", old |-> deployed, new |-> new, custom |-> custom,
                       dry |-> dry, pos |-> 0, page |-> NoRows, txn |-> NoRows]
       /\ known' = IF custom THEN known \cup {new} ELSE known
  (* a second run before the secret is updated is outside the procedure *)
  /\ orderly' = (orderly /\ \A i \in Secrets \ Unloadable : db[i].key \in {Plain, deployed})
  /\ UNCHANGED <<prefVars, deployed>>

After(order, size) == {order[n] : n \in {m \in DOMAIN order : rotation.pos < m /\ m <= rotation.pos + size}}

(* A faulty variant whose next page starts one row too late. *)
PreferencePageSkipping ==
  IF rotation.pos = 0 THEN After(PrefIds, BatchSize)
  ELSE {PrefIds[n] : n \in {m \in DOMAIN PrefIds : rotation.pos + 1 < m /\ m <= rotation.pos + 1 + BatchSize}}

(* The next page: rows in the order of their keys, beyond the last one     *)
(* read; configurations are read all at once.                              *)
ColumnPage == After(ColumnOrder, BatchSize)
ConfigPage == After(ConfigOrder, Len(ConfigOrder))
PreferencePage == After(PrefIds, BatchSize)

(* A page is read, or there is none left. *)
Fetch(page, size, next) ==
  /\ DOMAIN rotation.page = {}
  /\ rotation' = IF page = {} THEN [rotation EXCEPT !.pc = next, !.pos = 0]
                 ELSE [rotation EXCEPT !.page = [i \in page |-> InTxn(i)], !.pos = @ + size]
  /\ UNCHANGED <<prefVars, deployed, known, orderly>>

RotateEncryptedFields == rotation.pc = "columns" /\ Fetch(ColumnPage, BatchSize, "configs")
RotateAuthenticatorConfigs == rotation.pc = "configs" /\ Fetch(ConfigPage, Len(ConfigOrder), "preferences")
RotatePreferences == rotation.pc = "preferences" /\ Fetch(PreferencePage, BatchSize, "flush")

(* What is not encrypted, or not with the old key, is left alone, and so   *)
(* is the configuration of an authenticator whose plugin cannot be loaded. *)
TryDecrypt(raw) == raw.key = rotation.old
ReencryptValue(raw) == IF TryDecrypt(raw) THEN [raw EXCEPT !.key = rotation.new] ELSE raw
ReencryptFields(i, raw) == IF i \in Unloadable THEN raw ELSE ReencryptValue(raw)

(* The rows of the page are updated with what was read of them, unless it  *)
(* is a dry run.                                                           *)
ReencryptRows ==
  LET page == rotation.page
      new == [i \in DOMAIN page |-> ReencryptFields(i, page[i])]
      changed == {i \in DOMAIN page : ~rotation.dry /\ new[i] # page[i]}
  IN
  /\ Running /\ DOMAIN page # {}
  /\ rotation' = [rotation EXCEPT !.page = NoRows,
       !.txn = [i \in DOMAIN rotation.txn \cup changed |-> IF i \in changed THEN new[i] ELSE rotation.txn[i]]]
  /\ UNCHANGED <<prefVars, deployed, known, orderly>>

(* A faulty variant that leaves the cache alone. *)
FlushForgotten ==
  /\ rotation.pc = "flush"
  /\ rotation' = [rotation EXCEPT !.pc = "print"]
  /\ UNCHANGED <<prefVars, deployed, known, orderly>>

(* The cache is cleared, while the transaction is open. *)
FlushCache ==
  /\ rotation.pc = "flush"
  /\ IF rotation.dry THEN UNCHANGED <<cache, late>>
     ELSE cache' = [p \in Prefs |-> Missing] /\ late' = {}
  /\ rotation' = [rotation EXCEPT !.pc = "print"]
  /\ UNCHANGED <<db, worker, disturbed, deployed, known, orderly>>

(* It cannot be cleared: a warning asks for it to be done by hand. *)
FlushRefused ==
  /\ rotation.pc = "flush" /\ ~rotation.dry
  /\ rotation' = [rotation EXCEPT !.pc = "print"]
  /\ orderly' = (orderly /\ \A p \in Prefs : cache[p] = Missing)
  /\ UNCHANGED <<prefVars, deployed, known>>

(* A generated key is printed, unless it is a dry run. *)
PrintKey ==
  /\ rotation.pc = "print"
  /\ known' = IF rotation.dry \/ rotation.custom THEN known ELSE known \cup {rotation.new}
  /\ rotation' = [rotation EXCEPT !.pc = "commit"]
  /\ UNCHANGED <<prefVars, deployed, orderly>>

(* The transaction of handle() commits.  A value saved after its row was   *)
(* read is overwritten: what is known of it elsewhere is not of this row.  *)
Commit ==
  LET lost == {p \in Prefs : InTxn(p).val # db[p].val} IN
  /\ rotation.pc = "commit"
  /\ db' = [i \in DOMAIN db |-> InTxn(i)]
  /\ late' = late \cup lost
  /\ disturbed' = (disturbed \/ Priv \in lost)
  /\ worker' = [w \in Workers |->
       IF worker[w].pc \in {"fill", "through"} /\ worker[w].pref \in lost
         THEN [worker[w] EXCEPT !.late = TRUE] ELSE worker[w]]
  /\ rotation' = [pc |-> "ended", new |-> rotation.new, ok |-> ~rotation.dry]
  /\ UNCHANGED <<cache, deployed, known, orderly>>

(* An exception, a lost connection or a kill: everything is rolled back. *)
RotationFails ==
  /\ Running
  /\ rotation' = [pc |-> "ended", new |-> rotation.new, ok |-> FALSE]
  /\ UNCHANGED <<prefVars, deployed, known, orderly>>

-----------------------------------------------------------------------------
(* After a successful run the operator puts the key into the secret. *)
UpdateSecret ==
  /\ rotation.pc = "ended" /\ rotation.ok /\ rotation.new # deployed
  /\ deployed' = rotation.new
  /\ UNCHANGED <<prefVars, rotation, known, orderly>>

(* initialize_preferences refuses to go on if it finds any of these. *)
CorruptPreferences(key) == {p \in Prefs : ~Readable(Visible(p).key, key)}

(* Every worker is stopped and started with the deployed key. *)
Restart ==
  /\ ~Running /\ \A w \in Workers : worker[w].pc = "idle"
  /\ \E w \in Workers : worker[w].key # deployed
  /\ worker' = [w \in Workers |-> Rest(deployed)]
  /\ UNCHANGED <<db, cache, late, disturbed, rotVars>>

(* Work of the services.  A row the command has updated is locked.  Work   *)
(* between the start of the command and the restart means that traffic was *)
(* not stopped.                                                            *)
Work(w) ==
  \/ \E p \in Prefs : GetHit(w, p) \/ GetMiss(w, p)
  \/ Fill(w) \/ Answer(w) \/ RevertSection(w) \/ Revert(w)
  \/ RegeneratePub(w) \/ Through(w) \/ WorkerDies(w)
  \/ \E data \in Requests : Put(w, data)
  \/ \E p \in Prefs : SaveValue(w, p) /\ ~Locked(p)

Quiet == ~Running /\ \A i \in Secrets \ Unloadable : db[i].key \in {Plain, deployed}
Traffic(w) ==
  /\ Work(w)
  /\ orderly' = (orderly /\ Quiet /\ worker[w].key = deployed)
  /\ UNCHANGED <<rotation, deployed, known>>

RotateNext ==
  \/ \E custom, dry \in BOOLEAN : Begin(custom, dry)
  \/ RotateEncryptedFields \/ RotateAuthenticatorConfigs \/ RotatePreferences
  \/ ReencryptRows \/ FlushCache \/ FlushRefused \/ PrintKey \/ Commit \/ RotationFails
  \/ UpdateSecret \/ Restart
  \/ \E w \in Workers : Traffic(w)
  \/ (\E p \in Prefs : Expire(p)) /\ UNCHANGED rotVars

RotateSpec == RotateInit /\ [][RotateNext]_allVars

-----------------------------------------------------------------------------
(* What the command may be, with the rows it has read and written. *)
Rotations(read, written) ==
  [pc : {"columns", "configs", "preferences", "flush", "print", "commit"}, old : Keys, new : Keys,
   custom : BOOLEAN, dry : BOOLEAN, pos : Nat, page : [read -> Cells], txn : [written -> Cells]]

(* Types of the rows, the cache, the workers and the command. *)
RotateTypeOK ==
  /\ PrefsTypeOK
  /\ \/ rotation \in {NotRunning} \cup [pc : {"ended"}, new : Keys, ok : BOOLEAN]
     \/ \E read, written \in SUBSET Secrets : rotation \in Rotations(read, written)
  /\ deployed \in Keys /\ known \subseteq Keys /\ orderly \in BOOLEAN

(***************************************************************************)
(* No secret is ever stored under a key that the operator has not been     *)
(* given, whatever fails: the key is printed before the transaction        *)
(* commits (Command.handle).                                               *)
(***************************************************************************)
KeyNeverLost == \A i \in Secrets : db[i].key \in known \cup {Plain}

(***************************************************************************)
(* While the procedure is kept to, all secrets are under one key at any    *)
(* moment, through failures of the command (its single transaction), but   *)
(* for the authenticators whose plugin cannot be loaded.                   *)
(***************************************************************************)
OneKey ==
  orderly => \A i, j \in Secrets \ Unloadable :
               db[i].key = db[j].key \/ Plain \in {db[i].key, db[j].key}

(***************************************************************************)
(* The secrets are under one key, and the operator has it, wherever the    *)
(* command broke off (Command.handle).                                     *)
(***************************************************************************)
OneKnownKey == OneKey /\ KeyNeverLost

(***************************************************************************)
(* Once the procedure is finished, no preference is unreadable: neither    *)
(* the rows nor what is left in the cache, so that the check of            *)
(* initialize_preferences lets the services start.                         *)
(***************************************************************************)
StartsAfterRotation ==
  orderly /\ (\A w \in Workers : worker[w].key = deployed) /\ ~Running
    /\ ~(rotation.pc = "ended" /\ rotation.ok /\ rotation.new # deployed) =>
       /\ CorruptPreferences(deployed) = {}
       /\ \A i \in Secrets \ Unloadable : Readable(db[i].key, deployed)
=============================================================================
