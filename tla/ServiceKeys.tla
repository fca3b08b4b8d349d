----------------------------- MODULE ServiceKeys -----------------------------
(***************************************************************************)
(* The keys with which services sign their tokens (models/service_key.py,  *)
(* ServiceCluster.generate_key, the command generate_service_secret and    *)
(* the service_keys endpoint).                                             *)
(*                                                                         *)
(* Editors are commands and web requests.  None of them locks anything:    *)
(* the limit on active keys is checked by a count that a later statement   *)
(* relies on, and a key that was read is written back as a whole.          *)
(***************************************************************************)
EXTENDS Integers, FiniteSets

CONSTANTS
  Editors,
  Clusters,
  MaxActive,      \* MAX_ACTIVE_KEYS_PER_SERVICE
  MaxKeys         \* bound: keys ever created

ASSUME ServiceKeysAssumption ==
  /\ IsFiniteSet(Editors) /\ Editors # {}
  /\ MaxActive \in Nat \ {0} /\ MaxKeys \in Nat \ {0}

VARIABLES
  keys,     \* primary key -> [cluster, active], of the rows that exist
  created,  \* keys created so far; a higher key is a newer one
  editor    \* editor -> where its request or command stands

keyVars == <<keys, created, editor>>

ActiveKeys(c) == {k \in DOMAIN keys : keys[k].cluster = c /\ keys[k].active}

Idle == [pc |-> "idle"]

Put(k, c, active) ==
  keys' = [j \in DOMAIN keys \cup {k} |->
             IF j = k THEN [cluster |-> c, active |-> active] ELSE keys[j]]

(* Keys that other editors are known to have made active since (history).  *)
Note(k, active) ==
  [e \in Editors |->
     IF active /\ editor[e].pc \in {"retire", "insert"}
       THEN [editor[e] EXCEPT !.foreign = @ \cup {k}]
       ELSE editor[e]]

KeysInit ==
  /\ created \in 0..1
  /\ keys \in [1..created -> [cluster : Clusters, active : {TRUE}]]
  /\ editor = [e \in Editors |-> Idle]

-----------------------------------------------------------------------------
(* A faulty variant that retires the keys that are retired already. *)
StartGenerateWrongFilter(e) ==
  /\ editor[e].pc = "idle" /\ created < MaxKeys
  /\ \E c \in Clusters, mark \in BOOLEAN :
       editor' = [editor EXCEPT ![e] =
         [pc |-> "retire", cluster |-> c, mark |-> mark, foreign |-> {},
          todo |-> IF mark THEN {k \in DOMAIN keys : ~keys[k].active} ELSE {}]]
  /\ UNCHANGED <<keys, created>>

(* generate_key begins: it reads the active keys, if it is to retire them. *)
StartGenerate(e) ==
  /\ editor[e].pc = "idle" /\ created < MaxKeys
  /\ \E c \in Clusters, mark \in BOOLEAN :
       editor' = [editor EXCEPT ![e] =
         [pc |-> "retire", cluster |-> c, mark |-> mark, foreign |-> {},
          todo |-> IF mark THEN ActiveKeys(c) ELSE {}]]
  /\ UNCHANGED <<keys, created>>

(* One key.save() with is_active = False; a row deleted meanwhile is       *)
(* inserted again.                                                         *)
Retire(e) ==
  /\ editor[e].pc = "retire"
  /\ \E k \in editor[e].todo :
       /\ Put(k, editor[e].cluster, FALSE)
       /\ editor' = [editor EXCEPT ![e].todo = @ \ {k}]
  /\ UNCHANGED created

(* The new key's save() counts without a limit. *)
CountUnlimited(e) ==
  /\ editor[e].pc = "retire" /\ editor[e].todo = {}
  /\ editor' = [editor EXCEPT ![e].pc = "insert"]
  /\ UNCHANGED <<keys, created>>

(* The new key's save() counts the active keys; at the limit it raises. *)
CountForNew(e) ==
  /\ editor[e].pc = "retire" /\ editor[e].todo = {}
  /\ editor' = [editor EXCEPT ![e] =
                  IF Cardinality(ActiveKeys(@.cluster)) >= MaxActive
                    THEN Idle ELSE [@ EXCEPT !.pc = "insert"]]
  /\ UNCHANGED <<keys, created>>

InsertNew(e) ==
  /\ editor[e].pc = "insert" /\ created < MaxKeys
  /\ Put(created + 1, editor[e].cluster, TRUE)
  /\ created' = created + 1
  /\ editor' = [Note(created + 1, TRUE) EXCEPT ![e] = Idle]

(* A PUT or PATCH reads the key.  What it will write is the value in the   *)
(* request or, if that names other fields only, the value just read.       *)
LoadKey(e) ==
  /\ editor[e].pc = "idle"
  /\ \E k \in DOMAIN keys, active \in BOOLEAN :
       editor' = [editor EXCEPT ![e] = 
         [pc |-> "check", key |-> k, cluster |-> keys[k].cluster, active |-> active]]
  /\ UNCHANGED <<keys, created>>

(* Its save() counts the other active keys and raises at the limit. *)
CheckKey(e) ==
  /\ editor[e].pc = "check"
  /\ editor' = [editor EXCEPT ![e] =
       IF @.active /\ Cardinality(ActiveKeys(@.cluster) \ {@.key}) >= MaxActive
         THEN Idle ELSE [@ EXCEPT !.pc = "write"]]
  /\ UNCHANGED <<keys, created>>

WriteKey(e) ==
  /\ editor[e].pc = "write"
  /\ LET k == editor[e].key IN
     /\ Put(k, editor[e].cluster, editor[e].active)
     /\ editor' = [Note(k, editor[e].active) EXCEPT ![e] = Idle]
  /\ UNCHANGED created

(* A DELETE of one key, or delete_inactive_keys. *)
DeleteKeys ==
  /\ \E gone \in {{k} : k \in DOMAIN keys}
              \cup {{k \in DOMAIN keys : keys[k].cluster = c /\ ~keys[k].active} : c \in Clusters} :
       /\ gone # {}
       /\ keys' = [k \in DOMAIN keys \ gone |-> keys[k]]
  /\ UNCHANGED <<created, editor>>

(* The command or the worker is killed between two statements. *)
EditorDies(e) ==
  /\ editor[e].pc # "idle"
  /\ editor' = [editor EXCEPT ![e] = Idle]
  /\ UNCHANGED <<keys, created>>

KeysNext ==
  \/ \E e \in Editors :
       \/ StartGenerate(e) \/ Retire(e) \/ CountForNew(e) \/ InsertNew(e)
       \/ LoadKey(e) \/ CheckKey(e) \/ WriteKey(e) \/ EditorDies(e)
  \/ DeleteKeys

(* Where an editor may stand: generating a key, or changing one. *)
Generating ==
  [pc : {"retire", "insert"}, cluster : Clusters, mark : BOOLEAN,
   foreign : SUBSET (1..MaxKeys), todo : SUBSET (1..MaxKeys)]
Changing == [pc : {"check", "write"}, key : 1..MaxKeys, cluster : Clusters, active : BOOLEAN]

KeysTypeOK ==
  /\ created \in 0..MaxKeys
  /\ DOMAIN keys \subseteq 1..created
  /\ \A k \in DOMAIN keys : keys[k] \in [cluster : Clusters, active : BOOLEAN]
  /\ editor \in [Editors -> {Idle} \cup Generating \cup Changing]
  /\ \A e \in Editors :  \* what an editor remembers was created
       /\ editor[e].pc \in {"retire", "insert"} => editor[e].foreign \cup editor[e].todo \subseteq 1..created
       /\ editor[e].pc \in {"check", "write"} => editor[e].key \in 1..created

-----------------------------------------------------------------------------
(***************************************************************************)
(* The limit on active keys may be exceeded, because counting and saving   *)
(* are two statements, but only by the requests that ran at the same time: *)
(* each of them adds at most one key above the limit (ServiceKey.save).    *)
(***************************************************************************)
ActiveBounded ==
  \A c \in Clusters : Cardinality(ActiveKeys(c)) <= MaxActive + Cardinality(Editors) - 1

(***************************************************************************)
(* When generate_key has retired the previous keys and stored the new one, *)
(* a second active key can only be one that somebody else made active      *)
(* while the command ran (ServiceCluster.generate_key).                    *)
(***************************************************************************)
NewKeyReplaces ==
  [][\A e \in Editors, c \in Clusters :
       ( /\ editor[e].pc = "insert" /\ editor[e].mark /\ editor[e].cluster = c
         /\ created' # created /\ editor'[e].pc = "idle" )
         => ActiveKeys(c)' \subseteq editor[e].foreign \cup {created'}]_keyVars
=============================================================================
