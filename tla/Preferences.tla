----------------------------- MODULE Preferences -----------------------------
(***************************************************************************)
(* The gateway's settings (utils/preferences.py, serializers/preferences,  *)
(* views/api/v1/preference.py, models/preference.py and the encrypting     *)
(* manager of django-dynamic-preferences).                                 *)
(*                                                                         *)
(* A setting is a row of the database and an entry of a cache that the     *)
(* workers share.  A write changes the row and then the entry; a read that *)
(* misses copies the row to the cache in two steps.  There is no           *)
(* transaction around a request: its values are saved one by one, and      *)
(* saving the private key saves the public one afterwards.                 *)
(***************************************************************************)
EXTENDS Integers, Sequences, FiniteSets

CONSTANTS
  Workers,
  PrefOrder,      \* the registered preferences that are modelled, in order
  Priv, Pub,      \* jwt_private_key and jwt_public_key, two of them
  Encrypted,      \* those registered with encrypted=True
  ReadOnly,       \* those registered with read_only=True
  Inspecting,     \* ENHANCED_INPUT_VALIDATION_ENABLED
  Excluded,       \* _CLEAN_TEXT_EXCLUDED_FIELDS
  Rows,           \* encrypted columns of other tables
  Values,         \* values; a public key has the value of its private key
  Empty,          \* the default
  Keys,           \* values of SECRET_KEY
  Plain           \* stands for a value that is not encrypted

(* What a setting may be asked to be: a value, its default, the mask of a  *)
(* secret, or a text that is refused.                                      *)
Texts == Values \cup {Empty, "mask", "invalid", "unclean"}

Prefs == {PrefOrder[n] : n \in DOMAIN PrefOrder}

ASSUME PreferencesAssumption ==
  /\ {Priv, Pub} \cup Encrypted \cup ReadOnly \subseteq Prefs
  /\ Priv \in Encrypted \ ReadOnly /\ Pub \in ReadOnly \ Encrypted
  /\ Empty \notin Values /\ Plain \notin Keys /\ Inspecting \in BOOLEAN

VARIABLES
  db,         \* row -> [val, key]: the value and the key it is encrypted with
  cache,      \* preference -> [val, key, depth], or Missing
  worker,     \* worker -> its SECRET_KEY and what it is doing
  late,       \* preferences whose entry was written by a late writer (history)
  disturbed   \* updates of the private key overlapped or broke off (history)

prefVars == <<db, cache, worker, late, disturbed>>

Missing == [val |-> Empty, key |-> Plain, depth |-> 0]
Rest(key) == [pc |-> "idle", key |-> key]

(* How a worker's row or entry of a preference is encrypted. *)
Tag(p, key) == IF p \in Encrypted THEN key ELSE Plain
Readable(key, mine) == key \in {Plain, mine}

(* Another step wrote p's row: whoever holds an older value of it is late. *)
Overtake(w, p) ==
  [v \in Workers |->
     IF v # w /\ worker[v].pc \in {"fill", "through"} /\ worker[v].pref = p
       THEN [worker[v] EXCEPT !.late = TRUE] ELSE worker[v]]

(* The worker has saved the private key or read it, and has yet to save    *)
(* the public one.                                                         *)
Pending(w) ==
  \/ worker[w].pc = "through" /\ worker[w].pref = Priv
  \/ worker[w].pc = "save" /\ Pub \in DOMAIN worker[w].todo

PrefsInit(key) ==
  /\ \E v \in Values, known \in BOOLEAN :
       db = [i \in Prefs \cup Rows |->
               CASE i = Pub -> [val |-> IF known THEN v ELSE Empty, key |-> Plain]
                 [] i = Priv -> [val |-> v, key |-> key]
                 [] i \in Rows -> [val |-> Empty, key |-> key]
                 [] OTHER -> [val |-> Empty, key |-> Tag(i, key)]]
  /\ cache = [p \in Prefs |-> Missing]
  /\ worker = [w \in Workers |-> Rest(key)]
  /\ late = {} /\ disturbed = FALSE

-----------------------------------------------------------------------------
(* from_cache takes off one layer of encryption and get_preference_value   *)
(* another one, if there is any.                                           *)
Clear(entry) == entry.key = Plain \/ entry.depth <= 2

(* What a worker sees of a preference. *)
Visible(p) == IF cache[p] # Missing THEN cache[p] ELSE [val |-> db[p].val, key |-> db[p].key, depth |-> 1]
CanSee(w, p) == Readable(Visible(p).key, worker[w].key)

(* get_preference_value: the cache answers, or the row is read. *)
GetHit(w, p) ==
  /\ worker[w].pc = "idle" /\ cache[p] # Missing
  /\ worker' = [worker EXCEPT ![w] =
       IF CanSee(w, p)
         THEN [pc |-> "served", key |-> @.key, pref |-> p, val |-> cache[p].val,
               clear |-> Clear(cache[p])]
         ELSE [pc |-> "corrupt", key |-> @.key]]
  /\ UNCHANGED <<db, cache, late, disturbed>>

GetMiss(w, p) ==
  /\ worker[w].pc = "idle" /\ cache[p] = Missing
  /\ worker' = [worker EXCEPT ![w] =
       IF Readable(db[p].key, @.key)
         THEN [pc |-> "fill", key |-> @.key, pref |-> p, val |-> db[p].val, late |-> FALSE]
         ELSE [pc |-> "corrupt", key |-> @.key]]
  /\ UNCHANGED <<db, cache, late, disturbed>>

(* to_cache encrypts the clear value that was read. *)
Fill(w) ==
  LET p == worker[w].pref IN
  /\ worker[w].pc = "fill"
  /\ cache' = [cache EXCEPT ![p] = [val |-> worker[w].val, key |-> Tag(p, worker[w].key), depth |-> 1]]
  /\ late' = IF worker[w].late THEN late \cup {p} ELSE late \ {p}
  /\ worker' = [worker EXCEPT ![w] =
                  [pc |-> "served", key |-> @.key, pref |-> p, val |-> @.val, clear |-> TRUE]]
  /\ UNCHANGED <<db, disturbed>>

(* The answer is sent, or the exception logged. *)
Answer(w) ==
  /\ worker[w].pc \in {"served", "corrupt"}
  /\ worker' = [worker EXCEPT ![w] = Rest(@.key)]
  /\ UNCHANGED <<db, cache, late, disturbed>>

-----------------------------------------------------------------------------
(* A PUT of values, some "invalid" or "unclean", one the mask of encrypted *)
(* settings.  What equals the present value is skipped; anything else for  *)
(* a read-only setting is an error; the mask is skipped; an invalid or an  *)
(* unclean value is an error.  With an error nothing is saved.             *)
Current(p) == IF p \in Encrypted THEN "mask" ELSE Visible(p).val

Differing(data) == {p \in DOMAIN data : data[p] # Current(p)}

Changes(data) == {p \in Differing(data) : data[p] # "mask"}

Accepted(data) ==
  /\ Differing(data) \cap ReadOnly = {}
  /\ \A p \in Changes(data) : data[p] # "invalid"

(* If the gateway is set to, it inspects the text of a setting, unless it  *)
(* is encrypted or may hold markup or an image.                            *)
Inspected(data) == IF Inspecting THEN Changes(data) \ (Encrypted \cup Excluded) ELSE {}
CleanText(data) == \A p \in Inspected(data) : data[p] # "unclean"

Put(w, data) ==
  /\ worker[w].pc = "idle" /\ \A p \in Prefs : CanSee(w, p)
  /\ Accepted(data) /\ CleanText(data) /\ Changes(data) # {}
  /\ worker' = [worker EXCEPT ![w] =
       [pc |-> "save", key |-> @.key, todo |-> [p \in Changes(data) |-> data[p]]]]
  /\ UNCHANGED <<db, cache, late, disturbed>>

(* A DELETE reverts a setting, or the settings of a section, but none that *)
(* is read-only or encrypted.                                              *)
Revertible == Prefs \ (ReadOnly \cup Encrypted)
RevertData == [p \in {q \in Revertible : Visible(q).val # Empty} |-> Empty]

RevertSection(w) == \E data \in {RevertData} : Put(w, data)

Revert(w) == \E p \in Revertible : Put(w, [q \in {p} |-> Empty])

(* get_jwt_rsa_key(public=True) finds no public key and makes it from the  *)
(* private one.                                                            *)
RegeneratePub(w) ==
  /\ worker[w].pc = "served" /\ worker[w].pref = Pub /\ worker[w].val = Empty
  /\ CanSee(w, Priv)
  /\ worker' = [worker EXCEPT ![w] =
       [pc |-> "save", key |-> @.key, todo |-> [p \in {Pub} |-> Visible(Priv).val]]]
  /\ disturbed' = (disturbed \/ Visible(Priv).val # db[Priv].val)
  /\ UNCHANGED <<db, cache, late>>

(* Values are saved in the order of the preferences, but for the public    *)
(* key: only on_update of the private key and RegeneratePub save it, at    *)
(* once.                                                                   *)
Before(p, q) == \E m, n \in DOMAIN PrefOrder : m < n /\ PrefOrder[m] = p /\ PrefOrder[n] = q

IsNext(p, todo) ==
  /\ p \in DOMAIN todo
  /\ IF Pub \in DOMAIN todo THEN p = Pub ELSE \A q \in DOMAIN todo : ~Before(q, p)

(* update_db_pref: the row is read, which raises if it cannot be           *)
(* decrypted, and saved, encrypted with the worker's key.                  *)
SaveValue(w, p) ==
  LET todo == worker[w].todo
      v == todo[p]
  IN
  /\ worker[w].pc = "save" /\ IsNext(p, todo)
  /\ \/ /\ Readable(db[p].key, worker[w].key)
        /\ db' = [db EXCEPT ![p] = [val |-> v, key |-> Tag(p, worker[w].key)]]
        /\ worker' = [Overtake(w, p) EXCEPT ![w] =
             [pc |-> "through", key |-> worker[w].key, pref |-> p, val |-> v,
              late |-> FALSE, todo |-> [q \in DOMAIN todo \ {p} |-> todo[q]]]]
        /\ disturbed' = IF p = Priv THEN \E u \in Workers \ {w} : Pending(u) ELSE disturbed
     \/ /\ ~Readable(db[p].key, worker[w].key)
        /\ worker' = [worker EXCEPT ![w] = [pc |-> "corrupt", key |-> @.key]]
        /\ UNCHANGED <<db, disturbed>>
  /\ UNCHANGED <<cache, late>>

(* A faulty variant that makes the public key from the key that was there. *)
RemainingStale(w) ==
  LET todo == worker[w].todo IN
  IF worker[w].pref = Priv
    THEN [q \in DOMAIN todo \cup {Pub} |-> IF q = Pub THEN db[Pub].val ELSE todo[q]] ELSE todo

(* What is left to save: on_update of the private key adds the public key. *)
Remaining(w) ==
  LET todo == worker[w].todo IN
  IF worker[w].pref = Priv
    THEN [q \in DOMAIN todo \cup {Pub} |-> IF q = Pub THEN worker[w].val ELSE todo[q]] ELSE todo

(* A faulty variant without the cache update of post_save. *)
ThroughDropped(w) ==
  /\ worker[w].pc = "through"
  /\ worker' = [worker EXCEPT ![w] =
       IF DOMAIN Remaining(w) = {} THEN Rest(@.key)
       ELSE [pc |-> "save", key |-> @.key, todo |-> Remaining(w)]]
  /\ UNCHANGED <<db, cache, late, disturbed>>

(* post_save writes the instance through to the cache, encrypted once more.*)
Through(w) ==
  LET p == worker[w].pref IN
  /\ worker[w].pc = "through"
  /\ cache' = [cache EXCEPT ![p] = [val |-> worker[w].val, key |-> Tag(p, worker[w].key), depth |-> 2]]
  /\ late' = IF worker[w].late THEN late \cup {p} ELSE late \ {p}
  /\ worker' = [worker EXCEPT ![w] =
       IF DOMAIN Remaining(w) = {} THEN Rest(@.key)
       ELSE [pc |-> "save", key |-> @.key, todo |-> Remaining(w)]]
  /\ UNCHANGED <<db, disturbed>>

WorkerDies(w) ==
  /\ worker[w].pc \in {"save", "through"}
  /\ late' = IF worker[w].pc = "through" THEN late \cup {worker[w].pref} ELSE late
  /\ disturbed' = (disturbed \/ Pending(w))
  /\ worker' = [worker EXCEPT ![w] = Rest(@.key)]
  /\ UNCHANGED <<db, cache>>

(* An entry of the cache expires. *)
Expire(p) ==
  /\ cache[p] # Missing
  /\ cache' = [cache EXCEPT ![p] = Missing]
  /\ late' = late \ {p}
  /\ UNCHANGED <<db, worker, disturbed>>

-----------------------------------------------------------------------------
(* What a row, an entry of the cache and a worker may be. *)
Cells == [val : Texts, key : Keys \cup {Plain}]
Entries == [val : Texts, key : Keys \cup {Plain}, depth : 0..2]
Todos == UNION {[S -> Texts] : S \in SUBSET Prefs}

WorkerStates ==
  [pc : {"idle", "corrupt"}, key : Keys]
    \cup [pc : {"served"}, key : Keys, pref : Prefs, val : Texts, clear : BOOLEAN]
    \cup [pc : {"fill"}, key : Keys, pref : Prefs, val : Texts, late : BOOLEAN]
    \cup [pc : {"save"}, key : Keys, todo : Todos]
    \cup [pc : {"through"}, key : Keys, pref : Prefs, val : Texts, late : BOOLEAN, todo : Todos]

PrefsTypeOK ==
  /\ db \in [Prefs \cup Rows -> Cells] /\ cache \in [Prefs -> Entries]
  /\ worker \in [Workers -> WorkerStates]
  /\ late \subseteq Prefs /\ disturbed \in BOOLEAN

(***************************************************************************)
(* A cached setting differs from its row only while its writer has yet to  *)
(* reach the cache, or if the entry's writer was overtaken by a later one  *)
(* or died before it reached the cache (EncryptedPreferencesManager).      *)
(***************************************************************************)
StaleOnlyIfLate ==
  \A p \in Prefs :
    \/ cache[p] = Missing \/ cache[p].val = db[p].val \/ p \in late
    \/ \E w \in Workers : worker[w].pc = "through" /\ worker[w].pref = p

(***************************************************************************)
(* The public key that is handed out belongs to the private key that signs *)
(* the tokens, unless two updates of the private key overlapped or one     *)
(* broke off between the two rows (update_jwt_public_key).                 *)
(***************************************************************************)
PairMatches ==
  \/ disturbed \/ \E w \in Workers : Pending(w)
  \/ db[Pub].val \in {Empty, db[Priv].val}

(***************************************************************************)
(* A setting is handed out as clear text, whether its cache entry was made *)
(* by a read (encrypted once) or by a write (encrypted twice)              *)
(* (get_preference_value).                                                 *)
(***************************************************************************)
ServedClear ==
  \A w \in Workers : worker[w].pc = "served" => worker[w].clear

(***************************************************************************)
(* What is handed out of the cache is the clear text of what is stored,    *)
(* whichever path the entry came by (EncryptedPreferencesManager).         *)
(***************************************************************************)
ServedAsStored == StaleOnlyIfLate /\ ServedClear
=============================================================================
