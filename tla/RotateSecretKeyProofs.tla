------------------------ MODULE RotateSecretKeyProofs ------------------------
(***************************************************************************)
(* Proofs about the settings and the rotation of the secret key, for any   *)
(* number of workers, settings, encrypted rows, keys and pages, and with   *)
(* all of the traffic and the failures of the model at once.               *)
(***************************************************************************)
EXTENDS RotateSecretKey, TLAPS

-----------------------------------------------------------------------------
(* The inductive invariant, in parts.                                      *)

(* A worker that holds a value, and is not known to be late, holds what is *)
(* in the row.                                                             *)
HeldIsCurrent ==
  \A w \in Workers :
    (worker[w].pc \in {"fill", "through"} /\ ~worker[w].late) => worker[w].val = db[worker[w].pref].val

(* What a worker that is to save the public key will save. *)
PubOf(w) == IF worker[w].pc = "through" THEN worker[w].val ELSE worker[w].todo[Pub]

(* The public key is saved after the private one and never along with it,  *)
(* and unless updates overlapped it is made from the stored private key.   *)
PubFollows ==
  /\ \A w \in Workers : worker[w].pc = "through" => Pub \notin DOMAIN worker[w].todo
  /\ ~disturbed => \A w \in Workers : Pending(w) => PubOf(w) = db[Priv].val

(* Of the key pair, exactly the private key is encrypted.                  *)
PairKeys == db[Priv].key \in Keys /\ db[Pub].key = Plain

(* The command writes only what it has encrypted with the new key, and     *)
(* nothing in a dry run.                                                   *)
TxnKeys ==
  Running =>
    /\ \A i \in DOMAIN rotation.txn : rotation.txn[i].key = rotation.new
    /\ rotation.dry => DOMAIN rotation.txn = {}
    /\ Pub \notin DOMAIN rotation.txn
    /\ Pub \in DOMAIN rotation.page => rotation.page[Pub].key = Plain

(* The keys the operator has been given. *)
KeysKnown ==
  /\ KeyNeverLost /\ deployed \in known
  /\ \A w \in Workers : worker[w].key \in known
  /\ Running => /\ rotation.new # rotation.old
                /\ (rotation.custom \/ (rotation.pc = "commit" /\ ~rotation.dry)) => rotation.new \in known
  /\ (rotation.pc = "ended" /\ rotation.ok) => rotation.new \in known

(* A successful run whose key is not deployed yet. *)
Awaiting == rotation.pc = "ended" /\ rotation.ok /\ rotation.new # deployed

Rotated == Secrets \ Unloadable
AllUnder(key) == \A i \in Rotated : db[i].key \in {Plain, key}
CacheEmpty == \A p \in Prefs : cache[p] = Missing

(* While the procedure is kept to, everything is under the deployed key,   *)
(* the cache too; after a successful run everything is under the new key   *)
(* and the cache is empty.                                                 *)
OrderlyKeys ==
  orderly =>
    /\ Awaiting => AllUnder(rotation.new) /\ CacheEmpty
    /\ ~Awaiting => AllUnder(deployed) /\ \A p \in Prefs : cache[p].key \in {Plain, deployed}
    /\ Running => /\ rotation.old = deployed
                  /\ \A i \in DOMAIN rotation.page : rotation.page[i] = InTxn(i)
                  /\ (rotation.pc \in {"print", "commit"} /\ ~rotation.dry) => CacheEmpty

(* How far the command has come: the rows up to the last one it has read   *)
(* are done or are in the page it works on.                                *)
Done(i) == i \in Unloadable \/ InTxn(i).key \in {Plain, rotation.new}
AllDone(order) == \A n \in DOMAIN order : Done(order[n])
DoneUpTo(order) ==
  \A n \in DOMAIN order : n <= rotation.pos => Done(order[n]) \/ order[n] \in DOMAIN rotation.page

Progress ==
  Running =>
    /\ rotation.pc \in {"flush", "print", "commit"} => DOMAIN rotation.page = {}
    /\ (orderly /\ ~rotation.dry) =>
         /\ rotation.pc = "columns" => DoneUpTo(ColumnOrder)
         /\ rotation.pc # "columns" => AllDone(ColumnOrder)
         /\ rotation.pc = "configs" => DoneUpTo(ConfigOrder)
         /\ rotation.pc \notin {"columns", "configs"} => AllDone(ConfigOrder)
         /\ rotation.pc = "preferences" => DoneUpTo(PrefIds)
         /\ rotation.pc \in {"flush", "print", "commit"} => AllDone(PrefIds)

RotateInv ==
  /\ RotateTypeOK /\ HeldIsCurrent /\ StaleOnlyIfLate /\ PubFollows /\ PairMatches /\ PairKeys
  /\ TxnKeys /\ KeysKnown /\ OrderlyKeys /\ Progress /\ ServedClear

-----------------------------------------------------------------------------
(* Types.                                                                  *)

LEMMA TodoType ==
  /\ \A S \in SUBSET Prefs : \A f \in [S -> Texts] : f \in Todos
  /\ \A f \in Todos : DOMAIN f \subseteq Prefs /\ f \in [DOMAIN f -> Texts]
  BY DEF Todos

LEMMA WorkerFields ==
  ASSUME PrefsTypeOK, NEW w \in Workers
  PROVE  /\ worker[w].key \in Keys
         /\ worker[w].pc \in {"idle", "corrupt", "served", "fill", "save", "through"}
         /\ worker[w].pc \in {"served", "fill", "through"} => worker[w].pref \in Prefs /\ worker[w].val \in Texts
         /\ worker[w].pc \in {"fill", "through"} => worker[w].late \in BOOLEAN
         /\ worker[w].pc \in {"save", "through"} => worker[w].todo \in Todos
         /\ worker[w].pc = "fill" => worker[w] \in [pc : {"fill"}, key : Keys, pref : Prefs, val : Texts, late : BOOLEAN]
         /\ worker[w].pc = "through" =>
              worker[w] \in [pc : {"through"}, key : Keys, pref : Prefs, val : Texts, late : BOOLEAN, todo : Todos]
  BY DEF PrefsTypeOK, WorkerStates

LEMMA PrefsTypeInit == PrefsInit(FirstKey) => PrefsTypeOK
<1> SUFFICES ASSUME PrefsInit(FirstKey) PROVE PrefsTypeOK
  OBVIOUS
<1>1. db \in [Prefs \cup Rows -> Cells]
  <2>1. PICK v \in Values, known0 \in BOOLEAN :
          db = [i \in Prefs \cup Rows |->
               CASE i = Pub -> [val |-> IF known0 THEN v ELSE Empty, key |-> Plain]
                 [] i = Priv -> [val |-> v, key |-> FirstKey]
                 [] i \in Rows -> [val |-> Empty, key |-> FirstKey]
                 [] OTHER -> [val |-> Empty, key |-> Tag(i, FirstKey)]]
    BY DEF PrefsInit
  <2> QED
    BY <2>1, RotateAssumption DEF Cells, Texts, Tag
<1>2. cache \in [Prefs -> Entries]
  BY DEF PrefsInit, Missing, Entries, Texts
<1>3. worker \in [Workers -> WorkerStates]
  BY RotateAssumption DEF PrefsInit, Rest, WorkerStates
<1> QED
  BY <1>1, <1>2, <1>3 DEF PrefsInit, PrefsTypeOK

LEMMA VisibleType ==
  ASSUME PrefsTypeOK, NEW p \in Prefs
  PROVE  Visible(p).val \in Texts
  BY DEF PrefsTypeOK, Visible, Cells, Entries

LEMMA PutType ==
  ASSUME PrefsTypeOK, NEW w \in Workers, NEW data, DOMAIN data \subseteq Prefs,
         \A p \in DOMAIN data : data[p] \in Texts, Put(w, data)
  PROVE  PrefsTypeOK'
<1>1. [p \in Changes(data) |-> data[p]] \in Todos
  BY TodoType DEF Changes, Differing
<1>2. worker' \in [Workers -> WorkerStates]
  BY <1>1, WorkerFields DEF Put, PrefsTypeOK, WorkerStates
<1> QED
  BY <1>2 DEF Put, PrefsTypeOK

LEMMA OvertakeType ==
  ASSUME PrefsTypeOK, NEW w \in Workers, NEW p \in Prefs
  PROVE  Overtake(w, p) \in [Workers -> WorkerStates]
<1>1. ASSUME NEW v \in Workers, worker[v].pc \in {"fill", "through"}
      PROVE  [worker[v] EXCEPT !.late = TRUE] \in WorkerStates
  BY <1>1, WorkerFields DEF WorkerStates
<1> QED
  BY <1>1 DEF Overtake, PrefsTypeOK

LEMMA RemainingType ==
  ASSUME PrefsTypeOK, NEW w \in Workers, worker[w].pc = "through"
  PROVE  Remaining(w) \in Todos
<1>1. worker[w].todo \in Todos /\ worker[w].val \in Texts /\ Pub \in Prefs
  BY WorkerFields, PreferencesAssumption
<1> QED
  BY <1>1, TodoType DEF Remaining

(* The requests that are served: those of users and the two reverts. *)
LEMMA WorkCases ==
  ASSUME NEW w \in Workers, Work(w)
  PROVE  \/ \E p \in Prefs : GetHit(w, p) \/ GetMiss(w, p)
         \/ Fill(w) \/ Answer(w) \/ RegeneratePub(w) \/ Through(w) \/ WorkerDies(w)
         \/ \E data : /\ DOMAIN data \subseteq Prefs /\ \A p \in DOMAIN data : data[p] \in Texts
                      /\ Put(w, data)
         \/ \E p \in Prefs : SaveValue(w, p) /\ ~Locked(p)
<1>1. ASSUME RevertSection(w)
      PROVE  \E data : /\ DOMAIN data \subseteq Prefs /\ \A p \in DOMAIN data : data[p] \in Texts
                       /\ Put(w, data)
  BY <1>1 DEF RevertSection, RevertData, Revertible, Texts
<1>2. ASSUME Revert(w)
      PROVE  \E data : /\ DOMAIN data \subseteq Prefs /\ \A p \in DOMAIN data : data[p] \in Texts
                       /\ Put(w, data)
  BY <1>2 DEF Revert, Revertible, Texts
<1>3. ASSUME NEW data \in Requests, Put(w, data)
      PROVE  \E d : /\ DOMAIN d \subseteq Prefs /\ \A p \in DOMAIN d : d[p] \in Texts
                    /\ Put(w, d)
  BY <1>3, RotateAssumption
<1> QED
  BY <1>1, <1>2, <1>3 DEF Work

LEMMA WorkType == ASSUME PrefsTypeOK, NEW w \in Workers, Work(w) PROVE PrefsTypeOK'
<1>1. ASSUME NEW p \in Prefs, GetHit(w, p) PROVE PrefsTypeOK'
  <2>1. Clear(cache[p]) \in BOOLEAN /\ cache[p].val \in Texts
    BY DEF Clear, PrefsTypeOK, Entries
  <2> QED
    BY <1>1, <2>1, WorkerFields DEF GetHit, PrefsTypeOK, WorkerStates
<1>2. ASSUME NEW p \in Prefs, GetMiss(w, p) PROVE PrefsTypeOK'
  <2>1. db[p].val \in Texts
    BY DEF PrefsTypeOK, Cells
  <2> QED
    BY <1>2, <2>1, WorkerFields DEF GetMiss, PrefsTypeOK, WorkerStates
<1>3. ASSUME Fill(w) PROVE PrefsTypeOK'
  <2>1. [val |-> worker[w].val, key |-> Tag(worker[w].pref, worker[w].key), depth |-> 1] \in Entries
    BY <1>3, WorkerFields DEF Fill, Tag, Entries
  <2>2. worker' \in [Workers -> WorkerStates]
    BY <1>3, WorkerFields DEF Fill, PrefsTypeOK, WorkerStates
  <2> QED
    BY <1>3, <2>1, <2>2, WorkerFields DEF Fill, PrefsTypeOK
<1>4. ASSUME Answer(w) PROVE PrefsTypeOK'
  BY <1>4, WorkerFields DEF Answer, Rest, PrefsTypeOK, WorkerStates
<1>5. ASSUME RegeneratePub(w) PROVE PrefsTypeOK'
  <2>1. [p \in {Pub} |-> Visible(Priv).val] \in Todos
    BY TodoType, VisibleType, PreferencesAssumption
  <2>2. worker' \in [Workers -> WorkerStates]
    BY <1>5, <2>1, WorkerFields DEF RegeneratePub, PrefsTypeOK, WorkerStates
  <2> QED
    BY <1>5, <2>2 DEF RegeneratePub, PrefsTypeOK
<1>6. ASSUME Through(w) PROVE PrefsTypeOK'
  <2>1. [val |-> worker[w].val, key |-> Tag(worker[w].pref, worker[w].key), depth |-> 2] \in Entries
    BY <1>6, WorkerFields DEF Through, Tag, Entries
  <2>2. Remaining(w) \in Todos
    BY <1>6, RemainingType DEF Through
  <2>3. worker' \in [Workers -> WorkerStates]
    BY <1>6, <2>2, WorkerFields DEF Through, PrefsTypeOK, WorkerStates, Rest
  <2> QED
    BY <1>6, <2>1, <2>3, WorkerFields DEF Through, PrefsTypeOK
<1>7. ASSUME WorkerDies(w) PROVE PrefsTypeOK'
  <2>1. worker' \in [Workers -> WorkerStates]
    BY <1>7, WorkerFields DEF WorkerDies, PrefsTypeOK, WorkerStates, Rest
  <2>2. disturbed' \in BOOLEAN
    BY <1>7 DEF WorkerDies, PrefsTypeOK, Pending
  <2> QED
    BY <1>7, <2>1, <2>2, WorkerFields DEF WorkerDies, PrefsTypeOK
<1>8. ASSUME NEW data, DOMAIN data \subseteq Prefs, \A p \in DOMAIN data : data[p] \in Texts, Put(w, data)
      PROVE  PrefsTypeOK'
  BY <1>8, PutType
<1>9. ASSUME NEW p \in Prefs, SaveValue(w, p) PROVE PrefsTypeOK'
  <2> DEFINE todo == worker[w].todo
             rest == [q \in DOMAIN todo \ {p} |-> todo[q]]
  <2>1. worker[w].pc = "save" /\ todo \in Todos /\ p \in DOMAIN todo /\ worker[w].key \in Keys
    BY <1>9, WorkerFields DEF SaveValue, IsNext
  <2>2. todo[p] \in Texts /\ rest \in Todos
    BY <2>1, TodoType
  <2>3. CASE Readable(db[p].key, worker[w].key)
    <3>1. /\ db' = [db EXCEPT ![p] = [val |-> todo[p], key |-> Tag(p, worker[w].key)]]
          /\ worker' = [Overtake(w, p) EXCEPT ![w] =
               [pc |-> "through", key |-> worker[w].key, pref |-> p, val |-> todo[p], late |-> FALSE, todo |-> rest]]
          /\ disturbed' = IF p = Priv THEN \E u \in Workers \ {w} : Pending(u) ELSE disturbed
          /\ UNCHANGED <<cache, late>>
      BY <1>9, <2>3 DEF SaveValue
    <3> HIDE DEF todo, rest
    <3>2. db' \in [Prefs \cup Rows -> Cells]
      BY <2>1, <2>2, <3>1 DEF PrefsTypeOK, Cells, Tag
    <3>3. worker' \in [Workers -> WorkerStates]
      BY <2>1, <2>2, <3>1, OvertakeType DEF WorkerStates
    <3>4. disturbed' \in BOOLEAN
      <4>1. CASE p = Priv
        BY <3>1, <4>1, Zenon
      <4>2. CASE p # Priv
        BY <3>1, <4>2 DEF PrefsTypeOK
      <4> QED
        BY <4>1, <4>2
    <3> QED
      BY <3>1, <3>2, <3>3, <3>4 DEF PrefsTypeOK
  <2>4. CASE ~Readable(db[p].key, worker[w].key)
    <3>1. /\ worker' = [worker EXCEPT ![w] = [pc |-> "corrupt", key |-> worker[w].key]]
          /\ UNCHANGED <<db, cache, late, disturbed>>
      BY <1>9, <2>4 DEF SaveValue
    <3> HIDE DEF todo, rest
    <3> QED
      BY <2>1, <3>1 DEF PrefsTypeOK, WorkerStates
  <2> QED
    BY <2>3, <2>4
<1> QED
  BY <1>1, <1>2, <1>3, <1>4, <1>5, <1>6, <1>7, <1>8, <1>9, WorkCases

LEMMA RunningFields ==
  ASSUME RotateTypeOK, Running
  PROVE  /\ rotation \in Rotations(DOMAIN rotation.page, DOMAIN rotation.txn)
         /\ DOMAIN rotation.page \in SUBSET Secrets /\ DOMAIN rotation.txn \in SUBSET Secrets
         /\ rotation.old \in Keys /\ rotation.new \in Keys /\ rotation.pos \in Nat
         /\ rotation.custom \in BOOLEAN /\ rotation.dry \in BOOLEAN
         /\ rotation.page \in [DOMAIN rotation.page -> Cells]
         /\ rotation.txn \in [DOMAIN rotation.txn -> Cells]
<1>1. PICK read \in SUBSET Secrets, written \in SUBSET Secrets : rotation \in Rotations(read, written)
  BY DEF RotateTypeOK, Running, NotRunning
<1>2. DOMAIN rotation.page = read /\ DOMAIN rotation.txn = written
  BY <1>1 DEF Rotations
<1> QED
  BY <1>1, <1>2 DEF Rotations

LEMMA EndedFields ==
  ASSUME RotateTypeOK, rotation.pc = "ended"
  PROVE  rotation.new \in Keys /\ rotation.ok \in BOOLEAN
  BY DEF RotateTypeOK, NotRunning, Rotations

LEMMA InTxnType ==
  ASSUME RotateTypeOK, Running, NEW i \in Secrets
  PROVE  InTxn(i) \in Cells
  BY RunningFields DEF InTxn, RotateTypeOK, PrefsTypeOK, Secrets

LEMMA PageRows ==
  /\ \A i \in ColumnPage : i \in Secrets
  /\ \A i \in ConfigPage : i \in Secrets
  /\ \A i \in PreferencePage : i \in Secrets
  BY RotateAssumption DEF ColumnPage, ConfigPage, PreferencePage, After, Columns, Configs, SetOf, Secrets

LEMMA FetchType ==
  ASSUME RotateTypeOK, Running, NEW page \in SUBSET Secrets, NEW size \in Nat,
         NEW next \in {"configs", "preferences", "flush"}, Fetch(page, size, next)
  PROVE  RotateTypeOK'
<1>1. CASE page = {}
  <2>1. rotation' \in Rotations(DOMAIN rotation.page, DOMAIN rotation.txn)
    BY <1>1, RunningFields DEF Fetch, Rotations
  <2> QED
    BY <2>1, RunningFields DEF Fetch, RotateTypeOK, PrefsTypeOK, prefVars, Secrets
<1>2. CASE page # {}
  <2>1. [i \in page |-> InTxn(i)] \in [page -> Cells]
    BY InTxnType
  <2> DEFINE rows == [i \in page |-> InTxn(i)]
  <2>2. rotation' = [rotation EXCEPT !.page = rows, !.pos = rotation.pos + size] /\ rotation.pos + size \in Nat
    BY <1>2, RunningFields DEF Fetch
  <2> HIDE DEF rows
  <2>3. rotation' \in Rotations(page, DOMAIN rotation.txn)
    BY <2>1, <2>2, RunningFields DEF Rotations, rows
  <2> QED
    BY <2>3, RunningFields DEF Fetch, RotateTypeOK, PrefsTypeOK, prefVars, Secrets
<1> QED
  BY <1>1, <1>2

(* What a page becomes, and which of its rows are written. *)
NewRow(i) == ReencryptFields(i, rotation.page[i])
ChangedRows == {i \in DOMAIN rotation.page : ~rotation.dry /\ NewRow(i) # rotation.page[i]}

LEMMA ReencryptEffect ==
  ASSUME RotateTypeOK, ReencryptRows
  PROVE  /\ \A i \in DOMAIN rotation.page : NewRow(i) \in Cells
         /\ Running
         /\ rotation' = [rotation EXCEPT !.page = NoRows, !.txn = rotation'.txn]
         /\ DOMAIN rotation'.txn = DOMAIN rotation.txn \cup ChangedRows
         /\ \A i \in ChangedRows : rotation'.txn[i] = NewRow(i)
         /\ \A i \in DOMAIN rotation.txn \ ChangedRows : rotation'.txn[i] = rotation.txn[i]
         /\ rotation' \in Rotations({}, DOMAIN rotation.txn \cup ChangedRows)
         /\ UNCHANGED <<db, cache, worker, late, disturbed, deployed, known, orderly>>
<1>1. Running
  BY DEF ReencryptRows
<1>2. \A i \in DOMAIN rotation.page : NewRow(i) \in Cells
  BY <1>1, RunningFields DEF NewRow, ReencryptFields, ReencryptValue, Cells
<1> DEFINE txn == [i \in DOMAIN rotation.txn \cup ChangedRows |->
                    IF i \in ChangedRows THEN NewRow(i) ELSE rotation.txn[i]]
<1>3. rotation' = [rotation EXCEPT !.page = NoRows, !.txn = txn]
  <2> DEFINE new == [i \in DOMAIN rotation.page |-> ReencryptFields(i, rotation.page[i])]
             changed == {i \in DOMAIN rotation.page : ~rotation.dry /\ new[i] # rotation.page[i]}
  <2>1. changed = ChangedRows
    BY DEF ChangedRows, NewRow
  <2>2. \A i \in ChangedRows : new[i] = NewRow(i)
    BY DEF ChangedRows, NewRow
  <2>3. rotation' = [rotation EXCEPT !.page = NoRows,
          !.txn = [i \in DOMAIN rotation.txn \cup changed |-> IF i \in changed THEN new[i] ELSE rotation.txn[i]]]
    BY DEF ReencryptRows
  <2> HIDE DEF new, changed
  <2>4. [i \in DOMAIN rotation.txn \cup changed |-> IF i \in changed THEN new[i] ELSE rotation.txn[i]] = txn
    BY <2>1, <2>2
  <2> QED
    BY <2>3, <2>4
<1>4. txn \in [DOMAIN rotation.txn \cup ChangedRows -> Cells]
  BY <1>1, <1>2, RunningFields DEF ChangedRows
<1>5. NoRows \in [{} -> Cells]
  BY DEF NoRows
<1>6. /\ DOMAIN txn = DOMAIN rotation.txn \cup ChangedRows
      /\ \A i \in ChangedRows : txn[i] = NewRow(i)
      /\ \A i \in DOMAIN rotation.txn \ ChangedRows : txn[i] = rotation.txn[i]
  OBVIOUS
<1> HIDE DEF txn
<1>7. rotation'.txn = txn /\ rotation' \in Rotations({}, DOMAIN rotation.txn \cup ChangedRows)
  BY <1>1, <1>3, <1>4, <1>5, RunningFields DEF Rotations
<1>8. UNCHANGED <<db, cache, worker, late, disturbed, deployed, known, orderly>>
  BY DEF ReencryptRows, prefVars
<1> QED
  BY <1>1, <1>2, <1>3, <1>6, <1>7, <1>8

LEMMA RotateTypeStep == RotateTypeOK /\ [RotateNext]_allVars => RotateTypeOK'
<1> SUFFICES ASSUME RotateTypeOK, [RotateNext]_allVars PROVE RotateTypeOK'
  OBVIOUS
<1>1. ASSUME NEW custom \in BOOLEAN, NEW dry \in BOOLEAN, Begin(custom, dry) PROVE RotateTypeOK'
  <2>1. PICK new \in Keys \ {deployed} :
          /\ rotation' = [pc |-> "columns", old |-> deployed, new |-> new, custom |-> custom,
                          dry |-> dry, pos |-> 0, page |-> NoRows, txn |-> NoRows]
          /\ known' = IF custom THEN known \cup {new} ELSE known
    BY <1>1 DEF Begin
  <2>2. NoRows \in [{} -> Cells]
    BY DEF NoRows
  <2>3. rotation' \in Rotations({}, {})
    BY <2>1, <2>2 DEF Rotations, RotateTypeOK
  <2>4. orderly' \in BOOLEAN
    BY <1>1 DEF Begin, RotateTypeOK
  <2> QED
    BY <1>1, <2>1, <2>3, <2>4 DEF Begin, RotateTypeOK, PrefsTypeOK, prefVars, Secrets
<1>2. ASSUME RotateEncryptedFields PROVE RotateTypeOK'
  BY <1>2, PageRows, FetchType, RotateAssumption DEF RotateEncryptedFields, Running
<1>3. ASSUME RotateAuthenticatorConfigs PROVE RotateTypeOK'
  BY <1>3, PageRows, FetchType, RotateAssumption DEF RotateAuthenticatorConfigs, Running
<1>4. ASSUME RotatePreferences PROVE RotateTypeOK'
  BY <1>4, PageRows, FetchType, RotateAssumption DEF RotatePreferences, Running
<1>5. ASSUME ReencryptRows PROVE RotateTypeOK'
  <2>1. DOMAIN rotation.txn \cup ChangedRows \in SUBSET Secrets
    BY <1>5, ReencryptEffect, RunningFields DEF ChangedRows
  <2> QED
    BY <1>5, <2>1, ReencryptEffect DEF RotateTypeOK, PrefsTypeOK, Secrets
<1>6. ASSUME FlushCache PROVE RotateTypeOK'
  <2>1. Running
    BY <1>6 DEF FlushCache, Running
  <2>2. rotation' \in Rotations(DOMAIN rotation.page, DOMAIN rotation.txn)
    BY <1>6, <2>1, RunningFields DEF FlushCache, Rotations
  <2>3. cache' \in [Prefs -> Entries] /\ late' \subseteq Prefs
    BY <1>6 DEF FlushCache, RotateTypeOK, PrefsTypeOK, Missing, Entries, Texts
  <2> QED
    BY <1>6, <2>1, <2>2, <2>3, RunningFields DEF FlushCache, RotateTypeOK, PrefsTypeOK, Secrets
<1>7. ASSUME FlushRefused PROVE RotateTypeOK'
  <2>1. Running
    BY <1>7 DEF FlushRefused, Running
  <2>2. rotation' \in Rotations(DOMAIN rotation.page, DOMAIN rotation.txn)
    BY <1>7, <2>1, RunningFields DEF FlushRefused, Rotations
  <2>3. orderly' \in BOOLEAN
    BY <1>7 DEF FlushRefused, RotateTypeOK
  <2> QED
    BY <1>7, <2>1, <2>2, <2>3, RunningFields DEF FlushRefused, RotateTypeOK, PrefsTypeOK, prefVars, Secrets
<1>8. ASSUME PrintKey PROVE RotateTypeOK'
  <2>1. Running
    BY <1>8 DEF PrintKey, Running
  <2>2. rotation' \in Rotations(DOMAIN rotation.page, DOMAIN rotation.txn)
    BY <1>8, <2>1, RunningFields DEF PrintKey, Rotations
  <2> QED
    BY <1>8, <2>1, <2>2, RunningFields DEF PrintKey, RotateTypeOK, PrefsTypeOK, prefVars, Secrets
<1>9. ASSUME Commit PROVE RotateTypeOK'
  <2>1. Running
    BY <1>9 DEF Commit, Running
  <2>2. rotation' \in [pc : {"ended"}, new : Keys, ok : BOOLEAN]
    BY <1>9, <2>1, RunningFields DEF Commit
  <2>3. db' \in [Prefs \cup Rows -> Cells]
    BY <1>9, <2>1, InTxnType DEF Commit, RotateTypeOK, PrefsTypeOK, Secrets
  <2>4. \A v \in Workers : worker[v].pc \in {"fill", "through"} => [worker[v] EXCEPT !.late = TRUE] \in WorkerStates
    BY WorkerFields DEF WorkerStates, RotateTypeOK
  <2>5. worker' \in [Workers -> WorkerStates]
    BY <1>9, <2>4 DEF Commit, RotateTypeOK, PrefsTypeOK
  <2>6. late' \subseteq Prefs /\ disturbed' \in BOOLEAN
    BY <1>9 DEF Commit, RotateTypeOK, PrefsTypeOK
  <2> QED
    BY <1>9, <2>2, <2>3, <2>5, <2>6 DEF Commit, RotateTypeOK, PrefsTypeOK
<1>10. ASSUME RotationFails PROVE RotateTypeOK'
  <2>1. rotation' \in [pc : {"ended"}, new : Keys, ok : BOOLEAN]
    BY <1>10, RunningFields DEF RotationFails
  <2> QED
    BY <1>10, <2>1 DEF RotationFails, RotateTypeOK, PrefsTypeOK, prefVars
<1>11. ASSUME UpdateSecret PROVE RotateTypeOK'
  BY <1>11, EndedFields DEF UpdateSecret, RotateTypeOK, PrefsTypeOK, prefVars, Secrets
<1>12. ASSUME Restart PROVE RotateTypeOK'
  BY <1>12 DEF Restart, Rest, RotateTypeOK, PrefsTypeOK, rotVars, WorkerStates, Secrets
<1>13. ASSUME NEW w \in Workers, Traffic(w) PROVE RotateTypeOK'
  <2>1. PrefsTypeOK'
    BY <1>13, WorkType DEF Traffic, RotateTypeOK
  <2>2. orderly' \in BOOLEAN
    BY <1>13 DEF Traffic, RotateTypeOK
  <2> QED
    BY <1>13, <2>1, <2>2 DEF Traffic, RotateTypeOK, Secrets
<1>14. ASSUME NEW p \in Prefs, Expire(p), UNCHANGED rotVars PROVE RotateTypeOK'
  <2>1. PrefsTypeOK'
    BY <1>14 DEF Expire, RotateTypeOK, PrefsTypeOK, Missing, Entries, Texts
  <2> QED
    BY <1>14, <2>1 DEF rotVars, RotateTypeOK, Secrets
<1>15. CASE UNCHANGED allVars
  BY <1>15 DEF allVars, prefVars, rotVars, RotateTypeOK, PrefsTypeOK, Secrets
<1> QED
  BY <1>1, <1>2, <1>3, <1>4, <1>5, <1>6, <1>7, <1>8, <1>9, <1>10, <1>11, <1>12, <1>13, <1>14, <1>15
     DEF RotateNext

-----------------------------------------------------------------------------
(* The settings: late writers and the key pair.                            *)

(* What a step of a worker does to the rows, the cache and the keys.       *)
LEMMA WorkEffect ==
  ASSUME PrefsTypeOK, NEW w \in Workers, Work(w)
  PROVE  /\ \A v \in Workers : worker'[v].key = worker[v].key
         /\ \A i \in Prefs \cup Rows :
              db'[i].key = db[i].key \/ (i \in Prefs /\ db'[i].key = Tag(i, worker[w].key))
         /\ \A p \in Prefs : cache'[p] = cache[p] \/ cache'[p].key = Tag(p, worker[w].key)
<1>1. ASSUME NEW p \in Prefs, GetHit(w, p) \/ GetMiss(w, p)
      PROVE  (\A v \in Workers : worker'[v].key = worker[v].key) /\ UNCHANGED <<db, cache>>
  BY <1>1 DEF GetHit, GetMiss, PrefsTypeOK
<1>2. ASSUME Fill(w) \/ Through(w) PROVE
        /\ \A v \in Workers : worker'[v].key = worker[v].key
        /\ UNCHANGED db
        /\ \A p \in Prefs : cache'[p] = cache[p] \/ cache'[p].key = Tag(p, worker[w].key)
  BY <1>2 DEF Fill, Through, Rest, PrefsTypeOK
<1>3. ASSUME Answer(w) \/ RegeneratePub(w) \/ WorkerDies(w)
      PROVE  (\A v \in Workers : worker'[v].key = worker[v].key) /\ UNCHANGED <<db, cache>>
  BY <1>3 DEF Answer, RegeneratePub, WorkerDies, Rest, PrefsTypeOK
<1>4. ASSUME NEW data, Put(w, data)
      PROVE  (\A v \in Workers : worker'[v].key = worker[v].key) /\ UNCHANGED <<db, cache>>
  BY <1>4 DEF Put, PrefsTypeOK
<1>5. ASSUME NEW p \in Prefs, SaveValue(w, p) PROVE
        /\ \A v \in Workers : worker'[v].key = worker[v].key
        /\ UNCHANGED cache
        /\ \A i \in Prefs \cup Rows :
              db'[i].key = db[i].key \/ (i \in Prefs /\ db'[i].key = Tag(i, worker[w].key))
  <2>1. \A v \in Workers : Overtake(w, p)[v].key = worker[v].key
    BY WorkerFields DEF Overtake
  <2>2. DOMAIN Overtake(w, p) = Workers
    BY DEF Overtake
  <2>3. CASE Readable(db[p].key, worker[w].key)
    <3>1. PICK v, todo :
            /\ db' = [db EXCEPT ![p] = [val |-> v, key |-> Tag(p, worker[w].key)]]
            /\ worker' = [Overtake(w, p) EXCEPT ![w] = [pc |-> "through", key |-> worker[w].key, pref |-> p,
                                                       val |-> v, late |-> FALSE, todo |-> todo]]
            /\ UNCHANGED cache
      BY <1>5, <2>3 DEF SaveValue
    <3> QED
      BY <2>1, <2>2, <3>1 DEF PrefsTypeOK
  <2>4. CASE ~Readable(db[p].key, worker[w].key)
    <3>1. /\ worker' = [worker EXCEPT ![w] = [pc |-> "corrupt", key |-> worker[w].key]]
          /\ UNCHANGED <<db, cache>>
      BY <1>5, <2>4 DEF SaveValue
    <3> QED
      BY <3>1 DEF PrefsTypeOK
  <2> QED
    BY <2>3, <2>4
<1> QED
  BY <1>1, <1>2, <1>3, <1>4, <1>5, WorkCases

(* The value that v holds is found to be an old one; nothing else of v     *)
(* changes.                                                                *)
Delayed(v) ==
  /\ worker[v].pc \in {"fill", "through"} /\ worker'[v].late
  /\ worker'[v].pc = worker[v].pc /\ worker'[v].pref = worker[v].pref
  /\ worker'[v].val = worker[v].val /\ worker'[v].key = worker[v].key
  /\ worker[v].pc = "through" => worker'[v].todo = worker[v].todo

LEMMA DelayedFields ==
  ASSUME PrefsTypeOK, NEW v \in Workers, worker[v].pc \in {"fill", "through"},
         worker'[v] = [worker[v] EXCEPT !.late = TRUE]
  PROVE  Delayed(v)
<1>1. CASE worker[v].pc = "fill"
  BY <1>1, WorkerFields DEF Delayed
<1>2. CASE worker[v].pc = "through"
  BY <1>2, WorkerFields DEF Delayed
<1> QED
  BY <1>1, <1>2

(* A row is saved: what it becomes, and what becomes of the workers.       *)
LEMMA SaveEffect ==
  ASSUME PrefsTypeOK, NEW w \in Workers, NEW p \in Prefs, SaveValue(w, p),
         Readable(db[p].key, worker[w].key)
  PROVE  /\ worker[w].pc = "save" /\ worker[w].todo \in Todos /\ p \in DOMAIN worker[w].todo
         /\ Pub \in DOMAIN worker[w].todo => p = Pub
         /\ db'[p].val = worker[w].todo[p]
         /\ \A i \in (Prefs \cup Rows) \ {p} : db'[i] = db[i]
         /\ worker'[w].pc = "through" /\ worker'[w].pref = p /\ worker'[w].val = worker[w].todo[p]
         /\ DOMAIN worker'[w].todo = DOMAIN worker[w].todo \ {p}
         /\ \A v \in Workers \ {w} :
              IF worker[v].pc \in {"fill", "through"} /\ worker[v].pref = p
                THEN Delayed(v) ELSE worker'[v] = worker[v]
         /\ p = Priv => (disturbed' <=> \E u \in Workers \ {w} : Pending(u))
         /\ p # Priv => disturbed' = disturbed
         /\ UNCHANGED <<cache, late>>
<1> DEFINE todo == worker[w].todo
           rest == [q \in DOMAIN todo \ {p} |-> todo[q]]
<1>1. /\ worker[w].pc = "save" /\ p \in DOMAIN todo /\ (Pub \in DOMAIN todo => p = Pub)
      /\ db' = [db EXCEPT ![p] = [val |-> todo[p], key |-> Tag(p, worker[w].key)]]
      /\ worker' = [Overtake(w, p) EXCEPT ![w] =
               [pc |-> "through", key |-> worker[w].key, pref |-> p, val |-> todo[p], late |-> FALSE, todo |-> rest]]
      /\ disturbed' = IF p = Priv THEN \E u \in Workers \ {w} : Pending(u) ELSE disturbed
      /\ UNCHANGED <<cache, late>>
  BY DEF SaveValue, IsNext
<1>2. worker[w].todo \in Todos
  BY <1>1, WorkerFields
<1>3. DOMAIN rest = DOMAIN todo \ {p}
  OBVIOUS
<1>4. \A v \in Workers \ {w} :
        IF worker[v].pc \in {"fill", "through"} /\ worker[v].pref = p
          THEN Overtake(w, p)[v] = [worker[v] EXCEPT !.late = TRUE] ELSE Overtake(w, p)[v] = worker[v]
  BY DEF Overtake
<1>5. DOMAIN Overtake(w, p) = Workers
  BY DEF Overtake
<1> HIDE DEF todo, rest
<1>6. /\ p = Priv => (disturbed' <=> \E u \in Workers \ {w} : Pending(u))
      /\ p # Priv => disturbed' = disturbed
  BY <1>1, Zenon
<1>7. \A v \in Workers \ {w} : worker'[v] = Overtake(w, p)[v]
  BY <1>1, <1>5
<1>8. /\ worker'[w].pc = "through" /\ worker'[w].pref = p /\ worker'[w].val = todo[p] /\ worker'[w].todo = rest
  BY <1>1, <1>5
<1>9. db'[p].val = todo[p] /\ \A i \in (Prefs \cup Rows) \ {p} : db'[i] = db[i]
  BY <1>1 DEF PrefsTypeOK
<1>10. \A v \in Workers \ {w} :
         IF worker[v].pc \in {"fill", "through"} /\ worker[v].pref = p
           THEN Delayed(v) ELSE worker'[v] = worker[v]
  BY <1>4, <1>7, DelayedFields
<1> QED
  BY <1>1, <1>2, <1>3, <1>6, <1>8, <1>9, <1>10 DEF todo

LEMMA LateInit == RotateInit => HeldIsCurrent /\ StaleOnlyIfLate
  BY DEF RotateInit, PrefsInit, HeldIsCurrent, StaleOnlyIfLate, Rest

(* A worker that saves a row holds what it has saved, and whoever held an  *)
(* older value is late from then on.                                       *)
LEMMA LateWork ==
  ASSUME PrefsTypeOK, HeldIsCurrent, StaleOnlyIfLate, NEW w \in Workers, Work(w)
  PROVE  HeldIsCurrent' /\ StaleOnlyIfLate'
<1> USE DEF HeldIsCurrent, StaleOnlyIfLate
<1>1. ASSUME NEW p \in Prefs, GetHit(w, p) PROVE HeldIsCurrent' /\ StaleOnlyIfLate'
  BY <1>1 DEF GetHit, PrefsTypeOK
<1>2. ASSUME NEW p \in Prefs, GetMiss(w, p) PROVE HeldIsCurrent' /\ StaleOnlyIfLate'
  BY <1>2 DEF GetMiss, PrefsTypeOK
<1>3. ASSUME Fill(w) PROVE HeldIsCurrent' /\ StaleOnlyIfLate'
  <2>1. /\ UNCHANGED db /\ worker[w].pc = "fill" /\ worker[w].pref \in Prefs
        /\ worker'[w].pc = "served" /\ \A v \in Workers \ {w} : worker'[v] = worker[v]
        /\ cache'[worker[w].pref].val = worker[w].val
        /\ \A p \in Prefs \ {worker[w].pref} : cache'[p] = cache[p] /\ (p \in late => p \in late')
        /\ worker[w].late => worker[w].pref \in late'
    BY <1>3, WorkerFields DEF Fill, PrefsTypeOK
  <2> QED
    BY <2>1
<1>4. ASSUME Answer(w) \/ RegeneratePub(w) PROVE HeldIsCurrent' /\ StaleOnlyIfLate'
  <2>1. UNCHANGED <<db, cache, late>>
    BY <1>4 DEF Answer, RegeneratePub
  <2>2. /\ worker[w].pc \in {"served", "corrupt"} /\ worker'[w].pc \in {"idle", "save"}
        /\ \A v \in Workers \ {w} : worker'[v] = worker[v]
    BY <1>4 DEF Answer, RegeneratePub, Rest, PrefsTypeOK
  <2> QED
    BY <2>1, <2>2
<1>5. ASSUME Through(w) PROVE HeldIsCurrent' /\ StaleOnlyIfLate'
  <2>1. /\ UNCHANGED db /\ worker[w].pc = "through" /\ worker[w].pref \in Prefs
        /\ worker'[w].pc \in {"idle", "save"} /\ \A v \in Workers \ {w} : worker'[v] = worker[v]
        /\ cache'[worker[w].pref].val = worker[w].val
        /\ \A p \in Prefs \ {worker[w].pref} : cache'[p] = cache[p] /\ (p \in late => p \in late')
        /\ worker[w].late => worker[w].pref \in late'
    BY <1>5, WorkerFields DEF Through, Rest, PrefsTypeOK
  <2> QED
    BY <2>1
<1>6. ASSUME WorkerDies(w) PROVE HeldIsCurrent' /\ StaleOnlyIfLate'
  <2>1. /\ UNCHANGED <<db, cache>> /\ late \subseteq late'
        /\ worker[w].pc = "through" => worker[w].pref \in late'
        /\ worker'[w].pc = "idle" /\ \A v \in Workers \ {w} : worker'[v] = worker[v]
    BY <1>6 DEF WorkerDies, Rest, PrefsTypeOK
  <2> QED
    BY <2>1
<1>7. ASSUME NEW data, Put(w, data) PROVE HeldIsCurrent' /\ StaleOnlyIfLate'
  <2>1. /\ UNCHANGED <<db, cache, late>> /\ worker[w].pc = "idle" /\ worker'[w].pc = "save"
        /\ \A v \in Workers \ {w} : worker'[v] = worker[v]
    BY <1>7 DEF Put, PrefsTypeOK
  <2> QED
    BY <2>1
<1>8. ASSUME NEW p \in Prefs, SaveValue(w, p) PROVE HeldIsCurrent' /\ StaleOnlyIfLate'
  <2>1. CASE Readable(db[p].key, worker[w].key)
    <3>1. HeldIsCurrent'
      <4> SUFFICES ASSUME NEW v \in Workers, worker'[v].pc \in {"fill", "through"}, ~worker'[v].late
                   PROVE  worker'[v].val = db'[worker'[v].pref].val
        OBVIOUS
      <4>1. CASE v = w
        BY <1>8, <2>1, <4>1, SaveEffect
      <4>2. CASE v # w
        <5>1. ~(worker[v].pc \in {"fill", "through"} /\ worker[v].pref = p)
          BY <1>8, <2>1, <4>2, SaveEffect DEF Delayed
        <5>2. worker'[v] = worker[v]
          BY <1>8, <2>1, <4>2, <5>1, SaveEffect
        <5>3. worker[v].pref \in Prefs \ {p}
          BY <5>1, <5>2, WorkerFields
        <5>4. db'[worker[v].pref] = db[worker[v].pref]
          BY <1>8, <2>1, <5>3, SaveEffect
        <5> QED
          BY <5>2, <5>4
      <4> QED
        BY <4>1, <4>2
    <3>2. ASSUME NEW v \in Workers \ {w}, worker[v].pc = "through"
          PROVE  worker'[v].pc = "through" /\ worker'[v].pref = worker[v].pref
      BY <1>8, <2>1, <3>2, SaveEffect DEF Delayed
    <3>3. StaleOnlyIfLate'
      <4> SUFFICES ASSUME NEW q \in Prefs
                   PROVE  \/ cache'[q] = Missing \/ cache'[q].val = db'[q].val \/ q \in late'
                          \/ \E v \in Workers : worker'[v].pc = "through" /\ worker'[v].pref = q
        BY DEF Missing
      <4>1. CASE q = p
        BY <1>8, <2>1, <4>1, SaveEffect
      <4>2. CASE q # p
        <5>1. db'[q] = db[q] /\ cache' = cache /\ late' = late /\ worker[w].pc = "save"
          BY <1>8, <2>1, <4>2, SaveEffect
        <5> QED
          BY <3>2, <5>1
      <4> QED
        BY <4>1, <4>2
    <3> QED
      BY <3>1, <3>3
  <2>2. CASE ~Readable(db[p].key, worker[w].key)
    <3>1. /\ worker' = [worker EXCEPT ![w] = [pc |-> "corrupt", key |-> worker[w].key]]
          /\ UNCHANGED <<db, cache, late>> /\ worker[w].pc = "save"
      BY <1>8, <2>2 DEF SaveValue
    <3> QED
      BY <3>1 DEF PrefsTypeOK
  <2> QED
    BY <2>1, <2>2
<1> QED
  BY <1>1, <1>2, <1>3, <1>4, <1>5, <1>6, <1>7, <1>8, WorkCases

(* The transaction overwrites what was saved after it had read the row:    *)
(* the setting counts as late.                                             *)
LEMMA CommitEffect ==
  ASSUME RotateTypeOK, Commit
  PROVE  /\ Running /\ rotation.pc = "commit" /\ rotation'.pc = "ended"
         /\ rotation'.new = rotation.new /\ rotation'.ok = ~rotation.dry
         /\ \A i \in Secrets : db'[i] = InTxn(i)
         /\ \A p \in Prefs : InTxn(p).val # db[p].val => p \in late'
         /\ late \subseteq late' /\ (disturbed => disturbed')
         /\ InTxn(Priv).val # db[Priv].val => disturbed'
         /\ \A w \in Workers :
              \/ worker'[w] = worker[w] /\ (worker[w].pc \in {"fill", "through"} =>
                                              InTxn(worker[w].pref).val = db[worker[w].pref].val)
              \/ Delayed(w)
         /\ UNCHANGED <<cache, deployed, known, orderly>>
<1> DEFINE lost == {p \in Prefs : InTxn(p).val # db[p].val}
<1>1. /\ rotation.pc = "commit"
      /\ db' = [i \in DOMAIN db |-> InTxn(i)]
      /\ late' = late \cup lost
      /\ disturbed' = (disturbed \/ Priv \in lost)
      /\ worker' = [w \in Workers |->
           IF worker[w].pc \in {"fill", "through"} /\ worker[w].pref \in lost
             THEN [worker[w] EXCEPT !.late = TRUE] ELSE worker[w]]
      /\ rotation' = [pc |-> "ended", new |-> rotation.new, ok |-> ~rotation.dry]
      /\ UNCHANGED <<cache, deployed, known, orderly>>
  BY DEF Commit
<1>2. \A p \in Prefs : p \in lost <=> InTxn(p).val # db[p].val
  OBVIOUS
<1> HIDE DEF lost
<1>3. Running
  BY <1>1 DEF Running
<1>4. \A i \in Secrets : db'[i] = InTxn(i)
  BY <1>1 DEF RotateTypeOK, PrefsTypeOK, Secrets
<1>5. (disturbed => disturbed') /\ (InTxn(Priv).val # db[Priv].val => disturbed')
  BY <1>1, <1>2, PreferencesAssumption
<1>6. ASSUME NEW w \in Workers
      PROVE  \/ worker'[w] = worker[w] /\ (worker[w].pc \in {"fill", "through"} =>
                                              InTxn(worker[w].pref).val = db[worker[w].pref].val)
             \/ Delayed(w)
  <2>1. CASE worker[w].pc \in {"fill", "through"} /\ worker[w].pref \in lost
    BY <1>1, <2>1, DelayedFields DEF RotateTypeOK
  <2>2. CASE ~(worker[w].pc \in {"fill", "through"} /\ worker[w].pref \in lost)
    BY <1>1, <1>2, <2>2, WorkerFields DEF RotateTypeOK
  <2> QED
    BY <2>1, <2>2
<1>7. \A p \in Prefs : InTxn(p).val # db[p].val => p \in late'
  BY <1>1, <1>2
<1> QED
  BY <1>1, <1>3, <1>4, <1>5, <1>6, <1>7

LEMMA LateStep ==
  RotateTypeOK /\ HeldIsCurrent /\ StaleOnlyIfLate /\ [RotateNext]_allVars
    => HeldIsCurrent' /\ StaleOnlyIfLate'
<1> SUFFICES ASSUME RotateTypeOK, HeldIsCurrent, StaleOnlyIfLate, [RotateNext]_allVars
             PROVE  HeldIsCurrent' /\ StaleOnlyIfLate'
  OBVIOUS
<1>1. CASE UNCHANGED prefVars
  BY <1>1 DEF HeldIsCurrent, StaleOnlyIfLate, prefVars
<1>2. ASSUME FlushCache PROVE HeldIsCurrent' /\ StaleOnlyIfLate'
  BY <1>2 DEF FlushCache, HeldIsCurrent, StaleOnlyIfLate
<1>3. ASSUME Commit PROVE HeldIsCurrent' /\ StaleOnlyIfLate'
  <2>1. HeldIsCurrent'
    <3> SUFFICES ASSUME NEW w \in Workers, worker'[w].pc \in {"fill", "through"}, ~worker'[w].late
                 PROVE  worker'[w].val = db'[worker'[w].pref].val
      BY DEF HeldIsCurrent
    <3>1. worker'[w] = worker[w] /\ InTxn(worker[w].pref).val = db[worker[w].pref].val
      BY <1>3, CommitEffect DEF Delayed
    <3>2. worker[w].pref \in Secrets
      BY <3>1, WorkerFields DEF RotateTypeOK, Secrets
    <3> QED
      BY <1>3, <3>1, <3>2, CommitEffect DEF HeldIsCurrent
  <2>2. ASSUME NEW p \in Prefs
        PROVE  \/ cache'[p] = Missing \/ cache'[p].val = db'[p].val \/ p \in late'
               \/ \E w \in Workers : worker'[w].pc = "through" /\ worker'[w].pref = p
    <3>1. CASE InTxn(p).val # db[p].val
      BY <1>3, <3>1, CommitEffect
    <3>2. CASE InTxn(p).val = db[p].val
      <4>1. db'[p].val = db[p].val
        BY <1>3, <3>2, CommitEffect DEF Secrets
      <4>2. \A w \in Workers : worker[w].pc = "through" => worker'[w].pc = "through" /\ worker'[w].pref = worker[w].pref
        BY <1>3, CommitEffect DEF Delayed
      <4> QED
        BY <1>3, <4>1, <4>2, CommitEffect DEF StaleOnlyIfLate
    <3> QED
      BY <3>1, <3>2
  <2> QED
    BY <2>1, <2>2 DEF StaleOnlyIfLate, Missing
<1>4. ASSUME Restart PROVE HeldIsCurrent' /\ StaleOnlyIfLate'
  BY <1>4 DEF Restart, Rest, HeldIsCurrent, StaleOnlyIfLate
<1>5. ASSUME NEW w \in Workers, Traffic(w) PROVE HeldIsCurrent' /\ StaleOnlyIfLate'
  BY <1>5, LateWork DEF Traffic, RotateTypeOK
<1>6. ASSUME NEW p \in Prefs, Expire(p) PROVE HeldIsCurrent' /\ StaleOnlyIfLate'
  BY <1>6 DEF Expire, HeldIsCurrent, StaleOnlyIfLate, RotateTypeOK, PrefsTypeOK
<1> QED
  BY <1>1, <1>2, <1>3, <1>4, <1>5, <1>6
     DEF RotateNext, Begin, RotateEncryptedFields, RotateAuthenticatorConfigs, RotatePreferences, Fetch,
         ReencryptRows, FlushRefused, PrintKey, RotationFails, UpdateSecret, allVars

LEMMA SameWorker ==
  ASSUME NEW v \in Workers, worker'[v] = worker[v] \/ Delayed(v)
  PROVE  /\ Pending(v)' <=> Pending(v)
         /\ Pending(v) => PubOf(v)' = PubOf(v)
         /\ worker'[v].pc = "through" => worker[v].pc = "through" /\ worker'[v].todo = worker[v].todo
  BY DEF Pending, PubOf, Delayed

LEMMA PairWork ==
  ASSUME PrefsTypeOK, PairKeys, PubFollows, PairMatches, NEW w \in Workers, Work(w)
  PROVE  PubFollows' /\ PairMatches'
<1>a. Priv # Pub /\ Priv \in Prefs /\ Pub \in Prefs /\ Pub \in ReadOnly
  BY PreferencesAssumption
<1> DEFINE Others == \A v \in Workers \ {w} : worker'[v] = worker[v] \/ Delayed(v)
           Calm == ~Pending(w) /\ ~Pending(w)' /\ worker'[w].pc # "through"
(* A step that does not touch the key pair. *)
<1>b. ASSUME Others, Calm, UNCHANGED disturbed, db'[Priv].val = db[Priv].val, db'[Pub].val = db[Pub].val
      PROVE  PubFollows' /\ PairMatches'
  <2>1. \A v \in Workers : /\ Pending(v)' <=> Pending(v)
                           /\ Pending(v) => PubOf(v)' = PubOf(v)
    BY <1>b, SameWorker
  <2>2. \A v \in Workers : worker'[v].pc = "through" => Pub \notin DOMAIN worker'[v].todo
    BY <1>b, SameWorker DEF PubFollows
  <2> QED
    BY <1>b, <2>1, <2>2 DEF PubFollows, PairMatches
<1>1. ASSUME NEW p \in Prefs, GetHit(w, p) \/ GetMiss(w, p) PROVE PubFollows' /\ PairMatches'
  <2>1. Others /\ Calm
    BY <1>1 DEF GetHit, GetMiss, PrefsTypeOK, Pending
  <2> QED
    BY <1>1, <1>b, <2>1 DEF GetHit, GetMiss
<1>2. ASSUME Fill(w) \/ Answer(w) PROVE PubFollows' /\ PairMatches'
  <2>1. Others /\ Calm
    BY <1>2 DEF Fill, Answer, Rest, PrefsTypeOK, Pending
  <2> QED
    BY <1>2, <1>b, <2>1 DEF Fill, Answer
<1>3. ASSUME NEW data, Put(w, data) PROVE PubFollows' /\ PairMatches'
  <2>1. Pub \notin Changes(data)
    BY <1>3, <1>a DEF Put, Accepted, Changes
  <2>2. Others /\ Calm
    BY <1>3, <2>1 DEF Put, PrefsTypeOK, Pending
  <2> QED
    BY <1>3, <1>b, <2>2 DEF Put
<1>4. ASSUME RegeneratePub(w) PROVE PubFollows' /\ PairMatches'
  <2>1. /\ \A v \in Workers \ {w} : worker'[v] = worker[v]
        /\ worker'[w].pc = "save" /\ Pub \in DOMAIN worker'[w].todo /\ worker'[w].todo[Pub] = Visible(Priv).val
        /\ UNCHANGED db
    BY <1>4 DEF RegeneratePub, PrefsTypeOK
  <2>2. ~disturbed' => ~disturbed /\ Visible(Priv).val = db[Priv].val
    BY <1>4 DEF RegeneratePub
  <2>3. Pending(w)' /\ PubOf(w)' = Visible(Priv).val
    BY <2>1 DEF Pending, PubOf
  <2>4. \A v \in Workers \ {w} : /\ Pending(v)' <=> Pending(v)
                                 /\ Pending(v) => PubOf(v)' = PubOf(v)
    BY <2>1, SameWorker
  <2>5. \A v \in Workers : worker'[v].pc = "through" => Pub \notin DOMAIN worker'[v].todo
    BY <2>1 DEF PubFollows
  <2> QED
    BY <2>1, <2>2, <2>3, <2>4, <2>5 DEF PubFollows, PairMatches
<1>5. ASSUME Through(w) PROVE PubFollows' /\ PairMatches'
  <2>1. /\ \A v \in Workers \ {w} : worker'[v] = worker[v]
        /\ UNCHANGED <<db, disturbed>> /\ worker[w].pc = "through" /\ Pub \notin DOMAIN worker[w].todo
        /\ worker'[w].pc \in {"idle", "save"}
        /\ worker'[w].pc = "save" => worker'[w].todo = Remaining(w)
        /\ worker'[w].pc = "idle" => DOMAIN Remaining(w) = {}
    BY <1>5 DEF Through, Rest, PrefsTypeOK, PubFollows
  <2>2. CASE worker[w].pref = Priv
    <3>1. Pub \in DOMAIN Remaining(w) /\ Remaining(w)[Pub] = worker[w].val
      BY <2>2 DEF Remaining
    <3>2. Pending(w) /\ Pending(w)' /\ PubOf(w)' = PubOf(w)
      BY <2>1, <2>2, <3>1 DEF Pending, PubOf
    <3>3. \A v \in Workers : /\ Pending(v)' <=> Pending(v)
                             /\ Pending(v) => PubOf(v)' = PubOf(v)
      BY <2>1, <3>2, SameWorker
    <3>4. \A v \in Workers : worker'[v].pc = "through" => Pub \notin DOMAIN worker'[v].todo
      BY <2>1 DEF PubFollows
    <3> QED
      BY <2>1, <3>2, <3>3, <3>4 DEF PubFollows, PairMatches
  <2>3. CASE worker[w].pref # Priv
    <3>1. Remaining(w) = worker[w].todo
      BY <2>3 DEF Remaining
    <3>2. Others /\ Calm
      BY <2>1, <2>3, <3>1 DEF Pending
    <3> QED
      BY <1>b, <2>1, <3>2
  <2> QED
    BY <2>2, <2>3
<1>6. ASSUME WorkerDies(w) PROVE PubFollows' /\ PairMatches'
  <2>1. /\ \A v \in Workers \ {w} : worker'[v] = worker[v]
        /\ UNCHANGED db /\ worker'[w].pc = "idle"
    BY <1>6 DEF WorkerDies, Rest, PrefsTypeOK
  <2>2. disturbed' = (disturbed \/ Pending(w))
    BY <1>6 DEF WorkerDies
  <2>3. CASE Pending(w)
    <3>1. disturbed'
      BY <2>2, <2>3
    <3>2. \A v \in Workers : worker'[v].pc = "through" => Pub \notin DOMAIN worker'[v].todo
      BY <2>1 DEF PubFollows
    <3> QED
      BY <3>1, <3>2 DEF PubFollows, PairMatches
  <2>4. CASE ~Pending(w)
    <3>1. Others /\ Calm
      BY <2>1, <2>4 DEF Pending
    <3>2. disturbed' = disturbed
      BY <2>2, <2>4 DEF PrefsTypeOK
    <3> QED
      BY <1>b, <2>1, <3>1, <3>2
  <2> QED
    BY <2>3, <2>4
<1>7. ASSUME NEW p \in Prefs, SaveValue(w, p) PROVE PubFollows' /\ PairMatches'
  <2>1. CASE ~Readable(db[p].key, worker[w].key)
    <3>1. /\ worker' = [worker EXCEPT ![w] = [pc |-> "corrupt", key |-> worker[w].key]]
          /\ UNCHANGED <<db, disturbed>> /\ worker[w].pc = "save" /\ IsNext(p, worker[w].todo)
      BY <1>7, <2>1 DEF SaveValue
    <3>2. p # Pub
      BY <2>1 DEF Readable, PairKeys
    <3>3. Others /\ Calm
      BY <3>1, <3>2 DEF IsNext, Pending, PrefsTypeOK
    <3> QED
      BY <1>b, <3>1, <3>3
  <2>2. CASE Readable(db[p].key, worker[w].key)
    <3>1. /\ worker[w].pc = "save" /\ p \in DOMAIN worker[w].todo /\ (Pub \in DOMAIN worker[w].todo => p = Pub)
          /\ db'[p].val = worker[w].todo[p]
          /\ \A q \in Prefs \ {p} : db'[q] = db[q]
          /\ worker'[w].pc = "through" /\ worker'[w].pref = p /\ worker'[w].val = worker[w].todo[p]
          /\ Pub \notin DOMAIN worker'[w].todo
          /\ p = Priv => (disturbed' <=> \E u \in Workers \ {w} : Pending(u))
          /\ p # Priv => disturbed' = disturbed
          /\ Others
      BY <1>7, <2>2, SaveEffect
    <3>2. \A v \in Workers \ {w} : /\ Pending(v)' <=> Pending(v)
                                   /\ Pending(v) => PubOf(v)' = PubOf(v)
      BY <3>1, SameWorker
    <3>3. \A v \in Workers : worker'[v].pc = "through" => Pub \notin DOMAIN worker'[v].todo
      BY <3>1, SameWorker DEF PubFollows
    <3>4. CASE p = Priv
      <4>1. Pending(w)' /\ PubOf(w)' = db'[Priv].val
        BY <3>1, <3>4 DEF Pending, PubOf
      <4>2. ~disturbed' => \A v \in Workers \ {w} : ~Pending(v)'
        BY <3>1, <3>2, <3>4
      <4> QED
        BY <3>3, <4>1, <4>2 DEF PubFollows, PairMatches
    <3>5. CASE p = Pub
      <4>1. Pending(w) /\ PubOf(w) = worker[w].todo[Pub] /\ ~Pending(w)'
        BY <1>a, <3>1, <3>5 DEF Pending, PubOf
      <4>2. disturbed' = disturbed /\ db'[Priv].val = db[Priv].val
        BY <1>a, <3>1, <3>5
      <4>3. ~disturbed => db'[Pub].val = db'[Priv].val
        BY <3>1, <3>5, <4>1, <4>2 DEF PubFollows
      <4>4. PairMatches'
        BY <4>2, <4>3 DEF PairMatches
      <4>5. ~disturbed' => \A v \in Workers : Pending(v)' => PubOf(v)' = db'[Priv].val
        BY <3>2, <4>1, <4>2 DEF PubFollows
      <4> QED
        BY <3>3, <4>4, <4>5 DEF PubFollows
    <3>6. CASE p \notin {Priv, Pub}
      <4>1. ~Pending(w) /\ ~Pending(w)'
        BY <3>1, <3>6 DEF Pending
      <4>2. disturbed' = disturbed /\ db'[Priv] = db[Priv] /\ db'[Pub] = db[Pub]
        BY <1>a, <3>1, <3>6
      <4> QED
        BY <3>2, <3>3, <4>1, <4>2 DEF PubFollows, PairMatches
    <3> QED
      BY <3>4, <3>5, <3>6
  <2> QED
    BY <2>1, <2>2
<1> QED
  BY <1>1, <1>2, <1>3, <1>4, <1>5, <1>6, <1>7, WorkCases

LEMMA PairInit == RotateInit => PubFollows /\ PairMatches /\ PairKeys /\ TxnKeys
<1> SUFFICES ASSUME RotateInit PROVE PubFollows /\ PairMatches /\ PairKeys /\ TxnKeys
  OBVIOUS
<1>1. PubFollows /\ TxnKeys
  BY DEF RotateInit, PrefsInit, PubFollows, Pending, Rest, TxnKeys, Running, NotRunning
<1>2. PICK v \in Values, known0 \in BOOLEAN :
        db = [i \in Prefs \cup Rows |->
               CASE i = Pub -> [val |-> IF known0 THEN v ELSE Empty, key |-> Plain]
                 [] i = Priv -> [val |-> v, key |-> FirstKey]
                 [] i \in Rows -> [val |-> Empty, key |-> FirstKey]
                 [] OTHER -> [val |-> Empty, key |-> Tag(i, FirstKey)]]
  BY DEF RotateInit, PrefsInit
<1>3. db[Priv].key = FirstKey /\ db[Priv].val = v /\ db[Pub].key = Plain /\ db[Pub].val \in {v, Empty}
  <2>1. Priv \in Prefs \ Rows /\ Pub \in Prefs \ Rows /\ Priv # Pub
    BY PreferencesAssumption, RotateAssumption
  <2>2. db[Priv] = [val |-> v, key |-> FirstKey]
    BY <1>2, <2>1
  <2>3. db[Pub] = [val |-> IF known0 THEN v ELSE Empty, key |-> Plain]
    BY <1>2, <2>1
  <2> QED
    BY <2>2, <2>3
<1> QED
  BY <1>1, <1>3, RotateAssumption DEF PairMatches, PairKeys

(* Reading a page changes nothing but the page, the place and the section. *)
Fetched(page) ==
  /\ Running /\ Running' /\ DOMAIN rotation.page = {}
  /\ DOMAIN rotation'.page = page /\ \A i \in page : rotation'.page[i] = InTxn(i)
  /\ rotation'.txn = rotation.txn /\ rotation'.old = rotation.old /\ rotation'.new = rotation.new
  /\ rotation'.dry = rotation.dry /\ rotation'.custom = rotation.custom
  /\ rotation'.pc \in {"columns", "configs", "preferences", "flush"}
  /\ UNCHANGED <<db, cache, worker, late, disturbed, deployed, known, orderly>>

LEMMA FetchFields ==
  ASSUME RotateTypeOK, Running, NEW page \in SUBSET Secrets, NEW size \in Nat,
         NEW next \in {"configs", "preferences", "flush"}, Fetch(page, size, next),
         rotation.pc \in {"columns", "configs", "preferences"}
  PROVE  /\ Fetched(page)
         /\ page = {} => rotation'.pc = next /\ rotation'.pos = 0
         /\ page # {} => rotation'.pc = rotation.pc /\ rotation'.pos = rotation.pos + size
<1>1. CASE page = {}
  BY <1>1, RunningFields DEF Fetch, Fetched, Rotations, Running, prefVars
<1>2. CASE page # {}
  BY <1>2, RunningFields DEF Fetch, Fetched, Rotations, Running, prefVars
<1> QED
  BY <1>1, <1>2

LEMMA FetchEffect ==
  ASSUME RotateTypeOK, RotateEncryptedFields \/ RotateAuthenticatorConfigs \/ RotatePreferences
  PROVE  \E page \in SUBSET Secrets : Fetched(page)
<1>1. CASE RotateEncryptedFields
  BY <1>1, FetchFields, PageRows, RotateAssumption DEF RotateEncryptedFields, Running
<1>2. CASE RotateAuthenticatorConfigs
  BY <1>2, FetchFields, PageRows, RotateAssumption DEF RotateAuthenticatorConfigs, Running
<1>3. CASE RotatePreferences
  BY <1>3, FetchFields, PageRows, RotateAssumption DEF RotatePreferences, Running
<1> QED
  BY <1>1, <1>2, <1>3

(* The command goes on to its next phase: nothing of what it has written   *)
(* changes.                                                                *)
Advanced(next) ==
  /\ Running /\ Running' /\ rotation'.pc = next
  /\ rotation'.page = rotation.page /\ rotation'.pos = rotation.pos
  /\ rotation'.txn = rotation.txn /\ rotation'.old = rotation.old /\ rotation'.new = rotation.new
  /\ rotation'.dry = rotation.dry /\ rotation'.custom = rotation.custom
  /\ UNCHANGED <<db, worker, disturbed, deployed>>

LEMMA AdvanceEffect ==
  ASSUME RotateTypeOK
  PROVE  /\ FlushCache \/ FlushRefused => Advanced("print")
         /\ PrintKey => Advanced("commit")
<1>1. ASSUME FlushCache \/ FlushRefused PROVE Advanced("print")
  <2>1. Running
    BY <1>1 DEF FlushCache, FlushRefused, Running
  <2>2. rotation' = [rotation EXCEPT !.pc = "print"]
    BY <1>1 DEF FlushCache, FlushRefused
  <2> QED
    BY <1>1, <2>1, <2>2, RunningFields DEF FlushCache, FlushRefused, Advanced, Rotations, Running, prefVars
<1>2. ASSUME PrintKey PROVE Advanced("commit")
  <2>1. Running
    BY <1>2 DEF PrintKey, Running
  <2> QED
    BY <1>2, <2>1, RunningFields DEF PrintKey, Advanced, Rotations, Running, prefVars
<1> QED
  BY <1>1, <1>2

LEMMA BeginEffect ==
  ASSUME NEW custom \in BOOLEAN, NEW dry \in BOOLEAN, Begin(custom, dry)
  PROVE  /\ ~Running /\ Running' /\ rotation'.pc = "columns" /\ rotation'.pos = 0
         /\ DOMAIN rotation'.page = {} /\ DOMAIN rotation'.txn = {}
         /\ rotation'.old = deployed /\ rotation'.new \in Keys \ {deployed}
         /\ rotation'.custom = custom /\ rotation'.dry = dry
         /\ known \subseteq known' /\ (custom => rotation'.new \in known')
         /\ UNCHANGED <<db, cache, worker, late, disturbed, deployed>>
  BY DEF Begin, Running, NoRows, prefVars

(* A row that the command changes was encrypted with the old key and is    *)
(* encrypted with the new one.                                             *)
LEMMA ChangedKeys ==
  ASSUME RotateTypeOK, Running, NEW i \in DOMAIN rotation.page
  PROVE  /\ i \in ChangedRows => /\ rotation.page[i].key = rotation.old /\ NewRow(i).key = rotation.new
                                 /\ NewRow(i).val = rotation.page[i].val
                                 /\ ~rotation.dry
         /\ (i \notin ChangedRows /\ ~rotation.dry /\ i \notin Unloadable) =>
              \/ rotation.page[i].key # rotation.old
              \/ rotation.old = rotation.new
  BY RunningFields DEF ChangedRows, NewRow, ReencryptFields, ReencryptValue, TryDecrypt, Cells

LEMMA TxnStep ==
  RotateTypeOK /\ PairKeys /\ TxnKeys /\ [RotateNext]_allVars => PairKeys' /\ TxnKeys'
<1> SUFFICES ASSUME RotateTypeOK, PairKeys, TxnKeys, [RotateNext]_allVars PROVE PairKeys' /\ TxnKeys'
  OBVIOUS
<1>a. /\ Priv \in Secrets /\ Pub \in Secrets /\ Priv \in Encrypted /\ Pub \notin Encrypted /\ Plain \notin Keys
      /\ Priv \in Prefs /\ Pub \in Prefs
  BY PreferencesAssumption DEF Secrets
<1>1. ASSUME NEW custom \in BOOLEAN, NEW dry \in BOOLEAN, Begin(custom, dry) PROVE PairKeys' /\ TxnKeys'
  BY <1>1, BeginEffect DEF PairKeys, TxnKeys
<1>2. CASE RotateEncryptedFields \/ RotateAuthenticatorConfigs \/ RotatePreferences
  <2>1. PICK page \in SUBSET Secrets : Fetched(page)
    BY <1>2, FetchEffect
  <2>2. InTxn(Pub).key = Plain
    BY <2>1 DEF Fetched, InTxn, TxnKeys, PairKeys
  <2> QED
    BY <2>1, <2>2 DEF Fetched, PairKeys, TxnKeys
<1>3. ASSUME ReencryptRows PROVE PairKeys' /\ TxnKeys'
  <2>1. Running /\ rotation.old \in Keys
    BY <1>3, ReencryptEffect, RunningFields
  <2>2. Pub \notin ChangedRows
    BY <1>a, <2>1, ChangedKeys DEF TxnKeys, ChangedRows
  <2>3. rotation.dry => ChangedRows = {}
    BY DEF ChangedRows
  <2>4. /\ rotation'.new = rotation.new /\ rotation'.dry = rotation.dry /\ DOMAIN rotation'.page = {}
    BY <1>3, <2>1, ReencryptEffect, RunningFields DEF Rotations, NoRows
  <2>5. \A i \in ChangedRows : NewRow(i).key = rotation.new
    BY <2>1, ChangedKeys DEF ChangedRows
  <2> QED
    BY <1>3, <2>1, <2>2, <2>3, <2>4, <2>5, ReencryptEffect DEF PairKeys, TxnKeys
<1>4. CASE FlushCache \/ FlushRefused \/ PrintKey
  BY <1>4, AdvanceEffect DEF Advanced, PairKeys, TxnKeys
<1>5. ASSUME Commit PROVE PairKeys' /\ TxnKeys'
  <2>1. Running /\ db'[Priv] = InTxn(Priv) /\ db'[Pub] = InTxn(Pub) /\ rotation'.pc = "ended" /\ rotation.new \in Keys
    BY <1>5, <1>a, CommitEffect, RunningFields
  <2>2. InTxn(Priv).key \in Keys /\ InTxn(Pub).key = Plain
    BY <2>1 DEF InTxn, TxnKeys, PairKeys
  <2> QED
    BY <2>1, <2>2 DEF PairKeys, TxnKeys, Running
<1>6. ASSUME RotationFails PROVE PairKeys' /\ TxnKeys'
  BY <1>6 DEF RotationFails, PairKeys, TxnKeys, Running, prefVars
<1>7. ASSUME UpdateSecret \/ Restart PROVE PairKeys' /\ TxnKeys'
  BY <1>7 DEF UpdateSecret, Restart, PairKeys, TxnKeys, Running, prefVars, rotVars
<1>8. ASSUME NEW w \in Workers, Traffic(w) PROVE PairKeys' /\ TxnKeys'
  <2>1. worker[w].key \in Keys
    BY WorkerFields DEF RotateTypeOK
  <2>2. PairKeys'
    BY <1>8, <1>a, <2>1, WorkEffect DEF Traffic, PairKeys, Tag, RotateTypeOK
  <2>3. TxnKeys'
    BY <1>8 DEF Traffic, TxnKeys, Running
  <2> QED
    BY <2>2, <2>3
<1>9. ASSUME NEW p \in Prefs, Expire(p), UNCHANGED rotVars PROVE PairKeys' /\ TxnKeys'
  BY <1>9 DEF Expire, rotVars, PairKeys, TxnKeys, Running
<1>10. CASE UNCHANGED allVars
  BY <1>10 DEF allVars, prefVars, rotVars, PairKeys, TxnKeys, Running
<1> QED
  BY <1>1, <1>2, <1>3, <1>4, <1>5, <1>6, <1>7, <1>8, <1>9, <1>10 DEF RotateNext

LEMMA PairStep ==
  RotateTypeOK /\ PairKeys /\ TxnKeys /\ PubFollows /\ PairMatches /\ [RotateNext]_allVars
    => PubFollows' /\ PairMatches'
<1> SUFFICES ASSUME RotateTypeOK, PairKeys, TxnKeys, PubFollows, PairMatches, [RotateNext]_allVars
             PROVE  PubFollows' /\ PairMatches'
  OBVIOUS
<1>1. CASE UNCHANGED <<db, worker, disturbed>>
  BY <1>1 DEF PubFollows, PairMatches, Pending, PubOf
<1>2. ASSUME Commit PROVE PubFollows' /\ PairMatches'
  <2>1. Priv \in Secrets /\ Pub \in Secrets
    BY PreferencesAssumption DEF Secrets
  <2>2. \A v \in Workers : worker'[v] = worker[v] \/ Delayed(v)
    BY <1>2, CommitEffect
  <2>3. \A v \in Workers : /\ Pending(v)' <=> Pending(v)
                           /\ Pending(v) => PubOf(v)' = PubOf(v)
                           /\ worker'[v].pc = "through" => Pub \notin DOMAIN worker'[v].todo
    BY <2>2, SameWorker DEF PubFollows
  <2>4. Running
    BY <1>2, CommitEffect
  <2>5. InTxn(Pub) = db[Pub]
    BY <2>4 DEF TxnKeys, InTxn
  <2>6. db'[Pub] = db[Pub] /\ db'[Priv] = InTxn(Priv)
    BY <1>2, <2>1, <2>5, CommitEffect
  <2>7. ~disturbed' => ~disturbed /\ db'[Priv].val = db[Priv].val
    BY <1>2, <2>6, CommitEffect
  <2> QED
    BY <2>3, <2>6, <2>7 DEF PubFollows, PairMatches
<1>3. ASSUME Restart PROVE PubFollows' /\ PairMatches'
  <2>1. /\ \A v \in Workers : worker[v].pc = "idle" /\ worker'[v].pc = "idle"
        /\ UNCHANGED <<db, disturbed>>
    BY <1>3 DEF Restart, Rest
  <2> QED
    BY <2>1 DEF PubFollows, PairMatches, Pending
<1>4. ASSUME NEW w \in Workers, Traffic(w) PROVE PubFollows' /\ PairMatches'
  BY <1>4, PairWork DEF Traffic, RotateTypeOK
<1> QED
  BY <1>1, <1>2, <1>3, <1>4
     DEF RotateNext, Begin, RotateEncryptedFields, RotateAuthenticatorConfigs, RotatePreferences, Fetch,
         ReencryptRows, FlushCache, FlushRefused, PrintKey, RotationFails, UpdateSecret, Expire, allVars, prefVars

-----------------------------------------------------------------------------
(* The keys.                                                               *)

LEMMA KeysInit == RotateInit => KeysKnown
<1> SUFFICES ASSUME RotateInit PROVE KeysKnown
  OBVIOUS
<1>1. PICK v \in Values, known0 \in BOOLEAN :
        db = [i \in Prefs \cup Rows |->
               CASE i = Pub -> [val |-> IF known0 THEN v ELSE Empty, key |-> Plain]
                 [] i = Priv -> [val |-> v, key |-> FirstKey]
                 [] i \in Rows -> [val |-> Empty, key |-> FirstKey]
                 [] OTHER -> [val |-> Empty, key |-> Tag(i, FirstKey)]]
  BY DEF RotateInit, PrefsInit
<1>2. \A i \in Secrets : db[i].key \in {FirstKey, Plain}
  BY <1>1 DEF Secrets, Tag
<1> QED
  BY <1>2 DEF RotateInit, PrefsInit, Rest, NotRunning, KeysKnown, KeyNeverLost, Running

LEMMA KeysStep ==
  RotateTypeOK /\ TxnKeys /\ KeysKnown /\ [RotateNext]_allVars => KeysKnown'
<1> SUFFICES ASSUME RotateTypeOK, TxnKeys, KeysKnown, [RotateNext]_allVars PROVE KeysKnown'
  OBVIOUS
<1>1. ASSUME NEW custom \in BOOLEAN, NEW dry \in BOOLEAN, Begin(custom, dry) PROVE KeysKnown'
  BY <1>1, BeginEffect DEF KeysKnown, KeyNeverLost, Secrets
<1>2. CASE RotateEncryptedFields \/ RotateAuthenticatorConfigs \/ RotatePreferences
  <2>1. PICK page \in SUBSET Secrets : Fetched(page)
    BY <1>2, FetchEffect
  <2> QED
    BY <2>1 DEF Fetched, KeysKnown, KeyNeverLost, Running
<1>3. ASSUME ReencryptRows PROVE KeysKnown'
  <2>1. /\ Running /\ rotation'.new = rotation.new /\ rotation'.dry = rotation.dry /\ rotation'.old = rotation.old
        /\ rotation'.custom = rotation.custom /\ rotation'.pc = rotation.pc
    BY <1>3, ReencryptEffect, RunningFields DEF Rotations
  <2> QED
    BY <1>3, <2>1, ReencryptEffect DEF KeysKnown, KeyNeverLost, Running
<1>4. ASSUME FlushCache \/ FlushRefused PROVE KeysKnown'
  <2>1. Advanced("print") /\ UNCHANGED known
    BY <1>4, AdvanceEffect DEF FlushCache, FlushRefused
  <2> QED
    BY <2>1 DEF Advanced, KeysKnown, KeyNeverLost
<1>5. ASSUME PrintKey PROVE KeysKnown'
  <2>1. Advanced("commit")
    BY <1>5, AdvanceEffect
  <2>2. /\ known \subseteq known'
        /\ (~rotation.dry /\ ~rotation.custom) => rotation.new \in known'
    BY <1>5 DEF PrintKey
  <2> QED
    BY <2>1, <2>2 DEF Advanced, KeysKnown, KeyNeverLost
<1>6. ASSUME Commit PROVE KeysKnown'
  <2>1. \A i \in Secrets : db'[i].key \in known \cup {Plain}
    <3> SUFFICES ASSUME NEW i \in Secrets PROVE InTxn(i).key \in known \cup {Plain}
      BY <1>6, CommitEffect
    <3>1. CASE i \in DOMAIN rotation.txn
      <4>1. Running /\ rotation.pc = "commit"
        BY <1>6, CommitEffect
      <4>2. ~rotation.dry /\ rotation.txn[i].key = rotation.new
        BY <3>1, <4>1 DEF TxnKeys
      <4> QED
        BY <3>1, <4>1, <4>2 DEF InTxn, KeysKnown
    <3>2. CASE i \notin DOMAIN rotation.txn
      BY <3>2 DEF InTxn, KeysKnown, KeyNeverLost
    <3> QED
      BY <3>1, <3>2
  <2>2. \A w \in Workers : worker'[w].key = worker[w].key
    BY <1>6, CommitEffect DEF Delayed
  <2>3. rotation'.pc = "ended" /\ (rotation'.ok => rotation'.new \in known)
    BY <1>6, CommitEffect DEF KeysKnown
  <2> QED
    BY <1>6, <2>1, <2>2, <2>3, CommitEffect DEF KeysKnown, KeyNeverLost, Running
<1>7. ASSUME RotationFails PROVE KeysKnown'
  BY <1>7 DEF RotationFails, KeysKnown, KeyNeverLost, Running, prefVars
<1>8. ASSUME UpdateSecret PROVE KeysKnown'
  BY <1>8 DEF UpdateSecret, KeysKnown, KeyNeverLost, Running, prefVars
<1>9. ASSUME Restart PROVE KeysKnown'
  BY <1>9 DEF Restart, Rest, KeysKnown, KeyNeverLost, Running, rotVars
<1>10. ASSUME NEW w \in Workers, Traffic(w) PROVE KeysKnown'
  <2>1. \A v \in Workers : worker'[v].key = worker[v].key
    BY <1>10, WorkEffect DEF Traffic, RotateTypeOK
  <2>2. \A i \in Secrets : db'[i].key \in known \cup {Plain}
    BY <1>10, WorkEffect DEF Traffic, RotateTypeOK, Secrets, Tag, KeysKnown, KeyNeverLost
  <2> QED
    BY <1>10, <2>1, <2>2 DEF Traffic, KeysKnown, KeyNeverLost, Running
<1>11. ASSUME NEW p \in Prefs, Expire(p), UNCHANGED rotVars PROVE KeysKnown'
  BY <1>11 DEF Expire, rotVars, KeysKnown, KeyNeverLost, Running
<1>12. CASE UNCHANGED allVars
  BY <1>12 DEF allVars, prefVars, rotVars, KeysKnown, KeyNeverLost, Running
<1> QED
  BY <1>1, <1>2, <1>3, <1>4, <1>5, <1>6, <1>7, <1>8, <1>9, <1>10, <1>11, <1>12 DEF RotateNext

LEMMA OrderlyInit == RotateInit => OrderlyKeys /\ Progress
<1> SUFFICES ASSUME RotateInit PROVE OrderlyKeys /\ Progress
  OBVIOUS
<1>1. PICK v \in Values, known0 \in BOOLEAN :
        db = [i \in Prefs \cup Rows |->
               CASE i = Pub -> [val |-> IF known0 THEN v ELSE Empty, key |-> Plain]
                 [] i = Priv -> [val |-> v, key |-> FirstKey]
                 [] i \in Rows -> [val |-> Empty, key |-> FirstKey]
                 [] OTHER -> [val |-> Empty, key |-> Tag(i, FirstKey)]]
  BY DEF RotateInit, PrefsInit
<1>2. \A i \in Secrets : db[i].key \in {FirstKey, Plain}
  BY <1>1 DEF Secrets, Tag
<1>3. rotation.pc = "none" /\ deployed = FirstKey /\ \A p \in Prefs : cache[p].key = Plain
  BY DEF RotateInit, PrefsInit, NotRunning, Missing
<1> QED
  BY <1>2, <1>3 DEF OrderlyKeys, Progress, Awaiting, AllUnder, Rotated, Running

LEMMA OrderlyStep ==
  RotateTypeOK /\ PairKeys /\ TxnKeys /\ KeysKnown /\ OrderlyKeys /\ Progress /\ [RotateNext]_allVars
    => OrderlyKeys'
<1> SUFFICES ASSUME RotateTypeOK, PairKeys, TxnKeys, KeysKnown, OrderlyKeys, Progress, [RotateNext]_allVars,
                    orderly'
             PROVE  OrderlyKeys'
  BY DEF OrderlyKeys
<1>1. ASSUME NEW custom \in BOOLEAN, NEW dry \in BOOLEAN, Begin(custom, dry) PROVE OrderlyKeys'
  <2>1. orderly /\ AllUnder(deployed)
    BY <1>1 DEF Begin, AllUnder, Rotated
  <2>2. \A p \in Prefs : cache[p].key \in {Plain, deployed}
    <3>1. CASE Awaiting
      BY <2>1, <3>1 DEF OrderlyKeys, CacheEmpty, Missing
    <3>2. CASE ~Awaiting
      BY <2>1, <3>2 DEF OrderlyKeys
    <3> QED
      BY <3>1, <3>2
  <2> QED
    BY <1>1, <2>1, <2>2, BeginEffect DEF OrderlyKeys, Awaiting, AllUnder, Rotated, Secrets
<1>2. CASE RotateEncryptedFields \/ RotateAuthenticatorConfigs \/ RotatePreferences
  <2>1. PICK page \in SUBSET Secrets : Fetched(page)
    BY <1>2, FetchEffect
  <2>2. orderly /\ ~Awaiting /\ ~Awaiting'
    BY <2>1 DEF Fetched, Awaiting, Running
  <2>3. \A i \in page : InTxn(i)' = InTxn(i)
    BY <2>1 DEF Fetched, InTxn
  <2> QED
    BY <2>1, <2>2, <2>3 DEF Fetched, OrderlyKeys, AllUnder, Rotated, Secrets
<1>3. ASSUME ReencryptRows PROVE OrderlyKeys'
  <2>1. /\ Running /\ rotation'.pc = rotation.pc /\ rotation'.old = rotation.old /\ DOMAIN rotation'.page = {}
        /\ rotation'.dry = rotation.dry
    BY <1>3, ReencryptEffect, RunningFields DEF Rotations, NoRows
  <2>2. orderly /\ ~Awaiting /\ ~Awaiting'
    BY <1>3, <2>1, ReencryptEffect DEF Awaiting, Running
  <2> QED
    BY <1>3, <2>1, <2>2, ReencryptEffect DEF OrderlyKeys, AllUnder, Rotated, Secrets, CacheEmpty
<1>4. ASSUME FlushCache PROVE OrderlyKeys'
  <2>1. Advanced("print") /\ orderly /\ DOMAIN rotation.page = {}
    BY <1>4, AdvanceEffect DEF FlushCache, Progress, Running
  <2>2. IF rotation.dry THEN UNCHANGED cache ELSE CacheEmpty'
    BY <1>4 DEF FlushCache, CacheEmpty, Missing
  <2>3. ~Awaiting /\ ~Awaiting'
    BY <2>1 DEF Advanced, Awaiting, Running
  <2> QED
    BY <2>1, <2>2, <2>3 DEF Advanced, OrderlyKeys, AllUnder, Rotated, Secrets, CacheEmpty, Missing
<1>5. ASSUME FlushRefused PROVE OrderlyKeys'
  <2>1. Advanced("print") /\ orderly /\ DOMAIN rotation.page = {} /\ UNCHANGED cache
    BY <1>5, AdvanceEffect DEF FlushRefused, Progress, Running, prefVars
  <2>2. CacheEmpty
    BY <1>5 DEF FlushRefused, CacheEmpty
  <2>3. ~Awaiting /\ ~Awaiting'
    BY <2>1 DEF Advanced, Awaiting, Running
  <2> QED
    BY <2>1, <2>2, <2>3 DEF Advanced, OrderlyKeys, AllUnder, Rotated, Secrets, CacheEmpty, Missing
<1>6. ASSUME PrintKey PROVE OrderlyKeys'
  <2>1. Advanced("commit") /\ orderly /\ DOMAIN rotation.page = {} /\ UNCHANGED cache
    BY <1>6, AdvanceEffect DEF PrintKey, Progress, Running, prefVars
  <2>2. ~Awaiting /\ ~Awaiting'
    BY <2>1 DEF Advanced, Awaiting, Running
  <2> QED
    BY <1>6, <2>1, <2>2 DEF Advanced, OrderlyKeys, AllUnder, Rotated, Secrets, CacheEmpty, PrintKey
<1>7. ASSUME Commit PROVE OrderlyKeys'
  <2>1. /\ Running /\ orderly /\ rotation.pc = "commit" /\ rotation'.pc = "ended"
        /\ rotation'.ok = ~rotation.dry /\ rotation'.new = rotation.new
        /\ UNCHANGED <<cache, deployed>>
    BY <1>7, CommitEffect
  <2>2. rotation.old = deployed /\ rotation.new # rotation.old /\ rotation.dry \in BOOLEAN
    BY <2>1, RunningFields DEF OrderlyKeys, KeysKnown
  <2>3. ~Awaiting /\ ~Running'
    BY <2>1 DEF Awaiting, Running
  <2>4. CASE rotation.dry
    <3>1. \A i \in Secrets : db'[i] = db[i]
      BY <1>7, <2>1, <2>4, CommitEffect DEF TxnKeys, InTxn
    <3>2. ~Awaiting'
      BY <2>1, <2>4 DEF Awaiting
    <3> QED
      BY <2>1, <2>3, <3>1, <3>2 DEF OrderlyKeys, AllUnder, Rotated, Secrets
  <2>5. CASE ~rotation.dry
    <3>1. Awaiting' /\ CacheEmpty'
      BY <2>1, <2>2, <2>5 DEF Awaiting, OrderlyKeys, CacheEmpty, Missing
    <3>2. AllDone(ColumnOrder) /\ AllDone(ConfigOrder) /\ AllDone(PrefIds)
      BY <2>1, <2>5 DEF Progress
    <3>3. \A i \in Rotated : Done(i)
      <4>1. \A i \in Columns : Done(i)
        BY <3>2 DEF AllDone, Columns, SetOf
      <4>2. \A i \in Configs : Done(i)
        BY <3>2 DEF AllDone, Configs, SetOf
      <4>3. \A i \in Prefs : Done(i)
        BY <3>2, RotateAssumption DEF AllDone, SetOf
      <4> QED
        BY <4>1, <4>2, <4>3, RotateAssumption DEF Rotated, Secrets
    <3>4. \A i \in Rotated : db'[i].key \in {Plain, rotation'.new}
      BY <1>7, <2>1, <3>3, CommitEffect DEF Rotated, Done
    <3> QED
      BY <2>3, <3>1, <3>4 DEF OrderlyKeys, AllUnder, Rotated, Secrets
  <2> QED
    BY <2>2, <2>4, <2>5
<1>8. ASSUME RotationFails PROVE OrderlyKeys'
  <2>1. Running /\ ~Awaiting /\ ~Running' /\ ~Awaiting' /\ orderly
    BY <1>8 DEF RotationFails, Awaiting, Running
  <2> QED
    BY <1>8, <2>1 DEF RotationFails, OrderlyKeys, AllUnder, Rotated, Secrets, prefVars
<1>9. ASSUME UpdateSecret PROVE OrderlyKeys'
  <2>1. Awaiting /\ ~Awaiting' /\ ~Running' /\ orderly
    BY <1>9 DEF UpdateSecret, Awaiting, Running
  <2> QED
    BY <1>9, <2>1 DEF UpdateSecret, OrderlyKeys, AllUnder, Rotated, Secrets, prefVars, CacheEmpty, Missing
<1>10. ASSUME Restart PROVE OrderlyKeys'
  BY <1>10 DEF Restart, rotVars, OrderlyKeys, Awaiting, AllUnder, Rotated, Secrets, CacheEmpty, Missing, Running
<1>11. ASSUME NEW w \in Workers, Traffic(w) PROVE OrderlyKeys'
  <2>1. orderly /\ Quiet /\ worker[w].key = deployed /\ Work(w) /\ UNCHANGED <<rotation, deployed>>
    BY <1>11 DEF Traffic
  <2>2. ~Running /\ ~Running'
    BY <2>1 DEF Quiet, Running
  <2>3. Priv \in Rotated
    BY PreferencesAssumption, RotateAssumption DEF Rotated, Secrets
  <2>4. ~Awaiting
    <3> SUFFICES ASSUME Awaiting PROVE FALSE
      OBVIOUS
    <3>1. db[Priv].key = rotation.new
      BY <2>1, <2>3, PreferencesAssumption DEF OrderlyKeys, AllUnder, PairKeys
    <3>2. db[Priv].key = deployed
      BY <2>1, <2>3, PreferencesAssumption DEF Quiet, PairKeys, Rotated
    <3> QED
      BY <3>1, <3>2 DEF Awaiting
  <2>5. ~Awaiting'
    BY <2>1, <2>4 DEF Awaiting
  <2>6. \A i \in Rotated : db'[i].key \in {Plain, deployed}
    BY <2>1, <2>4, WorkEffect DEF RotateTypeOK, OrderlyKeys, AllUnder, Tag, Rotated, Secrets
  <2>7. \A p \in Prefs : cache'[p].key \in {Plain, deployed}
    BY <2>1, <2>4, WorkEffect DEF RotateTypeOK, OrderlyKeys, Tag
  <2> QED
    BY <2>1, <2>2, <2>5, <2>6, <2>7 DEF OrderlyKeys, AllUnder, Rotated, Secrets
<1>12. ASSUME NEW p \in Prefs, Expire(p), UNCHANGED rotVars PROVE OrderlyKeys'
  <2>1. \A q \in Prefs : cache'[q] \in {cache[q], Missing}
    BY <1>12 DEF Expire, RotateTypeOK, PrefsTypeOK
  <2>2. \A i \in DOMAIN rotation.page : InTxn(i)' = InTxn(i)
    BY <1>12 DEF Expire, rotVars, InTxn
  <2> QED
    BY <1>12, <2>1, <2>2 DEF Expire, rotVars, OrderlyKeys, Awaiting, AllUnder, Rotated, Secrets, CacheEmpty, Missing, Running
<1>13. CASE UNCHANGED allVars
  BY <1>13 DEF allVars, prefVars, rotVars, OrderlyKeys, Awaiting, AllUnder, Rotated, Secrets, CacheEmpty, Missing, Running, InTxn
<1> QED
  BY <1>1, <1>2, <1>3, <1>4, <1>5, <1>6, <1>7, <1>8, <1>9, <1>10, <1>11, <1>12, <1>13 DEF RotateNext

(* A page holds all that lies between the place reached and the next one,  *)
(* and none is read only when everything has been.                         *)
LEMMA AfterCovers ==
  ASSUME NEW order, NEW len \in Nat, DOMAIN order = 1..len, NEW size \in Nat,
         size >= 1 \/ size = len, rotation.pos \in Nat
  PROVE  /\ After(order, size) = {} => \A n \in DOMAIN order : n <= rotation.pos
         /\ \A n \in DOMAIN order : n <= rotation.pos + size => n <= rotation.pos \/ order[n] \in After(order, size)
<1>1. \A n \in DOMAIN order : (rotation.pos < n /\ n <= rotation.pos + size) => order[n] \in After(order, size)
  BY DEF After
<1>2. ASSUME NEW n \in DOMAIN order, rotation.pos < n
      PROVE  order[rotation.pos + 1] \in After(order, size)
  <2>1. rotation.pos + 1 \in DOMAIN order /\ size >= 1
    BY <1>2
  <2> QED
    BY <1>1, <2>1
<1>3. ASSUME After(order, size) = {}, NEW n \in DOMAIN order PROVE n <= rotation.pos
  <2>1. n \in Nat
    OBVIOUS
  <2> QED
    BY <1>2, <1>3, <2>1
<1>4. ASSUME NEW n \in DOMAIN order, n <= rotation.pos + size
      PROVE  n <= rotation.pos \/ order[n] \in After(order, size)
  <2>1. n \in Nat
    OBVIOUS
  <2> QED
    BY <1>1, <1>4, <2>1
<1> QED
  BY <1>3, <1>4

LEMMA FetchProgress ==
  ASSUME RotateTypeOK, Running, NEW order, DOMAIN order = 1..Len(order), Len(order) \in Nat, NEW size \in Nat,
         size >= 1 \/ size = Len(order), After(order, size) \in SUBSET Secrets,
         NEW next \in {"configs", "preferences", "flush"}, Fetch(After(order, size), size, next),
         rotation.pc \in {"columns", "configs", "preferences"}, rotation.pc # next
  PROVE  /\ Fetched(After(order, size))
         /\ \A i : Done(i)' <=> Done(i)
         /\ rotation'.pc \in {rotation.pc, next}
         /\ rotation'.pc = next => rotation'.pos = 0 /\ DOMAIN rotation'.page = {}
         /\ DoneUpTo(order) => (rotation'.pc = next => AllDone(order)') /\ (rotation'.pc = rotation.pc => DoneUpTo(order)')
<1> DEFINE page == After(order, size)
<1>1. /\ Fetched(page)
      /\ page = {} => rotation'.pc = next /\ rotation'.pos = 0
      /\ page # {} => rotation'.pc = rotation.pc /\ rotation'.pos = rotation.pos + size
  BY FetchFields
<1>2. \A i : Done(i)' <=> Done(i)
  BY <1>1 DEF Fetched, Done, InTxn
<1>3. /\ page = {} => \A n \in DOMAIN order : n <= rotation.pos
      /\ \A n \in DOMAIN order : n <= rotation.pos + size => n <= rotation.pos \/ order[n] \in page
  BY AfterCovers, RunningFields
<1> HIDE DEF page
<1>4. ASSUME DoneUpTo(order), page = {} PROVE AllDone(order)'
  BY <1>1, <1>2, <1>3, <1>4 DEF DoneUpTo, AllDone, Fetched
<1>5. ASSUME DoneUpTo(order), page # {} PROVE DoneUpTo(order)'
  <2>1. \A n \in DOMAIN order : n <= rotation.pos => Done(order[n])
    BY <1>1, <1>5 DEF DoneUpTo, Fetched
  <2> QED
    BY <1>1, <1>2, <1>3, <1>5, <2>1 DEF DoneUpTo, Fetched
<1>6. page = {} => rotation'.pos = 0 /\ DOMAIN rotation'.page = {}
  BY <1>1 DEF Fetched
<1> QED
  BY <1>1, <1>2, <1>4, <1>5, <1>6 DEF page

(* At the first row of an order nothing has to be done yet. *)
LEMMA NothingDue ==
  ASSUME NEW order, DOMAIN order = 1..Len(order), Len(order) \in Nat, rotation'.pos = 0
  PROVE  DoneUpTo(order)'
  BY DEF DoneUpTo

(* Writing a page settles each of its rows and leaves the others as they   *)
(* are.                                                                    *)
LEMMA ReencryptProgress ==
  ASSUME RotateTypeOK, TxnKeys, KeysKnown, OrderlyKeys, ReencryptRows, orderly, ~rotation.dry
  PROVE  /\ \A i \in Secrets : Done(i) => Done(i)'
         /\ \A i \in DOMAIN rotation.page : Done(i)'
<1>1. Running /\ rotation'.new = rotation.new /\ db' = db
  BY ReencryptEffect, RunningFields DEF Rotations
<1>2. \A i \in ChangedRows : InTxn(i)'.key = rotation.new
  <2> SUFFICES ASSUME NEW i \in ChangedRows PROVE InTxn(i)'.key = rotation.new
    OBVIOUS
  <2>1. i \in DOMAIN rotation.page
    BY DEF ChangedRows
  <2>2. NewRow(i).key = rotation.new
    BY <1>1, <2>1, ChangedKeys
  <2> QED
    BY <2>2, ReencryptEffect DEF InTxn
<1>3. \A i : i \notin ChangedRows => InTxn(i)' = InTxn(i)
  BY <1>1, ReencryptEffect DEF InTxn
<1>4. \A i \in Secrets : Done(i) => Done(i)'
  BY <1>1, <1>2, <1>3 DEF Done
<1>5. ASSUME NEW i \in DOMAIN rotation.page, i \notin ChangedRows, i \notin Unloadable
      PROVE  InTxn(i).key \in {Plain, rotation.new}
  <2>1. i \in Rotated /\ rotation.page[i] = InTxn(i) /\ rotation.old = deployed /\ AllUnder(deployed)
    BY <1>1, <1>5, RunningFields DEF Rotated, OrderlyKeys, Awaiting, Running
  <2>2. InTxn(i).key # rotation.old
    BY <1>1, <1>5, <2>1, ChangedKeys DEF KeysKnown
  <2>3. CASE i \in DOMAIN rotation.txn
    BY <1>1, <2>3 DEF InTxn, TxnKeys
  <2>4. CASE i \notin DOMAIN rotation.txn
    BY <2>1, <2>2, <2>4 DEF InTxn, AllUnder
  <2> QED
    BY <2>3, <2>4
<1> QED
  BY <1>1, <1>2, <1>3, <1>4, <1>5 DEF Done

LEMMA ProgressStep ==
  RotateTypeOK /\ TxnKeys /\ KeysKnown /\ OrderlyKeys /\ Progress /\ [RotateNext]_allVars => Progress'
<1> SUFFICES ASSUME RotateTypeOK, TxnKeys, KeysKnown, OrderlyKeys, Progress, [RotateNext]_allVars, Running'
             PROVE  Progress'
  BY DEF Progress
<1>a. /\ \A order \in {ColumnOrder, ConfigOrder, PrefIds} : DOMAIN order = 1..Len(order) /\ Len(order) \in Nat
      /\ BatchSize \in Nat /\ BatchSize >= 1
  BY RotateAssumption
<1>1. ASSUME NEW custom \in BOOLEAN, NEW dry \in BOOLEAN, Begin(custom, dry) PROVE Progress'
  <2>1. DoneUpTo(ColumnOrder)'
    BY <1>a, <1>1, NothingDue, BeginEffect
  <2> QED
    BY <1>1, <2>1, BeginEffect DEF Progress
<1>2. ASSUME RotateEncryptedFields PROVE Progress'
  <2>1. /\ Running /\ rotation.pc = "columns" /\ ColumnPage \in SUBSET Secrets
        /\ Fetch(After(ColumnOrder, BatchSize), BatchSize, "configs")
    BY <1>2, PageRows DEF RotateEncryptedFields, Running, ColumnPage
  <2>2. /\ Fetched(ColumnPage) /\ \A i : Done(i)' <=> Done(i)
        /\ rotation'.pc \in {"columns", "configs"}
        /\ rotation'.pc = "configs" => rotation'.pos = 0 /\ DOMAIN rotation'.page = {}
        /\ DoneUpTo(ColumnOrder) => /\ rotation'.pc = "configs" => AllDone(ColumnOrder)'
                                    /\ rotation'.pc = "columns" => DoneUpTo(ColumnOrder)'
    BY <1>a, <2>1, FetchProgress DEF ColumnPage
  <2>3. rotation'.pc = "configs" => DoneUpTo(ConfigOrder)'
    BY <1>a, <2>2, NothingDue
  <2> QED
    BY <2>1, <2>2, <2>3 DEF Progress, Fetched
<1>3. ASSUME RotateAuthenticatorConfigs PROVE Progress'
  <2>1. /\ Running /\ rotation.pc = "configs" /\ ConfigPage \in SUBSET Secrets
        /\ Fetch(After(ConfigOrder, Len(ConfigOrder)), Len(ConfigOrder), "preferences")
    BY <1>3, PageRows DEF RotateAuthenticatorConfigs, Running, ConfigPage
  <2>2. /\ Fetched(ConfigPage) /\ \A i : Done(i)' <=> Done(i)
        /\ rotation'.pc \in {"configs", "preferences"}
        /\ rotation'.pc = "preferences" => rotation'.pos = 0 /\ DOMAIN rotation'.page = {}
        /\ DoneUpTo(ConfigOrder) => /\ rotation'.pc = "preferences" => AllDone(ConfigOrder)'
                                    /\ rotation'.pc = "configs" => DoneUpTo(ConfigOrder)'
    BY <1>a, <2>1, FetchProgress DEF ConfigPage
  <2>3. rotation'.pc = "preferences" => DoneUpTo(PrefIds)'
    BY <1>a, <2>2, NothingDue
  <2>4. AllDone(ColumnOrder) => AllDone(ColumnOrder)'
    BY <2>2 DEF AllDone
  <2> QED
    BY <2>1, <2>2, <2>3, <2>4 DEF Progress, Fetched
<1>4. ASSUME RotatePreferences PROVE Progress'
  <2>1. /\ Running /\ rotation.pc = "preferences" /\ PreferencePage \in SUBSET Secrets
        /\ Fetch(After(PrefIds, BatchSize), BatchSize, "flush")
    BY <1>4, PageRows DEF RotatePreferences, Running, PreferencePage
  <2>2. /\ Fetched(PreferencePage) /\ \A i : Done(i)' <=> Done(i)
        /\ rotation'.pc \in {"preferences", "flush"}
        /\ rotation'.pc = "flush" => rotation'.pos = 0 /\ DOMAIN rotation'.page = {}
        /\ DoneUpTo(PrefIds) => /\ rotation'.pc = "flush" => AllDone(PrefIds)'
                                /\ rotation'.pc = "preferences" => DoneUpTo(PrefIds)'
    BY <1>a, <2>1, FetchProgress DEF PreferencePage
  <2>3. (AllDone(ColumnOrder) => AllDone(ColumnOrder)') /\ (AllDone(ConfigOrder) => AllDone(ConfigOrder)')
    BY <2>2 DEF AllDone
  <2> QED
    BY <2>1, <2>2, <2>3 DEF Progress, Fetched
<1>5. ASSUME ReencryptRows PROVE Progress'
  <2>1. /\ Running /\ rotation'.pc = rotation.pc /\ rotation'.dry = rotation.dry /\ rotation'.pos = rotation.pos
        /\ DOMAIN rotation'.page = {} /\ orderly' = orderly /\ DOMAIN rotation.page # {}
    <3>1. DOMAIN rotation.page # {}
      BY <1>5 DEF ReencryptRows
    <3> QED
      BY <1>5, <3>1, ReencryptEffect, RunningFields DEF Rotations, NoRows
  <2>2. rotation.pc \in {"columns", "configs", "preferences"}
    BY <2>1 DEF Progress, Running
  <2>3. ASSUME orderly, ~rotation.dry, NEW order \in {ColumnOrder, ConfigOrder, PrefIds}
        PROVE  (AllDone(order) => AllDone(order)') /\ (DoneUpTo(order) => DoneUpTo(order)')
    <3>1. \A n \in DOMAIN order : order[n] \in Secrets
      BY <2>3, RotateAssumption DEF Columns, Configs, SetOf, Secrets
    <3>2. /\ \A i \in Secrets : Done(i) => Done(i)'
          /\ \A i \in DOMAIN rotation.page : Done(i)'
      BY <1>5, <2>3, ReencryptProgress
    <3> QED
      BY <2>1, <3>1, <3>2 DEF AllDone, DoneUpTo
  <2> QED
    BY <2>1, <2>2, <2>3 DEF Progress
<1>6. ASSUME FlushCache \/ FlushRefused PROVE Progress'
  <2>1. Advanced("print") /\ rotation.pc = "flush" /\ (orderly' => orderly)
    <3>1. Advanced("print") /\ rotation.pc = "flush"
      BY <1>6, AdvanceEffect DEF FlushCache, FlushRefused
    <3>2. CASE FlushCache
      BY <3>1, <3>2 DEF FlushCache
    <3>3. CASE FlushRefused
      BY <3>1, <3>3 DEF FlushRefused
    <3> QED
      BY <1>6, <3>2, <3>3
  <2>2. \A i : Done(i)' <=> Done(i)
    BY <2>1 DEF Advanced, Done, InTxn
  <2>3. /\ AllDone(ColumnOrder) => AllDone(ColumnOrder)'
        /\ AllDone(ConfigOrder) => AllDone(ConfigOrder)'
        /\ AllDone(PrefIds) => AllDone(PrefIds)'
    BY <2>2 DEF AllDone
  <2> QED
    BY <2>1, <2>3 DEF Advanced, Progress
<1>7. ASSUME PrintKey PROVE Progress'
  <2>1. Advanced("commit") /\ rotation.pc = "print" /\ (orderly' => orderly)
    BY <1>7, AdvanceEffect DEF PrintKey
  <2>2. \A i : Done(i)' <=> Done(i)
    BY <2>1 DEF Advanced, Done, InTxn
  <2>3. /\ AllDone(ColumnOrder) => AllDone(ColumnOrder)'
        /\ AllDone(ConfigOrder) => AllDone(ConfigOrder)'
        /\ AllDone(PrefIds) => AllDone(PrefIds)'
    BY <2>2 DEF AllDone
  <2> QED
    BY <2>1, <2>3 DEF Advanced, Progress
<1>8. ASSUME NEW w \in Workers, Traffic(w) PROVE Progress'
  <2>1. rotation' = rotation
    BY <1>8 DEF Traffic
  <2>2. Running /\ ~orderly'
    BY <1>8, <2>1 DEF Traffic, Quiet, Running
  <2> QED
    BY <2>1, <2>2 DEF Progress
<1>9. CASE UNCHANGED <<db, rotation, orderly>>
  <2>1. \A i : Done(i)' <=> Done(i)
    BY <1>9 DEF Done, InTxn
  <2>2. \A order : (AllDone(order) => AllDone(order)') /\ (DoneUpTo(order) => DoneUpTo(order)')
    BY <1>9, <2>1 DEF AllDone, DoneUpTo
  <2>3. /\ AllDone(ColumnOrder) => AllDone(ColumnOrder)'
        /\ AllDone(ConfigOrder) => AllDone(ConfigOrder)'
        /\ AllDone(PrefIds) => AllDone(PrefIds)'
        /\ DoneUpTo(ColumnOrder) => DoneUpTo(ColumnOrder)'
        /\ DoneUpTo(ConfigOrder) => DoneUpTo(ConfigOrder)'
        /\ DoneUpTo(PrefIds) => DoneUpTo(PrefIds)'
    BY <2>2
  <2> QED
    BY <1>9, <2>3 DEF Progress, Running
<1>10. ~Commit /\ ~RotationFails
  BY DEF Commit, RotationFails, Running
<1> QED
  BY <1>1, <1>2, <1>3, <1>4, <1>5, <1>6, <1>7, <1>8, <1>9, <1>10
     DEF RotateNext, UpdateSecret, Restart, Expire, allVars, prefVars, rotVars

-----------------------------------------------------------------------------
(* What is handed out is clear text.                                       *)

LEMMA ClearStep == RotateTypeOK /\ ServedClear /\ [RotateNext]_allVars => ServedClear'
<1> SUFFICES ASSUME RotateTypeOK, ServedClear, [RotateNext]_allVars PROVE ServedClear'
  OBVIOUS
<1>1. CASE UNCHANGED worker
  BY <1>1 DEF ServedClear
<1>2. ASSUME Commit PROVE ServedClear'
  BY <1>2, CommitEffect DEF ServedClear, Delayed
<1>3. ASSUME Restart PROVE ServedClear'
  BY <1>3 DEF Restart, Rest, ServedClear
<1>4. ASSUME NEW w \in Workers, Work(w) PROVE ServedClear'
  <2>1. ASSUME NEW p \in Prefs, GetHit(w, p) PROVE ServedClear'
    <3>1. Clear(cache[p])
      BY DEF Clear, RotateTypeOK, PrefsTypeOK, Entries
    <3> QED
      BY <2>1, <3>1 DEF GetHit, ServedClear, RotateTypeOK, PrefsTypeOK
  <2>2. ASSUME NEW p \in Prefs, GetMiss(w, p) PROVE ServedClear'
    BY <2>2 DEF GetMiss, ServedClear, RotateTypeOK, PrefsTypeOK
  <2>3. ASSUME Fill(w) \/ Through(w) PROVE ServedClear'
    BY <2>3 DEF Fill, Through, Rest, ServedClear, RotateTypeOK, PrefsTypeOK
  <2>4. ASSUME Answer(w) \/ RegeneratePub(w) \/ WorkerDies(w) PROVE ServedClear'
    BY <2>4 DEF Answer, RegeneratePub, WorkerDies, Rest, ServedClear, RotateTypeOK, PrefsTypeOK
  <2>5. ASSUME NEW data, Put(w, data) PROVE ServedClear'
    BY <2>5 DEF Put, ServedClear, RotateTypeOK, PrefsTypeOK
  <2>6. ASSUME NEW p \in Prefs, SaveValue(w, p) PROVE ServedClear'
    <3>1. CASE Readable(db[p].key, worker[w].key)
      BY <2>6, <3>1, SaveEffect DEF RotateTypeOK, Delayed, ServedClear
    <3>2. CASE ~Readable(db[p].key, worker[w].key)
      <4>1. worker' = [worker EXCEPT ![w] = [pc |-> "corrupt", key |-> worker[w].key]]
        BY <2>6, <3>2 DEF SaveValue
      <4> QED
        BY <4>1 DEF ServedClear, RotateTypeOK, PrefsTypeOK
    <3> QED
      BY <3>1, <3>2
  <2> QED
    BY <1>4, <2>1, <2>2, <2>3, <2>4, <2>5, <2>6, WorkCases
<1> QED
  BY <1>1, <1>2, <1>3, <1>4
     DEF RotateNext, Traffic, Begin, RotateEncryptedFields, RotateAuthenticatorConfigs, RotatePreferences, Fetch,
         ReencryptRows, FlushCache, FlushRefused, PrintKey, RotationFails, UpdateSecret, Expire, allVars, prefVars

-----------------------------------------------------------------------------
LEMMA RotateInvInit == RotateInit => RotateInv
<1> SUFFICES ASSUME RotateInit PROVE RotateInv
  OBVIOUS
<1>1. RotateTypeOK
  BY PrefsTypeInit, RotateAssumption DEF RotateInit, RotateTypeOK
<1>2. ServedClear
  BY DEF RotateInit, PrefsInit, Rest, ServedClear
<1> QED
  BY <1>1, <1>2, LateInit, PairInit, KeysInit, OrderlyInit DEF RotateInv

LEMMA RotateInvStep == RotateInv /\ [RotateNext]_allVars => RotateInv'
<1> SUFFICES ASSUME RotateInv, [RotateNext]_allVars PROVE RotateInv'
  OBVIOUS
<1>1. RotateTypeOK'
  BY RotateTypeStep DEF RotateInv
<1>2. HeldIsCurrent' /\ StaleOnlyIfLate'
  BY LateStep DEF RotateInv
<1>3. PubFollows' /\ PairMatches'
  BY PairStep DEF RotateInv
<1>4. PairKeys' /\ TxnKeys'
  BY TxnStep DEF RotateInv
<1>5. KeysKnown'
  BY KeysStep DEF RotateInv
<1>6. OrderlyKeys'
  BY OrderlyStep DEF RotateInv
<1>7. Progress'
  BY ProgressStep DEF RotateInv
<1>8. ServedClear'
  BY ClearStep DEF RotateInv
<1> QED
  BY <1>1, <1>2, <1>3, <1>4, <1>5, <1>6, <1>7, <1>8 DEF RotateInv

(* The parts of the invariant hold together at every moment of the         *)
(* settings' and the command's life.                                       *)
LEMMA RotateInvariant == RotateSpec => []RotateInv
  BY RotateInvInit, RotateInvStep, PTL DEF RotateSpec

(***************************************************************************)
(* Every row, cache entry, worker and phase of the command keeps its type, *)
(* whatever is requested, killed or expired in between (the settings'      *)
(* manager and Command.handle).                                            *)
(***************************************************************************)
THEOREM RotateTypeCorrect == RotateSpec => []RotateTypeOK
<1>1. RotateInv => RotateTypeOK
  BY DEF RotateInv
<1> QED
  BY <1>1, RotateInvariant, PTL

(***************************************************************************)
(* Whatever is served from the cache is the clear text of the row, but for *)
(* an entry whose writer was overtaken, died or is still on its way        *)
(* (EncryptedPreferencesManager, get_preference_value).                    *)
(***************************************************************************)
THEOREM SettingsServedAsStored == RotateSpec => []ServedAsStored
<1>1. RotateInv => ServedAsStored
  BY DEF RotateInv, ServedAsStored
<1> QED
  BY <1>1, RotateInvariant, PTL

(***************************************************************************)
(* The public key belongs to the private key unless updates of the private *)
(* key overlapped or broke off (update_jwt_public_key).                    *)
(***************************************************************************)
THEOREM KeyPairMatches == RotateSpec => []PairMatches
<1>1. RotateInv => PairMatches
  BY DEF RotateInv
<1> QED
  BY <1>1, RotateInvariant, PTL

(***************************************************************************)
(* No secret is ever under a key that the operator does not have, and      *)
(* while the procedure is kept to all of them are under one key, wherever  *)
(* the command breaks off (Command.handle).                                *)
(***************************************************************************)
THEOREM SecretsUnderOneKnownKey == RotateSpec => []OneKnownKey
<1>1. RotateInv => OneKnownKey
  <2> SUFFICES ASSUME RotateInv PROVE OneKey
    BY DEF RotateInv, KeysKnown, OneKnownKey
  <2> SUFFICES ASSUME orderly, NEW i \in Secrets \ Unloadable, NEW j \in Secrets \ Unloadable
               PROVE  db[i].key = db[j].key \/ Plain \in {db[i].key, db[j].key}
    BY DEF OneKey
  <2>1. AllUnder(rotation.new) \/ AllUnder(deployed)
    BY DEF RotateInv, OrderlyKeys
  <2> QED
    BY <2>1 DEF AllUnder, Rotated
<1> QED
  BY <1>1, RotateInvariant, PTL

(***************************************************************************)
(* When the procedure has been gone through, the services can read every   *)
(* row and every cache entry with the deployed key, so that they start     *)
(* (initialize_preferences).                                               *)
(***************************************************************************)
THEOREM ServicesStartAfterRotation == RotateSpec => []StartsAfterRotation
<1>1. RotateInv => StartsAfterRotation
  <2> SUFFICES ASSUME RotateInv, orderly, ~Awaiting
               PROVE  /\ CorruptPreferences(deployed) = {}
                      /\ \A i \in Secrets \ Unloadable : Readable(db[i].key, deployed)
    BY DEF StartsAfterRotation, Awaiting
  <2>1. AllUnder(deployed) /\ \A p \in Prefs : cache[p].key \in {Plain, deployed}
    BY DEF RotateInv, OrderlyKeys
  <2>2. \A i \in Secrets \ Unloadable : Readable(db[i].key, deployed)
    BY <2>1 DEF AllUnder, Rotated, Readable
  <2>3. \A p \in Prefs : Readable(Visible(p).key, deployed)
    <3>1. Prefs \subseteq Secrets \ Unloadable
      BY RotateAssumption DEF Secrets
    <3> QED
      BY <2>1, <2>2, <3>1 DEF Visible, Readable
  <2> QED
    BY <2>2, <2>3 DEF CorruptPreferences
<1> QED
  BY <1>1, RotateInvariant, PTL
==============================================================================
