------------------------ MODULE ServiceClusterProofs ------------------------
(***************************************************************************)
(* Proofs about service clusters: their keys (ServiceKeys), the validation *)
(* of their tokens (ServiceTokens) and the routes that lead to them        *)
(* (ProxyRoutes), for any number of editors, threads, clusters and keys,   *)
(* and any requests that change a route at the same time.                  *)
(***************************************************************************)
EXTENDS ServiceTokens, ProxyRoutes, FiniteSetTheorems, TLAPS

-----------------------------------------------------------------------------
(* Types.                                                                  *)

LEMMA KeysTypeInit == KeysInit => KeysTypeOK
<1> SUFFICES ASSUME KeysInit PROVE KeysTypeOK
  OBVIOUS
<1>1. /\ created \in 0..MaxKeys
      /\ DOMAIN keys = 1..created
      /\ editor \in [Editors -> {Idle} \cup Generating \cup Changing]
  BY ServiceKeysAssumption DEF KeysInit
<1>2. \A k \in DOMAIN keys : keys[k] \in [cluster : Clusters, active : {TRUE}]
  BY DEF KeysInit
<1>3. \A e \in Editors : editor[e].pc = "idle"
  BY DEF KeysInit, Idle
<1> QED
  BY <1>1, <1>2, <1>3 DEF KeysTypeOK

(* The step of an editor that makes a key active is noted in the records   *)
(* of the editors that generate a key; it changes nothing else of them.    *)
LEMMA NoteType ==
  ASSUME KeysTypeOK, NEW k \in 1..MaxKeys, NEW active \in BOOLEAN, NEW e \in Editors
  PROVE  LET new == [Note(k, active) EXCEPT ![e] = Idle]
         IN  /\ new \in [Editors -> {Idle} \cup Generating \cup Changing]
             /\ new[e] = Idle
             /\ \A f \in Editors \ {e} : new[f] = Note(k, active)[f]
<1>1. \A f \in Editors : editor[f].pc \in {"retire", "insert"} =>
        [editor[f] EXCEPT !.foreign = @ \cup {k}] \in Generating
  BY DEF KeysTypeOK, Generating, Changing, Idle
<1>2. editor \in [Editors -> {Idle} \cup Generating \cup Changing]
  BY DEF KeysTypeOK
<1> QED
  BY <1>1, <1>2 DEF Note

LEMMA NoteFields ==
  ASSUME KeysTypeOK, NEW k \in 1..MaxKeys, NEW active \in BOOLEAN
  PROVE  \A f \in Editors :
           /\ Note(k, active)[f].pc = editor[f].pc
           /\ editor[f].pc \notin {"retire", "insert"} => Note(k, active)[f] = editor[f]
           /\ editor[f].pc \in {"retire", "insert"} =>
                /\ Note(k, active)[f].cluster = editor[f].cluster
                /\ Note(k, active)[f].mark = editor[f].mark
                /\ Note(k, active)[f].todo = editor[f].todo
                /\ active => Note(k, active)[f].foreign = editor[f].foreign \cup {k}
                /\ ~active => Note(k, active)[f].foreign = editor[f].foreign
  BY DEF Note, KeysTypeOK, Generating, Changing, Idle

LEMMA KeysTypeStep == KeysTypeOK /\ KeysNext => KeysTypeOK'
<1> SUFFICES ASSUME KeysTypeOK, KeysNext PROVE KeysTypeOK'
  OBVIOUS
<1> USE ServiceKeysAssumption
<1>1. ASSUME NEW e \in Editors, StartGenerate(e) PROVE KeysTypeOK'
  BY <1>1 DEF StartGenerate, KeysTypeOK, ActiveKeys, Generating, Changing, Idle
<1>2. ASSUME NEW e \in Editors, Retire(e) PROVE KeysTypeOK'
  <2> PICK k \in editor[e].todo :
        /\ Put(k, editor[e].cluster, FALSE)
        /\ editor' = [editor EXCEPT ![e].todo = @ \ {k}]
    BY <1>2 DEF Retire
  <2>1. /\ editor[e] \in Generating
        /\ editor[e].todo \subseteq 1..created /\ editor[e].cluster \in Clusters
    BY <1>2 DEF Retire, KeysTypeOK, Generating, Changing, Idle
  <2>2. created' = created /\ k \in 1..created
    BY <1>2, <2>1 DEF Retire
  <2>3. /\ editor' \in [Editors -> {Idle} \cup Generating \cup Changing]
        /\ \A f \in Editors \ {e} : editor'[f] = editor[f]
        /\ editor'[e] = [editor[e] EXCEPT !.todo = @ \ {k}]
    BY <2>1 DEF KeysTypeOK, Generating
  <2>4. \A f \in Editors :
          /\ editor'[f].pc \in {"retire", "insert"} => editor'[f].foreign \cup editor'[f].todo \subseteq 1..created
          /\ editor'[f].pc \in {"check", "write"} => editor'[f].key \in 1..created
    BY <2>1, <2>3 DEF KeysTypeOK, Generating
  <2> QED
    BY <2>1, <2>2, <2>3, <2>4 DEF Put, KeysTypeOK
<1>3. ASSUME NEW e \in Editors, CountForNew(e) PROVE KeysTypeOK'
  BY <1>3 DEF CountForNew, KeysTypeOK, Generating, Changing, Idle
<1>4. ASSUME NEW e \in Editors, InsertNew(e) PROVE KeysTypeOK'
  <2>1. /\ editor[e] \in Generating /\ editor[e].cluster \in Clusters
        /\ created + 1 \in 1..MaxKeys /\ created' = created + 1
        /\ 1..created \subseteq 1..(created + 1)
    BY <1>4 DEF InsertNew, KeysTypeOK, Generating, Changing, Idle
  <2>2. /\ editor' \in [Editors -> {Idle} \cup Generating \cup Changing]
        /\ editor'[e] = Idle
        /\ \A f \in Editors \ {e} : editor'[f] = Note(created + 1, TRUE)[f]
    BY <1>4, <2>1, NoteType DEF InsertNew
  <2>a. \A f \in Editors \ {e} :
          /\ editor'[f].pc = editor[f].pc
          /\ editor[f].pc \notin {"retire", "insert"} => editor'[f] = editor[f]
          /\ editor[f].pc \in {"retire", "insert"} =>
               /\ editor'[f].todo = editor[f].todo
               /\ editor'[f].foreign \subseteq editor[f].foreign \cup {created + 1}
    BY <2>1, <2>2 DEF Note, KeysTypeOK, Generating, Changing, Idle
  <2>3. ASSUME NEW f \in Editors
        PROVE  /\ editor'[f].pc \in {"retire", "insert"} =>
                    editor'[f].foreign \cup editor'[f].todo \subseteq 1..created'
               /\ editor'[f].pc \in {"check", "write"} => editor'[f].key \in 1..created'
    BY <2>1, <2>2, <2>a DEF KeysTypeOK, Idle
  <2>4. /\ DOMAIN keys' \subseteq 1..created'
        /\ \A k \in DOMAIN keys' : keys'[k] \in [cluster : Clusters, active : BOOLEAN]
    BY <1>4, <2>1 DEF InsertNew, Put, KeysTypeOK
  <2> QED
    BY <2>1, <2>2, <2>3, <2>4 DEF KeysTypeOK
<1>5. ASSUME NEW e \in Editors, LoadKey(e) PROVE KeysTypeOK'
  BY <1>5 DEF LoadKey, KeysTypeOK, Generating, Changing, Idle
<1>6. ASSUME NEW e \in Editors, CheckKey(e) PROVE KeysTypeOK'
  BY <1>6 DEF CheckKey, KeysTypeOK, Generating, Changing, Idle
<1>7. ASSUME NEW e \in Editors, WriteKey(e) PROVE KeysTypeOK'
  <2> DEFINE k == editor[e].key
  <2>1. /\ editor[e] \in Changing /\ editor[e].cluster \in Clusters /\ editor[e].active \in BOOLEAN
        /\ k \in 1..created /\ k \in 1..MaxKeys /\ created' = created
    BY <1>7 DEF WriteKey, KeysTypeOK, Generating, Changing, Idle
  <2>2. /\ editor' \in [Editors -> {Idle} \cup Generating \cup Changing]
        /\ editor'[e] = Idle
        /\ \A f \in Editors \ {e} : editor'[f] = Note(k, editor[e].active)[f]
    BY <1>7, <2>1, NoteType DEF WriteKey
  <2>a. \A f \in Editors \ {e} :
          /\ editor'[f].pc = editor[f].pc
          /\ editor[f].pc \notin {"retire", "insert"} => editor'[f] = editor[f]
          /\ editor[f].pc \in {"retire", "insert"} =>
               /\ editor'[f].todo = editor[f].todo
               /\ editor'[f].foreign \subseteq editor[f].foreign \cup {k}
    BY <2>1, <2>2, NoteFields
  <2>3. ASSUME NEW f \in Editors
        PROVE  /\ editor'[f].pc \in {"retire", "insert"} =>
                    editor'[f].foreign \cup editor'[f].todo \subseteq 1..created'
               /\ editor'[f].pc \in {"check", "write"} => editor'[f].key \in 1..created'
    BY <2>1, <2>2, <2>a DEF KeysTypeOK, Idle
  <2>4. /\ DOMAIN keys' \subseteq 1..created'
        /\ \A j \in DOMAIN keys' : keys'[j] \in [cluster : Clusters, active : BOOLEAN]
    BY <1>7, <2>1 DEF WriteKey, Put, KeysTypeOK
  <2> QED
    BY <2>1, <2>2, <2>3, <2>4 DEF KeysTypeOK
<1>8. ASSUME NEW e \in Editors, EditorDies(e) PROVE KeysTypeOK'
  BY <1>8 DEF EditorDies, KeysTypeOK, Generating, Changing, Idle
<1>9. CASE DeleteKeys
  BY <1>9 DEF DeleteKeys, KeysTypeOK, Generating, Changing, Idle
<1> QED
  BY <1>1, <1>2, <1>3, <1>4, <1>5, <1>6, <1>7, <1>8, <1>9 DEF KeysNext

-----------------------------------------------------------------------------
(* The limit on active keys.                                               *)

(* The requests that have counted and not yet stored: the ones that will   *)
(* write back a key as active, and the ones that will insert a new key.    *)
Writers(c) ==
  {e \in Editors : editor[e].pc = "write" /\ editor[e].active /\ editor[e].cluster = c}
Inserters(c) == {e \in Editors : editor[e].pc = "insert" /\ editor[e].cluster = c}

(* The keys that are active, or will be when the writers have written.     *)
Possible(c) == ActiveKeys(c) \cup {editor[e].key : e \in Writers(c)}

(***************************************************************************)
(* The bound is inductive only if it counts what the requests still have   *)
(* to store.  Two requests that write the same key take one place.         *)
(***************************************************************************)
PlacesBounded ==
  \A c \in Clusters :
    Cardinality(Possible(c)) + Cardinality(Inserters(c)) <= MaxActive + Cardinality(Editors) - 1

LEMMA SetsFinite ==
  ASSUME KeysTypeOK, NEW c \in Clusters
  PROVE  /\ Possible(c) \subseteq 1..MaxKeys /\ ActiveKeys(c) \subseteq Possible(c)
         /\ IsFiniteSet(Possible(c)) /\ IsFiniteSet(Inserters(c)) /\ IsFiniteSet(ActiveKeys(c))
         /\ Cardinality(Possible(c)) \in Nat /\ Cardinality(Inserters(c)) \in Nat
         /\ Cardinality(ActiveKeys(c)) \in Nat /\ Cardinality(Editors) \in Nat
         /\ Cardinality(ActiveKeys(c)) <= Cardinality(Possible(c))
<1>1. ActiveKeys(c) \subseteq 1..MaxKeys
  BY ServiceKeysAssumption DEF KeysTypeOK, ActiveKeys
<1>2. \A e \in Writers(c) : editor[e].key \in 1..MaxKeys
  BY ServiceKeysAssumption DEF KeysTypeOK, Writers
<1>3. Possible(c) \subseteq 1..MaxKeys /\ ActiveKeys(c) \subseteq Possible(c)
  BY <1>1, <1>2 DEF Possible
<1>4. IsFiniteSet(1..MaxKeys)
  BY ServiceKeysAssumption, FS_Interval
<1>5. IsFiniteSet(Possible(c))
  BY <1>3, <1>4, FS_Subset
<1>6. IsFiniteSet(ActiveKeys(c)) /\ Cardinality(ActiveKeys(c)) <= Cardinality(Possible(c))
  BY <1>3, <1>5, FS_Subset
<1>7. Inserters(c) \in SUBSET Editors
  BY DEF Inserters
<1>8. IsFiniteSet(Inserters(c))
  BY <1>7, ServiceKeysAssumption, FS_Subset
<1> QED
  BY <1>3, <1>5, <1>6, <1>8, FS_CardinalityType, ServiceKeysAssumption

(* Fewer keys than the limit, and each editor adds one at most. *)
LEMMA CountedOnce ==
  ASSUME NEW A, IsFiniteSet(A), Cardinality(A) < MaxActive,
         NEW W \in SUBSET Editors, NEW I \in SUBSET Editors, W \cap I = {},
         NEW key, NEW P, \A p \in P : p \in A \/ \E e \in W : p = key[e]
  PROVE  Cardinality(P) + Cardinality(I) <= MaxActive + Cardinality(Editors) - 1
<1> DEFINE K == {key[e] : e \in W}
           f == [e \in W |-> key[e]]
<1>1. IsFiniteSet(W) /\ IsFiniteSet(I)
  BY ServiceKeysAssumption, FS_Subset
<1>2. f \in Surjection(W, K)
  BY DEF Surjection
<1>3. IsFiniteSet(K) /\ Cardinality(K) <= Cardinality(W)
  <2> HIDE DEF f, K
  <2> QED
    BY <1>1, <1>2, FS_Surjection
<1>4. /\ IsFiniteSet(W \cup I)
      /\ Cardinality(W \cup I) = Cardinality(W) + Cardinality(I) - Cardinality({})
  BY <1>1, FS_Union
<1>5. Cardinality(W \cup I) <= Cardinality(Editors)
  BY ServiceKeysAssumption, FS_Subset
<1>6. /\ IsFiniteSet(A \cup K)
      /\ Cardinality(A \cup K) = Cardinality(A) + Cardinality(K) - Cardinality(A \cap K)
  <2> HIDE DEF K
  <2> QED
    BY <1>3, FS_Union
<1>7. IsFiniteSet(P) /\ Cardinality(P) <= Cardinality(A \cup K)
  <2>1. P \in SUBSET (A \cup K)
    OBVIOUS
  <2> HIDE DEF K
  <2> QED
    BY <1>6, <2>1, FS_Subset
<1>8. IsFiniteSet(A \cap K)
  <2> HIDE DEF K
  <2> QED
    BY <1>3, FS_Intersection
<1> HIDE DEF f, K
<1>9. /\ Cardinality(A) \in Nat /\ Cardinality(K) \in Nat /\ Cardinality(A \cap K) \in Nat
      /\ Cardinality(W) \in Nat /\ Cardinality(I) \in Nat /\ Cardinality(P) \in Nat
      /\ Cardinality(A \cup K) \in Nat /\ Cardinality(W \cup I) \in Nat
      /\ Cardinality(Editors) \in Nat
  BY <1>1, <1>3, <1>4, <1>6, <1>7, <1>8, ServiceKeysAssumption, FS_CardinalityType
<1> QED
  BY <1>3, <1>4, <1>5, <1>6, <1>7, <1>9, ServiceKeysAssumption, FS_EmptySet

(* A step that adds no possible key and no inserter keeps the bound. *)
LEMMA NothingAdded ==
  ASSUME KeysTypeOK, KeysTypeOK', NEW c \in Clusters,
         Possible(c)' \subseteq Possible(c), Inserters(c)' \subseteq Inserters(c),
         Cardinality(Possible(c)) + Cardinality(Inserters(c)) <= MaxActive + Cardinality(Editors) - 1
  PROVE  Cardinality(Possible(c)') + Cardinality(Inserters(c)') <= MaxActive + Cardinality(Editors) - 1
<1>1. /\ IsFiniteSet(Possible(c)) /\ IsFiniteSet(Inserters(c))
      /\ Cardinality(Possible(c)) \in Nat /\ Cardinality(Inserters(c)) \in Nat
      /\ Cardinality(Editors) \in Nat
  BY SetsFinite
<1>2. /\ Cardinality(Possible(c)') <= Cardinality(Possible(c))
      /\ Cardinality(Inserters(c)') <= Cardinality(Inserters(c))
      /\ IsFiniteSet(Possible(c)') /\ IsFiniteSet(Inserters(c)')
  BY <1>1, FS_Subset
<1>3. Cardinality(Possible(c)') \in Nat /\ Cardinality(Inserters(c)') \in Nat
  BY <1>2, FS_CardinalityType
<1> QED
  BY <1>1, <1>2, <1>3, ServiceKeysAssumption

LEMMA PlacesInit == KeysInit => PlacesBounded
<1> SUFFICES ASSUME KeysInit, NEW c \in Clusters
             PROVE  Cardinality(Possible(c)) + Cardinality(Inserters(c)) <= MaxActive + Cardinality(Editors) - 1
  BY DEF PlacesBounded
<1>1. Possible(c) \in SUBSET {1} /\ Inserters(c) = {}
  BY DEF KeysInit, Possible, ActiveKeys, Writers, Inserters, Idle
<1>2. IsFiniteSet({1}) /\ Cardinality({1}) = 1
  BY FS_Singleton
<1>3. IsFiniteSet(Possible(c)) /\ Cardinality(Possible(c)) <= 1
  BY <1>1, <1>2, FS_Subset
<1>4. /\ Cardinality(Possible(c)) \in Nat /\ Cardinality(Inserters(c)) = 0
      /\ Cardinality(Editors) \in Nat /\ Cardinality(Editors) # 0
  BY <1>1, <1>3, FS_CardinalityType, FS_EmptySet, ServiceKeysAssumption
<1> QED
  BY <1>3, <1>4, ServiceKeysAssumption

LEMMA PlacesStep ==
  KeysTypeOK /\ KeysTypeOK' /\ PlacesBounded /\ KeysNext => PlacesBounded'
<1> SUFFICES ASSUME KeysTypeOK, KeysTypeOK', PlacesBounded, KeysNext, NEW c \in Clusters
             PROVE  Cardinality(Possible(c)') + Cardinality(Inserters(c)')
                      <= MaxActive + Cardinality(Editors) - 1
  BY DEF PlacesBounded
<1>a. Cardinality(Possible(c)) + Cardinality(Inserters(c)) <= MaxActive + Cardinality(Editors) - 1
  BY DEF PlacesBounded
<1>b. ASSUME Possible(c)' \subseteq Possible(c), Inserters(c)' \subseteq Inserters(c)
      PROVE  Cardinality(Possible(c)') + Cardinality(Inserters(c)')
               <= MaxActive + Cardinality(Editors) - 1
  BY <1>a, <1>b, NothingAdded
<1>1. ASSUME NEW e \in Editors, StartGenerate(e) \/ LoadKey(e) \/ EditorDies(e)
      PROVE  Possible(c)' \subseteq Possible(c) /\ Inserters(c)' \subseteq Inserters(c)
  BY <1>1 DEF StartGenerate, LoadKey, EditorDies, KeysTypeOK, Idle,
              Possible, Writers, Inserters, ActiveKeys
<1>2. ASSUME NEW e \in Editors, Retire(e)
      PROVE  Possible(c)' \subseteq Possible(c) /\ Inserters(c)' \subseteq Inserters(c)
  BY <1>2 DEF Retire, Put, KeysTypeOK, Generating, Changing, Idle,
              Possible, Writers, Inserters, ActiveKeys
<1>3. ASSUME DeleteKeys
      PROVE  Possible(c)' \subseteq Possible(c) /\ Inserters(c)' \subseteq Inserters(c)
  BY <1>3 DEF DeleteKeys, Possible, Writers, Inserters, ActiveKeys
<1>4. ASSUME NEW e \in Editors, CountForNew(e)
      PROVE  Cardinality(Possible(c)') + Cardinality(Inserters(c)')
               <= MaxActive + Cardinality(Editors) - 1
  <2> DEFINE refused == Cardinality(ActiveKeys(editor[e].cluster)) >= MaxActive
  <2>1. /\ editor[e] \in Generating /\ editor \in [Editors -> {Idle} \cup Generating \cup Changing]
        /\ keys' = keys
        /\ editor' = [editor EXCEPT ![e] = IF refused THEN Idle ELSE [@ EXCEPT !.pc = "insert"]]
    BY <1>4 DEF CountForNew, KeysTypeOK, Generating, Changing, Idle
  <2>2. CASE refused \/ editor[e].cluster # c
    <3> HIDE DEF refused
    <3> Possible(c)' \subseteq Possible(c) /\ Inserters(c)' \subseteq Inserters(c)
      BY <2>1, <2>2 DEF Generating, Idle, Possible, Writers, Inserters, ActiveKeys
    <3> QED
      BY <1>b
  <2>3. CASE ~refused /\ editor[e].cluster = c
    <3>1. IsFiniteSet(ActiveKeys(c)) /\ Cardinality(ActiveKeys(c)) \in Nat
      BY SetsFinite
    <3>2. Cardinality(ActiveKeys(c)) < MaxActive
      BY <2>3, <3>1, ServiceKeysAssumption
    <3> DEFINE key == [f \in Editors |-> editor[f].key]
    <3>3. /\ Writers(c)' = Writers(c) /\ Writers(c)' \cap Inserters(c)' = {}
          /\ \A p \in Possible(c)' : p \in ActiveKeys(c) \/ \E f \in Writers(c) : p = key[f]
      <4> HIDE DEF refused
      <4> QED
        BY <2>1, <2>3 DEF Generating, Possible, Writers, Inserters, ActiveKeys
    <3> HIDE DEF key
    <3>4. Writers(c) \in SUBSET Editors /\ Inserters(c)' \in SUBSET Editors
      BY DEF Writers, Inserters
    <3> QED
      BY <3>1, <3>2, <3>3, <3>4, CountedOnce
  <2> QED
    BY <2>2, <2>3
<1>5. ASSUME NEW e \in Editors, CheckKey(e)
      PROVE  Cardinality(Possible(c)') + Cardinality(Inserters(c)')
               <= MaxActive + Cardinality(Editors) - 1
  <2> DEFINE k == editor[e].key
             others == ActiveKeys(editor[e].cluster) \ {k}
             refused == editor[e].active /\ Cardinality(others) >= MaxActive
  <2>1. /\ editor[e] \in Changing /\ editor \in [Editors -> {Idle} \cup Generating \cup Changing]
        /\ keys' = keys
        /\ editor' = [editor EXCEPT ![e] = IF refused THEN Idle ELSE [@ EXCEPT !.pc = "write"]]
    BY <1>5 DEF CheckKey, KeysTypeOK, Generating, Changing, Idle
  <2>2. CASE refused \/ editor[e].cluster # c \/ ~editor[e].active
    <3> HIDE DEF refused
    <3> Possible(c)' \subseteq Possible(c) /\ Inserters(c)' \subseteq Inserters(c)
      BY <2>1, <2>2 DEF Changing, Idle, Possible, Writers, Inserters, ActiveKeys
    <3> QED
      BY <1>b
  <2>3. CASE ~refused /\ editor[e].cluster = c /\ editor[e].active
    <3>1. IsFiniteSet(others) /\ Cardinality(others) \in Nat
      <4>1. IsFiniteSet(ActiveKeys(c))
        BY SetsFinite
      <4> QED
        BY <2>3, <4>1, FS_RemoveElement, FS_CardinalityType
    <3>2. Cardinality(others) < MaxActive
      BY <2>3, <3>1, ServiceKeysAssumption
    <3> DEFINE key == [f \in Editors |-> editor'[f].key]
               writers == Writers(c)'
    <3>3. /\ writers \cap Inserters(c)' = {}
          /\ \A p \in Possible(c)' : p \in others \/ \E f \in writers : p = key[f]
      <4>1. editor'[e].key = k /\ e \in writers
        <5> HIDE DEF refused
        <5> QED
          BY <2>1, <2>3 DEF Changing, Writers
      <4>2. \A p \in Possible(c)' : p \in ActiveKeys(c) \/ \E f \in writers : p = key[f]
        BY <2>1 DEF Possible, ActiveKeys, Writers
      <4>3. writers \cap Inserters(c)' = {}
        BY DEF Writers, Inserters
      <4> HIDE DEF refused
      <4> QED
        BY <2>3, <4>1, <4>2, <4>3
    <3>4. writers \in SUBSET Editors /\ Inserters(c)' \in SUBSET Editors
      BY DEF Writers, Inserters
    <3>5. ASSUME NEW A, A = others, NEW W, W = writers, NEW h, h = key
          PROVE  Cardinality(Possible(c)') + Cardinality(Inserters(c)')
                   <= MaxActive + Cardinality(Editors) - 1
      <4>1. /\ IsFiniteSet(A) /\ Cardinality(A) < MaxActive
            /\ W \in SUBSET Editors /\ Inserters(c)' \in SUBSET Editors /\ W \cap Inserters(c)' = {}
            /\ \A p \in Possible(c)' : p \in A \/ \E f \in W : p = h[f]
        BY <3>1, <3>2, <3>3, <3>4, <3>5
      <4> QED
        BY <4>1, CountedOnce
    <3> QED
      BY <3>5
  <2> QED
    BY <2>2, <2>3
<1>6. ASSUME NEW e \in Editors, InsertNew(e)
      PROVE  Cardinality(Possible(c)') + Cardinality(Inserters(c)')
               <= MaxActive + Cardinality(Editors) - 1
  <2>1. editor[e] \in Generating /\ editor[e].pc = "insert" /\ created + 1 \in 1..MaxKeys
    BY <1>6, ServiceKeysAssumption DEF InsertNew, KeysTypeOK, Generating, Changing, Idle
  <2>a. /\ editor'[e] = Idle
        /\ \A f \in Editors \ {e} :
             /\ editor'[f].pc = editor[f].pc
             /\ editor[f].pc = "insert" => editor'[f].cluster = editor[f].cluster
             /\ editor[f].pc = "write" => editor'[f] = editor[f]
    <3>1. /\ editor'[e] = Idle
          /\ \A f \in Editors \ {e} : editor'[f] = Note(created + 1, TRUE)[f]
      BY <1>6, <2>1, NoteType DEF InsertNew
    <3> QED
      BY <2>1, <3>1 DEF Note, KeysTypeOK, Generating, Changing, Idle
  <2>2. ActiveKeys(c)' \subseteq ActiveKeys(c) \cup (IF editor[e].cluster = c THEN {created + 1} ELSE {})
    BY <1>6 DEF InsertNew, Put, ActiveKeys
  <2>3. Possible(c)' \subseteq Possible(c) \cup (IF editor[e].cluster = c THEN {created + 1} ELSE {})
    BY <2>a, <2>2 DEF Idle, Possible, Writers
  <2>4. Inserters(c)' \subseteq Inserters(c) \ {e}
    BY <2>a DEF Idle, Inserters
  <2>5. CASE editor[e].cluster # c
    BY <1>b, <2>3, <2>4, <2>5
  <2>6. CASE editor[e].cluster = c
    <3>1. e \in Inserters(c)
      BY <2>1, <2>6 DEF Inserters
    <3>2. /\ IsFiniteSet(Possible(c)) /\ IsFiniteSet(Inserters(c))
          /\ Cardinality(Possible(c)) \in Nat /\ Cardinality(Inserters(c)) \in Nat
          /\ Cardinality(Editors) \in Nat
      BY SetsFinite
    <3> DEFINE more == Possible(c) \cup {created + 1}
               less == Inserters(c) \ {e}
    <3>3. IsFiniteSet(more) /\ Cardinality(more) <= Cardinality(Possible(c)) + 1
      <4>1. /\ IsFiniteSet(more)
            /\ Cardinality(more) = IF created + 1 \in Possible(c) THEN Cardinality(Possible(c))
                                                                  ELSE Cardinality(Possible(c)) + 1
        BY <3>2, FS_AddElement
      <4> QED
        BY <3>2, <4>1
    <3>4. IsFiniteSet(less) /\ Cardinality(less) = Cardinality(Inserters(c)) - 1
      BY <3>1, <3>2, FS_RemoveElement
    <3>5. Possible(c)' \in SUBSET more /\ Inserters(c)' \in SUBSET less
      BY <2>3, <2>4, <2>6
    <3> HIDE DEF more, less
    <3>6. /\ Cardinality(Possible(c)') <= Cardinality(more) /\ IsFiniteSet(Possible(c)')
          /\ Cardinality(Inserters(c)') <= Cardinality(less) /\ IsFiniteSet(Inserters(c)')
      BY <3>3, <3>4, <3>5, FS_Subset
    <3>7. /\ Cardinality(Possible(c)') \in Nat /\ Cardinality(Inserters(c)') \in Nat
          /\ Cardinality(more) \in Nat /\ Cardinality(less) \in Nat
      BY <3>3, <3>4, <3>6, FS_CardinalityType
    <3> QED
      BY <1>a, <3>2, <3>3, <3>4, <3>6, <3>7, ServiceKeysAssumption
  <2> QED
    BY <2>5, <2>6
<1>7. ASSUME NEW e \in Editors, WriteKey(e)
      PROVE  Possible(c)' \subseteq Possible(c) /\ Inserters(c)' \subseteq Inserters(c)
  <2>1. /\ editor[e] \in Changing /\ editor[e].key \in 1..MaxKeys
        /\ editor[e].active \in BOOLEAN /\ editor[e].pc = "write"
    BY <1>7, ServiceKeysAssumption DEF WriteKey, KeysTypeOK, Generating, Changing, Idle
  <2>2. /\ editor'[e] = Idle
        /\ \A f \in Editors \ {e} :
             /\ editor'[f].pc = editor[f].pc
             /\ editor[f].pc = "insert" => editor'[f].cluster = editor[f].cluster
             /\ editor[f].pc = "write" => editor'[f] = editor[f]
    <3>1. /\ editor'[e] = Idle
          /\ \A f \in Editors \ {e} : editor'[f] = Note(editor[e].key, editor[e].active)[f]
      BY <1>7, <2>1, NoteType DEF WriteKey
    <3> QED
      BY <2>1, <3>1, NoteFields
  <2>3. ActiveKeys(c)' \subseteq Possible(c)
    BY <1>7, <2>1 DEF WriteKey, Put, Possible, Writers, ActiveKeys
  <2> QED
    BY <2>2, <2>3 DEF Idle, Possible, Writers, Inserters
<1> QED
  BY <1>1, <1>2, <1>3, <1>4, <1>5, <1>6, <1>7, <1>b DEF KeysNext

-----------------------------------------------------------------------------
(* A generated key replaces the ones it found.                             *)

(***************************************************************************)
(* While generate_key runs, the keys that are active in its cluster are    *)
(* the ones it has still to retire or ones that others made active since.  *)
(***************************************************************************)
Accounted(e) ==
  editor[e].pc \in {"retire", "insert"} =>
    /\ editor[e].pc = "insert" => editor[e].todo = {}
    /\ editor[e].mark => ActiveKeys(editor[e].cluster) \subseteq editor[e].foreign \cup editor[e].todo
ActiveAccounted == \A e \in Editors : Accounted(e)

LEMMA AccountedStep == KeysTypeOK /\ ActiveAccounted /\ KeysNext => ActiveAccounted'
<1> SUFFICES ASSUME KeysTypeOK, ActiveAccounted, KeysNext, NEW g \in Editors,
                    editor'[g].pc \in {"retire", "insert"}
             PROVE  Accounted(g)'
  BY DEF ActiveAccounted, Accounted
<1>a. Accounted(g)
  BY DEF ActiveAccounted
<1> USE ServiceKeysAssumption
<1>1. ASSUME NEW e \in Editors, StartGenerate(e)
      PROVE  Accounted(g)'
  BY <1>1, <1>a DEF StartGenerate, KeysTypeOK, Accounted, ActiveKeys
<1>b. ASSUME NEW e \in Editors, LoadKey(e) \/ CheckKey(e) \/ EditorDies(e)
      PROVE  Accounted(g)'
  <2>1. editor'[e].pc \in {"check", "write", "idle"} /\ \A f \in Editors \ {e} : editor'[f] = editor[f]
    BY <1>b DEF LoadKey, CheckKey, EditorDies, KeysTypeOK, Generating, Changing, Idle
  <2>2. keys' = keys /\ g # e
    BY <1>b, <2>1 DEF LoadKey, CheckKey, EditorDies
  <2> QED
    BY <1>a, <2>1, <2>2 DEF Accounted, ActiveKeys
<1>2. ASSUME NEW e \in Editors, CountForNew(e)
      PROVE  Accounted(g)'
  <2>1. \A c : ActiveKeys(c)' = ActiveKeys(c)
    BY <1>2 DEF CountForNew, ActiveKeys
  <2>2. \/ editor'[g] = editor[g]
        \/ g = e /\ editor[g].todo = {} /\ editor'[g] = [editor[g] EXCEPT !.pc = "insert"]
                 /\ editor[g].pc = "retire"
    BY <1>2 DEF CountForNew, KeysTypeOK, Idle
  <2>3. editor[g] \in Generating
    BY <2>2 DEF KeysTypeOK, Generating, Changing, Idle
  <2> QED
    BY <1>a, <2>1, <2>2, <2>3 DEF Accounted, Generating
<1>3. ASSUME NEW e \in Editors, Retire(e)
      PROVE  Accounted(g)'
  <2> PICK k \in editor[e].todo :
        /\ Put(k, editor[e].cluster, FALSE)
        /\ editor' = [editor EXCEPT ![e].todo = @ \ {k}]
    BY <1>3 DEF Retire
  <2>1. editor[e] \in Generating /\ editor[e].pc = "retire" /\ editor \in [Editors -> {Idle} \cup Generating \cup Changing]
    BY <1>3 DEF Retire, KeysTypeOK, Generating, Changing, Idle
  <2>2. \A c : ActiveKeys(c)' \subseteq ActiveKeys(c) \ {k}
    BY DEF Put, ActiveKeys
  <2>3. /\ editor'[g].pc = editor[g].pc /\ editor'[g].mark = editor[g].mark
        /\ editor'[g].cluster = editor[g].cluster /\ editor'[g].foreign = editor[g].foreign
        /\ editor[g].todo \subseteq editor'[g].todo \cup {k}
        /\ g # e => editor'[g].todo = editor[g].todo
    BY <2>1 DEF Generating
  <2> QED
    BY <1>a, <2>1, <2>2, <2>3 DEF Accounted
<1>4. ASSUME NEW e \in Editors, InsertNew(e)
      PROVE  Accounted(g)'
  <2>1. editor'[e] = Idle /\ editor'[g] = Note(created + 1, TRUE)[g] /\ created + 1 \in 1..MaxKeys
    <3>1. created + 1 \in 1..MaxKeys
      BY <1>4 DEF InsertNew, KeysTypeOK
    <3>2. editor'[e] = Idle /\ (g # e => editor'[g] = Note(created + 1, TRUE)[g])
      BY <1>4, <3>1, NoteType DEF InsertNew
    <3>3. g # e
      BY <3>2 DEF Idle
    <3> QED
      BY <3>1, <3>2, <3>3
  <2>2. /\ editor'[g].pc = editor[g].pc /\ editor'[g].mark = editor[g].mark
        /\ editor'[g].cluster = editor[g].cluster /\ editor'[g].todo = editor[g].todo
        /\ editor'[g].foreign = editor[g].foreign \cup {created + 1}
    <3>1. \A f \in Editors : LET new == Note(created + 1, TRUE)[f] IN
            /\ new.pc = editor[f].pc
            /\ new.pc \in {"retire", "insert"} =>
                 /\ new.mark = editor[f].mark /\ new.cluster = editor[f].cluster
                 /\ new.todo = editor[f].todo /\ new.foreign = editor[f].foreign \cup {created + 1}
      BY DEF Note, KeysTypeOK, Generating, Changing, Idle
    <3> QED
      BY <2>1, <3>1
  <2>3. \A c : ActiveKeys(c)' \subseteq ActiveKeys(c) \cup {created + 1}
    BY <1>4 DEF InsertNew, Put, ActiveKeys
  <2> QED
    BY <1>a, <2>2, <2>3 DEF Accounted
<1>5. ASSUME NEW e \in Editors, WriteKey(e)
      PROVE  Accounted(g)'
  <2> DEFINE k == editor[e].key
             active == editor[e].active
  <2>1. k \in 1..MaxKeys /\ active \in BOOLEAN
    BY <1>5 DEF WriteKey, KeysTypeOK, Generating, Changing, Idle
  <2>2. editor'[g] = Note(k, active)[g]
    <3>1. editor'[e] = Idle /\ (g # e => editor'[g] = Note(k, active)[g])
      BY <1>5, <2>1, NoteType DEF WriteKey
    <3> QED
      BY <3>1 DEF Idle
  <2>3. /\ editor'[g].pc = editor[g].pc /\ editor'[g].mark = editor[g].mark
        /\ editor'[g].cluster = editor[g].cluster /\ editor'[g].todo = editor[g].todo
        /\ active => editor'[g].foreign = editor[g].foreign \cup {k}
        /\ ~active => editor'[g].foreign = editor[g].foreign
    BY <2>1, <2>2, NoteFields
  <2>4. \A c : ActiveKeys(c)' \subseteq ActiveKeys(c) \cup (IF active THEN {k} ELSE {})
    BY <1>5 DEF WriteKey, Put, ActiveKeys
  <2> QED
    BY <1>a, <2>1, <2>3, <2>4 DEF Accounted
<1>6. CASE DeleteKeys
  <2>1. editor' = editor /\ \A c : ActiveKeys(c)' \subseteq ActiveKeys(c)
    BY <1>6 DEF DeleteKeys, ActiveKeys
  <2> QED
    BY <1>a, <2>1 DEF Accounted
<1> QED
  BY <1>1, <1>b, <1>2, <1>3, <1>4, <1>5, <1>6 DEF KeysNext

-----------------------------------------------------------------------------
(* The keys change by the editors' steps only.                             *)

KeysInv == KeysTypeOK /\ PlacesBounded /\ ActiveAccounted

LEMMA KeysInvInit == KeysInit => KeysInv
<1> SUFFICES ASSUME KeysInit PROVE ActiveAccounted
  BY KeysTypeInit, PlacesInit DEF KeysInv
<1> QED
  BY DEF KeysInit, ActiveAccounted, Accounted, Idle

LEMMA KeysInvStep == KeysInv /\ (KeysNext \/ UNCHANGED keyVars) => KeysInv'
<1>1. ASSUME KeysInv, KeysNext PROVE KeysInv'
  BY <1>1, KeysTypeStep, PlacesStep, AccountedStep DEF KeysInv
<1>2. ASSUME KeysInv, UNCHANGED keyVars PROVE KeysInv'
  BY <1>2 DEF KeysInv, KeysTypeOK, PlacesBounded, Possible, Writers, Inserters,
              ActiveKeys, ActiveAccounted, Accounted, keyVars
<1> QED
  BY <1>1, <1>2

LEMMA OnlyEditors == [TokensNext]_allVars => KeysNext \/ UNCHANGED keyVars
  BY DEF TokensNext, ClustersNext, LoadCluster, SaveCluster, allVars, tokenVars, Tick, Receive, Validate, LookupCluster, CheckRoom, Prune,
         PruneDone, CheckRecent, Enter, ProbeMatches, ProbeFails, ProbesExhausted, StoreId, Verify

LEMMA KeysInvariant == TokensSpec => []KeysInv
<1>1. TokensInit => KeysInv
  BY KeysInvInit DEF TokensInit
<1>2. KeysInv /\ [TokensNext]_allVars => KeysInv'
  BY KeysInvStep, OnlyEditors
<1> QED
  BY <1>1, <1>2, PTL DEF TokensSpec

(***************************************************************************)
(* However many requests and commands run at the same time, a cluster has  *)
(* at most MAX_ACTIVE_KEYS_PER_SERVICE active keys and one more for each   *)
(* of the others that run: ServiceKey.save counts and stores in two        *)
(* statements.                                                             *)
(***************************************************************************)
THEOREM ActiveKeysBounded == TokensSpec => []ActiveBounded
<1>1. KeysInv => ActiveBounded
  <2> SUFFICES ASSUME KeysInv, NEW c \in Clusters
               PROVE  Cardinality(ActiveKeys(c)) <= MaxActive + Cardinality(Editors) - 1
    BY DEF ActiveBounded
  <2>1. Cardinality(Possible(c)) + Cardinality(Inserters(c)) <= MaxActive + Cardinality(Editors) - 1
    BY DEF KeysInv, PlacesBounded
  <2>2. KeysTypeOK
    BY DEF KeysInv
  <2> QED
    BY <2>1, <2>2, SetsFinite, ServiceKeysAssumption
<1> QED
  BY <1>1, KeysInvariant, PTL

(***************************************************************************)
(* When generate_key stores the new key, whatever others did between its   *)
(* statements, any other active key of the cluster was made active by one  *)
(* of them after generate_key had read the list of keys to retire.         *)
(***************************************************************************)
THEOREM GeneratedKeyReplaces == TokensSpec => NewKeyReplaces
<1> DEFINE Replaced(e, c) ==
      ( /\ editor[e].pc = "insert" /\ editor[e].mark /\ editor[e].cluster = c
        /\ created' # created /\ editor'[e].pc = "idle" )
        => ActiveKeys(c)' \subseteq editor[e].foreign \cup {created'}
<1>1. KeysInv /\ [TokensNext]_allVars => [\A e \in Editors, c \in Clusters : Replaced(e, c)]_keyVars
  <2> SUFFICES ASSUME KeysInv, KeysNext, NEW e \in Editors, NEW c \in Clusters,
                      editor[e].pc = "insert", editor[e].mark, editor[e].cluster = c,
                      created' # created, editor'[e].pc = "idle"
               PROVE  ActiveKeys(c)' \subseteq editor[e].foreign \cup {created'}
    BY OnlyEditors
  <2>1. PICK f \in Editors : InsertNew(f)
    BY DEF KeysNext, StartGenerate, Retire, CountForNew, LoadKey, CheckKey, WriteKey, DeleteKeys, EditorDies
  <2>2. created' = created + 1 /\ \A d : ActiveKeys(d)' \subseteq ActiveKeys(d) \cup {created + 1}
    BY <2>1 DEF InsertNew, Put, ActiveKeys
  <2>3. ActiveKeys(c) \subseteq editor[e].foreign
    BY DEF KeysInv, ActiveAccounted, Accounted
  <2> QED
    BY <2>2, <2>3
<1> QED
  BY <1>1, KeysInvariant, PTL DEF TokensSpec, NewKeyReplaces

-----------------------------------------------------------------------------
(* The threads that validate tokens.                                       *)

LEMMA TokensTypeInit == TokensInit => TokensTypeOK
<1> SUFFICES ASSUME TokensInit PROVE TokensTypeOK
  OBVIOUS
<1>1. KeysTypeOK
  BY KeysTypeInit DEF TokensInit
<1>2. thread \in [Threads -> ThreadStates]
  BY DEF TokensInit, ThreadStates
<1>3. uptime \in 0..MaxTime
  BY ServiceTokensAssumption DEF TokensInit
<1> QED
  BY <1>1, <1>2, <1>3, ServiceTokensAssumption DEF TokensInit, TokensTypeOK

(* A thread's record while the table is looked at, and afterwards. *)
Looking == [pc : {"room", "prune", "recent", "enter"}, iss : Ids, now : 0..MaxTime, expired : SUBSET Ids]
Finding == [pc : {"probe", "store", "verify", "accepted"}, iss : Ids, cluster : Clusters \cup {NoId},
            probes : SUBSET DOMAIN ProbeOrder]

LEMMA Shape ==
  ASSUME NEW r \in ThreadStates
  PROVE  /\ r.pc \in {"room", "prune", "recent", "enter"} => r \in Looking
         /\ r.pc \in {"probe", "store", "verify", "accepted"} => r \in Finding
  BY DEF ThreadStates, Looking, Finding, Resting

LEMMA Shapes == Looking \subseteq ThreadStates /\ Finding \subseteq ThreadStates
  BY DEF ThreadStates, Looking, Finding

(* What LookupCluster, Receive and the others leave in a thread's record. *)
LEMMA ThreadTypeStep ==
  ASSUME TokensTypeOK, NEW t \in Threads, Receive(t) \/ Validate(t)
  PROVE  thread' \in [Threads -> ThreadStates]
<1> USE ServiceTokensAssumption
<1>a. thread \in [Threads -> ThreadStates] /\ DOMAIN table \subseteq Ids /\ uptime \in 0..MaxTime
  BY DEF TokensTypeOK
<1>1. CASE Receive(t)
  BY <1>1, <1>a DEF Receive, ThreadStates
<1>2. CASE LookupCluster(t)
  BY <1>2, <1>a DEF LookupCluster, ThreadStates, Resting
<1>3. CASE CheckRoom(t)
  <2>1. thread[t] \in Looking
    BY <1>3, <1>a, Shape DEF CheckRoom
  <2>2. thread'[t] \in Looking
    BY <1>3, <1>a, <2>1 DEF CheckRoom, Looking
  <2> QED
    BY <1>3, <1>a, <2>2, Shapes DEF CheckRoom
<1>4. CASE Prune(t)
  BY <1>4, <1>a DEF Prune, Reject, ThreadStates, Resting
<1>5. CASE PruneDone(t)
  BY <1>5, <1>a DEF PruneDone, Reject, Go, ThreadStates, Resting
<1>6. CASE CheckRecent(t)
  BY <1>6, <1>a DEF CheckRecent, Reject, Go, ThreadStates, Resting
<1>7. CASE Enter(t)
  BY <1>7, <1>a DEF Enter, ToProbe, ThreadStates, Resting
<1>8. CASE ProbeMatches(t)
  <2>1. \A p \in DOMAIN ProbeOrder : ProbeOrder[p] \in Clusters
    OBVIOUS
  <2>2. thread[t] \in Finding
    BY <1>8, <1>a, Shape DEF ProbeMatches
  <2>3. thread'[t] \in Finding
    BY <1>8, <1>a, <2>1, <2>2 DEF ProbeMatches, Finding
  <2> QED
    BY <1>8, <1>a, <2>3, Shapes DEF ProbeMatches
<1>9. CASE ProbeFails(t)
  <2>1. thread[t] \in Finding
    BY <1>9, <1>a, Shape DEF ProbeFails
  <2>2. thread'[t] \in Finding
    BY <1>9, <1>a, <2>1 DEF ProbeFails, Finding
  <2> QED
    BY <1>9, <1>a, <2>2, Shapes DEF ProbeFails
<1>10. CASE ProbesExhausted(t)
  BY <1>10, <1>a DEF ProbesExhausted, Reject, ThreadStates
<1>11. CASE StoreId(t)
  BY <1>11, <1>a DEF StoreId, Reject, Go, ThreadStates, Resting
<1>12. CASE Verify(t)
  <2>1. thread[t] \in Finding
    BY <1>12, <1>a, Shape DEF Verify
  <2>2. ASSUME Go(t, "accepted") PROVE thread' \in [Threads -> ThreadStates]
    <3>1. thread'[t] \in Finding
      BY <1>a, <2>1, <2>2 DEF Go, Finding
    <3> QED
      BY <1>a, <2>2, <3>1, Shapes DEF Go
  <2>3. ASSUME NEW why \in {"claims", "signature"}, Reject(t, why) PROVE thread' \in [Threads -> ThreadStates]
    BY <1>a, <2>3 DEF Reject, ThreadStates
  <2> QED
    BY <1>12, <2>2, <2>3 DEF Verify
<1> QED
  BY <1>1, <1>2, <1>3, <1>4, <1>5, <1>6, <1>7, <1>8, <1>9, <1>10, <1>11, <1>12 DEF Validate

(* A saver's record, and what it writes: the id it loaded or one that the  *)
(* cluster reports, unless another cluster has it.                         *)
LEMMA SaverRecord ==
  ASSUME TokensTypeOK, NEW s \in Savers, saver[s] # Resting
  PROVE  saver[s].cluster \in Clusters /\ saver[s].id \in Ids \cup {NoId}
  BY DEF TokensTypeOK

LEMMA SaveEffect ==
  ASSUME TokensTypeOK, NEW s \in Savers, SaveCluster(s)
  PROVE  /\ UNCHANGED <<table, uptime, thread>> /\ saver[s] # Resting
         /\ saver' = [saver EXCEPT ![s] = Resting]
         /\ \/ UNCHANGED <<sid, had>>
            \/ \E i \in {saver[s].id} \cup Reports[saver[s].cluster] :
                 /\ SetId(saver[s].cluster, i)
                 /\ i # NoId => \A d \in Clusters \ {saver[s].cluster} : sid[d] # i
  BY DEF SaveCluster

LEMMA TokensTypeStep == TokensTypeOK /\ [TokensNext]_allVars => TokensTypeOK'
<1> SUFFICES ASSUME TokensTypeOK, [TokensNext]_allVars PROVE TokensTypeOK'
  OBVIOUS
<1> USE ServiceTokensAssumption
<1>1. KeysTypeOK'
  <2>1. CASE KeysNext
    BY <2>1, KeysTypeStep DEF TokensTypeOK
  <2>2. CASE UNCHANGED keyVars
    BY <2>2 DEF TokensTypeOK, KeysTypeOK, keyVars
  <2> QED
    BY <2>1, <2>2, OnlyEditors
<1>2. CASE UNCHANGED tokenVars
  BY <1>1, <1>2 DEF TokensTypeOK, tokenVars
<1>3. CASE Tick
  BY <1>1, <1>3 DEF Tick, TokensTypeOK
<1>4. ASSUME NEW s \in Savers, NEW c \in Clusters, LoadCluster(s, c) PROVE TokensTypeOK'
  <2>1. saver' \in [Savers -> {Resting} \cup [pc : {"loaded"}, cluster : Clusters, id : Ids \cup {NoId}]]
    BY <1>4 DEF LoadCluster, TokensTypeOK
  <2> QED
    BY <1>1, <1>4, <2>1 DEF LoadCluster, TokensTypeOK
<1>5. ASSUME NEW s \in Savers, SaveCluster(s) PROVE TokensTypeOK'
  <2>1. UNCHANGED <<table, uptime, thread>> /\ saver[s] # Resting
    BY <1>5, SaveEffect
  <2>2. saver[s].cluster \in Clusters /\ saver[s].id \in Ids \cup {NoId}
    BY <2>1, SaverRecord
  <2>3. saver' \in [Savers -> {Resting} \cup [pc : {"loaded"}, cluster : Clusters, id : Ids \cup {NoId}]]
    BY <1>5 DEF SaveCluster, TokensTypeOK
  <2>4. sid' \in [Clusters -> Ids \cup {NoId}] /\ had' \in [Clusters -> SUBSET (Ids \cup {NoId})]
    <3>1. CASE UNCHANGED <<sid, had>>
      BY <3>1 DEF TokensTypeOK
    <3>2. ASSUME NEW i \in {saver[s].id} \cup Reports[saver[s].cluster], SetId(saver[s].cluster, i)
          PROVE  sid' \in [Clusters -> Ids \cup {NoId}] /\ had' \in [Clusters -> SUBSET (Ids \cup {NoId})]
      <4>1. i \in Ids \cup {NoId}
        BY <2>2
      <4> QED
        BY <3>2, <2>2, <4>1 DEF SetId, TokensTypeOK
    <3> QED
      BY <1>5, <3>1, <3>2, SaveEffect
  <2> QED
    BY <1>1, <2>1, <2>3, <2>4 DEF TokensTypeOK
<1>6. ASSUME NEW t \in Threads, Receive(t) \/ Validate(t) PROVE TokensTypeOK'
  <2>1. thread' \in [Threads -> ThreadStates] /\ UNCHANGED <<uptime, saver>>
    BY <1>6, ThreadTypeStep
      DEF Receive, Validate, LookupCluster, CheckRoom, Prune, PruneDone, CheckRecent, Enter,
          ProbeMatches, ProbeFails, ProbesExhausted, StoreId, Verify
  <2>2. CASE UNCHANGED <<sid, table, had>>
    BY <1>1, <2>1, <2>2 DEF TokensTypeOK
  <2>3. CASE Prune(t)
    BY <1>1, <2>1, <2>3 DEF Prune, TokensTypeOK
  <2>4. CASE Enter(t)
    <3>1. thread[t].iss \in Ids /\ thread[t].now \in 0..MaxTime
      BY <2>4 DEF Enter, TokensTypeOK, ThreadStates, Resting
    <3> QED
      BY <1>1, <2>1, <2>4, <3>1 DEF Enter, TokensTypeOK
  <2>5. CASE StoreId(t)
    <3>1. thread[t].iss \in Ids
      BY <2>5 DEF StoreId, TokensTypeOK, ThreadStates, Resting
    <3>2. UNCHANGED table
      BY <2>5 DEF StoreId
    <3>3. sid' \in [Clusters -> Ids \cup {NoId}] /\ had' \in [Clusters -> SUBSET (Ids \cup {NoId})]
      BY <2>5, <3>1 DEF StoreId, SetId, TokensTypeOK
    <3> QED
      BY <1>1, <2>1, <3>2, <3>3 DEF TokensTypeOK
  <2> QED
    BY <1>6, <2>2, <2>3, <2>4, <2>5
      DEF Receive, Validate, LookupCluster, CheckRoom, PruneDone, CheckRecent,
          ProbeMatches, ProbeFails, ProbesExhausted, Verify
<1> QED
  BY <1>2, <1>3, <1>4, <1>5, <1>6 DEF TokensNext, ClustersNext, allVars

(***************************************************************************)
(* Types of the tokens' and the keys' state.                               *)
(***************************************************************************)
THEOREM TokensTypeCorrect == TokensSpec => []TokensTypeOK
  BY TokensTypeInit, TokensTypeStep, PTL DEF TokensSpec

(* A thread that has found the issuer's cluster found it with the issuer's *)
(* id.  A thread that is about to store an id had it from the cluster      *)
(* itself.                                                                 *)
ClusterKnown(t) ==
  /\ thread[t].pc \in {"verify", "accepted"} =>
       thread[t].cluster \in Clusters /\ thread[t].iss \in had[thread[t].cluster]
  /\ thread[t].pc = "store" =>
       thread[t].cluster \in Clusters /\ thread[t].iss \in Reports[thread[t].cluster]

(* Every id a cluster has had, and thus the one it has and the one a saver *)
(* loaded, was reported by it or there from the start.                     *)
IdsFounded ==
  /\ \A c \in Clusters : sid[c] \in had[c] /\ had[c] \subseteq Reports[c] \cup {InitialIds[c], NoId}
  /\ \A c, d \in Clusters : sid[c] = sid[d] /\ sid[c] # NoId => c = d
  /\ \A s \in Savers : saver[s] # Resting => saver[s].id \in had[saver[s].cluster]

TokensInv == (\A t \in Threads : ClusterKnown(t)) /\ IdsFounded

LEMMA TokensInvInit == TokensInit => TokensInv
  BY ServiceTokensAssumption
     DEF TokensInit, Resting, TokensInv, ClusterKnown, IdsFounded

(* Ids that were had stay had. *)
LEMMA HadGrows ==
  ASSUME TokensTypeOK, NEW c \in Clusters, NEW i, SetId(c, i)
  PROVE  /\ sid'[c] = i /\ had'[c] = had[c] \cup {i}
         /\ \A d \in Clusters \ {c} : sid'[d] = sid[d] /\ had'[d] = had[d]
         /\ \A d \in Clusters : had[d] \subseteq had'[d]
  BY DEF SetId, TokensTypeOK

LEMMA SetIdKeeps ==
  ASSUME TokensTypeOK, TokensInv, NEW c \in Clusters, NEW i, SetId(c, i),
         i \in Reports[c] \cup {InitialIds[c], NoId},
         i # NoId => \A d \in Clusters \ {c} : sid[d] # i,
         \A s \in Savers : saver'[s] # Resting => saver'[s] = saver[s]
  PROVE  IdsFounded'
<1>a. /\ sid'[c] = i /\ had'[c] = had[c] \cup {i}
      /\ \A d \in Clusters \ {c} : sid'[d] = sid[d] /\ had'[d] = had[d]
      /\ \A d \in Clusters : had[d] \subseteq had'[d]
  BY HadGrows
<1>1. ASSUME NEW d \in Clusters PROVE sid'[d] \in had'[d] /\ had'[d] \subseteq Reports[d] \cup {InitialIds[d], NoId}
  <2>1. CASE d = c
    BY <2>1, <1>a DEF TokensInv, IdsFounded
  <2>2. CASE d # c
    BY <2>2, <1>a DEF TokensInv, IdsFounded
  <2> QED
    BY <2>1, <2>2
<1>2. ASSUME NEW d \in Clusters, NEW e \in Clusters, sid'[d] = sid'[e], sid'[d] # NoId PROVE d = e
  BY <1>2, <1>a DEF TokensInv, IdsFounded
<1>3. ASSUME NEW s \in Savers, saver'[s] # Resting PROVE saver'[s].id \in had'[saver'[s].cluster]
  <2>1. saver'[s] = saver[s] /\ saver[s] # Resting
    BY <1>3
  <2>2. saver[s].cluster \in Clusters
    BY <2>1, SaverRecord
  <2> QED
    BY <2>1, <2>2, <1>a DEF TokensInv, IdsFounded
<1> QED
  BY <1>1, <1>2, <1>3 DEF IdsFounded

(* Threads whose records stay keep what they know. *)
LEMMA KnownKept ==
  ASSUME TokensTypeOK, NEW u \in Threads, ClusterKnown(u), thread'[u] = thread[u],
         \A d \in Clusters : had[d] \subseteq had'[d]
  PROVE  ClusterKnown(u)'
  BY DEF ClusterKnown

LEMMA TokensInvStep ==
  TokensTypeOK /\ TokensInv /\ [TokensNext]_allVars => TokensInv'
<1> SUFFICES ASSUME TokensTypeOK, TokensInv, [TokensNext]_allVars PROVE TokensInv'
  OBVIOUS
<1> USE ServiceTokensAssumption
<1>b. \A u \in Threads : ClusterKnown(u)
  BY DEF TokensInv
<1>1. CASE UNCHANGED <<sid, thread, saver, had>>
  BY <1>1 DEF TokensInv, ClusterKnown, IdsFounded
<1>2. ASSUME NEW s \in Savers, NEW c \in Clusters, LoadCluster(s, c) PROVE TokensInv'
  <2>1. UNCHANGED <<sid, thread, had>> /\ \A r \in Savers \ {s} : saver'[r] = saver[r]
    BY <1>2 DEF LoadCluster, TokensTypeOK
  <2>2. saver'[s].cluster = c /\ saver'[s].id = sid[c]
    BY <1>2 DEF LoadCluster, TokensTypeOK
  <2>3. IdsFounded'
    BY <2>1, <2>2 DEF TokensInv, IdsFounded
  <2> QED
    BY <1>b, <2>1, <2>3 DEF TokensInv, ClusterKnown
<1>3. ASSUME NEW s \in Savers, SaveCluster(s) PROVE TokensInv'
  <2> DEFINE c == saver[s].cluster
  <2>1. thread' = thread /\ c \in Clusters /\ saver[s].id \in had[c]
    BY <1>3, SaveEffect, SaverRecord DEF TokensInv, IdsFounded
  <2>2. \A r \in Savers : saver'[r] # Resting => saver'[r] = saver[r]
    BY <1>3, SaveEffect DEF TokensTypeOK
  <2>3. CASE UNCHANGED <<sid, had>>
    <3>1. IdsFounded'
      BY <2>2, <2>3 DEF TokensInv, IdsFounded
    <3> QED
      BY <1>b, <2>1, <2>3, <3>1 DEF TokensInv, ClusterKnown
  <2>4. ASSUME NEW i \in {saver[s].id} \cup Reports[c], SetId(c, i),
               i # NoId => \A d \in Clusters \ {c} : sid[d] # i
        PROVE  TokensInv'
    <3>1. i \in Reports[c] \cup {InitialIds[c], NoId}
      BY <2>1 DEF TokensInv, IdsFounded
    <3> HIDE DEF c
    <3>2. IdsFounded'
      BY <2>1, <2>2, <2>4, <3>1, SetIdKeeps
    <3>3. \A d \in Clusters : had[d] \subseteq had'[d]
      BY <2>1, <2>4, HadGrows
    <3> QED
      BY <1>b, <2>1, <3>2, <3>3, KnownKept DEF TokensInv
  <2> QED
    BY <1>3, <2>3, <2>4, SaveEffect
<1>4. ASSUME NEW t \in Threads, Receive(t) \/ Validate(t) PROVE TokensInv'
  <2> DEFINE r == thread[t]
  <2>a. /\ \A u \in Threads \ {t} : thread'[u] = thread[u]
        /\ thread \in [Threads -> ThreadStates] /\ r \in ThreadStates /\ UNCHANGED saver
    BY <1>4 DEF Receive, Validate, LookupCluster, CheckRoom, Prune, PruneDone, CheckRecent, Enter,
          ProbeMatches, ProbeFails, ProbesExhausted, StoreId, Verify, Go, Reject, TokensTypeOK
  <2>k. ASSUME UNCHANGED <<sid, had>>, ClusterKnown(t)' PROVE TokensInv'
    <3>1. \A u \in Threads \ {t} : ClusterKnown(u)'
      BY <1>b, <2>a, <2>k, KnownKept
    <3>2. IdsFounded'
      BY <2>a, <2>k DEF TokensInv, IdsFounded
    <3> QED
      BY <2>k, <3>1, <3>2 DEF TokensInv
  <2>1. CASE Receive(t) \/ CheckRoom(t) \/ PruneDone(t) \/ CheckRecent(t) \/ ProbeFails(t) \/ ProbesExhausted(t)
    <3>1. UNCHANGED <<sid, had>>
      BY <2>1 DEF Receive, CheckRoom, PruneDone, CheckRecent, ProbeFails, ProbesExhausted
    <3>2. thread'[t].pc \notin {"verify", "accepted", "store"}
      <4>1. CASE CheckRoom(t)
        <5>1. r \in Looking
          BY <4>1, <2>a, Shape DEF CheckRoom
        <5> QED
          BY <4>1, <2>a, <5>1 DEF CheckRoom, Looking
      <4>2. CASE ProbeFails(t)
        <5>1. r \in Finding
          BY <4>2, <2>a, Shape DEF ProbeFails
        <5> QED
          BY <4>2, <2>a, <5>1 DEF ProbeFails, Finding
      <4>3. CASE Receive(t) \/ PruneDone(t) \/ CheckRecent(t) \/ ProbesExhausted(t)
        BY <4>3, <2>a DEF Receive, PruneDone, CheckRecent, ProbesExhausted, Go, Reject, ThreadStates, Resting
      <4> QED
        BY <2>1, <4>1, <4>2, <4>3
    <3>3. ClusterKnown(t)'
      BY <3>2 DEF ClusterKnown
    <3> QED
      BY <2>k, <3>1, <3>3
  <2>2. CASE LookupCluster(t)
    <3>1. UNCHANGED <<sid, had>>
      BY <2>2 DEF LookupCluster
    <3>2. \A c \in Clusters : sid[c] \in had[c]
      BY DEF TokensInv, IdsFounded
    <3>3. ClusterKnown(t)'
      BY <2>2, <2>a, <3>1, <3>2 DEF LookupCluster, ClusterKnown, ThreadStates, Resting
    <3> QED
      BY <2>k, <3>1, <3>3
  <2>3. CASE Prune(t) \/ Enter(t)
    <3>1. UNCHANGED <<sid, had>>
      BY <2>3 DEF Prune, Enter
    <3>2. thread'[t].pc \in {"prune", "rejected", "probe"}
      <4>1. CASE Prune(t)
        BY <4>1, <2>a DEF Prune, Reject, ThreadStates, Resting
      <4>2. CASE Enter(t)
        BY <4>2, <2>a DEF Enter
      <4> QED
        BY <2>3, <4>1, <4>2
    <3>3. ClusterKnown(t)'
      BY <3>2 DEF ClusterKnown
    <3> QED
      BY <2>k, <3>1, <3>3
  <2>5. CASE ProbeMatches(t)
    <3>1. UNCHANGED <<sid, had>>
      BY <2>5 DEF ProbeMatches
    <3>2. ClusterKnown(t)'
      BY <2>5, <2>a DEF ProbeMatches, ClusterKnown, ThreadStates, Resting
    <3> QED
      BY <2>k, <3>1, <3>2
  <2>6. CASE StoreId(t)
    <3>1. /\ sid \in [Clusters -> Ids \cup {NoId}]
          /\ r.cluster \in Clusters /\ r.iss \in Reports[r.cluster] /\ r.iss \in Ids /\ r.pc = "store"
      BY <2>6, <2>a, <1>b DEF StoreId, ClusterKnown, ThreadStates, Resting, TokensTypeOK
    <3>2. CASE sid[r.cluster] = NoId /\ \A d \in Clusters : sid[d] # r.iss
      <4>1. /\ SetId(r.cluster, r.iss)
            /\ thread'[t].pc = "verify" /\ thread'[t].cluster = r.cluster /\ thread'[t].iss = r.iss
        BY <2>6, <2>a, <3>1, <3>2 DEF StoreId, Go, ThreadStates, Resting
      <4>2. /\ had'[r.cluster] = had[r.cluster] \cup {r.iss}
            /\ \A d \in Clusters : had[d] \subseteq had'[d]
        BY <3>1, <4>1, HadGrows
      <4>3. ClusterKnown(t)'
        BY <3>1, <4>1, <4>2 DEF ClusterKnown
      <4>4. \A u \in Threads \ {t} : ClusterKnown(u)'
        BY <1>b, <2>a, <4>2, KnownKept
      <4>5. IdsFounded'
        <5> HIDE DEF r
        <5> QED
          BY <2>a, <3>1, <3>2, <4>1, SetIdKeeps
      <4> QED
        BY <4>3, <4>4, <4>5 DEF TokensInv
    <3>3. CASE ~(sid[r.cluster] = NoId /\ \A d \in Clusters : sid[d] # r.iss)
      <4>1. /\ UNCHANGED <<sid, had>>
            /\ \/ thread'[t].pc \in {"rejected", "probe"}
               \/ /\ sid[r.cluster] = r.iss
                  /\ thread'[t].pc = "verify" /\ thread'[t].cluster = r.cluster /\ thread'[t].iss = r.iss
        BY <2>6, <2>a, <3>1, <3>3 DEF StoreId, Go, Reject, ThreadStates, Resting
      <4>2. sid[r.cluster] \in had[r.cluster]
        BY <3>1 DEF TokensInv, IdsFounded
      <4>3. ClusterKnown(t)'
        BY <3>1, <4>1, <4>2 DEF ClusterKnown
      <4> QED
        BY <2>k, <4>1, <4>3
    <3> QED
      BY <3>2, <3>3
  <2>7. CASE Verify(t)
    <3>1. UNCHANGED <<sid, had>>
      BY <2>7 DEF Verify
    <3>2. \/ thread'[t].pc = "rejected"
          \/ /\ r.pc = "verify" /\ thread'[t].pc = "accepted"
             /\ thread'[t].cluster = r.cluster /\ thread'[t].iss = r.iss
      BY <2>7, <2>a DEF Verify, Go, Reject, ThreadStates, Resting
    <3>3. ClusterKnown(t)'
      BY <1>b, <3>1, <3>2 DEF ClusterKnown
    <3> QED
      BY <2>k, <3>1, <3>3
  <2> QED
    BY <1>4, <2>1, <2>2, <2>3, <2>5, <2>6, <2>7 DEF Validate
<1> QED
  BY <1>1, <1>2, <1>3, <1>4 DEF TokensNext, ClustersNext, Tick, allVars, tokenVars

LEMMA TokensInvariant == TokensSpec => [](TokensTypeOK /\ TokensInv)
  BY TokensTypeInit, TokensTypeStep, TokensInvInit, TokensInvStep, PTL DEF TokensSpec

(***************************************************************************)
(* A token is accepted only for a cluster that has had the issuer's id:    *)
(* any number of threads may find the same cluster without an id and store *)
(* different ids in it, and any number of requests and commands may write  *)
(* rows back that they loaded earlier (populate_service_id,                *)
(* _verify_token_signature).                                               *)
(***************************************************************************)
THEOREM AcceptedOnlyForIssuer == TokensSpec => []AcceptedForIssuer
<1>1. TokensInv => AcceptedForIssuer
  BY DEF TokensInv, ClusterKnown, IdsFounded, AcceptedForIssuer
<1> QED
  BY <1>1, TokensInvariant, PTL

-----------------------------------------------------------------------------
(* The cooldown table.                                                     *)

(* Threads that have found room and have not made their entry yet; each    *)
(* may still add one.                                                      *)
LetIn == {t \in Threads : thread[t].pc \in {"recent", "enter"}}

EntriesBounded == Cardinality(DOMAIN table) + Cardinality(LetIn) < MaxEntries + Cardinality(Threads)

LEMMA TableFinite ==
  ASSUME TokensTypeOK
  PROVE  /\ IsFiniteSet(DOMAIN table) /\ Cardinality(DOMAIN table) \in Nat
         /\ IsFiniteSet(LetIn) /\ Cardinality(LetIn) \in Nat
         /\ Cardinality(LetIn) <= Cardinality(Threads)
         /\ Cardinality(Threads) \in Nat /\ Cardinality(Threads) > 0 /\ MaxEntries \in Nat
<1>1. DOMAIN table \subseteq Ids /\ LetIn \subseteq Threads
  BY DEF TokensTypeOK, LetIn
<1>2. IsFiniteSet(Ids) /\ IsFiniteSet(Threads) /\ Threads # {} /\ MaxEntries \in Nat
  BY ServiceTokensAssumption
<1>3. IsFiniteSet(DOMAIN table) /\ IsFiniteSet(LetIn) /\ Cardinality(LetIn) <= Cardinality(Threads)
  BY <1>1, <1>2, FS_Subset
<1>4. Cardinality(Threads) # 0
  BY <1>2, FS_EmptySet
<1> QED
  BY <1>2, <1>3, <1>4, FS_CardinalityType

LEMMA EntriesInit == TokensInit => EntriesBounded
<1> SUFFICES ASSUME TokensInit PROVE EntriesBounded
  OBVIOUS
<1>1. TokensTypeOK
  BY TokensTypeInit
<1>2. LetIn = {} /\ DOMAIN table = {}
  BY DEF TokensInit, LetIn, Resting
<1>3. Cardinality(LetIn) = 0 /\ Cardinality(DOMAIN table) = 0
  BY <1>2, FS_EmptySet
<1> QED
  BY <1>1, <1>3, TableFinite DEF EntriesBounded

LEMMA EntriesStep ==
  TokensTypeOK /\ TokensTypeOK' /\ EntriesBounded /\ [TokensNext]_allVars => EntriesBounded'
<1> SUFFICES ASSUME TokensTypeOK, TokensTypeOK', EntriesBounded, [TokensNext]_allVars
             PROVE  EntriesBounded'
  OBVIOUS
<1> DEFINE tab == DOMAIN table
           tabN == DOMAIN table'
           in == LetIn
           inN == LetIn'
<1>a. /\ IsFiniteSet(tab) /\ Cardinality(tab) \in Nat
      /\ IsFiniteSet(in) /\ Cardinality(in) \in Nat
      /\ Cardinality(Threads) \in Nat /\ Cardinality(Threads) > 0 /\ MaxEntries \in Nat
  BY TableFinite
<1>b. IsFiniteSet(Ids) /\ IsFiniteSet(Threads) /\ tabN \subseteq Ids /\ inN \subseteq Threads
  BY ServiceTokensAssumption DEF TokensTypeOK, LetIn
<1>c. IsFiniteSet(tabN) /\ IsFiniteSet(inN) /\ Cardinality(inN) <= Cardinality(Threads)
  BY <1>b, FS_Subset
<1>d. Cardinality(tabN) \in Nat /\ Cardinality(inN) \in Nat
  BY <1>c, FS_CardinalityType
<1>e. Cardinality(tab) + Cardinality(in) < MaxEntries + Cardinality(Threads)
  BY DEF EntriesBounded
<1>f. thread \in [Threads -> ThreadStates]
  BY DEF TokensTypeOK
<1>g. SUFFICES Cardinality(tabN) + Cardinality(inN) < MaxEntries + Cardinality(Threads)
  BY DEF EntriesBounded
(* Nothing is added. *)
<1>1. ASSUME tabN \subseteq tab, inN \subseteq in
      PROVE  Cardinality(tabN) + Cardinality(inN) < MaxEntries + Cardinality(Threads)
  <2> HIDE DEF tab, tabN, in, inN
  <2>1. Cardinality(tabN) <= Cardinality(tab) /\ Cardinality(inN) <= Cardinality(in)
    BY <1>1, <1>a, FS_Subset
  <2> QED
    BY <2>1, <1>a, <1>d, <1>e
(* A thread finds room. *)
<1>2. ASSUME tabN = tab, Cardinality(tab) < MaxEntries
      PROVE  Cardinality(tabN) + Cardinality(inN) < MaxEntries + Cardinality(Threads)
  <2> HIDE DEF tab, tabN, in, inN
  <2> QED
    BY <1>2, <1>a, <1>c, <1>d
<1>3. CASE UNCHANGED <<table, thread>>
  BY <1>1, <1>3 DEF LetIn
<1>4. ASSUME NEW t \in Threads, Receive(t) \/ Validate(t)
      PROVE  Cardinality(tabN) + Cardinality(inN) < MaxEntries + Cardinality(Threads)
  <2>a. \A u \in Threads \ {t} : thread'[u] = thread[u]
    BY <1>4, <1>f DEF Receive, Validate, LookupCluster, CheckRoom, Prune, PruneDone, CheckRecent, Enter,
          ProbeMatches, ProbeFails, ProbesExhausted, StoreId, Verify, Go, Reject
  <2>b. ASSUME tabN \subseteq tab, thread'[t].pc \in {"recent", "enter"} => thread[t].pc \in {"recent", "enter"}
        PROVE  Cardinality(tabN) + Cardinality(inN) < MaxEntries + Cardinality(Threads)
    BY <1>1, <2>a, <2>b DEF LetIn
  <2>1. CASE Receive(t) \/ LookupCluster(t) \/ ProbesExhausted(t) \/ Verify(t) \/ CheckRecent(t)
    <3>1. tabN = tab
      BY <2>1 DEF Receive, LookupCluster, ProbesExhausted, Verify, CheckRecent
    <3>2. thread'[t].pc \in {"recent", "enter"} => thread[t].pc \in {"recent", "enter"}
      BY <2>1, <1>f DEF Receive, LookupCluster, ProbesExhausted, Verify, CheckRecent, Go, Reject,
            ThreadStates, Resting
    <3> QED
      BY <2>b, <3>1, <3>2
  <2>2. CASE Prune(t)
    <3>1. tabN \subseteq tab
      BY <2>2 DEF Prune
    <3>2. thread'[t].pc \in {"prune", "rejected"}
      BY <2>2, <1>f DEF Prune, Reject, ThreadStates, Resting
    <3> QED
      BY <2>b, <3>1, <3>2
  <2>3. CASE ProbeMatches(t) \/ ProbeFails(t) \/ StoreId(t)
    <3>1. tabN = tab
      BY <2>3 DEF ProbeMatches, ProbeFails, StoreId
    <3>2. thread'[t].pc \in {"store", "probe", "rejected", "verify"}
      <4>1. thread[t] \in Finding
        BY <2>3, <1>f, Shape DEF ProbeMatches, ProbeFails, StoreId
      <4>2. CASE ProbeMatches(t)
        BY <4>1, <4>2, <1>f DEF ProbeMatches, Finding
      <4>3. CASE ProbeFails(t)
        BY <4>1, <4>3, <1>f DEF ProbeFails, Finding
      <4>4. CASE StoreId(t)
        BY <4>1, <4>4, <1>f DEF StoreId, Go, Reject, Finding
      <4> QED
        BY <2>3, <4>2, <4>3, <4>4
    <3> QED
      BY <2>b, <3>1, <3>2
  <2>4. CASE CheckRoom(t)
    <3>1. tabN = tab
      BY <2>4 DEF CheckRoom
    <3>2. CASE Cardinality(DOMAIN table) < MaxEntries
      BY <1>2, <3>1, <3>2
    <3>3. CASE ~(Cardinality(DOMAIN table) < MaxEntries)
      <4>1. thread'[t].pc = "prune"
        BY <2>4, <1>f, <3>3 DEF CheckRoom, ThreadStates, Resting
      <4> QED
        BY <2>b, <3>1, <4>1
    <3> QED
      BY <3>2, <3>3
  <2>5. CASE PruneDone(t)
    <3>1. tabN = tab
      BY <2>5 DEF PruneDone
    <3>2. CASE Cardinality(DOMAIN table) >= MaxEntries
      <4>1. thread'[t].pc = "rejected"
        BY <2>5, <1>f, <3>2 DEF PruneDone, Reject
      <4> QED
        BY <2>b, <3>1, <4>1
    <3>3. CASE ~(Cardinality(DOMAIN table) >= MaxEntries)
      <4>1. Cardinality(tab) < MaxEntries
        BY <3>3, <1>a
      <4> QED
        BY <1>2, <3>1, <4>1
    <3> QED
      BY <3>2, <3>3
  <2>6. CASE Enter(t)
    <3> DEFINE i == thread[t].iss
    <3>1. tabN = tab \cup {i}
      BY <2>6 DEF Enter
    <3>2. t \in in /\ inN = in \ {t}
      <4>1. thread'[t].pc = "probe" /\ thread[t].pc = "enter"
        BY <2>6, <1>f DEF Enter
      <4> QED
        BY <2>a, <4>1 DEF LetIn
    <3> HIDE DEF tab, tabN, in, inN, i
    <3>3. Cardinality(tabN) <= Cardinality(tab) + 1
      <4>1. Cardinality(tab \cup {i}) = IF i \in tab THEN Cardinality(tab) ELSE Cardinality(tab) + 1
        BY <1>a, FS_AddElement
      <4> QED
        BY <3>1, <4>1, <1>a
    <3>4. Cardinality(inN) = Cardinality(in) - 1
      BY <3>2, <1>a, FS_RemoveElement
    <3> QED
      BY <3>3, <3>4, <1>a, <1>d, <1>e
  <2> QED
    BY <1>4, <2>1, <2>2, <2>3, <2>4, <2>5, <2>6 DEF Validate
<1>5. (\E t \in Threads : Receive(t) \/ Validate(t)) \/ UNCHANGED <<table, thread>>
  BY DEF TokensNext, ClustersNext, Tick, LoadCluster, SaveCluster, allVars, tokenVars
<1> QED
  BY <1>3, <1>4, <1>5

(***************************************************************************)
(* The cooldown table holds at most _POPULATE_MAX_COOLDOWN_ENTRIES and one *)
(* entry more for each other thread, however many threads look, delete and *)
(* enter at once without a lock (_check_and_set_cooldown).                 *)
(***************************************************************************)
THEOREM TableStaysBounded == TokensSpec => []TableBounded
<1>1. TokensTypeOK /\ EntriesBounded => TableBounded
  BY TableFinite DEF EntriesBounded, TableBounded
<1> QED
  BY <1>1, EntriesInit, EntriesStep, TokensTypeCorrect, PTL DEF TokensSpec

-----------------------------------------------------------------------------
(* Routes.                                                                 *)

(* The fields of a row. *)
Columns == {"kind", "port", "cluster", "sport", "slug", "path", "auth", "internal", "mtls",
            "tags", "timeout", "name", "by"}

LEMMA BlankRow ==
  /\ DOMAIN Blank = Columns
  /\ Blank.auth /\ ~Blank.internal /\ ~Blank.mtls /\ Blank.timeout = 0
  /\ Blank.auth \in BOOLEAN /\ Blank.internal \in BOOLEAN /\ Blank.mtls \in BOOLEAN
  BY DEF Blank, Columns

(* Saving a row works out the path and the name, and keeps the rest; a     *)
(* plugin's row is neither authenticated nor internal.                     *)
LEMMA SavedRow ==
  ASSUME NEW row, DOMAIN row = Columns, row.kind \in Kinds
  PROVE  /\ DOMAIN Saved(row) = Columns
         /\ Saved(row).kind = row.kind /\ Saved(row).by = row.by
         /\ Saved(row).mtls = row.mtls /\ Saved(row).timeout = row.timeout
         /\ Saved(row).name = EnvoyClusterName(Saved(row))
         /\ row.kind # "plugin" => Saved(row).auth = row.auth /\ Saved(row).internal = row.internal
         /\ row.kind = "plugin" => /\ ~Saved(row).auth /\ ~Saved(row).internal
                                  /\ Saved(row).auth \in BOOLEAN /\ Saved(row).internal \in BOOLEAN
<1>1. CASE row.kind = "service"
  BY <1>1 DEF Saved, ServiceRow, EnvoyClusterName, Columns
<1>2. CASE row.kind = "plugin"
  BY <1>2 DEF Saved, PluginRow, EnvoyClusterName, Columns
<1>3. CASE row.kind = "additional"
  BY <1>3 DEF Saved, EnvoyClusterName, Columns
<1> QED
  BY <1>1, <1>2, <1>3 DEF Kinds

(* A row with some of its fields replaced. *)
LEMMA OverRow ==
  ASSUME NEW f, NEW g, DOMAIN f \subseteq Columns, DOMAIN g = Columns
  PROVE  /\ DOMAIN Over(f, g) = Columns
         /\ Over(f, g).kind = IF "kind" \in DOMAIN f THEN f.kind ELSE g.kind
         /\ Over(f, g).by = IF "by" \in DOMAIN f THEN f.by ELSE g.by
         /\ Over(f, g).auth = IF "auth" \in DOMAIN f THEN f.auth ELSE g.auth
         /\ Over(f, g).internal = IF "internal" \in DOMAIN f THEN f.internal ELSE g.internal
         /\ Over(f, g).mtls = IF "mtls" \in DOMAIN f THEN f.mtls ELSE g.mtls
         /\ Over(f, g).timeout = IF "timeout" \in DOMAIN f THEN f.timeout ELSE g.timeout
<1>1. DOMAIN Over(f, g) = Columns
  BY DEF Over
<1>2. Over(f, g).kind = IF "kind" \in DOMAIN f THEN f.kind ELSE g.kind
  BY DEF Over, Columns
<1>3. Over(f, g).by = IF "by" \in DOMAIN f THEN f.by ELSE g.by
  BY DEF Over, Columns
<1>4. Over(f, g).auth = IF "auth" \in DOMAIN f THEN f.auth ELSE g.auth
  BY DEF Over, Columns
<1>5. Over(f, g).internal = IF "internal" \in DOMAIN f THEN f.internal ELSE g.internal
  BY DEF Over, Columns
<1>6. Over(f, g).mtls = IF "mtls" \in DOMAIN f THEN f.mtls ELSE g.mtls
  BY DEF Over, Columns
<1>7. Over(f, g).timeout = IF "timeout" \in DOMAIN f THEN f.timeout ELSE g.timeout
  BY DEF Over, Columns
<1> QED
  BY <1>1, <1>2, <1>3, <1>4, <1>5, <1>6, <1>7

(***************************************************************************)
(* Every stored row, and every row that a request has loaded and will      *)
(* write back, is typed and keeps the rules.                               *)
(***************************************************************************)
RowOK(row) == RowTyped(row) /\ Lawful(row)

RoutesInv ==
  /\ IsFiniteSet(DOMAIN routes)
  /\ \A id \in DOMAIN routes : RowOK(routes[id])
  /\ DOMAIN admin = Admins
  /\ \A a \in Admins : admin[a] = Free \/ RowOK(admin[a].row)
  /\ setup \in {Off} \cup [pc : {"clear", "nodes"}, config : Configs]
  /\ floor \in Floors

LEMMA RoutesInvInit == RoutesInit => RoutesInv
  BY RoutesInputs, RoutesAssumption DEF RoutesInit, RoutesInv, RowOK

(* Storing a lawful row. *)
LEMMA StoreRow ==
  ASSUME RoutesInv, NEW id, NEW row, RowOK(row), routes' = With(id, row)
  PROVE  IsFiniteSet(DOMAIN routes') /\ \A j \in DOMAIN routes' : RowOK(routes'[j])
<1>1. IsFiniteSet(DOMAIN routes \cup {id})
  BY FS_AddElement DEF RoutesInv
<1> QED
  BY <1>1 DEF With, RoutesInv

LEMMA GivenAttrs ==
  ASSUME NEW kind \in Kinds, NEW attrs, AttrsTyped(attrs)
  PROVE  /\ AttrsTyped(Given(kind, attrs))
         /\ DOMAIN Given(kind, attrs) \subseteq Columns \ {"kind", "name", "by"}
         /\ kind = "plugin" => DOMAIN Given(kind, attrs) \cap {"auth", "internal", "mtls"} = {}
<1>1. /\ DOMAIN Given(kind, attrs) = DOMAIN attrs \cap Writable(kind)
      /\ \A f \in DOMAIN Given(kind, attrs) : Given(kind, attrs)[f] = attrs[f]
  BY DEF Given
<1>2. Writable(kind) \subseteq Columns \ {"kind", "name", "by"}
  BY DEF Writable, Kinds, Columns
<1>3. kind = "plugin" => Writable(kind) \cap {"auth", "internal", "mtls"} = {}
  BY DEF Writable
<1> QED
  BY <1>1, <1>2, <1>3 DEF AttrsTyped

GivenTyped(given) ==
  /\ "auth" \in DOMAIN given => given.auth \in BOOLEAN
  /\ "internal" \in DOMAIN given => given.internal \in BOOLEAN
  /\ "mtls" \in DOMAIN given => given.mtls \in BOOLEAN
  /\ "timeout" \in DOMAIN given => given.timeout \in Nat

(* A new route that the serializer accepts is lawful once it is saved. *)
LEMMA CreatedRow ==
  ASSUME NEW kind \in Kinds, NEW given, AttrsTyped(given),
         DOMAIN given \subseteq Columns \ {"kind", "name", "by"},
         kind = "plugin" => DOMAIN given \cap {"auth", "internal", "mtls"} = {},
         NEW by, by = (IF kind # "plugin" /\ "auth" \notin DOMAIN given THEN "default" ELSE "api"),
         NEW row, row = Saved(Over(given, [Blank EXCEPT !.kind = kind, !.by = by])),
         Accepts(Over(given, [Blank EXCEPT !.auth = FALSE])), Clean(row)
  PROVE  RowOK(row)
<1> DEFINE base == [Blank EXCEPT !.kind = kind, !.by = by]
           blank == [Blank EXCEPT !.auth = FALSE]
           v == Over(given, blank)
           full == Over(given, base)
<1>1. /\ DOMAIN base = Columns /\ base.kind = kind /\ base.by = by
      /\ base.auth /\ ~base.internal /\ ~base.mtls /\ base.timeout = 0
      /\ base.auth \in BOOLEAN /\ base.internal \in BOOLEAN /\ base.mtls \in BOOLEAN
  BY DEF Blank, Columns
<1>2. /\ DOMAIN blank = Columns /\ ~blank.auth /\ ~blank.internal /\ ~blank.mtls
  BY DEF Blank, Columns
<1>a. GivenTyped(given)
  BY DEF AttrsTyped, GivenTyped
<1> HIDE DEF base, blank
<1>3. /\ DOMAIN full = Columns /\ full.kind = kind /\ full.by = by
      /\ full.auth \in BOOLEAN /\ full.internal \in BOOLEAN /\ full.mtls \in BOOLEAN /\ full.timeout \in Nat
      /\ "auth" \notin DOMAIN given => full.auth
  <2>1. DOMAIN given \subseteq Columns /\ "kind" \notin DOMAIN given /\ "by" \notin DOMAIN given
    OBVIOUS
  <2>2. DOMAIN full = Columns /\ full.kind = kind /\ full.by = by
    BY <1>1, <2>1, OverRow
  <2>3. full.auth \in BOOLEAN /\ ("auth" \notin DOMAIN given => full.auth)
    BY <1>1, <1>a, <2>1, OverRow DEF GivenTyped
  <2>4. full.internal \in BOOLEAN /\ full.mtls \in BOOLEAN
    BY <1>1, <1>a, <2>1, OverRow DEF GivenTyped
  <2>5. full.timeout \in Nat
    BY <1>1, <1>a, <2>1, OverRow DEF GivenTyped
  <2> QED
    BY <2>2, <2>3, <2>4, <2>5
<1>4. /\ (v.internal <=> full.internal) /\ (v.mtls <=> full.mtls)
      /\ "auth" \in DOMAIN given => (v.auth <=> full.auth)
  BY <1>1, <1>2, OverRow
<1> HIDE DEF v, full
<1>5. /\ DOMAIN row = Columns /\ row.kind = kind /\ row.by = by /\ row.mtls = full.mtls
      /\ row.timeout = full.timeout /\ row.name = EnvoyClusterName(row)
      /\ kind # "plugin" => row.auth = full.auth /\ row.internal = full.internal
      /\ kind = "plugin" => /\ ~row.auth /\ ~row.internal
                            /\ row.auth \in BOOLEAN /\ row.internal \in BOOLEAN
  BY <1>3, SavedRow DEF base, full
<1>6. RowTyped(row)
  BY <1>3, <1>5, BlankRow DEF RowTyped
<1>7. ~(v.internal /\ ~v.auth) /\ ~(v.mtls /\ v.auth)
  BY DEF Accepts, v, blank
<1> QED
  BY <1>3, <1>4, <1>5, <1>6, <1>7 DEF RowOK, Lawful

(* So is a row that was lawful when it was loaded, with the changes. *)
LEMMA PatchedRow ==
  ASSUME NEW old, RowOK(old), NEW given, AttrsTyped(given),
         DOMAIN given \subseteq Columns \ {"kind", "name", "by"},
         NEW row, row = Saved([Over(given, old) EXCEPT !.by = "api"]),
         Accepts(Merged(old, given)), Clean(row)
  PROVE  RowOK(row)
<1> DEFINE v == Over(given, old)
           full == [v EXCEPT !.by = "api"]
<1>a. GivenTyped(given)
  BY DEF AttrsTyped, GivenTyped
<1>1. DOMAIN v = Columns /\ v.kind = old.kind
  BY OverRow, BlankRow DEF RowOK, RowTyped
<1>2. v.auth \in BOOLEAN /\ v.internal \in BOOLEAN /\ v.mtls \in BOOLEAN /\ v.timeout \in Nat
  BY <1>a, OverRow, BlankRow DEF RowOK, RowTyped, GivenTyped
<1>3. ~(v.internal /\ ~v.auth) /\ ~(v.mtls /\ v.auth)
  BY DEF Accepts, Merged
<1> HIDE DEF v
<1>4. /\ DOMAIN full = Columns /\ full.kind = old.kind /\ full.by = "api" /\ full.auth = v.auth
      /\ full.internal = v.internal /\ full.mtls = v.mtls /\ full.timeout = v.timeout
  BY <1>1 DEF Columns
<1> HIDE DEF full
<1>5. old.kind \in Kinds /\ row = Saved(full)
  BY DEF RowOK, RowTyped, v, full
<1>6. /\ DOMAIN row = Columns /\ row.kind = old.kind /\ row.by = "api" /\ row.mtls = v.mtls
      /\ row.timeout = v.timeout /\ row.name = EnvoyClusterName(row)
      /\ old.kind # "plugin" => row.auth = v.auth /\ row.internal = v.internal
      /\ old.kind = "plugin" => /\ ~row.auth /\ ~row.internal
                            /\ row.auth \in BOOLEAN /\ row.internal \in BOOLEAN
  BY <1>4, <1>5, SavedRow
<1>7. RowTyped(row)
  BY <1>2, <1>5, <1>6, BlankRow DEF RowTyped
<1> QED
  BY <1>2, <1>3, <1>6, <1>7 DEF RowOK, Lawful

(* register_service writes a lawful row: a new one is cleaned, and it      *)
(* changes neither the port nor the path of one that it finds.             *)
LEMMA FoundRows ==
  ASSUME RoutesInv, NEW found \in SUBSET DOMAIN routes, NEW new, NEW changes,
         DOMAIN changes \subseteq Columns \ {"kind", "port", "path", "internal", "timeout", "name"},
         {"auth", "mtls", "by"} \subseteq DOMAIN changes,
         changes.auth \in BOOLEAN, changes.mtls \in BOOLEAN, changes.by = "command",
         NEW kind \in {"service", "additional"}, DOMAIN new = Columns, new.kind = kind,
         new.by = "command", new.auth \in BOOLEAN, new.mtls \in BOOLEAN,
         new.internal \in BOOLEAN, new.timeout \in Nat, Found(found, new, changes)
  PROVE  IsFiniteSet(DOMAIN routes') /\ \A id \in DOMAIN routes' : RowOK(routes'[id])
<1>1. CASE found = {}
  <2>1. Clean(Saved(new)) /\ routes' = With(lastId + 1, Saved(new))
    BY <1>1 DEF Found
  <2>2. /\ DOMAIN Saved(new) = Columns /\ Saved(new).kind = kind /\ Saved(new).by = "command"
        /\ Saved(new).auth = new.auth /\ Saved(new).internal = new.internal
        /\ Saved(new).mtls = new.mtls /\ Saved(new).timeout = new.timeout
    BY SavedRow DEF Kinds
  <2>3. RowOK(Saved(new))
    BY <2>1, <2>2, BlankRow DEF RowOK, RowTyped, Lawful, Kinds
  <2> QED
    BY <2>1, <2>3, StoreRow
<1>2. CASE found # {}
  <2> PICK f \in found : TRUE
    BY <1>2
  <2>1. routes' = [routes EXCEPT ![f] = Over(changes, @)] /\ f \in DOMAIN routes
    BY <1>2 DEF Found
  <2> DEFINE old == routes[f]
             row == Over(changes, old)
  <2>2. RowOK(old)
    BY <2>1 DEF RoutesInv
  <2>3. /\ DOMAIN row = Columns /\ row.kind = old.kind /\ row.by = "command"
        /\ row.auth \in BOOLEAN /\ row.mtls \in BOOLEAN /\ row.internal \in BOOLEAN /\ row.timeout \in Nat
    <3>1. DOMAIN old = Columns /\ DOMAIN changes \subseteq Columns /\ old.internal \in BOOLEAN /\ old.timeout \in Nat
      BY <2>2, BlankRow DEF RowOK, RowTyped
    <3>2. "kind" \notin DOMAIN changes /\ "internal" \notin DOMAIN changes /\ "timeout" \notin DOMAIN changes
      OBVIOUS
    <3> QED
      BY <3>1, <3>2, OverRow
  <2>4. row.port = old.port /\ row.path = old.path
    <3>1. {"port", "path"} \subseteq DOMAIN old /\ "port" \notin DOMAIN changes /\ "path" \notin DOMAIN changes
      BY <2>2, BlankRow DEF RowOK, RowTyped, Columns
    <3> QED
      BY <3>1 DEF Over
  <2>5. Clean(old) /\ old.kind \in Kinds
    BY <2>2 DEF RowOK, RowTyped, Lawful
  <2> HIDE DEF row, old
  <2>6. RowOK(row)
    BY <2>3, <2>4, <2>5, BlankRow DEF RowOK, RowTyped, Lawful, Clean
  <2> QED
    BY <2>1, <2>6 DEF RoutesInv, row, old
<1> QED
  BY <1>1, <1>2

LEMMA RoutesInvStep == RoutesInv /\ [RoutesNext]_routeVars => RoutesInv'
<1> SUFFICES ASSUME RoutesInv, [RoutesNext]_routeVars PROVE RoutesInv'
  OBVIOUS
<1>1. ASSUME NEW post \in Posts, Create(post) PROVE RoutesInv'
  <2> DEFINE kind == post.kind
             given == Given(kind, post.attrs)
             by == IF kind # "plugin" /\ "auth" \notin DOMAIN given THEN "default" ELSE "api"
             row == Saved(Over(given, [Blank EXCEPT !.kind = kind, !.by = by]))
  <2>1. /\ Accepts(Over(given, [Blank EXCEPT !.auth = FALSE])) /\ Clean(row)
        /\ routes' = With(lastId + 1, row) /\ UNCHANGED <<admin, setup, floor>>
    BY <1>1 DEF Create
  <2>2. kind \in Kinds /\ AttrsTyped(post.attrs)
    BY RoutesInputs
  <2>3. /\ AttrsTyped(given) /\ DOMAIN given \subseteq Columns \ {"kind", "name", "by"}
        /\ kind = "plugin" => DOMAIN given \cap {"auth", "internal", "mtls"} = {}
    BY <2>2, GivenAttrs
  <2>4. RowOK(row)
    <3> HIDE DEF kind, given
    <3> QED
      BY <2>1, <2>2, <2>3, CreatedRow
  <2> HIDE DEF row
  <2> QED
    BY <2>1, <2>4, StoreRow DEF RoutesInv
<1>2. ASSUME NEW a \in Admins, NEW id \in DOMAIN routes, Load(a, id) PROVE RoutesInv'
  BY <1>2 DEF Load, RoutesInv
<1>3. ASSUME NEW a \in Admins, NEW attrs \in Patches, Patch(a, attrs) PROVE RoutesInv'
  <2> DEFINE old == admin[a].row
             given == Given(old.kind, attrs)
             row == Saved([Over(given, old) EXCEPT !.by = "api"])
  <2>1. /\ Accepts(Merged(old, given)) /\ Clean(row)
        /\ routes' = With(admin[a].id, row) /\ UNCHANGED <<setup, floor>>
        /\ admin' = [admin EXCEPT ![a] = Free] /\ admin[a] # Free
    BY <1>3 DEF Patch
  <2>2. RowOK(old) /\ old.kind \in Kinds /\ AttrsTyped(attrs)
    BY <2>1, RoutesInputs DEF RoutesInv, RowOK, RowTyped
  <2>3. AttrsTyped(given) /\ DOMAIN given \subseteq Columns \ {"kind", "name", "by"}
    BY <2>2, GivenAttrs
  <2>4. RowOK(row)
    <3> HIDE DEF old, given
    <3> QED
      BY <2>1, <2>2, <2>3, PatchedRow
  <2> HIDE DEF row
  <2> QED
    BY <2>1, <2>4, StoreRow DEF RoutesInv
<1>4. ASSUME NEW a \in Admins, GiveUp(a) PROVE RoutesInv'
  BY <1>4 DEF GiveUp, RoutesInv
<1>5. ASSUME NEW ids, routes' = Without(ids), UNCHANGED <<admin, setup, floor>> PROVE RoutesInv'
  <2>1. IsFiniteSet(DOMAIN routes \ ids)
    BY FS_Difference DEF RoutesInv
  <2> QED
    BY <1>5, <2>1 DEF Without, RoutesInv
<1>6. ASSUME NEW id \in DOMAIN routes, Delete(id) PROVE RoutesInv'
  BY <1>5, <1>6 DEF Delete
<1>7. ASSUME NEW p \in ports, DeletePort(p) PROVE RoutesInv'
  BY <1>5, <1>7 DEF DeletePort
<1>8. ASSUME NEW n \in DOMAIN nodes, NEW tags \in TagSets, TagNode(n, tags) PROVE RoutesInv'
  BY <1>8 DEF TagNode, RoutesInv
<1>9. ASSUME NEW v \in Floors, SetFloor(v) PROVE RoutesInv'
  BY <1>9 DEF SetFloor, RoutesInv
<1>10. ASSUME NEW config \in Configs, RegisterService(config) PROVE RoutesInv'
  <2> DEFINE found == {id \in DOMAIN routes : routes[id].kind = "service" /\ routes[id].cluster = config.cluster}
             changes == [sport |-> config.sport, slug |-> config.slug,
                         auth |-> config.auth, mtls |-> config.mtls, by |-> "command"]
             base == [Blank EXCEPT !.kind = "service", !.cluster = config.cluster]
             new == Over(changes, base)
  <2>1. /\ Found(found, new, changes) /\ UNCHANGED <<admin, floor>>
        /\ setup' = [pc |-> "clear", config |-> config]
    BY <1>10 DEF RegisterService
  <2>2. /\ DOMAIN changes \subseteq Columns \ {"kind", "port", "path", "internal", "timeout", "name"}
        /\ DOMAIN changes = {"sport", "slug", "auth", "mtls", "by"} /\ changes.by = "command"
        /\ changes.auth \in BOOLEAN /\ changes.mtls \in BOOLEAN
    BY RoutesInputs DEF Columns
  <2>3. /\ DOMAIN base = Columns /\ base.kind = "service"
        /\ base.internal \in BOOLEAN /\ base.timeout = 0
    BY DEF Blank, Columns
  <2> HIDE DEF changes, base
  <2>4. /\ DOMAIN new = Columns /\ new.kind = "service" /\ new.by = "command" /\ new.auth \in BOOLEAN
        /\ new.mtls \in BOOLEAN /\ new.internal \in BOOLEAN /\ new.timeout \in Nat
    BY <2>2, <2>3, OverRow
  <2> HIDE DEF new
  <2>5. IsFiniteSet(DOMAIN routes') /\ \A id \in DOMAIN routes' : RowOK(routes'[id])
    BY <2>1, <2>2, <2>4, FoundRows
  <2> QED
    BY <2>1, <2>5 DEF RoutesInv
<1>11. CASE ClearNodes \/ AddNode \/ SetupFails
  BY <1>11 DEF ClearNodes, AddNode, SetupFails, RoutesInv, Off
<1>12. CASE RegisterAdditional
  <2> DEFINE c == setup.config
             found == {id \in DOMAIN routes : /\ routes[id].kind = "additional"
                                              /\ routes[id].port = ApiPort /\ routes[id].path = c.extra}
             changes == [sport |-> c.sport, cluster |-> c.cluster,
                         auth |-> c.auth, mtls |-> c.mtls, by |-> "command"]
             base == [Blank EXCEPT !.kind = "additional", !.path = c.extra]
             new == Over(changes, base)
  <2>a. c \in Configs /\ setup' = Off /\ UNCHANGED <<admin, floor>>
    BY <1>12 DEF RegisterAdditional, RoutesInv, Off
  <2>b. CASE UNCHANGED routes
    BY <2>a, <2>b DEF RoutesInv
  <2>c. CASE Found(found, new, changes)
    <3>1. /\ DOMAIN changes \subseteq Columns \ {"kind", "port", "path", "internal", "timeout", "name"}
          /\ DOMAIN changes = {"sport", "cluster", "auth", "mtls", "by"} /\ changes.by = "command"
          /\ changes.auth \in BOOLEAN /\ changes.mtls \in BOOLEAN
      BY <2>a, RoutesInputs DEF Columns
    <3>2. /\ DOMAIN base = Columns /\ base.kind = "additional"
          /\ base.internal \in BOOLEAN /\ base.timeout = 0
      BY DEF Blank, Columns
    <3> HIDE DEF changes, base
    <3>3. /\ DOMAIN new = Columns /\ new.kind = "additional" /\ new.by = "command" /\ new.auth \in BOOLEAN
          /\ new.mtls \in BOOLEAN /\ new.internal \in BOOLEAN /\ new.timeout \in Nat
      BY <3>1, <3>2, OverRow
    <3> HIDE DEF new
    <3>4. IsFiniteSet(DOMAIN routes') /\ \A id \in DOMAIN routes' : RowOK(routes'[id])
      BY <2>c, <3>1, <3>3, FoundRows
    <3> QED
      BY <2>a, <3>4 DEF RoutesInv
  <2> QED
    BY <1>12, <2>b, <2>c DEF RegisterAdditional
<1>13. CASE UNCHANGED routeVars
  BY <1>13 DEF routeVars, RoutesInv
<1> QED
  BY <1>1, <1>2, <1>3, <1>4, <1>6, <1>7, <1>8, <1>9, <1>10, <1>11, <1>12, <1>13 DEF RoutesNext

LEMMA RoutesInvariant == RoutesSpec => []RoutesInv
  BY RoutesInvInit, RoutesInvStep, PTL DEF RoutesSpec

(***************************************************************************)
(* Both rules hold of every row the API wrote, however many requests load  *)
(* rows, lose races and write old rows back, and whatever register_service *)
(* does between (validate, AdditionalRoute.clean).                         *)
(***************************************************************************)
THEOREM RouteRulesKept == RoutesSpec => []RulesKept
<1>1. RoutesInv => RulesKept
  BY DEF RoutesInv, RowOK, Lawful, Clean, RulesKept, TlsExcludesAuth, ReservedPathsKept
<1> QED
  BY <1>1, RoutesInvariant, PTL

(***************************************************************************)
(* A request for an internal route always reaches the authorization        *)
(* server, which is told that the route is internal, unless                *)
(* register_service switched the route's authentication off                *)
(* (get_xds_listener_config).                                              *)
(***************************************************************************)
THEOREM InternalRoutesGuarded == RoutesSpec => []InternalGuarded
<1>1. RoutesInv => InternalGuarded
  <2> SUFFICES ASSUME RoutesInv, NEW p \in ports, NEW e \in Listener(p),
                      routes[e.route].internal, routes[e.route].by # "command"
               PROVE  e.authz.on /\ e.authz.internal
    BY DEF InternalGuarded
  <2>1. PICK id \in DOMAIN routes : e \in SignEntries(id) \cup {RouteEntry(id)}
    BY DEF Listener
  <2>2. CASE e \in SignEntries(id)
    BY <2>2 DEF SignEntries
  <2>3. CASE e = RouteEntry(id)
    <3>1. e.route = id /\ e.authz = Authz(routes[id])
      BY <2>3 DEF RouteEntry
    <3>2. routes[id].auth
      BY <3>1 DEF RoutesInv, RowOK, Lawful
    <3>3. Authz(routes[id]) = [on |-> TRUE, internal |-> routes[id].internal, type |-> "JWT"]
      BY <3>2 DEF Authz
    <3> QED
      BY <3>1, <3>3
  <2> QED
    BY <2>1, <2>2, <2>3
<1> QED
  BY <1>1, RoutesInvariant, PTL

(***************************************************************************)
(* All routes that share the name of an Envoy cluster ask for the same     *)
(* nodes, for any number of routes, nodes and tags, apart from rows that   *)
(* register_service changed and from the tag that reads like no tag        *)
(* (Route.save, get_xds_cluster_config).                                   *)
(***************************************************************************)
THEOREM ClustersServeTheirRoutes == RoutesSpec => []EndpointsAsTagged
<1>1. RoutesInv => EndpointsAsTagged
  <2> SUFFICES ASSUME RoutesInv, NEW id \in DOMAIN routes, NEW chosen \in DOMAIN routes,
                      routes[id].name = routes[chosen].name,
                      "command" \notin {routes[id].by, routes[chosen].by},
                      {routes[id].tags, routes[chosen].tags} # {{}, {"*"}}
               PROVE  Endpoints(routes[id]) = Endpoints(routes[chosen])
    BY DEF EndpointsAsTagged
  <2> DEFINE r == routes[id]
             q == routes[chosen]
  <2>1. EnvoyClusterName(r) = EnvoyClusterName(q)
    BY DEF RoutesInv, RowOK, Lawful
  <2>2. /\ r.cluster = q.cluster /\ r.sport = q.sport
        /\ (IF r.tags = {} THEN {"*"} ELSE r.tags) = (IF q.tags = {} THEN {"*"} ELSE q.tags)
    BY <2>1 DEF EnvoyClusterName
  <2>3. r.tags = q.tags
    <3> SUFFICES ASSUME r.tags # q.tags PROVE FALSE
      OBVIOUS
    <3>1. (r.tags = {} /\ q.tags = {"*"}) \/ (q.tags = {} /\ r.tags = {"*"})
      BY <2>2
    <3> QED
      BY <3>1
  <2> QED
    BY <2>2, <2>3 DEF Endpoints
<1> QED
  BY <1>1, RoutesInvariant, PTL

=============================================================================
