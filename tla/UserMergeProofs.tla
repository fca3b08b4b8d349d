--------------------------- MODULE UserMergeProofs ---------------------------
(***************************************************************************)
(* Proofs about UserMerge, for any accounts, services and names, through   *)
(* any number of invocations that fail at any request.                     *)
(***************************************************************************)
EXTENDS UserMerge, FiniteSetTheorems, TLAPS

Linking == pc \in {"remove", "update"}
InGroup == pc \in {"link", "remove", "update", "takeover"}

(* What the gateway's database always satisfies: an account that is gone   *)
(* has no originals, and one that was taken over by this release is the    *)
(* only one of its group.                                                  *)
DatabaseSound ==
  /\ history.early \subseteq gateway.taken /\ gateway.taken \subseteq gateway.users
  /\ \A a \in Accounts \ gateway.users : gateway.originals[a] = {}
  /\ \A a \in gateway.taken \ history.early : \A b \in gateway.users \ history.early :
       BaseUsername(a) = BaseUsername(b) => a = b

(* The accounts still to be linked are others of the main account's group, *)
(* and there are no more of them.                                          *)
GroupAtHand ==
  /\ InGroup =>
       /\ main \in PartiallyMigrated
       /\ \A i \in DOMAIN others : others[i] \in Group(BaseUsername(main)) \ {main}
       /\ \A i, j \in DOMAIN others : others[i] = others[j] => i = j
       /\ Cardinality(Group(BaseUsername(main))) = Len(others) + 1
       /\ BaseUsername(main) \notin todo
  /\ pc = "takeover" => others = <<>>

(* Every account is counted once: as merged, or as one that is still to be *)
(* merged and whose group is to come.                                      *)
Counted ==
  /\ pc = "groups" => /\ todo = {BaseUsername(a) : a \in PartiallyMigrated}
                      /\ merged + Cardinality(PartiallyMigrated) = total
  /\ InGroup => /\ todo \cup {BaseUsername(main)} = {BaseUsername(a) : a \in PartiallyMigrated}
                /\ merged + mergedCount + Cardinality(PartiallyMigrated) = total
  /\ pc = "returned" => PartiallyMigrated = {}
  /\ pc # "miscounted"

(* How far the open transaction is.                                        *)
TransactionSound ==
  /\ Linking =>
       /\ others # <<>>
       /\ tx = Relink(gateway, main, ToMerge)
       /\ gateway.originals[main] \cap gateway.originals[ToMerge] = {}
       /\ pending \subseteq gateway.originals[ToMerge]
       /\ \A s \in gateway.originals[ToMerge] \ pending : WithAid(s, ToMerge) = {}
  /\ pc = "update" => target \in pending /\ WithAid(target, main) = {}
  /\ pc = "takeover" =>
       /\ tx = [gateway EXCEPT !.taken = @ \cup {main}]
       /\ \A s \in gateway.originals[main] \ pending :
            \E r \in rows : r.service = s /\ r.aid = main /\ r.ours

(* In a first attempt an original account is under the ansible_id of the   *)
(* account that the gateway counts it to, or of the one it is moved to.    *)
FirstAttempt == runs <= 1 /\ pc \notin Ended /\ (pc = "idle" => runs = 0)

Started == pc # "idle" => runs # 0

Placed ==
  FirstAttempt =>
    \A r \in rows : r.of # Copy =>
      \/ r.service \in gateway.originals[r.aid]
      \/ Linking /\ r.aid = main /\ r.service \in gateway.originals[ToMerge] \ pending

MergeInv ==
  /\ TypeOK /\ DatabaseSound /\ GroupAtHand /\ Counted /\ TransactionSound /\ Started /\ Placed
  /\ TakenOverEverywhere /\ OriginalsKept /\ FirstAttemptSpares

-----------------------------------------------------------------------------
(* The helpers.                                                            *)

LEMMA RelinkFields ==
  ASSUME NEW db \in Databases, NEW a \in Accounts, NEW b \in Accounts, a # b
  PROVE  /\ Relink(db, a, b) \in Databases
         /\ Relink(db, a, b).users = db.users \ {b}
         /\ Relink(db, a, b).taken = db.taken \ {b}
         /\ Relink(db, a, b).originals[a] = db.originals[a] \cup db.originals[b]
         /\ Relink(db, a, b).originals[b] = {}
         /\ \A c \in Accounts \ {a, b} : Relink(db, a, b).originals[c] = db.originals[c]
BY DEF Relink, Databases

LEMMA TakenFields ==
  ASSUME NEW db \in Databases, NEW a \in Accounts
  PROVE  /\ [db EXCEPT !.taken = @ \cup {a}] \in Databases
         /\ [db EXCEPT !.taken = @ \cup {a}].users = db.users
         /\ [db EXCEPT !.taken = @ \cup {a}].taken = db.taken \cup {a}
         /\ [db EXCEPT !.taken = @ \cup {a}].originals = db.originals
BY DEF Databases

LEMMA DatabaseFields ==
  ASSUME NEW db \in Databases
  PROVE  /\ db.users \subseteq Accounts /\ db.taken \subseteq Accounts
         /\ db.originals \in [Accounts -> SUBSET Services]
BY DEF Databases

LEMMA RowFields ==
  ASSUME NEW r \in Rows, NEW a \in Accounts
  PROVE  /\ r.service \in Services /\ r.of \in Accounts \cup {Copy} /\ r.aid \in Accounts
         /\ [r EXCEPT !.ours = TRUE] \in Rows
         /\ [r EXCEPT !.ours = TRUE].service = r.service
         /\ [r EXCEPT !.ours = TRUE].of = r.of
         /\ [r EXCEPT !.ours = TRUE].aid = r.aid
         /\ [r EXCEPT !.ours = TRUE].ours
         /\ [r EXCEPT !.aid = a, !.ours = TRUE] \in Rows
         /\ [r EXCEPT !.aid = a, !.ours = TRUE].service = r.service
         /\ [r EXCEPT !.aid = a, !.ours = TRUE].of = r.of
         /\ [r EXCEPT !.aid = a, !.ours = TRUE].aid = a
         /\ [r EXCEPT !.aid = a, !.ours = TRUE].ours
BY DEF Rows

(* The order of a group begins with a main account.                        *)
LEMMA ArrangementFields ==
  ASSUME NEW group, IsFiniteSet(group), group # {}, NEW order \in Arrangements(group)
  PROVE  /\ order[1] \in group
         /\ Tail(order) \in Seq(group)
         /\ Len(Tail(order)) + 1 = Cardinality(group)
         /\ \A i \in DOMAIN Tail(order) : Tail(order)[i] \in group \ {order[1]}
         /\ \A i, j \in DOMAIN Tail(order) : Tail(order)[i] = Tail(order)[j] => i = j
<1> DEFINE n == Cardinality(group)
<1>1. n \in Nat /\ n # 0
  BY FS_CardinalityType, FS_EmptySet
<1>2. /\ order \in [1..n -> group]
      /\ \A i, j \in 1..n : order[i] = order[j] => i = j
  BY DEF Arrangements
<1> HIDE DEF n
<1>3. order \in Seq(group) /\ Len(order) = n
  BY <1>1, <1>2
<1>4. /\ Tail(order) \in Seq(group) /\ Len(Tail(order)) = n - 1
      /\ \A i \in 1..(n - 1) : Tail(order)[i] = order[i + 1]
  BY <1>1, <1>3
<1>5. DOMAIN Tail(order) = 1..(n - 1)
  BY <1>4
<1>6. \A i \in 1..(n - 1) : i + 1 \in 1..n /\ i + 1 # 1
  BY <1>1
<1>7. 1 \in 1..n
  BY <1>1
<1>8. ASSUME NEW i \in 1..(n - 1) PROVE Tail(order)[i] \in group \ {order[1]}
  BY <1>8, <1>2, <1>4, <1>6, <1>7
<1>9. ASSUME NEW i \in 1..(n - 1), NEW j \in 1..(n - 1), Tail(order)[i] = Tail(order)[j] PROVE i = j
  <2>1. i + 1 = j + 1
    BY <1>9, <1>2, <1>4, <1>6
  <2> QED
    BY <2>1
<1> QED
  BY <1>1, <1>2, <1>4, <1>5, <1>7, <1>8, <1>9 DEF n

LEMMA PartialFinite ==
  TypeOK => /\ PartiallyMigrated \subseteq Accounts /\ IsFiniteSet(PartiallyMigrated)
            /\ Cardinality(PartiallyMigrated) \in Nat
            /\ \A base : Group(base) \subseteq PartiallyMigrated /\ IsFiniteSet(Group(base))
<1> SUFFICES ASSUME TypeOK
             PROVE /\ PartiallyMigrated \subseteq Accounts /\ IsFiniteSet(PartiallyMigrated)
                   /\ Cardinality(PartiallyMigrated) \in Nat
                   /\ \A base : Group(base) \subseteq PartiallyMigrated /\ IsFiniteSet(Group(base))
  OBVIOUS
<1>1. PartiallyMigrated \subseteq Accounts
  BY DEF TypeOK, PartiallyMigrated, Databases
<1>2. \A base : Group(base) \subseteq PartiallyMigrated
  BY DEF Group
<1>3. IsFiniteSet(PartiallyMigrated)
  BY <1>1, FS_Subset, AccountsAssumption
<1>4. ASSUME NEW base PROVE IsFiniteSet(Group(base))
  BY <1>2, <1>3, FS_Subset
<1> QED
  BY <1>1, <1>2, <1>3, <1>4, FS_CardinalityType

(* The history never changes, and with it the grouping.                    *)
LEMMA HistoryKept == [Next]_vars => history' = history /\ \A a : BaseUsername(a)' = BaseUsername(a)
<1>1. [Next]_vars => history' = history
  BY DEF Next, Command, Link, Migrate, Start, UnknownService, MergeGroup, Finish, LinkAccount, LinkConflict,
         RollBack, RemoveMain, UpdateMerged, UpdateMissing, CommitLink, Takeover, UpdateMain, CommitTakeover,
         RequestFails, Again, vars
<1>2. history' = history => \A a : BaseUsername(a)' = BaseUsername(a)
  BY DEF BaseUsername
<1> QED
  BY <1>1, <1>2

(* The next account to be linked, and what is left after it.               *)
LEMMA NextToMerge ==
  ASSUME TypeOK, GroupAtHand, InGroup, others # <<>>
  PROVE  /\ ToMerge \in Accounts /\ ToMerge # main /\ ToMerge \in PartiallyMigrated
         /\ ToMerge \in Group(BaseUsername(main))
         /\ BaseUsername(ToMerge) = BaseUsername(main)
         /\ Tail(others) \in Seq(Accounts) /\ Len(Tail(others)) = Len(others) - 1
         /\ Len(others) \in Nat
         /\ \A i \in DOMAIN Tail(others) :
              Tail(others)[i] \in Group(BaseUsername(main)) \ {main, ToMerge}
         /\ \A i, j \in DOMAIN Tail(others) : Tail(others)[i] = Tail(others)[j] => i = j
<1> DEFINE n == Len(others)
<1>1. others \in Seq(Accounts)
  BY DEF TypeOK
<1>2. n \in Nat /\ n # 0 /\ DOMAIN others = 1..n
  BY <1>1
<1>3. ToMerge = others[1]
  BY <1>1, <1>2 DEF ToMerge
<1>4. /\ \A i \in 1..n : others[i] \in Group(BaseUsername(main)) \ {main}
      /\ \A i, j \in 1..n : others[i] = others[j] => i = j
  BY <1>2 DEF GroupAtHand
<1>5. /\ Tail(others) \in Seq(Accounts) /\ Len(Tail(others)) = n - 1
      /\ \A i \in 1..(n - 1) : Tail(others)[i] = others[i + 1]
  BY <1>1, <1>2
<1> HIDE DEF n
<1>6. DOMAIN Tail(others) = 1..(n - 1)
  BY <1>5
<1>7. \A i \in 1..(n - 1) : i + 1 \in 1..n /\ i + 1 # 1
  BY <1>2
<1>8. 1 \in 1..n
  BY <1>2
<1>9. ASSUME NEW i \in 1..(n - 1)
      PROVE  Tail(others)[i] \in Group(BaseUsername(main)) \ {main, ToMerge}
  BY <1>9, <1>3, <1>4, <1>5, <1>7, <1>8
<1>10. ASSUME NEW i \in 1..(n - 1), NEW j \in 1..(n - 1), Tail(others)[i] = Tail(others)[j]
       PROVE  i = j
  <2>1. i + 1 = j + 1
    BY <1>10, <1>4, <1>5, <1>7
  <2> QED
    BY <2>1
<1>11. ToMerge \in Group(BaseUsername(main)) /\ ToMerge # main
  BY <1>3, <1>4, <1>8
<1>12. ToMerge \in PartiallyMigrated /\ BaseUsername(ToMerge) = BaseUsername(main)
  BY <1>11 DEF Group
<1> QED
  BY <1>2, <1>5, <1>6, <1>9, <1>10, <1>11, <1>12, PartialFinite DEF n

(* The row of an account that is repointed in the update is the only one   *)
(* there: the main account's was removed.                                  *)
LEMMA RepointedRows ==
  ASSUME TypeOK, TransactionSound, GroupAtHand, pc = "update"
  PROVE  /\ Repointed(target) \subseteq Rows
         /\ \A q, r \in Repointed(target) : q.service = r.service /\ q.aid = r.aid => q = r
<1>1. ToMerge \in Accounts /\ ToMerge # main
  BY NextToMerge DEF TransactionSound, Linking, InGroup
<1>2. \A r \in rows : r \in Rows
  BY DEF TypeOK
<1>3. main \in Accounts
  BY DEF TypeOK
<1>4. \A r \in rows : r.service = target => r.aid # main
  BY DEF TransactionSound, WithAid
<1>5. \A q, r \in rows : q.service = r.service /\ q.aid = r.aid => q = r
  BY DEF TypeOK
<1>6. ASSUME NEW r \in Repointed(target)
      PROVE  \/ r \in rows /\ ~(r.service = target /\ r.aid = ToMerge)
             \/ \E o \in rows : /\ o.service = target /\ o.aid = ToMerge
                                /\ r = [o EXCEPT !.aid = main, !.ours = TRUE]
  BY <1>6 DEF Repointed, WithAid
<1>9. ASSUME NEW o \in rows
      PROVE  /\ [o EXCEPT !.aid = main, !.ours = TRUE] \in Rows
             /\ [o EXCEPT !.aid = main, !.ours = TRUE].service = o.service
             /\ [o EXCEPT !.aid = main, !.ours = TRUE].aid = main
  <2>1. o \in Rows
    BY <1>2
  <2> QED
    BY <2>1, <1>3, RowFields
<1>7. Repointed(target) \subseteq Rows
  BY <1>2, <1>6, <1>9
<1>8. ASSUME NEW q \in Repointed(target), NEW r \in Repointed(target),
             q.service = r.service, q.aid = r.aid
      PROVE  q = r
  <2>1. CASE q \in rows /\ r \in rows
    BY <2>1, <1>5, <1>8
  <2>2. CASE q \in rows /\ r \notin rows
    <3>1. r.service = target /\ r.aid = main
      BY <2>2, <1>6, <1>9
    <3> QED
      BY <3>1, <2>2, <1>4, <1>8
  <2>3. CASE q \notin rows /\ r \in rows
    <3>1. q.service = target /\ q.aid = main
      BY <2>3, <1>6, <1>9
    <3> QED
      BY <3>1, <2>3, <1>4, <1>8
  <2>4. CASE q \notin rows /\ r \notin rows
    <3>1. PICK o \in rows : /\ o.service = target /\ o.aid = ToMerge
                            /\ q = [o EXCEPT !.aid = main, !.ours = TRUE]
      BY <2>4, <1>6
    <3>2. PICK p \in rows : /\ p.service = target /\ p.aid = ToMerge
                            /\ r = [p EXCEPT !.aid = main, !.ours = TRUE]
      BY <2>4, <1>6
    <3>3. o = p
      BY <3>1, <3>2, <1>5
    <3> QED
      BY <3>1, <3>2, <3>3
  <2> QED
    BY <2>1, <2>2, <2>3, <2>4
<1> QED
  BY <1>7, <1>8

(* The rows of the main account in s, taken over.                          *)
TakenOver(s) == (rows \ WithAid(s, main)) \cup {[r EXCEPT !.ours = TRUE] : r \in WithAid(s, main)}

LEMMA TakenOverRows ==
  ASSUME TypeOK, NEW s \in Services
  PROVE  /\ TakenOver(s) \subseteq Rows
         /\ \A q, r \in TakenOver(s) : q.service = r.service /\ q.aid = r.aid => q = r
         /\ \A r \in rows : \E q \in TakenOver(s) :
              /\ q.service = r.service /\ q.aid = r.aid /\ q.of = r.of
              /\ (r.ours \/ (r.service = s /\ r.aid = main)) => q.ours
         /\ \A q \in TakenOver(s) : \E r \in rows :
              q.service = r.service /\ q.aid = r.aid /\ q.of = r.of
<1>1. \A r \in rows : r \in Rows
  BY DEF TypeOK
<1>2. \A q, r \in rows : q.service = r.service /\ q.aid = r.aid => q = r
  BY DEF TypeOK
<1>3. main \in Accounts
  BY DEF TypeOK
<1>4. ASSUME NEW q \in TakenOver(s)
      PROVE  \E r \in rows : /\ q = IF r.service = s /\ r.aid = main THEN [r EXCEPT !.ours = TRUE] ELSE r
                             /\ q \in Rows /\ q.service = r.service /\ q.aid = r.aid /\ q.of = r.of
  <2>1. CASE q \in rows /\ ~(q.service = s /\ q.aid = main)
    BY <2>1, <1>1
  <2>2. CASE \E r \in rows : r.service = s /\ r.aid = main /\ q = [r EXCEPT !.ours = TRUE]
    <3>1. PICK r \in rows : r.service = s /\ r.aid = main /\ q = [r EXCEPT !.ours = TRUE]
      BY <2>2
    <3> QED
      BY <3>1, <1>1, <1>3, RowFields
  <2> QED
    BY <2>1, <2>2 DEF TakenOver, WithAid
<1>5. ASSUME NEW r \in rows
      PROVE  \E q \in TakenOver(s) :
               /\ q.service = r.service /\ q.aid = r.aid /\ q.of = r.of
               /\ (r.ours \/ (r.service = s /\ r.aid = main)) => q.ours
  <2>1. CASE r.service = s /\ r.aid = main
    <3>1. [r EXCEPT !.ours = TRUE] \in TakenOver(s)
      BY <2>1 DEF TakenOver, WithAid
    <3> QED
      BY <3>1, <1>1, <1>3, RowFields
  <2>2. CASE ~(r.service = s /\ r.aid = main)
    <3>1. r \in TakenOver(s)
      BY <2>2 DEF TakenOver, WithAid
    <3> QED
      BY <3>1, <2>2
  <2> QED
    BY <2>1, <2>2
<1>6. ASSUME NEW q \in TakenOver(s), NEW r \in TakenOver(s), q.service = r.service, q.aid = r.aid
      PROVE  q = r
  <2>1. PICK o \in rows : /\ q = IF o.service = s /\ o.aid = main THEN [o EXCEPT !.ours = TRUE] ELSE o
                          /\ q.service = o.service /\ q.aid = o.aid
    BY <1>4
  <2>2. PICK p \in rows : /\ r = IF p.service = s /\ p.aid = main THEN [p EXCEPT !.ours = TRUE] ELSE p
                          /\ r.service = p.service /\ r.aid = p.aid
    BY <1>4
  <2>3. o = p
    BY <2>1, <2>2, <1>2, <1>6
  <2> QED
    BY <2>1, <2>2, <2>3
<1>7. \A q \in TakenOver(s) : q \in Rows /\ \E r \in rows : q.service = r.service /\ q.aid = r.aid /\ q.of = r.of
  BY <1>4
<1> QED
  BY <1>5, <1>6, <1>7

-----------------------------------------------------------------------------
(* The initial states.                                                     *)

LEMMA InitialRows ==
  ASSUME Init
  PROVE  /\ rows \subseteq Rows
         /\ \A q, r \in rows : q.service = r.service /\ q.aid = r.aid => q = r
         /\ \A r \in rows : r.of # Copy => r.service \in Originals[r.aid]
         /\ \A a \in Accounts : \A s \in Originals[a] :
              \E r \in rows : /\ r.service = s /\ r.of = a /\ r.aid = a
                              /\ a \in history.early => r.ours
<1>1. PICK copied \in SUBSET (Services \X Accounts) :
        /\ \A p \in copied : p[1] \notin Originals[p[2]]
        /\ rows = {[service |-> p[1], of |-> IF p \in copied THEN Copy ELSE p[2],
                    aid |-> p[2], ours |-> p[2] \in history.early] :
                     p \in copied \cup {q \in Services \X Accounts : q[1] \in Originals[q[2]]}}
  BY DEF Init
<1> DEFINE All == copied \cup {q \in Services \X Accounts : q[1] \in Originals[q[2]]}
           Row(p) == [service |-> p[1], of |-> IF p \in copied THEN Copy ELSE p[2],
                      aid |-> p[2], ours |-> p[2] \in history.early]
<1>2. \A r \in rows : \E p \in All : r = Row(p)
  BY <1>1
<1>3. \A p \in All : Row(p) \in rows
  BY <1>1
<1>4. \A p \in All : /\ p \in Services \X Accounts /\ p = <<p[1], p[2]>>
                     /\ p[1] \in Services /\ p[2] \in Accounts
                     /\ p \notin copied => p[1] \in Originals[p[2]]
  BY <1>1
<1>5. ASSUME NEW p PROVE (p[2] \in history.early) \in BOOLEAN
  OBVIOUS
<1>6. \A p \in All : /\ Row(p).service = p[1] /\ Row(p).aid = p[2]
                     /\ Row(p).of = IF p \in copied THEN Copy ELSE p[2]
                     /\ Row(p).ours = (p[2] \in history.early)
  OBVIOUS
<1>7. \A p \in All : Row(p) \in Rows
  BY <1>4, <1>5 DEF Rows
<1> HIDE DEF All, Row
<1>8. rows \subseteq Rows
  BY <1>2, <1>7
<1>9. ASSUME NEW q \in rows, NEW r \in rows, q.service = r.service, q.aid = r.aid PROVE q = r
  BY <1>9, <1>2, <1>4, <1>6
<1>10. ASSUME NEW r \in rows, r.of # Copy PROVE r.service \in Originals[r.aid]
  BY <1>10, <1>2, <1>4, <1>6
<1>11. ASSUME NEW a \in Accounts, NEW s \in Originals[a]
       PROVE  \E r \in rows : /\ r.service = s /\ r.of = a /\ r.aid = a
                              /\ a \in history.early => r.ours
  <2>1. s \in Services
    BY AccountsAssumption
  <2>2. <<s, a>> \in All /\ <<s, a>> \notin copied
    BY <2>1, <1>1 DEF All
  <2> QED
    BY <2>2, <1>3, <1>6
<1> QED
  BY <1>8, <1>9, <1>10, <1>11

LEMMA MergeInvInit == Init => MergeInv
<1> SUFFICES ASSUME Init PROVE MergeInv
  OBVIOUS
<1>1. /\ history \in Histories /\ history.early \subseteq Accounts
      /\ gateway = [users |-> Accounts, originals |-> Originals, taken |-> history.early]
      /\ pc = "idle" /\ tx = gateway /\ runs = 0
  BY AccountsAssumption DEF Init
<1>2. /\ gateway \in Databases /\ gateway.users = Accounts
      /\ gateway.originals = Originals /\ gateway.taken = history.early
  BY <1>1, AccountsAssumption DEF Databases
<1>3. ServiceOrder[1] \in Services
  BY AccountsAssumption DEF Services
<1>4. TypeOK
  <2>1. main \in Accounts
    BY AccountsAssumption DEF Init
  <2>2. others \in Seq(Accounts)
    BY DEF Init
  <2>3. runs \in 0..MaxRuns
    BY <1>1, AccountsAssumption
  <2>4. target \in Services /\ pending \subseteq Services /\ mergedCount \in Nat /\ merged \in Nat /\ total \in Nat
    BY <1>3 DEF Init
  <2> QED
    BY <1>1, <1>2, <2>1, <2>2, <2>3, <2>4, InitialRows DEF TypeOK
<1>5. DatabaseSound
  BY <1>1, <1>2 DEF DatabaseSound
<1>6. GroupAtHand /\ Counted /\ TransactionSound /\ Started
  BY <1>1 DEF GroupAtHand, Counted, TransactionSound, InGroup, Linking, Started
<1>7. Placed
  BY <1>2, InitialRows DEF Placed
<1>8. TakenOverEverywhere
  BY <1>1, <1>2, InitialRows DEF TakenOverEverywhere
<1>9. OriginalsKept
  BY <1>2 DEF OriginalsKept
<1>10. FirstAttemptSpares
  BY InitialRows DEF FirstAttemptSpares
<1> QED
  BY <1>4, <1>5, <1>6, <1>7, <1>8, <1>9, <1>10 DEF MergeInv

-----------------------------------------------------------------------------
(* Types.                                                                  *)

LEMMA MergeTypeStep == MergeInv /\ [Next]_vars => TypeOK'
<1> SUFFICES ASSUME MergeInv, [Next]_vars PROVE TypeOK'
  OBVIOUS
<1> USE DEF MergeInv
<1>1. CASE Start
  <2>1. runs' \in 0..MaxRuns
    BY <1>1, AccountsAssumption DEF TypeOK, Start
  <2> QED
    BY <1>1, <2>1, PartialFinite DEF TypeOK, Start
<1>2. CASE UnknownService
  <2>1. runs' \in 0..MaxRuns
    BY <1>2, AccountsAssumption DEF TypeOK, UnknownService
  <2> QED
    BY <1>2, <2>1 DEF TypeOK, UnknownService, Ended, job
<1>3. CASE MergeGroup
  <2>0. PICK base \in todo : \E order \in Arrangements(Group(base)) :
          /\ main' = order[1] /\ others' = Tail(order)
          /\ pc' = IF Mergeable(order[1], Group(base)) THEN "link" ELSE "rejected"
    BY <1>3 DEF MergeGroup
  <2>1. PICK order \in Arrangements(Group(base)) :
          /\ main' = order[1] /\ others' = Tail(order)
          /\ pc' = IF Mergeable(order[1], Group(base)) THEN "link" ELSE "rejected"
    BY <2>0
  <2>2. Group(base) # {}
    BY <1>3 DEF MergeGroup, Counted, Group
  <2>3. IsFiniteSet(Group(base)) /\ Group(base) \subseteq Accounts
    BY PartialFinite
  <2>4. order[1] \in Group(base) /\ Tail(order) \in Seq(Group(base))
    BY <2>2, <2>3, ArrangementFields
  <2>5. main' \in Accounts /\ others' \in Seq(Accounts)
    BY <2>1, <2>3, <2>4
  <2> QED
    BY <1>3, <2>1, <2>5 DEF MergeGroup, TypeOK, Ended
<1>4. CASE LinkAccount
  <2>1. ToMerge \in Accounts /\ ToMerge # main
    BY <1>4, NextToMerge DEF LinkAccount, InGroup
  <2>2. tx' \in Databases
    BY <1>4, <2>1, RelinkFields DEF LinkAccount, TypeOK
  <2>3. pending' \subseteq Services
    BY <1>4, <2>1, DatabaseFields DEF LinkAccount, TypeOK
  <2> QED
    BY <1>4, <2>2, <2>3 DEF TypeOK, LinkAccount
<1>5. CASE RemoveMain
  <2>1. \A s : Removed(s) \subseteq rows
    BY DEF Removed
  <2>2. rows' \subseteq rows
    BY <1>5, <2>1 DEF RemoveMain
  <2>3. target' \in Services /\ tx' \in Databases /\ pc' \in {"update", "failed"}
    BY <1>5 DEF RemoveMain, RollBack, TypeOK, job
  <2> QED
    BY <1>5, <2>2, <2>3 DEF TypeOK, RemoveMain, RollBack, job, Ended
<1>6. CASE UpdateMerged
  <2>1. rows' = Repointed(target) /\ pc = "update"
    BY <1>6 DEF UpdateMerged
  <2> QED
    BY <1>6, <2>1, RepointedRows DEF TypeOK, UpdateMerged, RollBack, job, Ended
<1>7. CASE UpdateMain
  <2>1. PICK s \in pending : rows' = TakenOver(s)
    BY <1>7 DEF UpdateMain, TakenOver
  <2>2. s \in Services
    BY <2>1 DEF TypeOK
  <2> QED
    BY <1>7, <2>1, <2>2, TakenOverRows DEF TypeOK, UpdateMain, RollBack, job, Ended
<1>8. CASE CommitLink
  <2>1. others # <<>> /\ InGroup
    BY <1>8 DEF CommitLink, TransactionSound, Linking, InGroup
  <2>2. Tail(others) \in Seq(Accounts)
    BY <2>1, NextToMerge
  <2> QED
    BY <1>8, <2>2 DEF TypeOK, CommitLink
<1>9. CASE Takeover
  <2>1. tx' \in Databases
    BY <1>9, TakenFields DEF Takeover, TypeOK
  <2>2. pending' \subseteq Services
    BY <1>9, DatabaseFields DEF Takeover, TypeOK
  <2> QED
    BY <1>9, <2>1, <2>2 DEF TypeOK, Takeover
<1>10. CASE CommitTakeover
  BY <1>10 DEF TypeOK, CommitTakeover
<1>11. CASE Finish \/ LinkConflict \/ UpdateMissing \/ RequestFails \/ Again \/ UNCHANGED vars
  BY <1>11 DEF TypeOK, Finish, LinkConflict, UpdateMissing, RequestFails, Again, RollBack, vars, job, Ended
<1> QED
  BY <1>1, <1>2, <1>3, <1>4, <1>5, <1>6, <1>7, <1>8, <1>9, <1>10, <1>11 DEF Next, Command, Link, Migrate

-----------------------------------------------------------------------------
(* What the two commits do to the gateway.                                 *)

LEMMA GatewayKept ==
  ASSUME UNCHANGED <<gateway, history>>
  PROVE  PartiallyMigrated' = PartiallyMigrated /\ \A base : Group(base)' = Group(base)
<1>1. PartiallyMigrated' = PartiallyMigrated
  BY DEF PartiallyMigrated
<1>2. \A a : BaseUsername(a)' = BaseUsername(a)
  BY DEF BaseUsername
<1>3. ASSUME NEW base PROVE Group(base)' = Group(base)
  BY <1>1, <1>2 DEF Group
<1> QED
  BY <1>1, <1>3

(* One of the group fewer, counted.                                        *)
LEMMA GroupShrinks ==
  ASSUME TypeOK, UNCHANGED history, NEW b \in PartiallyMigrated,
         PartiallyMigrated' = PartiallyMigrated \ {b}
  PROVE  /\ Cardinality(PartiallyMigrated') + 1 = Cardinality(PartiallyMigrated)
         /\ Cardinality(PartiallyMigrated') \in Nat
         /\ Group(BaseUsername(b))' = Group(BaseUsername(b)) \ {b}
         /\ Cardinality(Group(BaseUsername(b))') + 1 = Cardinality(Group(BaseUsername(b)))
         /\ \A base : base # BaseUsername(b) => Group(base)' = Group(base)
<1>1. \A a : BaseUsername(a)' = BaseUsername(a)
  BY DEF BaseUsername
<1>2. IsFiniteSet(PartiallyMigrated) /\ \A base : IsFiniteSet(Group(base))
  BY PartialFinite
<1>3. b \in Group(BaseUsername(b))
  BY DEF Group
<1>4. /\ Group(BaseUsername(b))' = Group(BaseUsername(b)) \ {b}
      /\ \A base : base # BaseUsername(b) => Group(base)' = Group(base)
  BY <1>1 DEF Group
<1> DEFINE P == PartiallyMigrated
           G == Group(BaseUsername(b))
<1>5. /\ Cardinality(P \ {b}) = Cardinality(P) - 1 /\ Cardinality(P) \in Nat
      /\ IsFiniteSet(P \ {b}) /\ Cardinality(P \ {b}) \in Nat
  BY <1>2, FS_RemoveElement, FS_CardinalityType
<1>6. Cardinality(G \ {b}) = Cardinality(G) - 1 /\ Cardinality(G) \in Nat
  BY <1>2, <1>3, FS_RemoveElement, FS_CardinalityType
<1> HIDE DEF P, G
<1>7. Cardinality(P \ {b}) + 1 = Cardinality(P) /\ Cardinality(G \ {b}) + 1 = Cardinality(G)
  BY <1>5, <1>6
<1> QED
  BY <1>4, <1>5, <1>7 DEF P, G

LEMMA CommitLinkEffect ==
  ASSUME MergeInv, CommitLink
  PROVE  /\ ToMerge \in PartiallyMigrated /\ ToMerge # main /\ ToMerge \in Accounts
         /\ BaseUsername(ToMerge) = BaseUsername(main)
         /\ main \in PartiallyMigrated /\ main \in Accounts
         /\ gateway'.users = gateway.users \ {ToMerge} /\ gateway'.taken = gateway.taken
         /\ gateway'.originals[main] = gateway.originals[main] \cup gateway.originals[ToMerge]
         /\ gateway'.originals[ToMerge] = {}
         /\ \A c \in Accounts \ {main, ToMerge} : gateway'.originals[c] = gateway.originals[c]
         /\ PartiallyMigrated' = PartiallyMigrated \ {ToMerge}
         /\ InGroup /\ others # <<>>
<1>1. InGroup /\ others # <<>> /\ gateway' = Relink(gateway, main, ToMerge)
  BY DEF MergeInv, CommitLink, TransactionSound, Linking, InGroup
<1>2. /\ ToMerge \in Accounts /\ ToMerge # main /\ ToMerge \in PartiallyMigrated
      /\ BaseUsername(ToMerge) = BaseUsername(main)
  BY <1>1, NextToMerge DEF MergeInv
<1>3. main \in PartiallyMigrated /\ main \in Accounts /\ gateway \in Databases
  BY <1>1 DEF MergeInv, TypeOK, GroupAtHand
<1>4. /\ gateway'.users = gateway.users \ {ToMerge} /\ gateway'.taken = gateway.taken \ {ToMerge}
      /\ gateway'.originals[main] = gateway.originals[main] \cup gateway.originals[ToMerge]
      /\ gateway'.originals[ToMerge] = {}
      /\ \A c \in Accounts \ {main, ToMerge} : gateway'.originals[c] = gateway.originals[c]
  BY <1>1, <1>2, <1>3, RelinkFields
<1>5. gateway'.taken = gateway.taken
  BY <1>2, <1>4 DEF PartiallyMigrated
<1>6. PartiallyMigrated' = PartiallyMigrated \ {ToMerge}
  BY <1>4, <1>5 DEF PartiallyMigrated
<1> QED
  BY <1>1, <1>2, <1>3, <1>4, <1>5, <1>6

LEMMA CommitTakeoverEffect ==
  ASSUME MergeInv, CommitTakeover
  PROVE  /\ main \in PartiallyMigrated /\ main \in Accounts
         /\ gateway'.users = gateway.users /\ gateway'.taken = gateway.taken \cup {main}
         /\ gateway'.originals = gateway.originals
         /\ PartiallyMigrated' = PartiallyMigrated \ {main}
         /\ Group(BaseUsername(main)) = {main}
<1>1. InGroup /\ others = <<>> /\ gateway' = [gateway EXCEPT !.taken = @ \cup {main}]
  BY DEF MergeInv, CommitTakeover, TransactionSound, InGroup, GroupAtHand
<1>2. main \in PartiallyMigrated /\ main \in Accounts /\ gateway \in Databases
  BY <1>1 DEF MergeInv, TypeOK, GroupAtHand
<1>3. /\ gateway'.users = gateway.users /\ gateway'.taken = gateway.taken \cup {main}
      /\ gateway'.originals = gateway.originals
  BY <1>1, <1>2, TakenFields
<1>4. PartiallyMigrated' = PartiallyMigrated \ {main}
  BY <1>3 DEF PartiallyMigrated
<1>5. Cardinality(Group(BaseUsername(main))) = 1
  BY <1>1 DEF MergeInv, GroupAtHand
<1>6. IsFiniteSet(Group(BaseUsername(main)))
  BY PartialFinite DEF MergeInv
<1>7. main \in Group(BaseUsername(main))
  BY <1>2 DEF Group
<1>8. \E x : Group(BaseUsername(main)) = {x}
  BY <1>5, <1>6, FS_Singleton
<1> QED
  BY <1>2, <1>3, <1>4, <1>7, <1>8

(* No other step changes the gateway.                                      *)
LEMMA OtherSteps == [Next]_vars => UNCHANGED gateway \/ CommitLink \/ CommitTakeover
BY DEF Next, Command, Link, Migrate, Start, UnknownService, MergeGroup, Finish, LinkAccount, LinkConflict,
       RollBack, RemoveMain, UpdateMerged, UpdateMissing, Takeover, UpdateMain,
       RequestFails, Again, vars

LEMMA DatabaseStep == MergeInv /\ [Next]_vars => DatabaseSound'
<1> SUFFICES ASSUME MergeInv, [Next]_vars PROVE DatabaseSound'
  OBVIOUS
<1>1. history' = history /\ \A a : BaseUsername(a)' = BaseUsername(a)
  BY HistoryKept
<1>2. DatabaseSound
  BY DEF MergeInv
<1>3. CASE UNCHANGED gateway
  BY <1>1, <1>2, <1>3 DEF DatabaseSound
<1>4. CASE CommitLink
  <2>1. ToMerge \notin gateway.taken /\ main \in gateway.users
    BY <1>4, CommitLinkEffect DEF PartiallyMigrated
  <2>2. /\ history'.early \subseteq gateway'.taken /\ gateway'.taken \subseteq gateway'.users
        /\ \A a \in Accounts \ gateway'.users : gateway'.originals[a] = {}
    BY <1>1, <1>2, <1>4, <2>1, CommitLinkEffect DEF DatabaseSound
  <2>3. \A a \in gateway'.taken \ history'.early : \A b \in gateway'.users \ history'.early :
          BaseUsername(a)' = BaseUsername(b)' => a = b
    BY <1>1, <1>2, <1>4, <2>1, CommitLinkEffect DEF DatabaseSound
  <2> QED
    BY <2>2, <2>3 DEF DatabaseSound
<1>5. CASE CommitTakeover
  <2>1. /\ main \in PartiallyMigrated /\ gateway'.users = gateway.users
        /\ gateway'.taken = gateway.taken \cup {main} /\ gateway'.originals = gateway.originals
        /\ Group(BaseUsername(main)) = {main}
    BY <1>5, CommitTakeoverEffect
  <2>2. main \in gateway.users /\ main \notin gateway.taken
    BY <2>1 DEF PartiallyMigrated
  <2>3. /\ history'.early \subseteq gateway'.taken /\ gateway'.taken \subseteq gateway'.users
        /\ \A a \in Accounts \ gateway'.users : gateway'.originals[a] = {}
    BY <1>1, <1>2, <2>1, <2>2 DEF DatabaseSound
  <2>4. ASSUME NEW b \in gateway.users \ history.early, BaseUsername(main) = BaseUsername(b)
        PROVE  main = b
    <3>1. CASE b \in gateway.taken
      BY <3>1, <2>2, <2>4, <1>2 DEF DatabaseSound
    <3>2. CASE b \notin gateway.taken
      <4>1. b \in Group(BaseUsername(main))
        BY <3>2, <2>4 DEF Group, PartiallyMigrated
      <4> QED
        BY <4>1, <2>1
    <3> QED
      BY <3>1, <3>2
  <2>5. \A a \in gateway'.taken \ history'.early : \A b \in gateway'.users \ history'.early :
          BaseUsername(a)' = BaseUsername(b)' => a = b
    BY <1>1, <1>2, <2>1, <2>4 DEF DatabaseSound
  <2> QED
    BY <2>3, <2>5 DEF DatabaseSound
<1> QED
  BY <1>3, <1>4, <1>5, OtherSteps

-----------------------------------------------------------------------------
(* The groups and the count.                                               *)

(* A step that leaves the gateway, the group and the count alone.          *)
LEMMA GroupKept ==
  ASSUME MergeInv, UNCHANGED <<gateway, history, todo, main, others, merged, mergedCount, total>>,
         InGroup' => InGroup, pc' = "groups" => pc = "groups",
         pc' = "takeover" => others = <<>>,
         pc' = "returned" => pc = "returned", pc' = "miscounted" => pc = "miscounted"
  PROVE  GroupAtHand' /\ Counted'
<1>1. PartiallyMigrated' = PartiallyMigrated /\ \A base : Group(base)' = Group(base)
  BY GatewayKept
<1>2. \A a : BaseUsername(a)' = BaseUsername(a)
  BY DEF BaseUsername
<1>3. BaseUsername(main)' = BaseUsername(main)
  BY DEF BaseUsername
<1>4. GroupAtHand /\ Counted
  BY DEF MergeInv
<1>5. GroupAtHand'
  <2>1. Group(BaseUsername(main))' = Group(BaseUsername(main))
    BY <1>1, <1>3 DEF Group
  <2> QED
    BY <1>1, <1>3, <1>4, <2>1 DEF GroupAtHand
<1>6. Counted'
  <2>1. {BaseUsername(a) : a \in PartiallyMigrated}' = {BaseUsername(a) : a \in PartiallyMigrated}
    BY <1>1, <1>2
  <2> QED
    BY <1>1, <1>3, <1>4, <2>1 DEF Counted
<1> QED
  BY <1>5, <1>6

LEMMA GroupStep == MergeInv /\ [Next]_vars => GroupAtHand' /\ Counted'
<1> SUFFICES ASSUME MergeInv, [Next]_vars PROVE GroupAtHand' /\ Counted'
  OBVIOUS
<1>1. history' = history /\ \A a : BaseUsername(a)' = BaseUsername(a)
  BY HistoryKept
<1>2. GroupAtHand /\ Counted /\ TypeOK
  BY DEF MergeInv
<1>3. CASE Start
  <2>1. /\ pc' = "groups" /\ merged' = 0 /\ total' = Cardinality(PartiallyMigrated)
        /\ todo' = {BaseUsername(a) : a \in PartiallyMigrated} /\ gateway' = gateway
    BY <1>3 DEF Start
  <2>2. PartiallyMigrated' = PartiallyMigrated
    BY <2>1, <1>1, GatewayKept
  <2>3. Cardinality(PartiallyMigrated) \in Nat
    BY <1>2, PartialFinite
  <2>4. {BaseUsername(a) : a \in PartiallyMigrated}' = {BaseUsername(a) : a \in PartiallyMigrated}
    BY <1>1, <2>2
  <2>5. GroupAtHand'
    BY <2>1 DEF GroupAtHand, InGroup
  <2>6. merged' + Cardinality(PartiallyMigrated') = total'
    BY <2>1, <2>2, <2>3
  <2>7. Counted'
    BY <2>1, <2>4, <2>6 DEF Counted, InGroup
  <2> QED
    BY <2>5, <2>7
<1>4. CASE MergeGroup
  <2>1. /\ pc = "groups" /\ gateway' = gateway /\ mergedCount' = 0
        /\ merged' = merged /\ total' = total
    BY <1>4 DEF MergeGroup
  <2>2. PICK base \in todo : /\ todo' = todo \ {base}
                             /\ \E order \in Arrangements(Group(base)) :
                                  /\ main' = order[1] /\ others' = Tail(order)
                                  /\ pc' \in {"link", "rejected"}
    BY <1>4 DEF MergeGroup
  <2>3. PICK order \in Arrangements(Group(base)) :
          main' = order[1] /\ others' = Tail(order) /\ pc' \in {"link", "rejected"}
    BY <2>2
  <2>4. /\ todo = {BaseUsername(a) : a \in PartiallyMigrated}
        /\ merged + Cardinality(PartiallyMigrated) = total
    BY <1>2, <2>1 DEF Counted
  <2>5. Group(base) # {} /\ IsFiniteSet(Group(base))
    BY <1>2, <2>2, <2>4, PartialFinite DEF Group
  <2>6. /\ main' \in Group(base)
        /\ Len(others') + 1 = Cardinality(Group(base))
        /\ \A i \in DOMAIN others' : others'[i] \in Group(base) \ {main'}
        /\ \A i, j \in DOMAIN others' : others'[i] = others'[j] => i = j
    BY <2>3, <2>5, ArrangementFields
  <2>7. PartiallyMigrated' = PartiallyMigrated /\ Group(base)' = Group(base)
    BY <1>1, <2>1, GatewayKept
  <2>8. main' \in PartiallyMigrated /\ BaseUsername(main)' = base
    <3>1. main' \in PartiallyMigrated /\ BaseUsername(main') = base
      BY <2>6 DEF Group
    <3> QED
      BY <3>1, <1>1 DEF BaseUsername
  <2>9. Group(BaseUsername(main))' = Group(base)
    BY <2>7, <2>8 DEF Group
  <2>10. GroupAtHand'
    <3>1. BaseUsername(main)' \notin todo'
      BY <2>2, <2>8
    <3>2. Cardinality(Group(BaseUsername(main)))' = Len(others)' + 1
      BY <2>6, <2>9
    <3>3. /\ \A i \in DOMAIN others' : others'[i] \in Group(BaseUsername(main))' \ {main'}
          /\ main' \in PartiallyMigrated' /\ pc' # "takeover"
      BY <2>3, <2>6, <2>7, <2>8, <2>9
    <3> QED
      BY <3>1, <3>2, <3>3, <2>6 DEF GroupAtHand
  <2>11. Counted'
    <3>1. {BaseUsername(a) : a \in PartiallyMigrated}' = todo
      BY <1>1, <2>4, <2>7
    <3>2. todo' \cup {BaseUsername(main)'} = todo
      BY <2>2, <2>8
    <3>3. merged' + mergedCount' + Cardinality(PartiallyMigrated)' = total'
      BY <1>2, <2>1, <2>4, <2>7, PartialFinite DEF TypeOK
    <3>4. pc' \notin {"groups", "returned", "miscounted"}
      BY <2>3
    <3> QED
      BY <3>1, <3>2, <3>3, <3>4 DEF Counted
  <2> QED
    BY <2>10, <2>11
<1>5. CASE Finish
  <2>1. /\ pc = "groups" /\ todo = {} /\ gateway' = gateway
        /\ pc' = IF merged = total THEN "returned" ELSE "miscounted"
    BY <1>5 DEF Finish
  <2>2. PartiallyMigrated = {} /\ merged + Cardinality(PartiallyMigrated) = total
    BY <1>2, <2>1 DEF Counted
  <2>4. pc' = "returned"
    <3>1. Cardinality(PartiallyMigrated) = 0
      BY <2>2, FS_EmptySet
    <3> QED
      BY <1>2, <2>1, <2>2, <3>1 DEF TypeOK
  <2>3. PartiallyMigrated' = {}
    BY <1>1, <2>1, <2>2, GatewayKept
  <2> QED
    BY <2>3, <2>4 DEF GroupAtHand, Counted, InGroup
<1>6. CASE CommitLink
  <2>1. /\ ToMerge \in PartiallyMigrated /\ ToMerge # main /\ main \in PartiallyMigrated
        /\ BaseUsername(ToMerge) = BaseUsername(main) /\ InGroup /\ others # <<>>
        /\ PartiallyMigrated' = PartiallyMigrated \ {ToMerge}
    BY <1>6, CommitLinkEffect
  <2>2. /\ pc' = "link" /\ others' = Tail(others) /\ mergedCount' = mergedCount + 1
        /\ UNCHANGED <<main, todo, merged, total>>
    BY <1>6 DEF CommitLink
  <2>3. /\ Cardinality(PartiallyMigrated') + 1 = Cardinality(PartiallyMigrated)
        /\ Cardinality(PartiallyMigrated') \in Nat
        /\ Group(BaseUsername(main))' = Group(BaseUsername(main)) \ {ToMerge}
        /\ Cardinality(Group(BaseUsername(main))') + 1 = Cardinality(Group(BaseUsername(main)))
    <3>1. Group(BaseUsername(main))' = {a \in PartiallyMigrated' : BaseUsername(a)' = BaseUsername(main)}
      BY <1>1, <2>2 DEF Group, BaseUsername
    <3>2. Group(BaseUsername(main))' = Group(BaseUsername(main)) \ {ToMerge}
      BY <3>1, <1>1, <2>1 DEF Group
    <3>3. Group(BaseUsername(ToMerge)) = Group(BaseUsername(main))
      BY <2>1
    <3>4. ToMerge \in Group(BaseUsername(main)) /\ IsFiniteSet(Group(BaseUsername(main)))
      BY <1>2, <2>1, PartialFinite DEF Group
    <3> DEFINE G == Group(BaseUsername(main))
               P == PartiallyMigrated
    <3>5. Cardinality(G \ {ToMerge}) = Cardinality(G) - 1 /\ Cardinality(G) \in Nat
      BY <3>4, FS_RemoveElement, FS_CardinalityType
    <3>6. /\ IsFiniteSet(P \ {ToMerge}) /\ Cardinality(P \ {ToMerge}) = Cardinality(P) - 1
          /\ Cardinality(P) \in Nat /\ Cardinality(P \ {ToMerge}) \in Nat
      BY <1>2, <2>1, PartialFinite, FS_RemoveElement, FS_CardinalityType
    <3> HIDE DEF G, P
    <3>7. Cardinality(G \ {ToMerge}) + 1 = Cardinality(G) /\ Cardinality(P \ {ToMerge}) + 1 = Cardinality(P)
      BY <3>5, <3>6
    <3> QED
      BY <3>2, <3>6, <3>7, <2>1 DEF G, P
  <2>4. /\ Len(Tail(others)) = Len(others) - 1 /\ Len(others) \in Nat
        /\ \A i \in DOMAIN Tail(others) :
             Tail(others)[i] \in Group(BaseUsername(main)) \ {main, ToMerge}
        /\ \A i, j \in DOMAIN Tail(others) : Tail(others)[i] = Tail(others)[j] => i = j
    BY <1>2, <2>1, NextToMerge
  <2>5. BaseUsername(main)' = BaseUsername(main)
    BY <1>1, <2>2 DEF BaseUsername
  <2>6. GroupAtHand'
    <3>1. Cardinality(Group(BaseUsername(main))) = Len(others) + 1 /\ BaseUsername(main) \notin todo
      BY <1>2, <2>1 DEF GroupAtHand
    <3>2. Len(Tail(others)) = Len(others) - 1 /\ Len(others) \in Nat
      BY <2>4
    <3>3. Cardinality(Group(BaseUsername(main))') = Len(others') + 1
      <4>1. Cardinality(Group(BaseUsername(main))') + 1 = Len(others) + 1
        BY <3>1, <2>3
      <4>2. Len(Tail(others)) + 1 = Len(others)
        BY <3>2
      <4>3. Cardinality(Group(BaseUsername(main))') \in Nat
        <5>1. Group(BaseUsername(main)) \ {ToMerge} \subseteq Group(BaseUsername(main))
          OBVIOUS
        <5>2. IsFiniteSet(Group(BaseUsername(main)))
          BY <1>2, PartialFinite
        <5>3. Cardinality(Group(BaseUsername(main)) \ {ToMerge}) \in Nat
          BY <5>1, <5>2, FS_Subset, FS_CardinalityType
        <5> QED
          BY <5>3, <2>3
      <4> QED
        BY <4>1, <4>2, <4>3, <3>2, <2>2
    <3>4. main' \in PartiallyMigrated'
      BY <2>1, <2>2
    <3>5. /\ \A i \in DOMAIN others' : others'[i] \in Group(BaseUsername(main))' \ {main'}
          /\ \A i, j \in DOMAIN others' : others'[i] = others'[j] => i = j
      BY <2>2, <2>3, <2>4
    <3>6. BaseUsername(main)' \notin todo' /\ pc' # "takeover"
      BY <3>1, <2>2, <2>5
    <3> QED
      BY <3>3, <3>4, <3>5, <3>6 DEF GroupAtHand
  <2>7. Counted'
    <3>1. todo \cup {BaseUsername(main)} = {BaseUsername(a) : a \in PartiallyMigrated}
      BY <1>2, <2>1 DEF Counted
    <3>2. {BaseUsername(a) : a \in PartiallyMigrated}' = {BaseUsername(a) : a \in PartiallyMigrated \ {ToMerge}}
      BY <1>1, <2>1
    <3>3. {BaseUsername(a) : a \in PartiallyMigrated \ {ToMerge}} = {BaseUsername(a) : a \in PartiallyMigrated}
      BY <2>1
    <3>4. merged + mergedCount + Cardinality(PartiallyMigrated) = total
      BY <1>2, <2>1 DEF Counted
    <3>5. merged' + mergedCount' + Cardinality(PartiallyMigrated') = total'
      <4>1. merged \in Nat /\ mergedCount \in Nat
        BY <1>2 DEF TypeOK
      <4> QED
        BY <4>1, <3>4, <2>2, <2>3
    <3> QED
      BY <3>1, <3>2, <3>3, <3>5, <2>2, <2>5 DEF Counted
  <2> QED
    BY <2>6, <2>7
<1>7. CASE CommitTakeover
  <2>1. /\ main \in PartiallyMigrated /\ PartiallyMigrated' = PartiallyMigrated \ {main}
        /\ Group(BaseUsername(main)) = {main}
    BY <1>7, CommitTakeoverEffect
  <2>2. /\ pc' = "groups" /\ merged' = merged + mergedCount + 1 /\ pc = "takeover"
        /\ UNCHANGED <<main, todo, total>>
    BY <1>7 DEF CommitTakeover
  <2>3. /\ Cardinality(PartiallyMigrated') + 1 = Cardinality(PartiallyMigrated)
        /\ Cardinality(PartiallyMigrated') \in Nat
    BY <1>1, <1>2, <2>1, GroupShrinks
  <2>4. /\ todo \cup {BaseUsername(main)} = {BaseUsername(a) : a \in PartiallyMigrated}
        /\ merged + mergedCount + Cardinality(PartiallyMigrated) = total
        /\ BaseUsername(main) \notin todo
    BY <1>2, <2>2 DEF Counted, GroupAtHand, InGroup
  <2>5. merged' + Cardinality(PartiallyMigrated') = total'
    <3>1. merged \in Nat /\ mergedCount \in Nat
      BY <1>2 DEF TypeOK
    <3> QED
      BY <3>1, <2>2, <2>3, <2>4
  <2>6. todo' = {BaseUsername(a) : a \in PartiallyMigrated}'
    <3>1. {BaseUsername(a) : a \in PartiallyMigrated}' = {BaseUsername(a) : a \in PartiallyMigrated \ {main}}
      BY <1>1, <2>1
    <3>2. \A a \in PartiallyMigrated \ {main} : BaseUsername(a) # BaseUsername(main)
      BY <2>1 DEF Group
    <3>3. {BaseUsername(a) : a \in PartiallyMigrated \ {main}} = todo
      BY <3>2, <2>1, <2>4
    <3> QED
      BY <3>1, <3>3, <2>2
  <2> QED
    BY <2>2, <2>5, <2>6 DEF GroupAtHand, Counted, InGroup
<1>8. CASE Takeover
  BY <1>8, <1>1, GroupKept DEF Takeover, InGroup
<1>9. CASE LinkAccount
  BY <1>9, <1>1, GroupKept DEF LinkAccount, InGroup
<1>10. CASE UpdateMain
  <2>1. /\ UNCHANGED <<gateway, todo, main, others, merged, mergedCount, total>>
        /\ pc = "takeover" /\ pc' \in {"takeover", "failed"}
    BY <1>10 DEF UpdateMain, RollBack, job
  <2>2. others = <<>>
    BY <2>1, <1>2 DEF GroupAtHand
  <2> QED
    BY <1>1, <2>1, <2>2, GroupKept DEF InGroup
<1>11. CASE RemoveMain \/ UpdateMerged
  <2>1. /\ UNCHANGED <<gateway, todo, main, others, merged, mergedCount, total>>
        /\ pc \in {"remove", "update"} /\ pc' \in {"remove", "update", "failed"}
    BY <1>11 DEF RemoveMain, UpdateMerged, RollBack, job
  <2> QED
    BY <1>1, <2>1, GroupKept DEF InGroup
<1>12. CASE UnknownService \/ LinkConflict \/ UpdateMissing \/ RequestFails \/ Again
  <2>1. /\ UNCHANGED <<gateway, todo, main, others, merged, mergedCount, total>>
        /\ pc' \in {"unregistered", "conflict", "failed", "idle"}
    BY <1>12 DEF UnknownService, LinkConflict, UpdateMissing, RequestFails, Again, RollBack, job
  <2> QED
    BY <1>1, <2>1, GroupKept DEF InGroup
<1>13. CASE UNCHANGED vars
  <2>1. UNCHANGED <<gateway, todo, main, others, merged, mergedCount, total, pc>>
    BY <1>13 DEF vars, job
  <2> QED
    BY <1>1, <1>2, <2>1, GroupKept DEF InGroup, GroupAtHand
<1> QED
  BY <1>3, <1>4, <1>5, <1>6, <1>7, <1>8, <1>9, <1>10, <1>11, <1>12, <1>13 DEF Next, Command, Link, Migrate

-----------------------------------------------------------------------------
(* The open transaction and the services.                                  *)

(* No step but these changes the services' rows.                           *)
LEMMA OtherRows == [Next]_vars => UNCHANGED rows \/ RemoveMain \/ UpdateMerged \/ UpdateMain
BY DEF Next, Command, Link, Migrate, Start, UnknownService, MergeGroup, Finish, LinkAccount, LinkConflict,
       RollBack, UpdateMissing, CommitLink, Takeover, CommitTakeover, RequestFails, Again, vars

(* What the update does to the rows of a service, as the others see it.    *)
LEMMA RepointedEffect ==
  ASSUME TypeOK, GroupAtHand, TransactionSound, pc = "update"
  PROVE  /\ \A r \in rows : \E q \in Repointed(target) :
              /\ q.service = r.service /\ q.of = r.of
              /\ r.aid # ToMerge => q = r
         /\ \A q \in Repointed(target) :
              \/ q \in rows /\ ~(q.service = target /\ q.aid = ToMerge)
              \/ q.service = target /\ q.aid = main
<1>1. main \in Accounts /\ \A r \in rows : r \in Rows
  BY DEF TypeOK
<1>2. ASSUME NEW r \in rows
      PROVE  /\ [r EXCEPT !.aid = main, !.ours = TRUE].service = r.service
             /\ [r EXCEPT !.aid = main, !.ours = TRUE].of = r.of
             /\ [r EXCEPT !.aid = main, !.ours = TRUE].aid = main
  <2>1. r \in Rows
    BY <1>1
  <2> QED
    BY <2>1, <1>1, RowFields
<1>3. ASSUME NEW r \in rows
      PROVE  \E q \in Repointed(target) :
               q.service = r.service /\ q.of = r.of /\ (r.aid # ToMerge => q = r)
  <2>1. CASE r.service = target /\ r.aid = ToMerge
    <3>1. [r EXCEPT !.aid = main, !.ours = TRUE] \in Repointed(target)
      BY <2>1 DEF Repointed, WithAid
    <3> QED
      BY <3>1, <2>1, <1>2
  <2>2. CASE ~(r.service = target /\ r.aid = ToMerge)
    BY <2>2 DEF Repointed, WithAid
  <2> QED
    BY <2>1, <2>2
<1>4. ASSUME NEW q \in Repointed(target)
      PROVE  \/ q \in rows /\ ~(q.service = target /\ q.aid = ToMerge)
             \/ q.service = target /\ q.aid = main
  <2>1. \/ q \in rows /\ ~(q.service = target /\ q.aid = ToMerge)
        \/ \E o \in rows : o.service = target /\ q = [o EXCEPT !.aid = main, !.ours = TRUE]
    BY DEF Repointed, WithAid
  <2> QED
    BY <2>1, <1>2
<1> QED
  BY <1>3, <1>4

LEMMA TransactionStep == MergeInv /\ [Next]_vars => TransactionSound'
<1> SUFFICES ASSUME MergeInv, [Next]_vars PROVE TransactionSound'
  OBVIOUS
<1>1. TypeOK /\ GroupAtHand /\ TransactionSound
  BY DEF MergeInv
<1>2. CASE LinkAccount
  <2>1. /\ pc' = "remove" /\ others' = others /\ others # <<>> /\ main' = main /\ gateway' = gateway
        /\ tx' = Relink(gateway, main, ToMerge) /\ pending' = gateway.originals[ToMerge]
        /\ gateway.originals[main] \cap gateway.originals[ToMerge] = {}
    BY <1>2 DEF LinkAccount
  <2>2. ToMerge' = ToMerge
    BY <2>1 DEF ToMerge
  <2>3. tx' = Relink(gateway, main, ToMerge)'
    BY <2>1, <2>2 DEF Relink
  <2>4. \A s \in gateway'.originals[ToMerge'] \ pending' : WithAid(s, ToMerge)' = {}
    BY <2>1, <2>2
  <2> QED
    BY <2>1, <2>2, <2>3, <2>4 DEF TransactionSound, Linking
<1>3. CASE RemoveMain
  <2>0. PICK s \in pending : rows' = Removed(s) /\ (RollBack \/ (target' = s /\ pc' = "update"))
    BY <1>3, Zenon DEF RemoveMain
  <2>1. s \in pending /\ rows' = Removed(s) /\ (pc' = "failed" \/ (target' = s /\ pc' = "update"))
    BY <2>0 DEF RollBack
  <2>2. CASE pc' = "failed"
    BY <2>2 DEF TransactionSound, Linking
  <2>3. CASE pc' = "update"
    <3>1. /\ pc = "remove" /\ UNCHANGED <<others, main, gateway, tx, pending>> /\ target' = s
      BY <1>3, <2>1, <2>3 DEF RemoveMain, RollBack
    <3>2. ToMerge' = ToMerge
      BY <3>1 DEF ToMerge
    <3>3. tx' = Relink(gateway, main, ToMerge)'
      BY <1>1, <3>1, <3>2 DEF TransactionSound, Linking, Relink
    <3>4. \A x, a : WithAid(x, a)' \subseteq WithAid(x, a)
      BY <2>1 DEF WithAid, Removed
    <3>5. WithAid(target, main)' = {}
      BY <2>1, <3>1 DEF WithAid, Removed
    <3>6. \A x \in gateway'.originals[ToMerge'] \ pending' : WithAid(x, ToMerge)' = {}
      <4>1. \A x : WithAid(x, ToMerge)' \subseteq WithAid(x, ToMerge)
        BY <2>1, <3>2 DEF WithAid, Removed
      <4> QED
        BY <1>1, <3>1, <3>2, <4>1 DEF TransactionSound, Linking
    <3> QED
      BY <1>1, <2>3, <3>1, <3>2, <3>3, <3>5, <3>6 DEF TransactionSound, Linking
  <2> QED
    BY <2>1, <2>2, <2>3
<1>4. CASE UpdateMerged
  <2>1. CASE pc' = "failed"
    BY <2>1 DEF TransactionSound, Linking
  <2>2. CASE pc' # "failed"
    <3>1. /\ pc = "update" /\ pc' = "remove" /\ UNCHANGED <<others, main, gateway, tx>>
          /\ pending' = pending \ {target} /\ rows' = Repointed(target)
      BY <1>4, <2>2 DEF UpdateMerged, RollBack
    <3>2. ToMerge' = ToMerge
      BY <3>1 DEF ToMerge
    <3>3. tx' = Relink(gateway, main, ToMerge)'
      BY <1>1, <3>1, <3>2 DEF TransactionSound, Linking, Relink
    <3>4. ToMerge # main
      BY <1>1, <3>1, NextToMerge DEF TransactionSound, Linking, InGroup
    <3>5. ASSUME NEW s \in gateway.originals[ToMerge] \ (pending \ {target})
          PROVE  WithAid(s, ToMerge)' = {}
      <4>1. ASSUME NEW q \in rows', q.service = s, q.aid = ToMerge PROVE FALSE
        <5>1. q \in rows /\ s # target
          BY <4>1, <1>1, <3>1, <3>4, RepointedEffect
        <5>2. WithAid(s, ToMerge) = {}
          BY <5>1, <1>1, <3>1, <3>5 DEF TransactionSound, Linking
        <5> QED
          BY <5>1, <5>2, <4>1 DEF WithAid
      <4> QED
        BY <4>1, <3>2 DEF WithAid
    <3> QED
      BY <1>1, <3>1, <3>2, <3>3, <3>5 DEF TransactionSound, Linking
  <2> QED
    BY <2>1, <2>2
<1>5. CASE Takeover
  BY <1>5 DEF Takeover, TransactionSound, Linking
<1>6. CASE UpdateMain
  <2>1. CASE pc' = "failed"
    BY <2>1 DEF TransactionSound, Linking
  <2>2. CASE pc' # "failed"
    <3>1. PICK s \in pending : rows' = TakenOver(s) /\ WithAid(s, main) # {} /\ pending' = pending \ {s}
      BY <1>6, <2>2 DEF UpdateMain, RollBack, TakenOver
    <3>2. pc = "takeover" /\ pc' = "takeover" /\ UNCHANGED <<gateway, tx, main>>
      BY <1>6, <2>2 DEF UpdateMain, RollBack
    <3>3. s \in Services
      BY <1>1 DEF TypeOK
    <3>4. ASSUME NEW x \in gateway.originals[main] \ pending'
          PROVE  \E r \in rows' : r.service = x /\ r.aid = main /\ r.ours
      <4>1. PICK r \in rows : r.service = x /\ r.aid = main /\ (r.ours \/ x = s)
        BY <1>1, <3>1, <3>2, <3>4 DEF TransactionSound, WithAid
      <4>2. \E q \in TakenOver(s) :
              /\ q.service = r.service /\ q.aid = r.aid /\ q.of = r.of
              /\ (r.ours \/ (r.service = s /\ r.aid = main)) => q.ours
        BY <1>1, <3>3, TakenOverRows
      <4> QED
        BY <3>1, <4>1, <4>2
    <3> QED
      BY <1>1, <3>2, <3>4 DEF TransactionSound, Linking
  <2> QED
    BY <2>1, <2>2
<1>7. CASE Start \/ UnknownService \/ MergeGroup \/ Finish \/ LinkConflict \/ UpdateMissing \/ CommitLink
           \/ CommitTakeover \/ RequestFails \/ Again
  <2>1. pc' \notin {"remove", "update", "takeover"}
    BY <1>7 DEF Start, UnknownService, MergeGroup, Finish, LinkConflict, UpdateMissing, CommitLink,
                CommitTakeover, RequestFails, Again, RollBack
  <2> QED
    BY <2>1 DEF TransactionSound, Linking
<1>8. CASE UNCHANGED vars
  BY <1>1, <1>8 DEF vars, job, TransactionSound, Linking, WithAid, ToMerge, Relink
<1> QED
  BY <1>2, <1>3, <1>4, <1>5, <1>6, <1>7, <1>8 DEF Next, Command, Link, Migrate

LEMMA StartedStep ==
  MergeInv /\ [Next]_vars => /\ Started'
                             /\ FirstAttempt' => FirstAttempt
                             /\ runs' <= 1 => runs <= 1
<1> SUFFICES ASSUME MergeInv, [Next]_vars
             PROVE  Started' /\ (FirstAttempt' => FirstAttempt) /\ (runs' <= 1 => runs <= 1)
  OBVIOUS
<1>1. runs \in Nat /\ Started
  BY AccountsAssumption DEF MergeInv, TypeOK
<1>2. CASE Start \/ UnknownService
  <2>1. pc = "idle" /\ runs' = runs + 1
    BY <1>2 DEF Start, UnknownService
  <2> QED
    BY <1>1, <2>1 DEF Started, FirstAttempt, Ended
<1>3. CASE Again
  <2>1. pc \in Ended /\ pc' = "idle" /\ runs' = runs
    BY <1>3 DEF Again
  <2>2. runs # 0
    BY <1>1, <2>1 DEF Started, Ended
  <2> QED
    BY <1>1, <2>1, <2>2 DEF Started, FirstAttempt
<1>4. CASE pc \notin Ended \cup {"idle"} /\ UNCHANGED runs
  BY <1>1, <1>4 DEF Started, FirstAttempt
<1>5. CASE UNCHANGED <<pc, runs>>
  BY <1>1, <1>5 DEF Started, FirstAttempt
<1>6. \/ Start \/ UnknownService \/ Again
      \/ pc \notin Ended \cup {"idle"} /\ UNCHANGED runs
      \/ UNCHANGED <<pc, runs>>
  BY DEF Next, Command, Link, Migrate, MergeGroup, Finish, LinkAccount, LinkConflict, RollBack, RemoveMain,
         UpdateMerged, UpdateMissing, CommitLink, Takeover, UpdateMain, CommitTakeover, RequestFails,
         vars, job, Ended
<1> QED
  BY <1>2, <1>3, <1>4, <1>5, <1>6

LEMMA PlacedStep == MergeInv /\ [Next]_vars => Placed'
<1> SUFFICES ASSUME MergeInv, [Next]_vars, FirstAttempt', NEW r \in rows', r.of # Copy
             PROVE  \/ r.service \in gateway'.originals[r.aid]
                    \/ /\ Linking' /\ r.aid = main'
                       /\ r.service \in gateway'.originals[ToMerge'] \ pending'
  BY DEF Placed
<1>1. TypeOK /\ GroupAtHand /\ TransactionSound
  BY DEF MergeInv
<1>2. \A q \in rows : q.of # Copy =>
        \/ q.service \in gateway.originals[q.aid]
        \/ Linking /\ q.aid = main /\ q.service \in gateway.originals[ToMerge] \ pending
  BY StartedStep DEF MergeInv, Placed
<1>3. pc' # "failed"
  BY DEF FirstAttempt, Ended
<1>4. CASE RemoveMain
  <2>1. /\ pc = "remove" /\ pc' = "update" /\ UNCHANGED <<others, main, gateway, pending>>
        /\ rows' \subseteq rows
    BY <1>3, <1>4 DEF RemoveMain, RollBack, Removed
  <2>2. ToMerge' = ToMerge
    BY <2>1 DEF ToMerge
  <2> QED
    BY <1>2, <2>1, <2>2 DEF Linking
<1>5. CASE UpdateMerged
  <2>1. /\ pc = "update" /\ pc' = "remove" /\ UNCHANGED <<others, main, gateway>>
        /\ pending' = pending \ {target} /\ rows' = Repointed(target)
    BY <1>3, <1>5 DEF UpdateMerged, RollBack
  <2>2. ToMerge' = ToMerge
    BY <2>1 DEF ToMerge
  <2>3. target \in gateway.originals[ToMerge]
    BY <1>1, <2>1 DEF TransactionSound, Linking
  <2>4. r \in rows \/ (r.service = target /\ r.aid = main)
    <3>1. r \in Repointed(target)
      BY <2>1
    <3>2. \A q \in Repointed(target) :
            \/ q \in rows /\ ~(q.service = target /\ q.aid = ToMerge)
            \/ q.service = target /\ q.aid = main
      BY <1>1, <2>1, RepointedEffect, Zenon
    <3> QED
      BY <3>1, <3>2
  <2>5. CASE r \in rows
    BY <1>2, <2>1, <2>2, <2>5 DEF Linking
  <2>6. CASE r.service = target /\ r.aid = main
    BY <2>1, <2>2, <2>3, <2>6 DEF Linking
  <2> QED
    BY <2>4, <2>5, <2>6
<1>6. CASE CommitLink
  <2>1. pc = "remove" /\ pending = {} /\ rows' = rows
    BY <1>6 DEF CommitLink
  <2>2. r \in Rows /\ r.aid \in Accounts
    BY <1>1, <2>1 DEF TypeOK, Rows
  <2>3. /\ gateway'.originals[main] = gateway.originals[main] \cup gateway.originals[ToMerge]
        /\ \A c \in Accounts \ {main, ToMerge} : gateway'.originals[c] = gateway.originals[c]
    BY <1>6, CommitLinkEffect
  <2>4. CASE r.aid = ToMerge /\ r.service \in gateway.originals[ToMerge]
    <3>1. WithAid(r.service, ToMerge) = {}
      BY <1>1, <2>1, <2>4 DEF TransactionSound, Linking
    <3> QED
      BY <3>1, <2>1, <2>4 DEF WithAid
  <2> QED
    BY <1>2, <2>1, <2>2, <2>3, <2>4
<1>7. CASE UpdateMain
  <2>1. /\ pc = "takeover" /\ gateway' = gateway
        /\ \E s \in pending : rows' = TakenOver(s)
    BY <1>7 DEF UpdateMain, RollBack, TakenOver
  <2>2. PICK s \in Services : rows' = TakenOver(s)
    BY <1>1, <2>1 DEF TypeOK
  <2>3. PICK q \in rows : r.service = q.service /\ r.aid = q.aid /\ r.of = q.of
    BY <1>1, <2>2, TakenOverRows
  <2> QED
    BY <1>2, <2>1, <2>3 DEF Linking
<1>8. CASE CommitTakeover
  <2>1. pc = "takeover" /\ rows' = rows
    BY <1>8 DEF CommitTakeover
  <2>2. gateway'.originals = gateway.originals
    BY <1>8, CommitTakeoverEffect
  <2> QED
    BY <1>2, <2>1, <2>2 DEF Linking
<1>9. CASE UNCHANGED vars
  BY <1>2, <1>9 DEF vars, job, Linking, ToMerge
<1>10. CASE pc \notin {"remove", "update"} /\ UNCHANGED <<gateway, rows>>
  BY <1>2, <1>10 DEF Linking
<1>11. \/ RemoveMain \/ UpdateMerged \/ CommitLink \/ UpdateMain \/ CommitTakeover \/ UNCHANGED vars
       \/ pc \notin {"remove", "update"} /\ UNCHANGED <<gateway, rows>>
  BY <1>3 DEF Next, Command, Link, Migrate, Start, UnknownService, MergeGroup, Finish, LinkAccount,
              LinkConflict, RollBack, UpdateMissing, Takeover, RequestFails, Again, Ended
<1> QED
  BY <1>4, <1>5, <1>6, <1>7, <1>8, <1>9, <1>10, <1>11

-----------------------------------------------------------------------------
(* The properties.                                                         *)

LEMMA TakenStep == MergeInv /\ [Next]_vars => TakenOverEverywhere'
<1> SUFFICES ASSUME MergeInv, [Next]_vars, NEW a \in gateway'.taken, NEW s \in gateway'.originals[a]
             PROVE  \E r \in rows' : r.service = s /\ r.aid = a /\ r.ours
  BY DEF TakenOverEverywhere
<1>1. TypeOK /\ GroupAtHand /\ TransactionSound /\ TakenOverEverywhere /\ DatabaseSound
  BY DEF MergeInv
<1>2. \A b \in gateway.taken : \A x \in gateway.originals[b] :
        \E r \in rows : r.service = x /\ r.aid = b /\ r.ours
  BY <1>1 DEF TakenOverEverywhere
<1>3. CASE CommitLink
  <2>1. /\ a \in gateway.taken /\ a \in Accounts /\ a # main /\ a # ToMerge
    BY <1>1, <1>3, CommitLinkEffect, DatabaseFields DEF PartiallyMigrated, TypeOK
  <2>2. s \in gateway.originals[a]
    BY <1>3, <2>1, CommitLinkEffect
  <2>3. rows' = rows
    BY <1>3 DEF CommitLink
  <2> QED
    BY <1>2, <2>1, <2>2, <2>3
<1>4. CASE CommitTakeover
  <2>1. a \in gateway.taken \cup {main} /\ s \in gateway.originals[a]
    BY <1>4, CommitTakeoverEffect
  <2>2. rows' = rows /\ pc = "takeover" /\ pending = {}
    BY <1>4 DEF CommitTakeover
  <2>3. CASE a = main
    BY <1>1, <2>1, <2>2, <2>3 DEF TransactionSound
  <2> QED
    BY <1>2, <2>1, <2>2, <2>3
<1>5. CASE UNCHANGED gateway
  <2>1. PICK r \in rows : r.service = s /\ r.aid = a /\ r.ours
    BY <1>2, <1>5
  <2>2. CASE UNCHANGED rows
    BY <2>1, <2>2
  <2>3. CASE RemoveMain
    <3>1. main \notin gateway.taken
      BY <1>1, <2>3 DEF RemoveMain, GroupAtHand, InGroup, PartiallyMigrated
    <3>2. PICK x \in pending : rows' = Removed(x)
      BY <2>3, Zenon DEF RemoveMain
    <3>3. r \in rows'
      BY <1>5, <2>1, <3>1, <3>2 DEF Removed, WithAid
    <3> QED
      BY <2>1, <3>3
  <2>4. CASE UpdateMerged
    <3>1. pc = "update" /\ rows' = Repointed(target)
      BY <2>4 DEF UpdateMerged
    <3>2. ToMerge \notin gateway.taken
      BY <1>1, <3>1, NextToMerge DEF TransactionSound, Linking, InGroup, PartiallyMigrated
    <3>3. r.aid # ToMerge
      BY <1>5, <2>1, <3>2
    <3>4. r \in rows'
      BY <1>1, <3>1, <3>3, RepointedEffect
    <3> QED
      BY <2>1, <3>4
  <2>5. CASE UpdateMain
    <3>1. PICK x \in pending : rows' = TakenOver(x)
      BY <2>5, Zenon DEF UpdateMain, TakenOver
    <3>2. x \in Services
      BY <1>1 DEF TypeOK
    <3>3. \E q \in TakenOver(x) :
            /\ q.service = r.service /\ q.aid = r.aid /\ q.of = r.of
            /\ (r.ours \/ (r.service = x /\ r.aid = main)) => q.ours
      BY <1>1, <3>2, TakenOverRows
    <3> QED
      <4>1. PICK q \in TakenOver(x) : /\ q.service = r.service /\ q.aid = r.aid
                                      /\ (r.ours \/ (r.service = x /\ r.aid = main)) => q.ours
        BY <3>3
      <4>2. q \in rows' /\ q.service = s /\ q.aid = a
        BY <2>1, <3>1, <4>1
      <4>3. q.ours
        BY <2>1, <4>1, Zenon
      <4> QED
        BY <4>2, <4>3, Zenon
  <2> QED
    BY <2>2, <2>3, <2>4, <2>5, OtherRows
<1> QED
  BY <1>3, <1>4, <1>5, OtherSteps

LEMMA OriginalsStep == MergeInv /\ [Next]_vars => OriginalsKept'
<1> SUFFICES ASSUME MergeInv, [Next]_vars, NEW a \in Accounts, NEW s \in Originals[a]
             PROVE  \E b \in gateway'.users : /\ BaseUsername(b)' = BaseUsername(a)'
                                              /\ s \in gateway'.originals[b]
  BY DEF OriginalsKept
<1>1. history' = history /\ \A c : BaseUsername(c)' = BaseUsername(c)
  BY HistoryKept
<1>2. PICK b \in gateway.users : BaseUsername(b) = BaseUsername(a) /\ s \in gateway.originals[b]
  BY DEF MergeInv, OriginalsKept
<1>3. b \in Accounts
  BY DatabaseFields DEF MergeInv, TypeOK
<1>4. CASE UNCHANGED gateway
  BY <1>1, <1>2, <1>4
<1>5. CASE CommitTakeover
  BY <1>1, <1>2, <1>5, CommitTakeoverEffect
<1>6. CASE CommitLink
  <2>1. main \in gateway'.users
    BY <1>6, CommitLinkEffect DEF PartiallyMigrated
  <2>2. CASE b = ToMerge
    <3>1. s \in gateway'.originals[main] /\ BaseUsername(main) = BaseUsername(a)
      BY <1>2, <1>6, <2>2, CommitLinkEffect
    <3> QED
      BY <1>1, <2>1, <3>1
  <2>3. CASE b # ToMerge
    <3>1. b \in gateway'.users /\ s \in gateway'.originals[b]
      BY <1>2, <1>3, <1>6, <2>3, CommitLinkEffect
    <3> QED
      BY <1>1, <1>2, <3>1
  <2> QED
    BY <2>2, <2>3
<1> QED
  BY <1>4, <1>5, <1>6, OtherSteps

LEMMA SparesStep == MergeInv /\ [Next]_vars => FirstAttemptSpares'
<1> SUFFICES ASSUME MergeInv, [Next]_vars, runs' <= 1, NEW a \in Accounts, NEW s \in Originals[a]
             PROVE  \E r \in rows' : r.service = s /\ r.of = a
  BY DEF FirstAttemptSpares
<1>1. TypeOK /\ GroupAtHand /\ TransactionSound /\ runs <= 1 /\ Started
  BY StartedStep DEF MergeInv
<1>2. PICK r \in rows : r.service = s /\ r.of = a
  BY <1>1 DEF MergeInv, FirstAttemptSpares
<1>3. CASE UNCHANGED rows
  BY <1>2, <1>3
<1>4. CASE RemoveMain
  <2>1. pc = "remove"
    BY <1>4 DEF RemoveMain
  <2>2. FirstAttempt
    BY <1>1, <2>1 DEF FirstAttempt, Ended
  <2>3. PICK x \in pending : rows' = Removed(x)
    BY <1>4, Zenon DEF RemoveMain
  <2>4. /\ gateway.originals[main] \cap gateway.originals[ToMerge] = {}
        /\ pending \subseteq gateway.originals[ToMerge]
    BY <1>1, <2>1 DEF TransactionSound, Linking
  <2>5. r.of # Copy
    BY <1>2, AccountsAssumption
  <2>6. \/ r.service \in gateway.originals[r.aid]
        \/ r.aid = main /\ r.service \in gateway.originals[ToMerge] \ pending
    BY <2>2, <2>5 DEF MergeInv, Placed
  <2>7. ~(r.service = x /\ r.aid = main)
    BY <2>3, <2>4, <2>6
  <2>8. r \in rows'
    BY <2>3, <2>7 DEF Removed, WithAid
  <2> QED
    BY <1>2, <2>8
<1>5. CASE UpdateMerged
  <2>1. pc = "update" /\ rows' = Repointed(target)
    BY <1>5 DEF UpdateMerged
  <2> QED
    BY <1>1, <1>2, <2>1, RepointedEffect
<1>6. CASE UpdateMain
  <2>1. PICK x \in pending : rows' = TakenOver(x)
    BY <1>6, Zenon DEF UpdateMain, TakenOver
  <2>2. x \in Services
    BY <1>1 DEF TypeOK
  <2>3. \E q \in TakenOver(x) : q.service = r.service /\ q.of = r.of
    BY <1>1, <2>2, TakenOverRows
  <2> QED
    BY <1>2, <2>1, <2>3
<1> QED
  BY <1>3, <1>4, <1>5, <1>6, OtherRows

LEMMA MergeInvariant == Spec => []MergeInv
<1>1. MergeInv /\ [Next]_vars => MergeInv'
  BY MergeTypeStep, DatabaseStep, GroupStep, TransactionStep, StartedStep, PlacedStep, TakenStep,
     OriginalsStep, SparesStep DEF MergeInv
<1> QED
  BY <1>1, MergeInvInit, PTL DEF Spec

(***************************************************************************)
(* The accounts and the rows of the services keep their types, and no two  *)
(* rows of a service have the same ansible_id: link_account deletes the    *)
(* main account's copy before it gives its ansible_id to another row.      *)
(***************************************************************************)
THEOREM MergeTypeCorrect == Spec => []TypeOK
<1>1. MergeInv => TypeOK
  BY DEF MergeInv
<1> QED
  BY <1>1, MergeInvariant, PTL

(***************************************************************************)
(* Whatever _merge_partially_migrated_users and migrate_account count as   *)
(* merged is merged: an account taken over is the gateway's in every       *)
(* service it came from, and the count at the end never raises, because    *)
(* every account is counted once.                                          *)
(***************************************************************************)
THEOREM WhatIsMergedIsComplete == Spec => []MergeIsComplete
<1>1. MergeInv => MergeIsComplete
  <2> SUFFICES ASSUME MergeInv PROVE MergeIsComplete
    OBVIOUS
  <2>1. CASE pc = "returned"
    <3>1. PartiallyMigrated = {} /\ gateway.taken \subseteq gateway.users
      BY <2>1 DEF MergeInv, Counted, DatabaseSound
    <3>2. gateway.taken = gateway.users
      BY <3>1 DEF PartiallyMigrated
    <3>3. \A a, b \in gateway.users \ history.early : BaseUsername(a) = BaseUsername(b) => a = b
      BY <3>2 DEF MergeInv, DatabaseSound
    <3> QED
      BY <2>1, <3>2, <3>3 DEF MergeInv, MergeIsComplete, ReturnMeansMerged
  <2>2. pc # "miscounted"
    BY DEF MergeInv, Counted
  <2> QED
    BY <2>1, <2>2 DEF MergeInv, MergeIsComplete, ReturnMeansMerged
<1> QED
  BY <1>1, MergeInvariant, PTL

(***************************************************************************)
(* link_account drops nobody: the gateway keeps every original account     *)
(* with its group through all attempts, and a first attempt removes no     *)
(* account from the service that had it, wherever it breaks off.           *)
(***************************************************************************)
THEOREM NobodyIsDropped == Spec => []NoAccountDropped
<1>1. MergeInv => NoAccountDropped
  BY DEF MergeInv, NoAccountDropped
<1> QED
  BY <1>1, MergeInvariant, PTL
=============================================================================
