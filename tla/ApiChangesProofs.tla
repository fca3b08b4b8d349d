-------------------------- MODULE ApiChangesProofs --------------------------
(***************************************************************************)
(* What a change made through the API comes to.  First the user accounts   *)
(* (UserAccounts), for any users, names and requests under way at once:    *)
(* the constraints of the database, what is stored for what was asked, and *)
(* that a valid request is carried out.  Then the copies that the resource *)
(* client keeps elsewhere (ResourceClient), for any number of processes,   *)
(* services, items and changes: why they differ, and that its steps are    *)
(* steps of SharedRegistry.                                                *)
(***************************************************************************)
EXTENDS UserAccounts, ResourceClient, FiniteSetTheorems, TLAPS

-----------------------------------------------------------------------------
(* The user accounts: the transaction of a request.                        *)

(* Links within a transaction; one without a uid makes it fail.            *)
Drafts == [id : Nat, user : Users, provider : Providers, uid : Uids \cup {None}]
Works == [rows : SUBSET Drafts, loaded : SUBSET Drafts, prefetched : BOOLEAN, ok : BOOLEAN]

SameLink(l, m) == l.id = m.id /\ l.user = m.user /\ l.provider = m.provider
IdsDiffer(rs) == \A l, m \in rs : l.id = m.id => l = m

(* What every step of the transaction keeps, for the user u of the request.*)
Sane(w, u) ==
  /\ w \in Works /\ IsFiniteSet(w.rows) /\ IsFiniteSet(w.loaded)
  /\ IdsDiffer(w.rows) /\ IdsDiffer(w.loaded)
  /\ \A l \in w.loaded : l.user = u
  /\ \A l \in w.rows : l.user = u \/ username[l.user] # None
  /\ w.ok => Unique(w.rows) /\ \A l \in w.rows : l.uid # None

(* What was loaded are links of the table, or such that have gone.         *)
Agree(w) == \A l \in w.loaded, m \in w.rows : l.id = m.id => SameLink(l, m)

LEMMA ImageFinite ==
  ASSUME NEW S, IsFiniteSet(S), NEW T, NEW f \in [S -> T], \A t \in T : \E s \in S : f[s] = t
  PROVE  IsFiniteSet(T)
<1>1. f \in Surjection(S, T)
  BY DEF Surjection
<1> QED
  BY <1>1, FS_Surjection

-----------------------------------------------------------------------------
(* The operations on the table.                                            *)

LEMMA UidSet ==
  ASSUME NEW l \in Drafts, NEW uid \in Uids \cup {None}
  PROVE  SetUid(l, uid) \in Drafts /\ SameLink(SetUid(l, uid), l) /\ SetUid(l, uid).uid = uid
         /\ SetUid(l, uid).user = l.user /\ SetUid(l, uid).id = l.id /\ SetUid(l, uid).provider = l.provider
BY DEF SetUid, Drafts, SameLink

LEMMA ChangedFields ==
  ASSUME NEW w \in Works, NEW rs, NEW ls, NEW fine \in BOOLEAN
  PROVE  LET v == Changed(w, rs, ls, fine) IN
         /\ v.rows = rs /\ v.loaded = ls /\ v.prefetched = w.prefetched
         /\ v.ok \in BOOLEAN /\ (v.ok <=> w.ok /\ fine /\ Unique(rs))
         /\ rs \in SUBSET Drafts /\ ls \in SUBSET Drafts => v \in Works
<1> DEFINE c == w.ok /\ fine /\ Unique(rs)
           v == Changed(w, rs, ls, fine)
<1>1. c \in BOOLEAN /\ w.prefetched \in BOOLEAN
  BY DEF Works
<1>2. v = [rows |-> rs, loaded |-> ls, prefetched |-> w.prefetched, ok |-> c]
  BY DEF Changed
<1> HIDE DEF c, v
<1>3. v.rows = rs /\ v.loaded = ls /\ v.prefetched = w.prefetched /\ v.ok = c
  BY <1>2
<1>4. rs \in SUBSET Drafts /\ ls \in SUBSET Drafts => v \in Works
  BY <1>1, <1>2 DEF Works
<1> QED
  BY <1>1, <1>3, <1>4 DEF c, v

LEMMA SaveFacts ==
  ASSUME NEW u, NEW w, Sane(w, u),
         NEW new \in SUBSET Drafts, IsFiniteSet(new), IdsDiffer(new), \A n \in new : n.user = u /\ n.uid # None
  PROVE  LET v == SaveUids(w, new) IN
         /\ Sane(v, u) /\ v.prefetched = w.prefetched
         /\ v.loaded = {l \in w.loaded : \A n \in new : n.id # l.id} \cup new
         /\ v.ok <=> w.ok /\ (\A n \in new : \E l \in w.rows : l.id = n.id) /\ Unique(v.rows)
         /\ \A k \in v.rows : \E l \in w.rows :
              SameLink(k, l) /\ (k = l \/ \E n \in new : n.id = l.id /\ k.uid = n.uid)
         /\ \A l \in w.rows : \E k \in v.rows : SameLink(k, l)
         /\ \A k \in v.rows : \A n \in new : n.id = k.id => k.uid = n.uid
<1> DEFINE ids == {l.id : l \in new}
           up(l) == IF l.id \in ids THEN SetUid(l, (CHOOSE n \in new : n.id = l.id).uid) ELSE l
           v == SaveUids(w, new)
           left == {l \in w.loaded : l.id \notin ids} \cup new
<1>1. /\ w.rows \in SUBSET Drafts /\ w.loaded \in SUBSET Drafts /\ w.ok \in BOOLEAN /\ w.prefetched \in BOOLEAN
      /\ w \in Works
  BY DEF Sane, Works
<1>2. /\ v.rows = {up(l) : l \in w.rows} /\ v.loaded = left /\ v.prefetched = w.prefetched
      /\ v.ok <=> w.ok /\ ids \subseteq {l.id : l \in w.rows} /\ Unique(v.rows)
      /\ v.rows \in SUBSET Drafts /\ v.loaded \in SUBSET Drafts => v \in Works
  <2> DEFINE rs == {up(l) : l \in w.rows}
             fine == ids \subseteq {l.id : l \in w.rows}
  <2>1. v = Changed(w, rs, left, fine) /\ fine \in BOOLEAN
    BY DEF SaveUids
  <2> HIDE DEF up, ids, left, v, rs, fine
  <2>2. /\ v.rows = rs /\ v.loaded = left /\ v.prefetched = w.prefetched
        /\ v.ok <=> w.ok /\ fine /\ Unique(rs)
        /\ rs \in SUBSET Drafts /\ left \in SUBSET Drafts => v \in Works
    BY <1>1, <2>1, ChangedFields
  <2> QED
    BY <2>2 DEF rs, fine
<1>3. ASSUME NEW l \in w.rows
      PROVE  /\ up(l) \in Drafts /\ SameLink(up(l), l)
             /\ up(l) = l \/ (up(l).uid # None /\ \E n \in new : n.id = l.id /\ up(l).uid = n.uid)
             /\ \A n \in new : n.id = l.id => up(l).uid = n.uid
  <2>1. CASE l.id \notin ids
    BY <1>1, <2>1 DEF SameLink
  <2>2. CASE l.id \in ids
    <3>1. PICK n \in new : n.id = l.id
      BY <2>2
    <3>2. (CHOOSE m \in new : m.id = l.id) = n
      BY <3>1 DEF IdsDiffer
    <3>3. n.uid \in Uids \cup {None} /\ n.uid # None
      BY DEF Drafts
    <3>4. up(l) = SetUid(l, n.uid)
      BY <2>2, <3>2
    <3>5. up(l) \in Drafts /\ SameLink(up(l), l) /\ up(l).uid = n.uid
      BY <1>1, <3>3, <3>4, UidSet
    <3> QED
      BY <3>1, <3>3, <3>5 DEF IdsDiffer
  <2> QED
    BY <2>1, <2>2
<1> HIDE DEF up, v
<1>4. /\ \A k \in v.rows : \E l \in w.rows :
           SameLink(k, l) /\ (k = l \/ \E n \in new : n.id = l.id /\ k.uid = n.uid)
      /\ \A l \in w.rows : \E k \in v.rows : SameLink(k, l)
      /\ \A k \in v.rows : \A n \in new : n.id = k.id => k.uid = n.uid
  BY <1>2, <1>3 DEF SameLink
<1>5. v.ok <=> w.ok /\ (\A n \in new : \E l \in w.rows : l.id = n.id) /\ Unique(v.rows)
  BY <1>2
<1>6. v.loaded = {l \in w.loaded : \A n \in new : n.id # l.id} \cup new
  BY <1>2
<1>7. Sane(v, u)
  <2>1. v.rows \in SUBSET Drafts /\ v.loaded \in SUBSET Drafts
    BY <1>1, <1>2, <1>3
  <2>2. v \in Works
    BY <1>2, <2>1
  <2>3. IsFiniteSet(v.rows)
    <3> DEFINE f == [l \in w.rows |-> up(l)]
    <3>1. f \in [w.rows -> v.rows] /\ \A t \in v.rows : \E s \in w.rows : f[s] = t
      BY <1>2
    <3> HIDE DEF f
    <3> QED
      BY <3>1, ImageFinite DEF Sane
  <2>4. IsFiniteSet(v.loaded)
    <3>1. {l \in w.loaded : l.id \notin ids} \in SUBSET w.loaded
      OBVIOUS
    <3>2. IsFiniteSet({l \in w.loaded : l.id \notin ids})
      BY <3>1, FS_Subset DEF Sane
    <3>3. IsFiniteSet(left)
      BY <3>2, FS_Union
    <3> QED
      BY <1>2, <3>3
  <2>5. IdsDiffer(v.rows)
    BY <1>2, <1>3 DEF Sane, IdsDiffer, SameLink
  <2>6. IdsDiffer(v.loaded)
    BY <1>6 DEF Sane, IdsDiffer
  <2>7. \A l \in v.loaded : l.user = u
    BY <1>6 DEF Sane
  <2>8. \A l \in v.rows : l.user = u \/ username[l.user] # None
    BY <1>4 DEF Sane, SameLink
  <2>9. v.ok => Unique(v.rows) /\ \A l \in v.rows : l.uid # None
    BY <1>4, <1>5 DEF Sane
  <2> QED
    BY <2>2, <2>3, <2>4, <2>5, <2>6, <2>7, <2>8, <2>9 DEF Sane
<1> QED
  BY <1>2, <1>4, <1>5, <1>6, <1>7 DEF v

LEMMA RemovedFacts ==
  ASSUME NEW u, NEW w, Sane(w, u), NEW ps
  PROVE  LET v == Removed(w, u, ps) IN
         /\ Sane(v, u) /\ v.prefetched = w.prefetched /\ v.loaded = w.loaded
         /\ v.rows = {l \in w.rows : ~(l.user = u /\ l.provider \in ps)}
         /\ v.ok <=> w.ok
         /\ ProvidersOf(u, v.rows) = ProvidersOf(u, w.rows) \ ps
<1> DEFINE rs == {l \in w.rows : ~(l.user = u /\ l.provider \in ps)}
           v == Removed(w, u, ps)
           yes == TRUE
<1>1. /\ w \in Works /\ w.rows \in SUBSET Drafts /\ w.loaded \in SUBSET Drafts
  BY DEF Sane, Works
<1>2. rs \in SUBSET w.rows /\ rs \in SUBSET Drafts
  BY <1>1
<1>3. v = Changed(w, rs, w.loaded, yes) /\ yes \in BOOLEAN /\ yes = TRUE
  BY DEF Removed
<1> HIDE DEF v, yes
<1>4. /\ v.rows = rs /\ v.loaded = w.loaded /\ v.prefetched = w.prefetched /\ v \in Works
      /\ v.ok <=> w.ok /\ Unique(rs)
  <2> DEFINE ls == w.loaded
  <2>1. v = Changed(w, rs, ls, yes) /\ yes \in BOOLEAN
    BY <1>3
  <2> HIDE DEF rs, ls
  <2>2. /\ v.rows = rs /\ v.loaded = ls /\ v.prefetched = w.prefetched
        /\ v.ok <=> w.ok /\ yes /\ Unique(rs)
        /\ rs \in SUBSET Drafts /\ ls \in SUBSET Drafts => v \in Works
    BY <1>1, <2>1, ChangedFields
  <2> QED
    BY <1>1, <1>2, <1>3, <2>2 DEF ls
<1>5. w.ok => Unique(rs)
  BY DEF Sane, Unique
<1>6. IsFiniteSet(rs)
  BY <1>2, FS_Subset DEF Sane
<1>7. Sane(v, u)
  BY <1>2, <1>4, <1>5, <1>6 DEF Sane, IdsDiffer
<1>8. ProvidersOf(u, rs) = ProvidersOf(u, w.rows) \ ps
  BY DEF ProvidersOf, Of
<1> QED
  BY <1>4, <1>5, <1>7, <1>8 DEF v

(* What the requests have loaded is finite, so there is always a new id.   *)
PendingFinite == IsFiniteSet(pending) /\ \A q \in pending : IsFiniteSet(q.rows) /\ \A l \in q.rows : l.id \in Nat

LEMMA FreshFacts ==
  ASSUME NEW u, NEW w, Sane(w, u), PendingFinite
  PROVE  Fresh(w) \in Nat /\ \A l \in w.rows \cup w.loaded : l.id # Fresh(w)
<1> DEFINE known == UNION {q.rows : q \in pending}
           all == w.rows \cup w.loaded \cup known
           used == {l.id : l \in all}
<1>1. IsFiniteSet(known)
  <2> DEFINE S == {q.rows : q \in pending}
             f == [q \in pending |-> q.rows]
  <2>1. f \in [pending -> S] /\ \A t \in S : \E s \in pending : f[s] = t
    OBVIOUS
  <2>2. \A T \in S : IsFiniteSet(T)
    BY DEF PendingFinite
  <2> HIDE DEF f, S
  <2>3. IsFiniteSet(S)
    BY <2>1, ImageFinite DEF PendingFinite
  <2>4. IsFiniteSet(UNION S)
    BY <2>2, <2>3, FS_UNION, Zenon
  <2> QED
    BY <2>4 DEF S
<1>2. IsFiniteSet(w.rows \cup w.loaded)
  BY FS_Union DEF Sane
<1>3. IsFiniteSet(all)
  BY <1>1, <1>2, FS_Union
<1>4. \A l \in all : l.id \in Nat
  BY DEF Sane, Works, Drafts, PendingFinite
<1> HIDE DEF all
<1>5. IsFiniteSet(used)
  <2> DEFINE f == [l \in all |-> l.id]
  <2>1. f \in [all -> used] /\ \A t \in used : \E s \in all : f[s] = t
    OBVIOUS
  <2> HIDE DEF f, used
  <2> QED
    BY <1>3, <2>1, ImageFinite
<1>6. used \subseteq Nat
  BY <1>4
<1>7. \A l \in all : l.id \in used
  OBVIOUS
<1> HIDE DEF used
<1>8. Cardinality(used) \in Nat
  BY <1>5, FS_CardinalityType
<1> DEFINE n == Cardinality(used) + 1
<1>9. n \in Nat /\ 1 \in Int /\ n \in Int /\ n >= 1 /\ Cardinality(used) < n
  BY <1>8
<1>10. Cardinality(1..n) = n /\ IsFiniteSet(1..n)
  <2> HIDE DEF n
  <2>1. Cardinality(1..n) = IF 1 > n THEN 0 ELSE n - 1 + 1
    BY <1>9, FS_Interval
  <2>2. IsFiniteSet(1..n)
    BY <1>9, FS_Interval
  <2> QED
    BY <1>9, <2>1, <2>2
<1>11. \E i \in 1..n : i \notin used
  <2> SUFFICES ASSUME 1..n \in SUBSET used PROVE FALSE
    OBVIOUS
  <2>1. Cardinality(1..n) <= Cardinality(used)
    BY <1>5, FS_Subset
  <2> QED
    BY <1>8, <1>9, <1>10, <2>1
<1>12. Fresh(w) = CHOOSE i \in 1..n : i \notin used
  BY DEF Fresh, used, all
<1>13. Fresh(w) \in 1..n /\ Fresh(w) \notin used
  BY <1>11, <1>12
<1>14. \A l \in w.rows \cup w.loaded : l.id \in used
  BY <1>7 DEF all
<1> QED
  BY <1>9, <1>13, <1>14

Own(p, uid, name) == IF p = Local THEN name ELSE uid

(* v has, beside the rows of w, one for the authenticator p.               *)
CreatedAs(v, w, u, p, uid, name) ==
  /\ Sane(v, u) /\ v.prefetched = w.prefetched /\ v.loaded = w.loaded
  /\ v.ok <=> w.ok /\ ~Conflict(u, p, uid, w.rows) /\ Own(p, uid, name) # None /\ Unique(v.rows)
  /\ \E k \in Drafts :
       /\ v.rows = w.rows \cup {k} /\ k.user = u /\ k.provider = p /\ k.uid = Own(p, uid, name)
       /\ \A l \in w.rows \cup w.loaded : l.id # k.id
  /\ ProvidersOf(u, v.rows) = ProvidersOf(u, w.rows) \cup {p}

LEMMA CreatedFacts ==
  ASSUME NEW u \in Users, NEW w, Sane(w, u), PendingFinite,
         NEW p \in Providers, NEW uid \in Uids \cup {None}, NEW name \in Names \cup {None}
  PROVE  CreatedAs(Created(w, u, p, uid, name), w, u, p, uid, name)
<1> DEFINE own == Own(p, uid, name)
           k == [id |-> Fresh(w), user |-> u, provider |-> p, uid |-> own]
           rs == w.rows \cup {k}
           fine == ~Conflict(u, p, uid, w.rows) /\ own # None
           v == Created(w, u, p, uid, name)
           ls == w.loaded
<1>1. w \in Works /\ w.rows \in SUBSET Drafts /\ ls \in SUBSET Drafts
  BY DEF Sane, Works
<1>2. Fresh(w) \in Nat /\ \A l \in w.rows \cup w.loaded : l.id # Fresh(w)
  BY FreshFacts
<1>3. own \in Uids \cup {None}
  BY DEF Own, Uids
<1>4. k \in Drafts /\ k.id = Fresh(w) /\ k.user = u /\ k.provider = p /\ k.uid = own
  BY <1>2, <1>3 DEF Drafts
<1>5. v = Changed(w, rs, ls, fine) /\ fine \in BOOLEAN
  BY DEF Created, Own
<1> HIDE DEF k, own, v, fine
<1>6. rs \in SUBSET Drafts
  BY <1>1, <1>4
<1>7. /\ v.rows = rs /\ v.loaded = ls /\ v.prefetched = w.prefetched
      /\ v.ok <=> w.ok /\ fine /\ Unique(rs)
      /\ rs \in SUBSET Drafts /\ ls \in SUBSET Drafts => v \in Works
  <2> HIDE DEF rs, ls
  <2> QED
    BY <1>1, <1>5, ChangedFields
<1>8. v.ok <=> w.ok /\ ~Conflict(u, p, uid, w.rows) /\ own # None /\ Unique(v.rows)
  BY <1>7 DEF fine
<1>9. Sane(v, u)
  <2>1. IsFiniteSet(rs)
    BY FS_AddElement DEF Sane
  <2>2. IdsDiffer(rs)
    BY <1>2, <1>4 DEF Sane, IdsDiffer
  <2>3. \A l \in rs : l.user = u \/ username[l.user] # None
    BY <1>4 DEF Sane
  <2>4. v.ok => Unique(rs) /\ \A l \in rs : l.uid # None
    BY <1>4, <1>7, <1>8 DEF Sane
  <2> QED
    BY <1>1, <1>6, <1>7, <2>1, <2>2, <2>3, <2>4 DEF Sane
<1>10. ProvidersOf(u, rs) = ProvidersOf(u, w.rows) \cup {p}
  BY <1>4 DEF ProvidersOf, Of
<1>11. \A l \in w.rows \cup w.loaded : l.id # k.id
  BY <1>2, <1>4
<1> QED
  BY <1>4, <1>7, <1>8, <1>9, <1>10, <1>11 DEF v, own, CreatedAs

(* Rows are saved, and inserted if they have gone: v is the outcome.       *)
InsertedAs(v, w, u, new) ==
  /\ Sane(v, u) /\ v.prefetched = w.prefetched
  /\ v.rows = {l \in w.rows : \A n \in new : n.id # l.id} \cup new
  /\ v.loaded = {l \in w.loaded : \A n \in new : n.id # l.id} \cup new
  /\ v.ok <=> w.ok /\ (\A n \in new : n.uid # None) /\ Unique(v.rows)

LEMMA SavedFacts ==
  ASSUME NEW u, NEW w, Sane(w, u),
         NEW new \in SUBSET Drafts, IsFiniteSet(new), IdsDiffer(new), \A n \in new : n.user = u
  PROVE  InsertedAs(Saved(w, new), w, u, new)
<1> DEFINE v == Saved(w, new)
           ids == {l.id : l \in new}
           r1 == {l \in w.rows : l.id \notin ids}
           l1 == {l \in w.loaded : l.id \notin ids}
           rs == r1 \cup new
           ls == l1 \cup new
           fine == \A n \in new : n.uid # None
<1>1. w \in Works /\ w.rows \in SUBSET Drafts /\ w.loaded \in SUBSET Drafts
  BY DEF Sane, Works
<1>2. v = Changed(w, rs, ls, fine) /\ fine \in BOOLEAN
  BY DEF Saved
<1>3. /\ r1 = {l \in w.rows : \A n \in new : n.id # l.id}
      /\ l1 = {l \in w.loaded : \A n \in new : n.id # l.id}
  OBVIOUS
<1>4. rs \in SUBSET Drafts /\ ls \in SUBSET Drafts /\ r1 \in SUBSET w.rows /\ l1 \in SUBSET w.loaded
  BY <1>1
<1> HIDE DEF v, fine
<1>5. IdsDiffer(rs) /\ IdsDiffer(ls)
  BY DEF Sane, IdsDiffer
<1>6. /\ \A l \in ls : l.user = u
      /\ \A l \in rs : l.user = u \/ username[l.user] # None
  BY DEF Sane
<1> HIDE DEF r1, l1
<1>7. IsFiniteSet(r1) /\ IsFiniteSet(l1)
  BY <1>4, FS_Subset DEF Sane
<1>8. IsFiniteSet(rs) /\ IsFiniteSet(ls)
  BY <1>7, FS_Union
<1>9. w.ok /\ fine => \A l \in rs : l.uid # None
  BY <1>4 DEF Sane, fine
<1> HIDE DEF rs, ls
<1>10. /\ v.rows = rs /\ v.loaded = ls /\ v.prefetched = w.prefetched
       /\ v.ok <=> w.ok /\ fine /\ Unique(rs)
       /\ v \in Works
  BY <1>1, <1>2, <1>4, ChangedFields
<1>11. Sane(v, u)
  BY <1>5, <1>6, <1>8, <1>9, <1>10 DEF Sane
<1> QED
  BY <1>3, <1>10, <1>11 DEF InsertedAs, rs, ls, fine, v

(* Links of the user that are given the uid d.                             *)
GivenUid(new, S, u, d) ==
  /\ new \in SUBSET Drafts /\ IsFiniteSet(new) /\ IdsDiffer(new)
  /\ \A n \in new : n.user = u /\ n.provider = Local /\ n.uid = d
  /\ \A n \in new : \E l \in S : SameLink(n, l)
  /\ \A l \in S : \E n \in new : SameLink(n, l)

LEMMA UidsGiven ==
  ASSUME NEW u, NEW w, Sane(w, u), NEW d \in Uids \cup {None},
         NEW S \in SUBSET w.loaded, \A l \in S : l.provider = Local
  PROVE  GivenUid({SetUid(l, d) : l \in S}, S, u, d)
<1> DEFINE new == {SetUid(l, d) : l \in S}
<1>1. \A l \in S : /\ SetUid(l, d) \in Drafts /\ SameLink(SetUid(l, d), l) /\ SetUid(l, d).uid = d
                   /\ SetUid(l, d).id = l.id /\ SetUid(l, d).user = u /\ SetUid(l, d).provider = Local
  <2>1. \A l \in S : l \in Drafts /\ l.user = u
    BY DEF Sane, Works
  <2> QED
    BY <2>1, UidSet
<1>2. IsFiniteSet(new)
  <2> DEFINE f == [l \in S |-> SetUid(l, d)]
  <2>1. IsFiniteSet(S)
    BY FS_Subset DEF Sane
  <2>2. f \in [S -> new] /\ \A t \in new : \E s \in S : f[s] = t
    OBVIOUS
  <2> HIDE DEF f, new
  <2> QED
    BY <2>1, <2>2, ImageFinite
<1>3. IdsDiffer(new)
  BY <1>1 DEF Sane, IdsDiffer
<1>4. /\ new \in SUBSET Drafts
      /\ \A n \in new : n.user = u /\ n.provider = Local /\ n.uid = d
      /\ \A n \in new : \E l \in S : SameLink(n, l)
      /\ \A l \in S : \E n \in new : SameLink(n, l)
  BY <1>1
<1> HIDE DEF new
<1> QED
  BY <1>2, <1>3, <1>4 DEF GivenUid, new

LEMMA DeterminedType ==
  ASSUME username \in [Users -> Names \cup {None}], NEW rs \in SUBSET Drafts, NEW name \in Names
  PROVE  Determined(Local, name, rs) \in Uids \cup {None}
<1>1. CASE \E l \in rs : l.provider = Local /\ l.uid = name
  <2> DEFINE k == CHOOSE l \in rs : l.provider = Local /\ l.uid = name
  <2>1. k \in rs
    BY <1>1
  <2>2. Determined(Local, name, rs) = username[k.user]
    BY <1>1 DEF Determined
  <2> HIDE DEF k
  <2>3. k.user \in Users
    BY <2>1 DEF Drafts
  <2> QED
    BY <2>2, <2>3 DEF Uids
<1>2. CASE ~\E l \in rs : l.provider = Local /\ l.uid = name
  BY <1>2 DEF Determined, Uids
<1> QED
  BY <1>1, <1>2

(* The local links that were loaded follow the username: v is the outcome, *)
(* new are those links.                                                    *)
RenamedAs(v, w, u, name, new) ==
  LET local == {l \in w.loaded : l.provider = Local}
      d == Determined(Local, name, w.rows)
  IN /\ Sane(v, u) /\ v.prefetched = w.prefetched
     /\ v.rows = {l \in w.rows : \A n \in new : n.id # l.id} \cup new
     /\ v.loaded = {l \in w.loaded : \A n \in new : n.id # l.id} \cup new
     /\ \A n \in new : n.user = u /\ n.provider = Local
     /\ \A n \in new : \E l \in local : SameLink(n, l)
     /\ \A l \in local : \E n \in new : SameLink(n, l)
     /\ (\A l, m \in local : l = m) /\ d # None =>
          (\A n \in new : n.uid = d) /\ (v.ok <=> w.ok /\ Unique(v.rows))

LEMMA RenamedFacts ==
  ASSUME NEW u, NEW w, Sane(w, u), username \in [Users -> Names \cup {None}], NEW name \in Names
  PROVE  \E new : RenamedAs(Renamed(w, name), w, u, name, new)
<1> DEFINE local == {l \in w.loaded : l.provider = Local}
           first == {l \in local : \A k \in local : l.id <= k.id}
           rest == local \ first
           d == Determined(Local, name, w.rows)
           new1 == {SetUid(l, d) : l \in first}
           x == Saved(w, new1)
           e == Determined(Local, name, x.rows)
           new2 == {SetUid(l, e) : l \in rest}
           v == Saved(x, new2)
           new == new1 \cup new2
<1>1. Renamed(w, name) = v
  BY DEF Renamed
<1>2. /\ first \in SUBSET w.loaded /\ rest \in SUBSET w.loaded /\ local = first \cup rest
      /\ (\A l \in first : l.provider = Local) /\ \A l \in rest : l.provider = Local /\ l \notin first
      /\ first \subseteq local /\ local \subseteq w.loaded
  OBVIOUS
<1>3. (\A l, m \in local : l = m) => rest = {}
  <2>1. \A l \in local : l.id <= l.id
    BY DEF Sane, Works, Drafts
  <2> QED
    BY <2>1
<1>4. d \in Uids \cup {None}
  <2>1. w.rows \in SUBSET Drafts
    BY DEF Sane, Works
  <2> QED
    BY <2>1, DeterminedType
<1> HIDE DEF first, rest, local, d
<1>5. GivenUid(new1, first, u, d)
  BY <1>2, <1>4, UidsGiven
<1> HIDE DEF new1
<1>6. InsertedAs(x, w, u, new1)
  BY <1>5, SavedFacts DEF GivenUid
<1> HIDE DEF x
<1>7. e \in Uids \cup {None}
  <2>1. x.rows \in SUBSET Drafts
    BY <1>6 DEF InsertedAs, Sane, Works
  <2> QED
    BY <2>1, DeterminedType
<1> HIDE DEF e
<1>8. GivenUid(new2, rest, u, e)
  BY <1>2, <1>7, UidsGiven
<1>9. rest = {} => new2 = {}
  OBVIOUS
<1> HIDE DEF new2
<1>10. InsertedAs(v, x, u, new2)
  <2>1. Sane(x, u)
    BY <1>6 DEF InsertedAs
  <2> QED
    BY <1>8, <2>1, SavedFacts DEF GivenUid
<1> HIDE DEF v
<1>11. \A n \in new1, m \in new2 : n.id # m.id
  <2>1. \A l, m \in w.loaded : l.id = m.id => l = m
    BY DEF Sane, IdsDiffer
  <2> QED
    BY <1>2, <1>5, <1>8, <2>1 DEF GivenUid, SameLink
<1>12. /\ v.rows = {l \in w.rows : \A n \in new : n.id # l.id} \cup new
       /\ v.loaded = {l \in w.loaded : \A n \in new : n.id # l.id} \cup new
       /\ Sane(v, u) /\ v.prefetched = w.prefetched
  BY <1>6, <1>10, <1>11 DEF InsertedAs
<1>13. /\ \A n \in new : n.user = u /\ n.provider = Local
       /\ \A n \in new : \E l \in local : SameLink(n, l)
       /\ \A l \in local : \E n \in new : SameLink(n, l)
  BY <1>2, <1>5, <1>8 DEF GivenUid
<1>14. ASSUME \A l, m \in local : l = m, d # None
       PROVE  (\A n \in new : n.uid = d) /\ (v.ok <=> w.ok /\ Unique(v.rows))
  <2>1. new2 = {}
    BY <1>3, <1>9, <1>14
  <2>2. v.rows = x.rows /\ (v.ok <=> x.ok /\ Unique(v.rows))
    BY <1>10, <2>1 DEF InsertedAs
  <2>3. \A n \in new1 : n.uid = d
    BY <1>5 DEF GivenUid
  <2>4. x.ok <=> w.ok /\ Unique(x.rows)
    BY <1>6, <1>14, <2>3 DEF InsertedAs
  <2> QED
    BY <2>1, <2>2, <2>3, <2>4
<1> HIDE DEF new
<1>15. RenamedAs(v, w, u, name, new)
  BY <1>12, <1>13, <1>14 DEF RenamedAs, local, d
<1> QED
  BY <1>1, <1>15

(* v has, beside the rows of w, one for each authenticator of ps.          *)
Extends(v, w, u, ps, uids, name) ==
  /\ w.rows \subseteq v.rows /\ v.loaded = w.loaded /\ v.prefetched = w.prefetched
  /\ ProvidersOf(u, v.rows) = ProvidersOf(u, w.rows) \cup ps
  /\ \A k \in v.rows \ w.rows :
       /\ k.user = u /\ k.provider \in ps /\ k.uid = Own(k.provider, uids[k.provider], name)
       /\ \A l \in w.rows \cup w.loaded : l.id # k.id
  /\ \A k, m \in v.rows \ w.rows : k.provider = m.provider => k = m
  /\ v.ok => w.ok
  /\ w.ok /\ Unique(v.rows)
       /\ (\A p \in ps : ~Conflict(u, p, uids[p], w.rows) /\ Own(p, uids[p], name) # None) => v.ok

LEMMA MaybeCreated ==
  ASSUME NEW u \in Users, NEW w, Sane(w, u), PendingFinite, NEW uids, NEW p \in Providers,
         p \in DOMAIN uids => uids[p] \in Uids \cup {None}, NEW name \in Names \cup {None}
  PROVE  LET v == IF p \in DOMAIN uids THEN Created(w, u, p, uids[p], name) ELSE w IN
         Sane(v, u) /\ Extends(v, w, u, {p} \cap DOMAIN uids, uids, name)
<1>1. CASE p \in DOMAIN uids
  <2>0. PICK uid \in Uids \cup {None} : uid = uids[p]
    BY <1>1
  <2> DEFINE v == Created(w, u, p, uid, name)
  <2>1. CreatedAs(v, w, u, p, uid, name)
    BY CreatedFacts
  <2>2. {p} \cap DOMAIN uids = {p}
    BY <1>1
  <2> HIDE DEF v
  <2>3. Extends(v, w, u, {p}, uids, name)
    BY <2>0, <2>1 DEF Extends, CreatedAs
  <2> QED
    BY <1>1, <2>0, <2>1, <2>2, <2>3 DEF v, CreatedAs
<1>2. CASE p \notin DOMAIN uids
  <2>1. {p} \cap DOMAIN uids = {}
    BY <1>2
  <2>2. Extends(w, w, u, {}, uids, name)
    BY DEF Extends
  <2> QED
    BY <1>2, <2>1, <2>2
<1> QED
  BY <1>1, <1>2

LEMMA AllCreatedFacts ==
  ASSUME NEW u \in Users, NEW w, Sane(w, u), PendingFinite, NEW uids, DOMAIN uids \subseteq Providers,
         \A p \in DOMAIN uids : uids[p] \in Uids \cup {None}, NEW name \in Names \cup {None}
  PROVE  LET v == AllCreated(w, u, uids, name) IN
         Sane(v, u) /\ Extends(v, w, u, DOMAIN uids, uids, name)
<1> DEFINE x == IF Local \in DOMAIN uids THEN Created(w, u, Local, uids[Local], name) ELSE w
           v == IF Sso \in DOMAIN uids THEN Created(x, u, Sso, uids[Sso], name) ELSE x
           ps == {Local} \cap DOMAIN uids
           qs == {Sso} \cap DOMAIN uids
<1>1. AllCreated(w, u, uids, name) = v
  BY DEF AllCreated
<1>2. Local # Sso /\ Local \in Providers /\ Sso \in Providers /\ DOMAIN uids = ps \cup qs
  BY AccountsAssumption DEF Providers
<1>3. Sane(x, u) /\ Extends(x, w, u, ps, uids, name)
  BY <1>2, MaybeCreated
<1> HIDE DEF x
<1>4. Sane(v, u) /\ Extends(v, x, u, qs, uids, name)
  BY <1>2, <1>3, MaybeCreated
<1> HIDE DEF v
<1>5. /\ w.rows \subseteq v.rows /\ v.loaded = w.loaded /\ v.prefetched = w.prefetched
      /\ ProvidersOf(u, v.rows) = ProvidersOf(u, w.rows) \cup DOMAIN uids
      /\ v.ok => w.ok
  BY <1>2, <1>3, <1>4 DEF Extends
<1>6. \A k \in v.rows \ w.rows :
        \/ k \in x.rows \ w.rows /\ k.provider = Local
        \/ k \in v.rows \ x.rows /\ k.provider = Sso
  BY <1>3, <1>4 DEF Extends
<1>7. \A k \in v.rows \ w.rows :
        /\ k.user = u /\ k.provider \in DOMAIN uids /\ k.uid = Own(k.provider, uids[k.provider], name)
        /\ \A l \in w.rows \cup w.loaded : l.id # k.id
  BY <1>3, <1>4, <1>6 DEF Extends
<1>8. \A k, m \in v.rows \ w.rows : k.provider = m.provider => k = m
  BY <1>2, <1>3, <1>4, <1>6 DEF Extends
<1>9. ASSUME w.ok, Unique(v.rows),
             \A p \in DOMAIN uids : ~Conflict(u, p, uids[p], w.rows) /\ Own(p, uids[p], name) # None
      PROVE  v.ok
  <2>1. Unique(x.rows)
    BY <1>4, <1>9 DEF Unique, Extends
  <2>2. x.ok
    BY <1>3, <1>9, <2>1 DEF Extends
  <2>3. \A p \in qs : ~Conflict(u, p, uids[p], x.rows)
    BY <1>3, <1>9 DEF Conflict, Extends
  <2> QED
    BY <1>4, <1>9, <2>2, <2>3 DEF Extends
<1> HIDE DEF ps, qs
<1>10. Extends(v, w, u, DOMAIN uids, uids, name)
  BY <1>5, <1>7, <1>8, <1>9 DEF Extends
<1> QED
  BY <1>1, <1>4, <1>10

(* Rows whose uids are saved: v is the outcome.                            *)
SavedAs(v, w, u, new) ==
  /\ v = SaveUids(w, new)
  /\ new \in SUBSET Drafts /\ IsFiniteSet(new) /\ IdsDiffer(new) /\ \A n \in new : n.user = u /\ n.uid # None

(* The uids of a user are updated: new are the rows saved.                 *)
UidsSaved(v, w, u, uid, name, new) ==
  LET all == IF w.prefetched THEN w.loaded ELSE Of(u, w.rows)
      keep == uid = None \/ uid \in UidsOf(u, w.rows)
  IN /\ SavedAs(v, w, u, new)
     /\ \A n \in new : \E l \in all : SameLink(n, l) /\ (keep => l.provider = Local /\ l.uid # name)
     /\ \A n \in new : n.uid = Own(n.provider, uid, name)
     /\ keep => \A n \in new : n.provider = Local
     /\ ~keep => \A l \in all : \E n \in new : n.id = l.id

LEMMA UidsUpdatedFacts ==
  ASSUME NEW u, NEW w, Sane(w, u), NEW uid \in Uids \cup {None}, NEW name \in Names
  PROVE  \E new : UidsSaved(UidsUpdated(w, u, uid, name), w, u, uid, name, new)
<1> DEFINE all == IF w.prefetched THEN w.loaded ELSE Of(u, w.rows)
           keep == uid = None \/ uid \in UidsOf(u, w.rows)
           some == IF keep THEN {l \in all : l.provider = Local /\ l.uid # name} ELSE all
           own(l) == Own(l.provider, uid, name)
           new == {SetUid(l, own(l)) : l \in some}
<1>1. None \notin Uids /\ Names \subseteq Uids
  BY AccountsAssumption DEF Uids
<1>2. /\ all \in SUBSET Drafts /\ IsFiniteSet(all) /\ IdsDiffer(all) /\ \A l \in all : l.user = u
  <2>1. CASE w.prefetched
    BY <2>1 DEF Sane, Works
  <2>2. CASE ~w.prefetched
    <3>1. Of(u, w.rows) \in SUBSET w.rows
      BY DEF Of
    <3>2. IsFiniteSet(Of(u, w.rows))
      BY <3>1, FS_Subset DEF Sane
    <3> QED
      BY <2>2, <3>1, <3>2 DEF Sane, Works, IdsDiffer, Of
  <2> QED
    BY <2>1, <2>2
<1> HIDE DEF all
<1>3. some \in SUBSET all /\ IsFiniteSet(some)
  <2>1. some \in SUBSET all
    OBVIOUS
  <2> HIDE DEF some
  <2> QED
    BY <1>2, <2>1, FS_Subset
<1>4. \A l \in some : own(l) \in Uids \cup {None} /\ own(l) # None
  BY <1>1 DEF Own
<1>5. \A l \in some : /\ SetUid(l, own(l)) \in Drafts /\ SameLink(SetUid(l, own(l)), l)
                      /\ SetUid(l, own(l)).uid = own(l)
  BY <1>2, <1>3, <1>4, UidSet
<1>6. UidsUpdated(w, u, uid, name) = SaveUids(w, new)
  <2>1. CASE keep
    <3>1. {SetUid(l, name) : l \in {k \in all : k.provider = Local /\ k.uid # name}} = new
      BY <2>1 DEF Own
    <3> QED
      BY <2>1, <3>1 DEF UidsUpdated, all
  <2>2. CASE ~keep
    <3>1. {SetUid(l, IF l.provider = Local THEN name ELSE uid) : l \in all} = new
      BY <2>2 DEF Own
    <3> QED
      BY <2>2, <3>1 DEF UidsUpdated, all
  <2> QED
    BY <2>1, <2>2
<1>7. IsFiniteSet(new)
  <2> DEFINE f == [l \in some |-> SetUid(l, own(l))]
  <2>1. f \in [some -> new] /\ \A t \in new : \E s \in some : f[s] = t
    OBVIOUS
  <2> HIDE DEF f, new, some
  <2> QED
    BY <1>3, <2>1, ImageFinite
<1> HIDE DEF some, own
<1>8. /\ new \in SUBSET Drafts /\ IdsDiffer(new)
  BY <1>2, <1>3, <1>5 DEF IdsDiffer, SameLink
<1>9. \A n \in new : n.user = u /\ n.uid # None
  BY <1>2, <1>3, <1>4, <1>5 DEF SameLink
<1>10. \A n \in new : \E l \in all : SameLink(n, l) /\ (keep => l.provider = Local /\ l.uid # name)
  BY <1>3, <1>5 DEF some
<1>11. \A n \in new : n.uid = Own(n.provider, uid, name)
  BY <1>5 DEF own, SameLink
<1>12. keep => \A n \in new : n.provider = Local
  BY <1>10 DEF SameLink
<1>13. ~keep => \A l \in all : \E n \in new : n.id = l.id
  BY <1>5 DEF some, SameLink
<1> HIDE DEF new, keep
<1>14. SavedAs(UidsUpdated(w, u, uid, name), w, u, new)
  BY <1>6, <1>7, <1>8, <1>9 DEF SavedAs
<1> QED
  BY <1>10, <1>11, <1>12, <1>13, <1>14 DEF all, keep, UidsSaved

LEMMA UnchangedFacts ==
  ASSUME NEW u, NEW w, Sane(w, u), NEW fine \in BOOLEAN
  PROVE  LET v == Changed(w, w.rows, w.loaded, fine) IN
         /\ Sane(v, u) /\ v.rows = w.rows /\ v.loaded = w.loaded /\ v.prefetched = w.prefetched
         /\ v.ok <=> w.ok /\ fine
<1> DEFINE rs == w.rows
           ls == w.loaded
           v == Changed(w, rs, ls, fine)
<1>1. w \in Works /\ rs \in SUBSET Drafts /\ ls \in SUBSET Drafts
  BY DEF Sane, Works
<1>2. /\ v.rows = rs /\ v.loaded = ls /\ v.prefetched = w.prefetched
      /\ v.ok <=> w.ok /\ fine /\ Unique(rs)
      /\ rs \in SUBSET Drafts /\ ls \in SUBSET Drafts => v \in Works
  <2>1. v = Changed(w, rs, ls, fine)
    OBVIOUS
  <2> HIDE DEF rs, ls, v
  <2> QED
    BY <1>1, <2>1, ChangedFields
<1> HIDE DEF v
<1>3. w.ok => Unique(rs)
  BY DEF Sane
<1>4. Sane(v, u)
  BY <1>1, <1>2 DEF Sane
<1> QED
  BY <1>2, <1>3, <1>4 DEF v

(* One link is saved, that of the last login, or the request fails.        *)
LEMMA LastUpdatedFacts ==
  ASSUME NEW u, NEW w, Sane(w, u), NEW uid \in Uids, NEW name \in Names, NEW last
  PROVE  LET v == LastUpdated(w, u, uid, name, last) IN
         \/ Sane(v, u) /\ ~v.ok
         \/ \E new : /\ SavedAs(v, w, u, new)
                     /\ \A n \in new : \E l \in w.rows : SameLink(n, l)
                     /\ \A n \in new : n.uid = Own(n.provider, uid, name) /\ n.provider = last
<1> DEFINE v == LastUpdated(w, u, uid, name, last)
           target == {l \in Of(u, w.rows) : l.provider = last}
           own == Own(last, uid, name)
           new == {SetUid(l, own) : l \in target}
<1>1. CASE Cardinality(target) > 1
  <2> DEFINE no == FALSE
  <2>1. v = Changed(w, w.rows, w.loaded, no) /\ no \in BOOLEAN /\ no = FALSE
    BY <1>1 DEF LastUpdated
  <2> HIDE DEF v, no
  <2>2. Sane(v, u) /\ (v.ok <=> w.ok /\ no)
    BY <2>1, UnchangedFacts
  <2> QED
    BY <2>1, <2>2 DEF v
<1>2. CASE ~(Cardinality(target) > 1)
  <2>1. v = SaveUids(w, new)
    BY <1>2 DEF LastUpdated, Own
  <2>2. own \in Uids \cup {None} /\ own # None
    BY AccountsAssumption DEF Own, Uids
  <2>3. target \in SUBSET w.rows /\ w.rows \in SUBSET Drafts /\ \A l \in target : l.user = u /\ l.provider = last
    BY DEF Of, Sane, Works
  <2> HIDE DEF v, own, target
  <2>4. IsFiniteSet(target)
    BY <2>3, FS_Subset DEF Sane
  <2>5. \A l \in target : /\ SetUid(l, own) \in Drafts /\ SameLink(SetUid(l, own), l)
                          /\ SetUid(l, own).uid = own
    BY <2>2, <2>3, UidSet
  <2>6. IsFiniteSet(new)
    <3> DEFINE f == [l \in target |-> SetUid(l, own)]
    <3>1. f \in [target -> new] /\ \A t \in new : \E s \in target : f[s] = t
      OBVIOUS
    <3> HIDE DEF f, new
    <3> QED
      BY <2>4, <3>1, ImageFinite
  <2>7. new \in SUBSET Drafts /\ IdsDiffer(new)
    BY <2>3, <2>5 DEF IdsDiffer, SameLink, Sane
  <2>8. \A n \in new : n.user = u /\ n.uid # None /\ n.provider = last /\ n.uid = own
    BY <2>2, <2>3, <2>5 DEF SameLink
  <2>9. \A n \in new : \E l \in w.rows : SameLink(n, l)
    BY <2>3, <2>5
  <2> HIDE DEF new
  <2>10. SavedAs(v, w, u, new) /\ \A n \in new : n.uid = Own(n.provider, uid, name) /\ n.provider = last
    BY <2>1, <2>6, <2>7, <2>8 DEF SavedAs, own
  <2> QED
    BY <2>9, <2>10 DEF v
<1> QED
  BY <1>1, <1>2

(* The deprecated fields: links are removed, links are made, uids saved.   *)
Made(w, u, authenticators, uid, name) ==
  AllCreated(Removed(w, u, ProvidersOf(u, w.rows) \ authenticators),
             u, [p \in authenticators \ ProvidersOf(u, w.rows) |-> uid], name)

LEMMA MadeFacts ==
  ASSUME NEW u \in Users, NEW w, Sane(w, u), PendingFinite, NEW authenticators \in SUBSET Providers,
         NEW uid \in Uids \cup {None}, NEW name \in Names
  PROVE  \E y : LET v == Made(w, u, authenticators, uid, name)
                    current == ProvidersOf(u, w.rows)
                    uids == [p \in authenticators \ current |-> uid]
                IN /\ Sane(v, u) /\ y.loaded = w.loaded /\ y.prefetched = w.prefetched
                   /\ y.rows = {l \in w.rows : ~(l.user = u /\ l.provider \in current \ authenticators)}
                   /\ y.ok <=> w.ok
                   /\ ProvidersOf(u, y.rows) = current \cap authenticators
                   /\ Extends(v, y, u, authenticators \ current, uids, name)
<1> DEFINE current == ProvidersOf(u, w.rows)
           gone == current \ authenticators
           y == Removed(w, u, gone)
           uids == [p \in authenticators \ current |-> uid]
           v == AllCreated(y, u, uids, name)
<1>1. Made(w, u, authenticators, uid, name) = v
  BY DEF Made
<1>2. DOMAIN uids = authenticators \ current /\ DOMAIN uids \subseteq Providers /\ \A p \in DOMAIN uids : uids[p] \in Uids \cup {None}
  OBVIOUS
<1>3. /\ Sane(y, u) /\ y.prefetched = w.prefetched /\ y.loaded = w.loaded
      /\ y.rows = {l \in w.rows : ~(l.user = u /\ l.provider \in gone)}
      /\ y.ok <=> w.ok
      /\ ProvidersOf(u, y.rows) = current \ gone
  <2> HIDE DEF gone
  <2> QED
    BY RemovedFacts
<1> HIDE DEF y, uids
<1>4. Sane(v, u) /\ Extends(v, y, u, DOMAIN uids, uids, name)
  BY <1>2, <1>3, AllCreatedFacts
<1>5. current \ gone = current \cap authenticators
  OBVIOUS
<1> HIDE DEF v
<1> QED
  BY <1>1, <1>2, <1>3, <1>4, <1>5 DEF uids

LEMMA LegacySane ==
  ASSUME NEW u \in Users, NEW w, Sane(w, u), PendingFinite, NEW authenticators \in (SUBSET Providers) \cup {None},
         NEW uid \in Uids \cup {None}, NEW name \in Names, NEW last
  PROVE  Sane(LegacyProcessed(w, u, authenticators, uid, name, last), u)
<1>1. CASE authenticators = {}
  <2> DEFINE current == ProvidersOf(u, w.rows)
  <2>1. LegacyProcessed(w, u, authenticators, uid, name, last) = Removed(w, u, current)
    BY <1>1 DEF LegacyProcessed
  <2> HIDE DEF current
  <2>2. Sane(Removed(w, u, current), u)
    BY RemovedFacts
  <2> QED
    BY <2>1, <2>2
<1>2. CASE authenticators \notin {{}, None}
  <2> DEFINE v == Made(w, u, authenticators, uid, name)
  <2>1. LegacyProcessed(w, u, authenticators, uid, name, last) = UidsUpdated(v, u, uid, name)
    BY <1>2 DEF LegacyProcessed, Made
  <2>2. Sane(v, u)
    BY <1>2, MadeFacts
  <2> HIDE DEF v
  <2>3. PICK new : SavedAs(UidsUpdated(v, u, uid, name), v, u, new)
    BY <2>2, UidsUpdatedFacts DEF UidsSaved
  <2> QED
    BY <2>1, <2>2, <2>3, SaveFacts DEF SavedAs
<1>3. CASE authenticators = None /\ uid # None
  <2>1. LegacyProcessed(w, u, authenticators, uid, name, last) = LastUpdated(w, u, uid, name, last)
    BY <1>3, AccountsAssumption DEF LegacyProcessed
  <2>2. \/ Sane(LastUpdated(w, u, uid, name, last), u)
        \/ \E new : SavedAs(LastUpdated(w, u, uid, name, last), w, u, new)
    BY <1>3, LastUpdatedFacts
  <2> QED
    BY <2>1, <2>2, SaveFacts DEF SavedAs
<1>4. CASE authenticators = None /\ uid = None
  BY <1>4, AccountsAssumption DEF LegacyProcessed
<1> QED
  BY <1>1, <1>2, <1>3, <1>4

LEMMA AssociatedFacts ==
  ASSUME NEW u \in Users, NEW w, Sane(w, u), PendingFinite, NEW associated, associated # None,
         DOMAIN associated \subseteq Providers, \A p \in DOMAIN associated : associated[p] \in Uids,
         NEW name \in Names \cup {None}
  PROVE  \E y : LET v == AssociatedProcessed(w, u, associated, name) IN
                /\ Sane(v, u) /\ y.rows = {l \in w.rows : l.user # u}
                /\ y.ok <=> w.ok /\ NoConflicts(u, associated, w.rows)
                /\ ProvidersOf(u, y.rows) = {}
                /\ Extends(v, y, u, DOMAIN associated, associated, name)
<1> DEFINE fine == NoConflicts(u, associated, w.rows)
           x == Changed(w, w.rows, w.loaded, fine)
           y == Removed(x, u, Providers)
           v == AllCreated(y, u, associated, name)
<1>1. AssociatedProcessed(w, u, associated, name) = v
  BY DEF AssociatedProcessed
<1>2. fine \in BOOLEAN
  BY DEF NoConflicts
<1> HIDE DEF fine
<1>3. Sane(x, u) /\ x.rows = w.rows /\ (x.ok <=> w.ok /\ fine)
  BY <1>2, UnchangedFacts
<1> HIDE DEF x
<1>4. /\ Sane(y, u) /\ y.rows = {l \in x.rows : ~(l.user = u /\ l.provider \in Providers)}
      /\ y.ok <=> x.ok
      /\ ProvidersOf(u, y.rows) = ProvidersOf(u, x.rows) \ Providers
  BY <1>3, RemovedFacts
<1> HIDE DEF y
<1>5. Sane(v, u) /\ Extends(v, y, u, DOMAIN associated, associated, name)
  <2>1. \A p \in DOMAIN associated : associated[p] \in Uids \cup {None}
    OBVIOUS
  <2> QED
    BY <1>4, <2>1, AllCreatedFacts
<1>6. \A l \in x.rows : l.provider \in Providers
  BY <1>3 DEF Sane, Works, Drafts
<1>7. y.rows = {l \in w.rows : l.user # u} /\ ProvidersOf(u, y.rows) = {}
  BY <1>3, <1>4, <1>6 DEF ProvidersOf, Of
<1> HIDE DEF v
<1> QED
  BY <1>1, <1>3, <1>4, <1>5, <1>7 DEF fine

-----------------------------------------------------------------------------
(* The requests under way, and the invariant.                              *)

(* What a request has loaded was in the database when it was validated.    *)
Sound(q) ==
  LET r == q.req
      names == q.at[1]
      rs == q.at[2]
  IN /\ r \in Requests /\ DatabaseOK(names, rs, q.at[3])
     /\ Valid(r, names, rs) /\ q.uid \in EffectiveUids(r, names, rs)
     /\ q.username = names[r.user] /\ q.lastFrom = q.at[3][r.user] /\ q.rows = Of(r.user, rs)
     /\ q.username = None => r.username # None /\ ~r.partial
     /\ q.authenticators = Asked(r)

AccountsInv ==
  /\ DatabaseOK(username, rows, lastFrom) /\ received \in 0..MaxRequests
  /\ IsFiniteSet(pending) /\ \A q \in pending : Sound(q)

LEMMA SoundFacts ==
  ASSUME NEW q, Sound(q)
  PROVE  /\ q.req.user \in Users /\ q.authenticators \in (SUBSET Providers) \cup {None}
         /\ q.req.associated = None \/ (DOMAIN q.req.associated \subseteq Providers
                                        /\ \A p \in DOMAIN q.req.associated : q.req.associated[p] \in Uids)
         /\ q.uid \in Uids \cup {None} /\ NewName(q) \in Names
         /\ q.username \in Names \cup {None} /\ q.lastFrom \in Providers \cup {None}
         /\ q.rows \in SUBSET Links /\ IsFiniteSet(q.rows) /\ IdsDiffer(q.rows)
         /\ \A l \in q.rows : l.user = q.req.user
         /\ q.username = None => q.rows = {}
<1> DEFINE r == q.req
           names == q.at[1]
           rs == q.at[2]
<1>1. /\ r \in Requests /\ DatabaseOK(names, rs, q.at[3]) /\ q.uid \in EffectiveUids(r, names, rs)
      /\ q.username = names[r.user] /\ q.lastFrom = q.at[3][r.user] /\ q.rows = Of(r.user, rs)
      /\ q.username = None => r.username # None
      /\ q.authenticators = Asked(r)
  BY DEF Sound
<1> HIDE DEF r, names, rs
<1>2. /\ r.user \in Users /\ r.authenticators \in (SUBSET Providers) \cup {None, Null} /\ r.uid \in Uids \cup {None}
      /\ r.username \in Names \cup {None}
      /\ r.associated = None \/ (DOMAIN r.associated \subseteq Providers
                                 /\ \A p \in DOMAIN r.associated : r.associated[p] \in Uids)
  BY <1>1, AccountsAssumption
<1>3. q.rows \in SUBSET rs /\ \A l \in q.rows : l.user = r.user
  BY <1>1 DEF Of
<1>4. IsFiniteSet(rs) /\ IdsDiffer(rs) /\ \A l \in rs : l \in Links /\ names[l.user] # None
  BY <1>1 DEF DatabaseOK, IdsDiffer
<1>5. IsFiniteSet(q.rows)
  BY <1>3, <1>4, FS_Subset
<1>6. q.uid \in Uids \cup {None}
  BY <1>1, <1>2, <1>4 DEF EffectiveUids, UidsOf, Of, Links
<1>7. q.username \in Names \cup {None} /\ q.lastFrom \in Providers \cup {None}
  BY <1>1, <1>2 DEF DatabaseOK
<1>8. NewName(q) \in Names
  BY <1>1, <1>2, <1>7 DEF NewName, r
<1>9. IdsDiffer(q.rows) /\ q.rows \in SUBSET Links
  BY <1>3, <1>4 DEF IdsDiffer
<1>10. q.username = None => q.rows = {}
  BY <1>1, <1>3, <1>4
<1>11. q.authenticators \in (SUBSET Providers) \cup {None}
  BY <1>1, <1>2 DEF Asked
<1> QED
  BY <1>2, <1>3, <1>5, <1>6, <1>7, <1>8, <1>9, <1>10, <1>11 DEF r

(* The transaction before its fields are processed, and the new username.  *)
Start(q) == [rows |-> rows, loaded |-> q.rows, prefetched |-> q.username # None, ok |-> TRUE]
Renaming(q) == q.username # None /\ NewName(q) # q.username /\ q.req.associated = None
Begun(q) == IF Renaming(q) THEN Renamed(Start(q), NewName(q)) ELSE Start(q)
LegacyDone(q) ==
  LegacyProcessed(Begun(q), q.req.user, q.authenticators, q.uid, NewName(q), q.lastFrom)

LEMMA OutcomeStages ==
  ASSUME NEW q
  PROVE  Outcome(q) = AssociatedProcessed(LegacyDone(q), q.req.user, q.req.associated, NameAfter(q))
BY DEF Outcome, Processed, Begun, Start, Renaming, LegacyDone

LEMMA StartFacts ==
  ASSUME AccountsInv, NEW q \in pending
  PROVE  /\ PendingFinite /\ Sane(Start(q), q.req.user)
         /\ Start(q).rows = rows /\ Start(q).loaded = q.rows /\ Start(q).ok
         /\ Start(q).prefetched <=> q.username # None
         /\ Determined(Local, NewName(q), rows) \in Names
<1>1. /\ q.req.user \in Users /\ NewName(q) \in Names
      /\ q.rows \in SUBSET Links /\ IsFiniteSet(q.rows) /\ IdsDiffer(q.rows)
      /\ \A l \in q.rows : l.user = q.req.user
  BY SoundFacts DEF AccountsInv
<1>2. Links \subseteq Drafts /\ \A l \in Links : l.uid # None /\ l.id \in Nat
  BY AccountsAssumption DEF Links, Drafts
<1>3. PendingFinite
  <2>1. \A x \in pending : x.rows \in SUBSET Links /\ IsFiniteSet(x.rows)
    BY SoundFacts DEF AccountsInv
  <2> QED
    BY <1>2, <2>1 DEF PendingFinite, AccountsInv
<1>4. /\ username \in [Users -> Names \cup {None}] /\ IsFiniteSet(rows) /\ IdsDiffer(rows) /\ Unique(rows)
      /\ \A l \in rows : l \in Links /\ username[l.user] # None
  BY DEF AccountsInv, DatabaseOK, IdsDiffer
<1> DEFINE b == q.username # None
           yes == TRUE
<1>5. Start(q) = [rows |-> rows, loaded |-> q.rows, prefetched |-> b, ok |-> yes] /\ b \in BOOLEAN /\ yes \in BOOLEAN
  BY DEF Start
<1> HIDE DEF b, yes
<1>6. Start(q).rows = rows /\ Start(q).loaded = q.rows /\ Start(q).ok = yes /\ Start(q).prefetched = b
  BY <1>5
<1>7. Start(q) \in Works
  BY <1>1, <1>2, <1>4, <1>5 DEF Works
<1>8. Sane(Start(q), q.req.user)
  BY <1>1, <1>2, <1>4, <1>6, <1>7 DEF Sane
<1>9. Determined(Local, NewName(q), rows) \in Names
  <2>1. CASE \E l \in rows : l.provider = Local /\ l.uid = NewName(q)
    <3> DEFINE k == CHOOSE l \in rows : l.provider = Local /\ l.uid = NewName(q)
    <3>1. k \in rows
      BY <2>1
    <3>2. Determined(Local, NewName(q), rows) = username[k.user]
      BY <2>1 DEF Determined
    <3> HIDE DEF k
    <3>3. k.user \in Users /\ username[k.user] # None
      BY <1>4, <3>1 DEF Links
    <3> QED
      BY <1>4, <3>2, <3>3
  <2>2. CASE ~\E l \in rows : l.provider = Local /\ l.uid = NewName(q)
    BY <1>1, <2>2 DEF Determined
  <2> QED
    BY <2>1, <2>2
<1> QED
  BY <1>3, <1>6, <1>8, <1>9 DEF b, yes

LEMMA BegunSane ==
  ASSUME AccountsInv, NEW q \in pending
  PROVE  Sane(Begun(q), q.req.user) /\ Begun(q).prefetched = Start(q).prefetched
<1> DEFINE u == q.req.user
           name == NewName(q)
           s == Start(q)
<1>1. Sane(s, u) /\ name \in Names /\ username \in [Users -> Names \cup {None}]
  BY StartFacts, SoundFacts DEF AccountsInv, DatabaseOK
<1> HIDE DEF u, name, s
<1>2. PICK new : RenamedAs(Renamed(s, name), s, u, name, new)
  BY <1>1, RenamedFacts
<1>3. Sane(Renamed(s, name), u) /\ Renamed(s, name).prefetched = s.prefetched
  BY <1>2 DEF RenamedAs
<1> QED
  BY <1>1, <1>3 DEF Begun, u, name, s

LEMMA NameAfterType ==
  ASSUME AccountsInv, NEW q \in pending
  PROVE  NameAfter(q) \in Names \cup {None}
<1>1. q.req.user \in Users /\ NewName(q) \in Names
  BY SoundFacts DEF AccountsInv
<1> QED
  BY <1>1 DEF NameAfter, AccountsInv, DatabaseOK

LEMMA OutcomeSane ==
  ASSUME AccountsInv, NEW q \in pending
  PROVE  Sane(LegacyDone(q), q.req.user) /\ Sane(Outcome(q), q.req.user)
<1> DEFINE u == q.req.user
           a == q.req.associated
           ps == q.authenticators
           name == NewName(q)
           after == NameAfter(q)
           uid == q.uid
           last == q.lastFrom
           b == Begun(q)
           w == LegacyDone(q)
<1>1. /\ u \in Users /\ ps \in (SUBSET Providers) \cup {None} /\ uid \in Uids \cup {None} /\ name \in Names
      /\ a = None \/ (DOMAIN a \subseteq Providers /\ \A p \in DOMAIN a : a[p] \in Uids)
  BY SoundFacts DEF AccountsInv
<1>2. Sane(b, u) /\ PendingFinite
  BY BegunSane, StartFacts
<1>3. w = LegacyProcessed(b, u, ps, uid, name, last)
  BY DEF LegacyDone
<1>4. Outcome(q) = AssociatedProcessed(w, u, a, after) /\ after \in Names \cup {None}
  BY OutcomeStages, NameAfterType
<1> HIDE DEF u, a, ps, name, after, uid, last, b, w
<1>5. Sane(w, u)
  BY <1>1, <1>2, <1>3, LegacySane
<1>6. CASE a = None
  BY <1>4, <1>5, <1>6 DEF AssociatedProcessed, w, u
<1>7. CASE a # None
  <2>1. Sane(AssociatedProcessed(w, u, a, after), u)
    BY <1>1, <1>2, <1>4, <1>5, <1>7, AssociatedFacts
  <2> QED
    BY <1>4, <1>5, <2>1 DEF w, u
<1> QED
  BY <1>6, <1>7

-----------------------------------------------------------------------------
LEMMA ReceiveKeeps ==
  ASSUME AccountsInv, NEW r \in Requests, Receive(r)
  PROVE  AccountsInv'
<1>1. username' = username /\ rows' = rows /\ lastFrom' = lastFrom /\ received' = received + 1 /\ received < MaxRequests
  BY DEF Receive
<1>2. CASE UNCHANGED pending
  <2>1. received' \in 0..MaxRequests
    BY <1>1, AccountsAssumption DEF AccountsInv
  <2> QED
    BY <1>1, <1>2, <2>1 DEF AccountsInv
<1>3. CASE Valid(r, username, rows) /\ ~UNCHANGED pending
  <2>1. PICK uid \in EffectiveUids(r, username, rows) :
           pending' = pending \cup
             {[id |-> received', req |-> r, authenticators |-> Asked(r), uid |-> uid,
               username |-> username[r.user], lastFrom |-> lastFrom[r.user],
               rows |-> Of(r.user, rows), at |-> <<username, rows, lastFrom>>]}
    BY <1>3 DEF Receive
  <2> DEFINE q == [id |-> received', req |-> r, authenticators |-> Asked(r), uid |-> uid,
                   username |-> username[r.user], lastFrom |-> lastFrom[r.user],
                   rows |-> Of(r.user, rows), at |-> <<username, rows, lastFrom>>]
  <2>2. /\ q.req = r /\ q.authenticators = Asked(r) /\ q.uid = uid /\ q.username = username[r.user] /\ q.lastFrom = lastFrom[r.user]
        /\ q.rows = Of(r.user, rows) /\ q.at[1] = username /\ q.at[2] = rows /\ q.at[3] = lastFrom
    OBVIOUS
  <2>3. pending' = pending \cup {q}
    BY <2>1
  <2> HIDE DEF q
  <2>4. username[r.user] = None => r.username # None /\ ~r.partial
    BY DEF Receive
  <2>5. Sound(q)
    BY <1>3, <2>2, <2>4 DEF Sound, AccountsInv
  <2>6. IsFiniteSet(pending')
    BY <2>3, FS_AddElement DEF AccountsInv
  <2>7. received' \in 0..MaxRequests
    BY <1>1, AccountsAssumption DEF AccountsInv
  <2> QED
    BY <1>1, <2>3, <2>5, <2>6, <2>7 DEF AccountsInv
<1> QED
  BY <1>2, <1>3 DEF Receive

LEMMA CommitFacts ==
  ASSUME AccountsInv, NEW q \in pending, Commits(q)
  PROVE  DatabaseOK([username EXCEPT ![q.req.user] = SavedName(q)], Outcome(q).rows,
                    [lastFrom EXCEPT ![q.req.user] = q.lastFrom])
<1> DEFINE u == q.req.user
           w == Outcome(q)
           s == SavedName(q)
           from == q.lastFrom
           names == [username EXCEPT ![u] = s]
<1>1. u \in Users /\ from \in Providers \cup {None} /\ NewName(q) \in Names
  BY SoundFacts DEF AccountsInv
<1>2. /\ username \in [Users -> Names \cup {None}] /\ lastFrom \in [Users -> Providers \cup {None}]
      /\ \A x, v \in Users : x # v /\ username[x] # None => username[x] # username[v]
  BY DEF AccountsInv, DatabaseOK
<1>3. s \in Names /\ s # None /\ \A v \in Users \ {u} : username[v] # s
  <2>1. NameAfter(q) \in Names
    BY NameAfterType DEF Commits
  <2>2. q.req.username # None => SavedName(q) = NewName(q)
    BY DEF SavedName, NewName
  <2>3. q.req.username = None => SavedName(q) = NameAfter(q)
    BY DEF SavedName
  <2> QED
    BY <1>1, <2>1, <2>2, <2>3, AccountsAssumption DEF Commits, Uids
<1>4. Sane(w, u) /\ w.ok
  BY OutcomeSane DEF Commits
<1> HIDE DEF u, w, s, from
<1>5. /\ names \in [Users -> Names \cup {None}] /\ [lastFrom EXCEPT ![u] = from] \in [Users -> Providers \cup {None}]
      /\ \A x, v \in Users : x # v /\ names[x] # None => names[x] # names[v]
  BY <1>1, <1>2, <1>3
<1>6. /\ IsFiniteSet(w.rows) /\ Unique(w.rows) /\ \A l, m \in w.rows : l.id = m.id => l = m
  BY <1>4 DEF Sane, IdsDiffer
<1>7. ASSUME NEW l \in w.rows PROVE l \in Links /\ names[l.user] # None
  <2>1. l \in Drafts /\ l.uid # None /\ (l.user = u \/ username[l.user] # None)
    BY <1>4 DEF Sane, Works
  <2>2. l \in Links /\ l.user \in Users
    BY <2>1 DEF Drafts, Links
  <2> QED
    BY <1>2, <1>3, <2>1, <2>2
<1> HIDE DEF names
<1>8. DatabaseOK(names, w.rows, [lastFrom EXCEPT ![u] = from])
  BY <1>5, <1>6, <1>7 DEF DatabaseOK
<1> QED
  BY <1>8 DEF names, w, u, s, from

LEMMA ApplyKeeps ==
  ASSUME AccountsInv, NEW q \in pending, Apply(q)
  PROVE  AccountsInv'
<1>1. pending' = pending \ {q} /\ received' = received
  BY DEF Apply
<1>2. IsFiniteSet(pending') /\ \A x \in pending' : Sound(x)
  <2>1. pending' \in SUBSET pending
    BY <1>1
  <2> QED
    BY <2>1, FS_Subset DEF AccountsInv
<1>3. DatabaseOK(username', rows', lastFrom')
  <2>1. CASE Commits(q)
    BY <2>1, CommitFacts DEF Apply
  <2>2. CASE ~Commits(q)
    BY <2>2 DEF Apply, AccountsInv
  <2> QED
    BY <2>1, <2>2
<1> QED
  BY <1>1, <1>2, <1>3 DEF AccountsInv

LEMMA DestroyKeeps ==
  ASSUME AccountsInv, NEW u \in Users, Destroy(u)
  PROVE  AccountsInv'
<1>1. /\ username' = [username EXCEPT ![u] = None] /\ lastFrom' = [lastFrom EXCEPT ![u] = None]
      /\ rows' = {l \in rows : l.user # u} /\ pending' = pending
      /\ received' = received + 1 /\ received < MaxRequests
  BY DEF Destroy, Of
<1>2. rows' \in SUBSET rows
  BY <1>1
<1>3. IsFiniteSet(rows')
  BY <1>2, FS_Subset DEF AccountsInv, DatabaseOK
<1>4. /\ username' \in [Users -> Names \cup {None}] /\ lastFrom' \in [Users -> Providers \cup {None}]
      /\ \A x, v \in Users : x # v /\ username'[x] # None => username'[x] # username'[v]
      /\ \A l \in rows' : l \in Links /\ username'[l.user] # None
  BY <1>1 DEF AccountsInv, DatabaseOK, Links
<1>5. /\ Unique(rows') /\ \A l, m \in rows' : l.id = m.id => l = m
  BY <1>2 DEF AccountsInv, DatabaseOK, Unique
<1>6. DatabaseOK(username', rows', lastFrom')
  BY <1>3, <1>4, <1>5 DEF DatabaseOK
<1>7. received' \in 0..MaxRequests
  BY <1>1, AccountsAssumption DEF AccountsInv
<1> QED
  BY <1>1, <1>6, <1>7 DEF AccountsInv

(***************************************************************************)
(* Whatever requests interleave, and whatever fields each combines, the    *)
(* database keeps its constraints: no two users share a username, no two   *)
(* links a uid of one authenticator, every link has a uid and a user, and  *)
(* what a request has loaded was once stored (models/user.py,              *)
(* serializers/user.py).                                                   *)
(***************************************************************************)
THEOREM AccountsInvariant == AccountsSpec => []AccountsInv
<1>1. AccountsInit => AccountsInv
  <2> SUFFICES ASSUME AccountsInit PROVE AccountsInv
    OBVIOUS
  <2>1. DatabaseOK(username, rows, lastFrom)
    BY AccountsAssumption DEF AccountsInit
  <2>2. IsFiniteSet(pending) /\ pending = {}
    BY FS_EmptySet DEF AccountsInit
  <2>3. received \in 0..MaxRequests
    BY AccountsAssumption DEF AccountsInit
  <2> QED
    BY <2>1, <2>2, <2>3 DEF AccountsInv
<1>2. AccountsInv /\ [AccountsNext]_accountVars => AccountsInv'
  <2> SUFFICES ASSUME AccountsInv, [AccountsNext]_accountVars PROVE AccountsInv'
    OBVIOUS
  <2>1. CASE UNCHANGED accountVars
    BY <2>1 DEF AccountsInv, accountVars
  <2>2. CASE AccountsNext
    BY <2>2, ReceiveKeeps, ApplyKeeps, DestroyKeeps DEF AccountsNext
  <2> QED
    BY <2>1, <2>2
<1> QED
  BY <1>1, <1>2, PTL DEF AccountsSpec

(***************************************************************************)
(* The types, with the constraints of the database, for every set of       *)
(* requests (UserSerializer, the models' unique constraints).              *)
(***************************************************************************)
THEOREM AccountsTypeCorrect == AccountsSpec => []AccountsTypeOK
<1>1. AccountsInv => AccountsTypeOK
  BY DEF AccountsInv, AccountsTypeOK
<1> QED
  BY <1>1, AccountsInvariant, PTL

-----------------------------------------------------------------------------
(* A request whose user has not changed since it was loaded.               *)

Others(rs, u) == {l \in rs : l.user # u}

OneLocal(rs) == \A l, m \in rs : l.provider = Local /\ m.provider = Local => l = m

LEMMA BegunFacts ==
  ASSUME AccountsInv, NEW q \in pending, Current(q)
  PROVE  LET b == Begun(q)
             u == q.req.user
         IN /\ b.loaded = Of(u, b.rows) /\ Others(b.rows, u) = Others(rows, u)
            /\ ProvidersOf(u, b.rows) = ProvidersOf(u, q.rows)
            /\ \A k \in Of(u, b.rows) : k.provider # Local \/ ~Renaming(q) => k \in q.rows
            /\ \A k \in Of(u, b.rows) : \E l \in q.rows : SameLink(k, l)
            /\ OneLocal(q.rows) =>
                 /\ Renaming(q) => \A k \in Of(u, b.rows) : k.provider = Local => k.uid = Determined(Local, NewName(q), rows)
                 /\ b.ok <=> Unique(b.rows)
<1> DEFINE u == q.req.user
           name == NewName(q)
           s == Start(q)
           v == Renamed(s, name)
           d == Determined(Local, name, rows)
<1>1. /\ Sane(s, u) /\ s.rows = rows /\ s.loaded = q.rows /\ s.ok /\ d \in Names
  BY StartFacts
<1>2. q.rows = Of(u, rows) /\ Unique(rows)
  BY DEF Current, AccountsInv, DatabaseOK
<1>3. CASE ~Renaming(q)
  <2>1. Begun(q) = s
    BY <1>3 DEF Begun
  <2> HIDE DEF s
  <2> QED
    BY <1>1, <1>2, <1>3, <2>1 DEF Others, Of, ProvidersOf, SameLink
<1>4. CASE Renaming(q)
  <2>1. Begun(q) = v
    BY <1>4 DEF Begun
  <2> DEFINE local == {l \in q.rows : l.provider = Local}
  <2>2. name \in Names /\ username \in [Users -> Names \cup {None}] /\ d # None
    BY <1>1, SoundFacts, AccountsAssumption DEF AccountsInv, DatabaseOK, Uids
  <2> HIDE DEF s
  <2>3. PICK new : RenamedAs(v, s, u, name, new)
    BY <1>1, <2>2, RenamedFacts
  <2>4. /\ v.rows = {l \in rows : \A n \in new : n.id # l.id} \cup new
        /\ v.loaded = {l \in q.rows : \A n \in new : n.id # l.id} \cup new
        /\ \A n \in new : n.user = u /\ n.provider = Local
        /\ \A n \in new : \E l \in local : SameLink(n, l)
        /\ \A l \in local : \E n \in new : SameLink(n, l)
        /\ OneLocal(q.rows) => (\A n \in new : n.uid = d) /\ (v.ok <=> s.ok /\ Unique(v.rows))
    BY <1>1, <2>2, <2>3 DEF RenamedAs, OneLocal
  <2> HIDE DEF v, d
  <2>5. \A l \in rows, n \in local : n.id = l.id => l = n
    BY <1>1, <1>2 DEF Sane, IdsDiffer, Of
  <2>6. v.rows = (rows \ local) \cup new /\ v.loaded = (q.rows \ local) \cup new
    BY <1>2, <2>4, <2>5 DEF Of, SameLink
  <2>7. /\ \A l \in local : l.user = u /\ l.provider = Local
        /\ \A l \in q.rows : l.user = u
    BY <1>2 DEF Of
  <2>8. v.loaded = Of(u, v.rows) /\ Others(v.rows, u) = Others(rows, u)
    BY <1>2, <2>4, <2>6, <2>7 DEF Of, Others
  <2>9. /\ \A k \in Of(u, v.rows) : k \in new \/ (k \in q.rows /\ k.provider # Local)
    BY <1>2, <2>6 DEF Of
  <2>10. /\ \A k \in Of(u, v.rows) : \E l \in q.rows : SameLink(k, l)
         /\ \A l \in q.rows : \E k \in Of(u, v.rows) : SameLink(k, l)
    BY <1>2, <2>4, <2>6, <2>9 DEF Of, SameLink
  <2>11. ProvidersOf(u, v.rows) = ProvidersOf(u, q.rows)
    BY <2>7, <2>10 DEF ProvidersOf, Of, SameLink
  <2> QED
    BY <1>1, <1>4, <2>1, <2>4, <2>8, <2>9, <2>10, <2>11 DEF d
<1> QED
  BY <1>3, <1>4

(* Saving uids makes no links and removes none; a uid that is saved is the *)
(* one of the link's authenticator.                                        *)
UidStep(v, w, u, uid, name) ==
  /\ Sane(v, u) /\ ProvidersOf(u, v.rows) = ProvidersOf(u, w.rows)
  /\ \A k \in v.rows : \E l \in w.rows :
       SameLink(k, l) /\ (k = l \/ (k.user = u /\ k.uid = Own(k.provider, uid, name)))
  /\ v.ok => w.ok

RowsSaved(v, w, new) ==
  \A k \in v.rows : \E l \in w.rows :
    SameLink(k, l) /\ (k = l \/ \E n \in new : SameLink(n, k) /\ k.uid = n.uid)

LEMMA SaveStep ==
  ASSUME NEW u, NEW w, Sane(w, u), Agree(w), NEW uid, NEW name, NEW v, NEW new, SavedAs(v, w, u, new),
         \A n \in new : \E l \in w.loaded \cup w.rows : SameLink(n, l),
         \A n \in new : n.uid = Own(n.provider, uid, name)
  PROVE  /\ UidStep(v, w, u, uid, name)
         /\ RowsSaved(v, w, new)
<1>1. /\ Sane(v, u)
      /\ v.ok => w.ok
      /\ \A k \in v.rows : \E l \in w.rows :
           SameLink(k, l) /\ (k = l \/ \E n \in new : n.id = l.id /\ k.uid = n.uid)
      /\ \A l \in w.rows : \E k \in v.rows : SameLink(k, l)
  BY SaveFacts DEF SavedAs
<1>2. \A n \in new : \A l \in w.rows : n.id = l.id => SameLink(n, l)
  BY DEF Agree, Sane, IdsDiffer, SameLink
<1>3. \A k \in v.rows : \E l \in w.rows :
        SameLink(k, l) /\ (k = l \/ \E n \in new : SameLink(n, k) /\ k.uid = n.uid)
  BY <1>1, <1>2 DEF SameLink
<1>4. \A k \in v.rows : \E l \in w.rows :
        SameLink(k, l) /\ (k = l \/ (k.user = u /\ k.uid = Own(k.provider, uid, name)))
  <2>1. \A n \in new : n.user = u
    BY DEF SavedAs
  <2>2. \A k \in v.rows, n \in new : SameLink(n, k) /\ k.uid = n.uid => k.user = u /\ k.uid = Own(k.provider, uid, name)
    BY <2>1 DEF SameLink
  <2> SUFFICES ASSUME NEW k \in v.rows
               PROVE  \E l \in w.rows : SameLink(k, l) /\ (k = l \/ (k.user = u /\ k.uid = Own(k.provider, uid, name)))
    OBVIOUS
  <2>3. PICK l \in w.rows : SameLink(k, l) /\ (k = l \/ \E n \in new : SameLink(n, k) /\ k.uid = n.uid)
    BY <1>3
  <2>4. k = l \/ (k.user = u /\ k.uid = Own(k.provider, uid, name))
    BY <2>2, <2>3
  <2> QED
    BY <2>3, <2>4
<1>5. ProvidersOf(u, v.rows) = ProvidersOf(u, w.rows)
  BY <1>1 DEF ProvidersOf, Of, SameLink
<1> QED
  BY <1>1, <1>3, <1>4, <1>5 DEF UidStep, RowsSaved

(* The links removed and made for the authenticators of a request.         *)
MadeAs(v, w, u, authenticators, uid, name) ==
  /\ Sane(v, u) /\ Agree(v) /\ v.loaded = w.loaded /\ v.prefetched = w.prefetched
  /\ ProvidersOf(u, v.rows) = authenticators
  /\ \A k \in v.rows :
       \/ k \in w.rows /\ (k.user = u => k.provider \in authenticators)
       \/ /\ k.user = u /\ k.provider \in authenticators \ ProvidersOf(u, w.rows)
          /\ k.uid = Own(k.provider, uid, name)
  /\ \A l \in w.rows : l.user # u \/ l.provider \in authenticators => l \in v.rows
  /\ \A k, m \in v.rows \ w.rows : k.provider = m.provider => k = m
  /\ v.ok => w.ok
  /\ w.ok /\ Unique(v.rows)
       /\ (\A p \in authenticators \ ProvidersOf(u, w.rows) :
             ~Conflict(u, p, uid, w.rows) /\ Own(p, uid, name) # None) => v.ok

LEMMA MadeStep ==
  ASSUME NEW u \in Users, NEW w, Sane(w, u), Agree(w), PendingFinite, NEW authenticators \in SUBSET Providers,
         NEW uid \in Uids \cup {None}, NEW name \in Names
  PROVE  MadeAs(Made(w, u, authenticators, uid, name), w, u, authenticators, uid, name)
<1> DEFINE v == Made(w, u, authenticators, uid, name)
           current == ProvidersOf(u, w.rows)
           uids == [p \in authenticators \ current |-> uid]
<1>1. PICK y : /\ Sane(v, u) /\ y.loaded = w.loaded /\ y.prefetched = w.prefetched
               /\ y.rows = {l \in w.rows : ~(l.user = u /\ l.provider \in current \ authenticators)}
               /\ y.ok <=> w.ok
               /\ ProvidersOf(u, y.rows) = current \cap authenticators
               /\ Extends(v, y, u, authenticators \ current, uids, name)
  BY MadeFacts
<1> HIDE DEF v
<1>2. \A p \in authenticators \ current : uids[p] = uid
  OBVIOUS
<1> HIDE DEF uids
<1>3. \A l \in w.rows : l.user = u => l.provider \in current
  BY DEF ProvidersOf, Of
<1> HIDE DEF current
<1>4. /\ v.loaded = w.loaded /\ v.prefetched = w.prefetched /\ ProvidersOf(u, v.rows) = authenticators
      /\ v.ok => w.ok
  BY <1>1 DEF Extends
<1>5. Agree(v)
  BY <1>1, <1>4 DEF Agree, Extends
<1>6. \A k \in v.rows :
        \/ k \in w.rows /\ (k.user = u => k.provider \in authenticators)
        \/ /\ k.user = u /\ k.provider \in authenticators \ current
           /\ k.uid = Own(k.provider, uid, name)
  BY <1>1, <1>2, <1>3 DEF Extends
<1>7. \A l \in w.rows : l.user # u \/ l.provider \in authenticators => l \in v.rows
  BY <1>1 DEF Extends
<1>8. \A k, m \in v.rows \ w.rows : k.provider = m.provider => k = m
  BY <1>1 DEF Extends
<1>9. ASSUME w.ok, Unique(v.rows),
             \A p \in authenticators \ current : ~Conflict(u, p, uid, w.rows) /\ Own(p, uid, name) # None
      PROVE  v.ok
  <2>1. \A p \in authenticators \ current : ~Conflict(u, p, uids[p], y.rows) /\ Own(p, uids[p], name) # None
    BY <1>1, <1>2, <1>9 DEF Conflict
  <2> QED
    BY <1>1, <1>9, <2>1 DEF Extends
<1> QED
  BY <1>1, <1>4, <1>5, <1>6, <1>7, <1>8, <1>9 DEF v, current, MadeAs

(* What the deprecated fields come to.                                     *)
LegacyAs(v, w, u, authenticators, name) ==
  /\ ProvidersOf(u, v.rows) = IF authenticators = None THEN ProvidersOf(u, w.rows) ELSE authenticators
  /\ \A k \in v.rows : k.user = u /\ k.provider = Local => k.uid = name \/ k \in w.rows
  /\ w.ok

LEMMA LegacyStep ==
  ASSUME NEW u \in Users, NEW w, Sane(w, u), w.loaded = Of(u, w.rows), PendingFinite,
         NEW authenticators \in (SUBSET Providers) \cup {None},
         NEW uid \in Uids \cup {None}, NEW name \in Names, NEW last,
         LegacyProcessed(w, u, authenticators, uid, name, last).ok
  PROVE  LegacyAs(LegacyProcessed(w, u, authenticators, uid, name, last), w, u, authenticators, name)
<1> DEFINE v == LegacyProcessed(w, u, authenticators, uid, name, last)
<1>1. Agree(w)
  BY DEF Agree, Sane, IdsDiffer, Of, SameLink
<1>2. CASE authenticators = {}
  <2> DEFINE current == ProvidersOf(u, w.rows)
  <2>1. v = Removed(w, u, current)
    BY <1>2 DEF LegacyProcessed
  <2>2. {} # None
    BY AccountsAssumption
  <2> HIDE DEF v
  <2>3. /\ v.rows = {l \in w.rows : ~(l.user = u /\ l.provider \in current)} /\ (v.ok <=> w.ok)
        /\ ProvidersOf(u, v.rows) = current \ current
    <3> HIDE DEF current
    <3> QED
      BY <2>1, RemovedFacts DEF current
  <2> QED
    BY <1>2, <2>2, <2>3 DEF v, LegacyAs
<1>3. CASE authenticators \notin {{}, None}
  <2> DEFINE m == Made(w, u, authenticators, uid, name)
  <2>1. v = UidsUpdated(m, u, uid, name)
    BY <1>3 DEF LegacyProcessed, Made
  <2>2. /\ Sane(m, u) /\ Agree(m) /\ ProvidersOf(u, m.rows) = authenticators /\ (m.ok => w.ok)
        /\ \A k \in m.rows : k \in w.rows \/ k.uid = Own(k.provider, uid, name)
    <3>1. MadeAs(m, w, u, authenticators, uid, name)
      BY <1>1, <1>3, MadeStep
    <3> HIDE DEF m
    <3> QED
      BY <3>1 DEF MadeAs
  <2> HIDE DEF m, v
  <2>3. PICK new : UidsSaved(v, m, u, uid, name, new)
    BY <2>1, <2>2, UidsUpdatedFacts
  <2>4. /\ SavedAs(v, m, u, new) /\ \A n \in new : n.uid = Own(n.provider, uid, name)
        /\ \A n \in new : \E l \in m.loaded \cup m.rows : SameLink(n, l)
    BY <2>3 DEF Of, UidsSaved
  <2>5. UidStep(v, m, u, uid, name)
    BY <2>2, <2>4, SaveStep
  <2> QED
    BY <1>3, <2>2, <2>5 DEF UidStep, SameLink, Own, v, LegacyAs
<1>4. CASE authenticators = None /\ uid # None
  <2>1. v = LastUpdated(w, u, uid, name, last)
    BY <1>4, AccountsAssumption DEF LegacyProcessed
  <2>2. v.ok
    OBVIOUS
  <2> HIDE DEF v
  <2>3. PICK new : /\ SavedAs(v, w, u, new)
                   /\ \A n \in new : \E l \in w.rows : SameLink(n, l)
                   /\ \A n \in new : n.uid = Own(n.provider, uid, name)
    BY <1>4, <2>1, <2>2, LastUpdatedFacts
  <2>4. UidStep(v, w, u, uid, name)
    BY <1>1, <2>3, SaveStep
  <2> QED
    BY <1>4, <2>2, <2>4 DEF UidStep, SameLink, Own, v, LegacyAs
<1>5. CASE authenticators = None /\ uid = None
  BY <1>5, AccountsAssumption DEF LegacyProcessed, LegacyAs
<1> QED
  BY <1>2, <1>3, <1>4, <1>5

(* A request that only takes authenticators away changes no other uid: if  *)
(* it were to, it would meet a link that it has removed, and fail.         *)
LEMMA RemovingStep ==
  ASSUME NEW u \in Users, NEW w, Sane(w, u), w.loaded = Of(u, w.rows), w.prefetched, PendingFinite,
         NEW authenticators \in SUBSET Providers, authenticators # {},
         authenticators \subseteq ProvidersOf(u, w.rows), authenticators # ProvidersOf(u, w.rows),
         NEW uid \in Uids \cup {None}, NEW name \in Names, NEW last,
         LegacyProcessed(w, u, authenticators, uid, name, last).ok
  PROVE  \A k \in Of(u, LegacyProcessed(w, u, authenticators, uid, name, last).rows) :
           k.provider # Local => k \in w.rows
<1> DEFINE v == LegacyProcessed(w, u, authenticators, uid, name, last)
           m == Made(w, u, authenticators, uid, name)
<1>1. Agree(w)
  BY DEF Agree, Sane, IdsDiffer, Of, SameLink
<1>2. v = UidsUpdated(m, u, uid, name) /\ v.ok
  BY AccountsAssumption DEF LegacyProcessed, Made
<1>3. /\ Sane(m, u) /\ Agree(m) /\ m.loaded = w.loaded /\ m.prefetched = w.prefetched
      /\ ProvidersOf(u, m.rows) = authenticators
      /\ \A k \in m.rows : \/ k \in w.rows
                           \/ k.provider \in authenticators \ ProvidersOf(u, w.rows)
  <2>1. MadeAs(m, w, u, authenticators, uid, name)
    BY <1>1, MadeStep
  <2> HIDE DEF m
  <2> QED
    BY <2>1 DEF MadeAs
<1> HIDE DEF m, v
<1>4. \A k \in m.rows : k \in w.rows
  BY <1>3
<1> DEFINE keep == uid = None \/ uid \in UidsOf(u, m.rows)
<1>5. PICK new : UidsSaved(v, m, u, uid, name, new)
  BY <1>2, <1>3, UidsUpdatedFacts
<1>6. keep
  <2> SUFFICES ASSUME ~keep PROVE FALSE
    OBVIOUS
  <2>1. PICK l \in w.loaded : l.provider \notin authenticators
    BY DEF ProvidersOf
  <2>2. \E n \in new : n.id = l.id
    BY <1>3, <1>5 DEF UidsSaved
  <2>3. \A n \in new : \E x \in m.rows : x.id = n.id
    BY <1>2, <1>3, <1>5, SaveFacts DEF SavedAs, UidsSaved
  <2>4. PICK x \in m.rows : x.id = l.id
    BY <2>2, <2>3
  <2>5. x.provider = l.provider /\ x.user = l.user /\ l.user = u
    BY <1>3, <2>4 DEF Agree, SameLink, Of
  <2>6. x.provider \in ProvidersOf(u, m.rows)
    BY <2>5 DEF ProvidersOf, Of
  <2> QED
    BY <1>3, <2>1, <2>5, <2>6
<1>7. \A n \in new : \E l \in m.loaded \cup m.rows : SameLink(n, l)
  BY <1>5 DEF Of, UidsSaved
<1>8. \A k \in v.rows : \E l \in m.rows : k = l \/ \E n \in new : SameLink(n, k)
  <2>1. SavedAs(v, m, u, new) /\ \A n \in new : n.uid = Own(n.provider, uid, name)
    BY <1>5 DEF UidsSaved
  <2>2. RowsSaved(v, m, new)
    BY <1>3, <1>7, <2>1, SaveStep
  <2> QED
    BY <2>2 DEF RowsSaved
<1>9. \A k \in v.rows : k.provider # Local => k \in m.rows
  BY <1>5, <1>6, <1>8 DEF SameLink, UidsSaved
<1> QED
  BY <1>4, <1>9 DEF v, Of

-----------------------------------------------------------------------------
(* What is stored is what was asked for.                                   *)

(* The last step of a transaction: the new field, if there is one.         *)
LEMMA AssociatedStep ==
  ASSUME AccountsInv, NEW q \in pending, Outcome(q).ok
  PROVE  /\ LegacyDone(q).ok
         /\ q.req.associated = None => Outcome(q) = LegacyDone(q)
         /\ q.req.associated # None =>
              /\ ProvidersOf(q.req.user, Outcome(q).rows) = DOMAIN q.req.associated
              /\ \A k \in Of(q.req.user, Outcome(q).rows) : k.provider = Local => k.uid = NameAfter(q)
<1> DEFINE u == q.req.user
           a == q.req.associated
           name == NameAfter(q)
           w == LegacyDone(q)
           o == Outcome(q)
<1>1. /\ u \in Users /\ name \in Names \cup {None}
      /\ a = None \/ (DOMAIN a \subseteq Providers /\ \A p \in DOMAIN a : a[p] \in Uids)
  BY SoundFacts, NameAfterType DEF AccountsInv
<1>2. PendingFinite /\ Sane(w, u) /\ o = AssociatedProcessed(w, u, a, name) /\ o.ok
  BY StartFacts, OutcomeSane, OutcomeStages
<1> HIDE DEF u, a, name, w, o
<1>3. CASE a = None
  <2>1. o = w
    BY <1>2, <1>3 DEF AssociatedProcessed
  <2> QED
    BY <1>2, <1>3, <2>1 DEF u, a, name, w, o
<1>4. CASE a # None
  <2>1. PICK y : /\ y.rows = {l \in w.rows : l.user # u} /\ (y.ok <=> w.ok /\ NoConflicts(u, a, w.rows))
                 /\ ProvidersOf(u, y.rows) = {} /\ Extends(o, y, u, DOMAIN a, a, name)
    BY <1>1, <1>2, <1>4, AssociatedFacts
  <2>2. w.ok /\ ProvidersOf(u, o.rows) = DOMAIN a
    BY <1>2, <2>1 DEF Extends
  <2>3. \A k \in Of(u, o.rows) : k.provider = Local => k.uid = name
    BY <2>1 DEF Extends, Of, Own
  <2> QED
    BY <1>4, <2>2, <2>3 DEF u, a, name, w, o
<1> QED
  BY <1>3, <1>4

LEMMA DeterminedMatches ==
  ASSUME AccountsInv, \A u \in Users : Matching(u), NEW name
  PROVE  Determined(Local, name, rows) = name
<1>1. CASE \E l \in rows : l.provider = Local /\ l.uid = name
  <2> DEFINE k == CHOOSE l \in rows : l.provider = Local /\ l.uid = name
  <2>1. k \in rows /\ k.provider = Local /\ k.uid = name
    BY <1>1
  <2>2. Determined(Local, name, rows) = username[k.user]
    BY <1>1 DEF Determined
  <2> HIDE DEF k
  <2>3. k.user \in Users
    BY <2>1 DEF AccountsInv, DatabaseOK, Links
  <2>4. k.uid = username[k.user]
    BY <2>1, <2>3 DEF Matching, Of
  <2> QED
    BY <2>1, <2>2, <2>4
<1>2. CASE ~\E l \in rows : l.provider = Local /\ l.uid = name
  BY <1>2 DEF Determined
<1> QED
  BY <1>1, <1>2

(* A uid alone changes the link of the last login and no other.            *)
LEMMA LastStep ==
  ASSUME NEW u, NEW w, Sane(w, u), Agree(w), NEW uid \in Uids, NEW name \in Names, NEW last,
         LastUpdated(w, u, uid, name, last).ok,
         NEW k \in LastUpdated(w, u, uid, name, last).rows, k.provider # Local
  PROVE  k \in w.rows \/ (k.provider = last /\ k.uid = uid)
<1> DEFINE v == LastUpdated(w, u, uid, name, last)
<1>1. v.ok /\ k \in v.rows
  OBVIOUS
<1>2. \/ ~v.ok
      \/ \E new : /\ SavedAs(v, w, u, new)
                  /\ \A n \in new : \E l \in w.rows : SameLink(n, l)
                  /\ \A n \in new : n.uid = Own(n.provider, uid, name) /\ n.provider = last
  BY LastUpdatedFacts
<1> HIDE DEF v
<1>3. PICK new : /\ SavedAs(v, w, u, new)
                 /\ \A n \in new : \E l \in w.rows : SameLink(n, l)
                 /\ \A n \in new : n.uid = Own(n.provider, uid, name) /\ n.provider = last
  BY <1>1, <1>2
<1>4. RowsSaved(v, w, new)
  BY <1>3, SaveStep
<1> QED
  BY <1>1, <1>3, <1>4 DEF RowsSaved, SameLink, Own

LEMMA CommittedAsAsked ==
  ASSUME AccountsInv, NEW q \in pending, Apply(q), Current(q), Commits(q)
  PROVE  LocalUidKept(q) /\ ProvidersAsAsked(q) /\ UidsAsAsked(q)
<1> DEFINE u == q.req.user
           a == q.req.associated
           ps == q.authenticators
           uid == q.uid
           last == q.lastFrom
           name == NewName(q)
           saved == SavedName(q)
           b == Begun(q)
           w == LegacyDone(q)
           o == Outcome(q)
<1>1. /\ u \in Users /\ ps \in (SUBSET Providers) \cup {None} /\ uid \in Uids \cup {None} /\ name \in Names
      /\ q.username = None => q.rows = {}
  BY SoundFacts DEF AccountsInv
<1>2. /\ PendingFinite /\ Sane(b, u) /\ b.loaded = Of(u, b.rows) /\ (b.prefetched <=> q.username # None)
      /\ ProvidersOf(u, b.rows) = ProvidersOf(u, q.rows)
      /\ \A k \in Of(u, b.rows) : k.provider # Local \/ ~Renaming(q) => k \in q.rows
      /\ OneLocal(q.rows) /\ Renaming(q) =>
           \A k \in Of(u, b.rows) : k.provider = Local => k.uid = Determined(Local, name, rows)
  BY StartFacts, BegunSane, BegunFacts
<1>3. w = LegacyProcessed(b, u, ps, uid, name, last)
  BY DEF LegacyDone
<1>4. /\ w.ok
      /\ a = None => o = w
      /\ a # None => /\ ProvidersOf(u, o.rows) = DOMAIN a
                     /\ \A k \in Of(u, o.rows) : k.provider = Local => k.uid = NameAfter(q)
  BY AssociatedStep DEF Commits
<1>5. q.rows = Of(u, rows) /\ username[u] = q.username /\ username \in [Users -> Names \cup {None}]
  BY DEF Current, AccountsInv, DatabaseOK
<1>6. rows' = o.rows /\ username'[u] = saved /\ saved = name
  BY <1>1, <1>5 DEF Apply, SavedName, NameAfter, NewName
<1>7. Renaming(q) <=> q.username # None /\ name # q.username /\ a = None
  BY DEF Renaming
<1> HIDE DEF b, w, o
<1>8. /\ ProvidersOf(u, w.rows) = IF ps = None THEN ProvidersOf(u, b.rows) ELSE ps
      /\ \A k \in w.rows : k.user = u /\ k.provider = Local => k.uid = name \/ k \in b.rows
  <2> HIDE DEF u, ps, uid, name, last
  <2>1. Sane(b, u) /\ b.loaded = Of(u, b.rows) /\ PendingFinite
    BY <1>2
  <2>2. LegacyProcessed(b, u, ps, uid, name, last).ok
    BY <1>3, <1>4
  <2>3. LegacyAs(w, b, u, ps, name)
    BY <1>1, <1>3, <2>1, <2>2, LegacyStep
  <2> QED
    BY <2>3 DEF LegacyAs
<1>9. LocalUidKept(q)
  <2> SUFFICES ASSUME \A x \in Users : Matching(x),
                      NEW k \in Of(u, rows'), k.provider = Local
               PROVE  k.uid = name \/ RenamedTooLate(q)
    BY <1>6 DEF LocalUidKept, Matching
  <2>1. CASE a # None
    <3>1. k.uid = NameAfter(q) /\ Local \in DOMAIN a
      BY <1>4, <1>6, <2>1 DEF ProvidersOf
    <3>2. ps # {} => NameAfter(q) = name
      BY DEF NameAfter
    <3> QED
      BY <1>6, <2>1, <3>1, <3>2 DEF RenamedTooLate
  <2>2. CASE a = None
    <3>1. k \in w.rows /\ k.user = u
      BY <1>4, <1>6, <2>2 DEF Of
    <3>2. CASE k \in b.rows
      <4>1. k \in Of(u, b.rows)
        BY <3>1, <3>2 DEF Of
      <4>2. CASE Renaming(q)
        <5>1. OneLocal(q.rows)
          BY <1>1, <1>5 DEF OneLocal, Matching, Of, AccountsInv, DatabaseOK, Unique
        <5> QED
          BY <1>2, <4>1, <4>2, <5>1, DeterminedMatches
      <4>3. CASE ~Renaming(q)
        <5>1. k \in q.rows
          BY <1>2, <4>1, <4>3
        <5>2. k.uid = username[u]
          BY <1>1, <1>5, <5>1 DEF Matching
        <5> QED
          BY <1>1, <1>5, <1>7, <2>2, <4>3, <5>1, <5>2
      <4> QED
        BY <4>2, <4>3
    <3> QED
      BY <1>8, <3>1, <3>2
  <2> QED
    BY <2>1, <2>2
<1>10. ProvidersAsAsked(q)
  BY <1>2, <1>4, <1>6, <1>8 DEF ProvidersAsAsked
<1>11. UidsAsAsked(q)
  <2> SUFFICES ASSUME q.req.uid = None, a = None,
                      NEW k \in Of(u, rows'), k.provider # Local
               PROVE  k \in rows \/ (q.req.authenticators = Null /\ k.provider = last /\ k.uid = uid)
    BY DEF UidsAsAsked
  <2>1. k \in Of(u, w.rows)
    BY <1>4, <1>6
  <2>2. k \in b.rows => k \in rows
    BY <1>2, <1>5, <2>1 DEF Of
  <2>3. CASE ps = None /\ uid = None
    <3>1. w = b
      BY <1>3, <2>3, AccountsAssumption DEF LegacyProcessed
    <3> QED
      BY <2>1, <2>2, <3>1 DEF Of
  <2>6. CASE ps = None /\ uid # None
    <3>1. q.req.authenticators = Null
      BY <2>6 DEF AccountsInv, Sound, EffectiveUids, Asked
    <3>2. w = LastUpdated(b, u, uid, name, last)
      BY <1>3, <2>6, AccountsAssumption DEF LegacyProcessed
    <3>3. k \in b.rows \/ (k.provider = last /\ k.uid = uid)
      <4> HIDE DEF u, ps, uid, name, last
      <4>1. Agree(b)
        BY <1>2 DEF Agree, Sane, IdsDiffer, Of, SameLink
      <4>2. k \in w.rows /\ w.ok /\ uid \in Uids
        BY <1>1, <1>4, <2>1, <2>6 DEF Of
      <4> QED
        BY <1>1, <1>2, <3>2, <4>1, <4>2, LastStep
    <3> QED
      BY <2>2, <3>1, <3>3
  <2>4. CASE ps = {}
    <3>1. {} # None
      BY AccountsAssumption
    <3>2. ProvidersOf(u, w.rows) = {}
      BY <1>8, <2>4, <3>1
    <3> QED
      BY <2>1, <3>2 DEF ProvidersOf
  <2>5. CASE ps \notin {{}, None}
    <3>1. LegacyValid(q.req, q.at[1], q.at[2]) /\ q.rows = Of(u, q.at[2]) /\ ps = Asked(q.req)
      BY DEF AccountsInv, Sound, Valid
    <3>2. ProvidersOf(u, q.at[2]) = ProvidersOf(u, b.rows)
      BY <1>2, <3>1 DEF ProvidersOf, Of
    <3>3. ps \subseteq ProvidersOf(u, b.rows) /\ ps # ProvidersOf(u, b.rows) /\ ps \in SUBSET Providers
      BY <1>1, <2>5, <3>1, <3>2 DEF LegacyValid, Given
    <3>4. q.username # None
      BY <1>1, <1>2, <3>3 DEF ProvidersOf, Of
    <3>5. \A x \in Of(u, w.rows) : x.provider # Local => x \in b.rows
      <4> HIDE DEF u, ps, uid, name, last
      <4>1. b.prefetched /\ ps # {}
        BY <1>2, <2>5, <3>4
      <4> QED
        BY <1>1, <1>2, <1>3, <1>4, <3>3, <4>1, RemovingStep
    <3> QED
      BY <2>1, <2>2, <3>5
  <2> QED
    BY <2>3, <2>4, <2>5, <2>6
<1> QED
  BY <1>9, <1>10, <1>11

(* A request leaves only by being applied.                                 *)
LEMMA AppliedStep ==
  ASSUME [AccountsNext]_accountVars, NEW q \in pending, Applied(q)
  PROVE  Apply(q)
<1>1. CASE UNCHANGED accountVars
  BY <1>1 DEF accountVars, Applied
<1>2. CASE \E r \in Requests : Receive(r)
  BY <1>2 DEF Receive, Applied
<1>3. CASE \E x \in pending : Apply(x)
  BY <1>3 DEF Apply, Applied
<1>4. CASE \E u \in Users : Destroy(u)
  BY <1>4 DEF Destroy, Applied
<1> QED
  BY <1>1, <1>2, <1>3, <1>4 DEF AccountsNext

(***************************************************************************)
(* For every set of users, names and requests: what is stored for a user   *)
(* that nobody else has changed is what the request asked for, whatever    *)
(* fields it combines and whatever other requests are under way            *)
(* (UserSerializer.update and _update_users_authenticators).               *)
(***************************************************************************)
THEOREM WhatIsAskedIsStored == AccountsSpec => StoredAsAsked
<1> DEFINE Step == \A q \in pending : Applied(q) /\ Current(q) =>
                     LocalUidKept(q) /\ ProvidersAsAsked(q) /\ UidsAsAsked(q)
<1>1. AccountsInv /\ [AccountsNext]_accountVars => [Step]_accountVars
  <2> SUFFICES ASSUME AccountsInv, [AccountsNext]_accountVars,
                      NEW q \in pending, Applied(q), Current(q)
               PROVE  LocalUidKept(q) /\ ProvidersAsAsked(q) /\ UidsAsAsked(q)
    OBVIOUS
  <2>1. Apply(q)
    BY AppliedStep
  <2>2. CASE Commits(q)
    BY <2>1, <2>2, CommittedAsAsked
  <2>3. CASE ~Commits(q)
    <3>1. rows' = rows /\ username' = username
      BY <2>1, <2>3 DEF Apply
    <3>2. q.req.user \in Users
      BY SoundFacts DEF AccountsInv
    <3> QED
      BY <2>3, <3>1, <3>2 DEF LocalUidKept, ProvidersAsAsked, UidsAsAsked, Matching, Of
  <2> QED
    BY <2>2, <2>3
<1>2. AccountsSpec => [][Step]_accountVars
  BY <1>1, AccountsInvariant, PTL DEF AccountsSpec
<1> QED
  BY <1>2 DEF StoredAsAsked

-----------------------------------------------------------------------------
(* What was found valid is carried out.                                    *)

(* The links are those of the table but for the user's own, of which there *)
(* is one for each authenticator, with a uid that no one else has.         *)
Fit(rs, u) ==
  /\ Others(rs, u) = Others(rows, u)
  /\ \A l, m \in Of(u, rs) : l.provider = m.provider => l = m
  /\ \A l \in Of(u, rs) : ~Conflict(u, l.provider, l.uid, rows)

LEMMA FitUnique ==
  ASSUME NEW u, NEW rs, Fit(rs, u), Unique(rows)
  PROVE  Unique(rs) /\ \A p, x : Conflict(u, p, x, rs) <=> Conflict(u, p, x, rows)
<1>1. \A l : l.user # u => (l \in rs <=> l \in rows)
  BY DEF Fit, Others
<1>2. \A p, x : Conflict(u, p, x, rs) <=> Conflict(u, p, x, rows)
  BY <1>1 DEF Conflict
<1>3. ASSUME NEW l \in rs, NEW m \in rs, l.provider = m.provider, l.uid = m.uid
      PROVE  l = m
  <2>1. CASE l.user = u /\ m.user = u
    BY <1>3, <2>1 DEF Fit, Of
  <2>2. CASE l.user # u /\ m.user # u
    BY <1>1, <1>3, <2>2 DEF Unique
  <2>3. CASE l.user = u /\ m.user # u
    BY <1>1, <1>3, <2>3 DEF Fit, Of, Conflict
  <2>4. CASE l.user # u /\ m.user = u
    BY <1>1, <1>3, <2>4 DEF Fit, Of, Conflict
  <2> QED
    BY <2>1, <2>2, <2>3, <2>4
<1> QED
  BY <1>2, <1>3 DEF Unique

(* Rows to be saved that are in the table, with uids that are free.        *)
Savable(w, u, uid, name, new) ==
  \A n \in new :
    /\ \E l \in w.loaded \cup w.rows : SameLink(n, l)
    /\ n.uid = Own(n.provider, uid, name)
    /\ ~Conflict(u, n.provider, n.uid, rows) /\ \E l \in w.rows : l.id = n.id

LEMMA SaveFits ==
  ASSUME NEW u, NEW w, Sane(w, u), Agree(w), w.ok, Unique(rows), Fit(w.rows, u),
         NEW uid, NEW name, NEW v, NEW new, SavedAs(v, w, u, new), Savable(w, u, uid, name, new)
  PROVE  v.ok
<1>0. /\ \A n \in new : \E l \in w.loaded \cup w.rows : SameLink(n, l)
      /\ \A n \in new : n.uid = Own(n.provider, uid, name)
      /\ \A n \in new : ~Conflict(u, n.provider, n.uid, rows) /\ \E l \in w.rows : l.id = n.id
  BY DEF Savable
<1>1. /\ v.ok <=> w.ok /\ (\A n \in new : \E l \in w.rows : l.id = n.id) /\ Unique(v.rows)
      /\ \A l \in w.rows : \E k \in v.rows : SameLink(k, l)
      /\ Sane(v, u)
  BY SaveFacts DEF SavedAs
<1>2. RowsSaved(v, w, new)
  BY <1>0, SaveStep
<1>3. /\ \A n \in new : n.user = u
      /\ IdsDiffer(v.rows) /\ IdsDiffer(w.rows)
  BY <1>1 DEF SavedAs, Sane
<1>4. \A k \in v.rows : k.user # u => k \in w.rows
  BY <1>2, <1>3 DEF RowsSaved, SameLink
<1>5. \A l \in w.rows : l.user # u => l \in v.rows
  BY <1>1, <1>3, <1>4 DEF SameLink, IdsDiffer
<1>6. Others(v.rows, u) = Others(rows, u)
  BY <1>4, <1>5 DEF Others, Fit
<1>7. \A l, m \in Of(u, v.rows) : l.provider = m.provider => l = m
  BY <1>2, <1>3 DEF RowsSaved, SameLink, Fit, Of, IdsDiffer
<1>8. \A l \in Of(u, v.rows) : ~Conflict(u, l.provider, l.uid, rows)
  BY <1>0, <1>2 DEF RowsSaved, SameLink, Fit, Of
<1>9. Unique(v.rows)
  BY <1>6, <1>7, <1>8, FitUnique DEF Fit
<1> QED
  BY <1>0, <1>1, <1>9

LEMMA MadeFits ==
  ASSUME NEW u, NEW w, w.ok, Unique(rows), Fit(w.rows, u),
         NEW ps, NEW uid, NEW name, NEW v, MadeAs(v, w, u, ps, uid, name),
         ~Conflict(u, Local, name, rows),
         \A p \in ps \ ProvidersOf(u, w.rows) : ~Conflict(u, p, uid, rows) /\ Own(p, uid, name) # None
  PROVE  v.ok /\ Fit(v.rows, u)
<1>1. \A k \in v.rows :
        \/ k \in w.rows /\ (k.user = u => k.provider \in ps)
        \/ /\ k.user = u /\ k.provider \in ps \ ProvidersOf(u, w.rows)
           /\ k.uid = Own(k.provider, uid, name)
  BY DEF MadeAs
<1>2. \A l \in w.rows : l.user # u => l \in v.rows
  BY DEF MadeAs
<1>3. Others(v.rows, u) = Others(rows, u)
  BY <1>1, <1>2 DEF Others, Fit
<1>4. \A l \in w.rows : l.user = u => l.provider \in ProvidersOf(u, w.rows)
  BY DEF ProvidersOf, Of
<1>5. \A l, m \in Of(u, v.rows) : l.provider = m.provider => l = m
  <2> SUFFICES ASSUME NEW l \in v.rows, NEW m \in v.rows, l.user = u, m.user = u, l.provider = m.provider
               PROVE  l = m
    BY DEF Of
  <2>1. CASE l \in w.rows /\ m \in w.rows
    BY <2>1 DEF Fit, Of
  <2>2. CASE l \notin w.rows /\ m \notin w.rows
    BY <2>2 DEF MadeAs
  <2>3. CASE l \in w.rows /\ m \notin w.rows
    BY <1>1, <1>4, <2>3
  <2>4. CASE l \notin w.rows /\ m \in w.rows
    BY <1>1, <1>4, <2>4
  <2> QED
    BY <2>1, <2>2, <2>3, <2>4
<1>6. \A l \in Of(u, v.rows) : ~Conflict(u, l.provider, l.uid, rows)
  <2> SUFFICES ASSUME NEW l \in v.rows, l.user = u PROVE ~Conflict(u, l.provider, l.uid, rows)
    BY DEF Of
  <2>1. CASE l \in w.rows
    BY <2>1 DEF Fit, Of
  <2>2. CASE l \notin w.rows
    BY <1>1, <2>2 DEF Own
  <2> QED
    BY <2>1, <2>2
<1>7. Fit(v.rows, u)
  BY <1>3, <1>5, <1>6 DEF Fit
<1>8. Unique(v.rows) /\ \A p \in ps \ ProvidersOf(u, w.rows) : ~Conflict(u, p, uid, w.rows)
  BY <1>7, FitUnique
<1>9. v.ok
  BY <1>8 DEF MadeAs
<1> QED
  BY <1>7, <1>9

(* A request for which nothing has changed, in none of the cases that      *)
(* validate() does not foresee.                                            *)
Foreseen(q) == Alone(q) /\ ~Unforeseen(q)

LEMMA ForeseenFacts ==
  ASSUME AccountsInv, NEW q \in pending, Foreseen(q)
  PROVE  LET u == q.req.user IN
         /\ Current(q) /\ Valid(q.req, username, rows) /\ q.uid \in EffectiveUids(q.req, username, rows)
         /\ ~Conflict(u, Local, NewName(q), rows) /\ ~Conflict(u, Local, q.username, rows)
         /\ \A l, m \in q.rows : l.provider = m.provider => l = m
         /\ \A l \in q.rows : ~Conflict(u, l.provider, l.uid, rows)
         /\ Unique(rows)
<1>1. Sound(q) /\ Unique(rows) /\ DatabaseOK(username, rows, lastFrom)
  BY DEF AccountsInv, DatabaseOK
<1>2. q.at[1] = username /\ q.at[2] = rows /\ q.at[3] = lastFrom
  BY DEF Foreseen, Alone
<1>3. Current(q) /\ Valid(q.req, username, rows) /\ q.uid \in EffectiveUids(q.req, username, rows)
  BY <1>1, <1>2 DEF Sound, Current
<1>4. /\ ~Conflict(q.req.user, Local, NewName(q), rows) /\ ~Conflict(q.req.user, Local, q.username, rows)
      /\ \A l, m \in q.rows : l.provider = m.provider => l = m
  BY DEF Foreseen, Unforeseen, Conflict
<1>5. \A l \in q.rows : ~Conflict(q.req.user, l.provider, l.uid, rows)
  BY <1>1, <1>3 DEF Current, Of, Conflict, Unique
<1> QED
  BY <1>1, <1>3, <1>4, <1>5

LEMMA BegunFits ==
  ASSUME AccountsInv, NEW q \in pending, Foreseen(q)
  PROVE  /\ Begun(q).ok /\ Fit(Begun(q).rows, q.req.user)
         /\ Renaming(q) /\ Matching(q.req.user) => Determined(Local, NewName(q), rows) = NewName(q)
<1> DEFINE u == q.req.user
           b == Begun(q)
           d == Determined(Local, NewName(q), rows)
<1>1. /\ Current(q) /\ Unique(rows)
      /\ ~Conflict(u, Local, NewName(q), rows) /\ ~Conflict(u, Local, q.username, rows)
      /\ \A l, m \in q.rows : l.provider = m.provider => l = m
      /\ \A l \in q.rows : ~Conflict(u, l.provider, l.uid, rows)
  BY ForeseenFacts
<1>2. /\ Others(b.rows, u) = Others(rows, u)
      /\ \A k \in Of(u, b.rows) : k.provider # Local \/ ~Renaming(q) => k \in q.rows
      /\ Renaming(q) => \A k \in Of(u, b.rows) : k.provider = Local => k.uid = d
      /\ \A k \in Of(u, b.rows) : \E l \in q.rows : SameLink(k, l)
      /\ b.ok <=> Unique(b.rows)
      /\ IdsDiffer(b.rows)
  <2>1. OneLocal(q.rows)
    BY <1>1 DEF OneLocal
  <2> QED
    BY <1>1, <2>1, BegunFacts, BegunSane DEF Sane
<1>3. d \in {q.username, NewName(q)} /\ (Renaming(q) /\ Matching(u) => d = NewName(q))
  <2>1. CASE \E l \in rows : l.provider = Local /\ l.uid = NewName(q)
    <3> DEFINE k == CHOOSE l \in rows : l.provider = Local /\ l.uid = NewName(q)
    <3>1. k \in rows /\ k.provider = Local /\ k.uid = NewName(q)
      BY <2>1
    <3>2. d = username[k.user]
      BY <2>1 DEF Determined
    <3> HIDE DEF k, d
    <3>3. k.user = u
      BY <1>1, <3>1 DEF Conflict
    <3> QED
      BY <1>1, <3>1, <3>2, <3>3 DEF Current, Matching, Renaming, Of
  <2>2. CASE ~\E l \in rows : l.provider = Local /\ l.uid = NewName(q)
    BY <2>2 DEF Determined
  <2> QED
    BY <2>1, <2>2
<1> HIDE DEF b, d
<1>4. \A l, m \in Of(u, b.rows) : l.provider = m.provider => l = m
  BY <1>1, <1>2 DEF SameLink, IdsDiffer, Of
<1>5. \A l \in Of(u, b.rows) : ~Conflict(u, l.provider, l.uid, rows)
  BY <1>1, <1>2, <1>3
<1>6. Fit(b.rows, u)
  BY <1>2, <1>4, <1>5 DEF Fit
<1>7. Unique(b.rows)
  BY <1>1, <1>6, FitUnique
<1> QED
  BY <1>2, <1>3, <1>6, <1>7 DEF b, d

LEMMA NamesAreGiven == None \notin Uids /\ Names \subseteq Uids
BY AccountsAssumption DEF Uids

(* A request that names authenticators, and none of the new field.         *)
LEMMA AuthenticatorsApplied ==
  ASSUME AccountsInv, NEW q \in pending, Foreseen(q), q.req.associated = None,
         q.authenticators \notin {{}, None}
  PROVE  LegacyDone(q).ok
<1> DEFINE u == q.req.user
           ps == q.authenticators
           uid == q.uid
           name == NewName(q)
           b == Begun(q)
           m == Made(b, u, ps, uid, name)
           v == LegacyDone(q)
           current == ProvidersOf(u, b.rows)
           lost == {l \in q.rows : l.provider \notin ps}
<1>1. /\ u \in Users /\ ps \in SUBSET Providers /\ uid \in Uids \cup {None} /\ name \in Names /\ name # None
      /\ q.username = None => q.rows = {}
  <2>1. Sound(q)
    BY DEF AccountsInv
  <2> QED
    BY <2>1, SoundFacts, NamesAreGiven
<1>2. /\ Current(q) /\ LegacyValid(q.req, username, rows) /\ uid \in EffectiveUids(q.req, username, rows)
      /\ ~Conflict(u, Local, name, rows) /\ Unique(rows)
      /\ \A l, k \in q.rows : l.provider = k.provider => l = k
  BY ForeseenFacts DEF Valid
<1>3. b.ok /\ Fit(b.rows, u) /\ (Renaming(q) /\ Matching(u) => Determined(Local, name, rows) = name)
  BY BegunFits
<1>4. /\ PendingFinite /\ Sane(b, u) /\ b.loaded = Of(u, b.rows) /\ (b.prefetched <=> q.username # None)
      /\ current = ProvidersOf(u, q.rows)
      /\ \A k \in Of(u, b.rows) : k.provider # Local \/ ~Renaming(q) => k \in q.rows
      /\ Renaming(q) => \A k \in Of(u, b.rows) : k.provider = Local => k.uid = Determined(Local, name, rows)
  <2>1. OneLocal(q.rows)
    BY <1>2 DEF OneLocal
  <2> QED
    BY <1>2, <2>1, StartFacts, BegunSane, BegunFacts
<1>5. q.rows = Of(u, rows) /\ username[u] = q.username
  BY <1>2 DEF Current
<1>6. current = ProvidersOf(u, rows)
  BY <1>4, <1>5 DEF ProvidersOf, Of
<1>7. v = UidsUpdated(m, u, uid, name)
  BY DEF LegacyDone, LegacyProcessed, Made
<1>8. Agree(b)
  BY <1>4 DEF Agree, Sane, IdsDiffer, Of, SameLink
<1>9. MadeAs(m, b, u, ps, uid, name)
  <2> HIDE DEF u, ps, uid, name, b
  <2> QED
    BY <1>1, <1>4, <1>8, MadeStep
<1>10. Renaming(q) <=> q.username # None /\ name # q.username
  BY DEF Renaming
<1> HIDE DEF b, m, v
(* What validate() has seen to. *)
<1>11. \/ ps \subseteq current /\ ps # current
       \/ uid # None /\ \A p \in ps : ~Conflict(u, p, uid, rows)
  <2>1. \/ ps \subseteq current /\ ps # current
        \/ Given(q.req.uid) /\ \A p \in ps : ~Conflict(u, p, q.req.uid, rows)
    <3>1. ps = Asked(q.req)
      BY DEF AccountsInv, Sound
    <3> QED
      BY <1>2, <1>6, <3>1 DEF LegacyValid
  <2>2. Given(q.req.uid) => q.req.uid # None /\ uid = q.req.uid
    BY <1>2 DEF EffectiveUids, Given
  <2> QED
    BY <2>1, <2>2
<1>12. \A p \in ps \ current : ~Conflict(u, p, uid, rows) /\ Own(p, uid, name) # None
  BY <1>1, <1>11 DEF Own
<1>13. m.ok /\ Fit(m.rows, u)
  BY <1>2, <1>3, <1>9, <1>12, MadeFits
<1>14. Sane(m, u) /\ Agree(m) /\ m.loaded = b.loaded /\ m.prefetched = b.prefetched
  BY <1>9 DEF MadeAs
<1>15. PICK new : UidsSaved(v, m, u, uid, name, new)
  BY <1>1, <1>7, <1>14, UidsUpdatedFacts
<1> DEFINE all == IF m.prefetched THEN m.loaded ELSE Of(u, m.rows)
           keep == uid = None \/ uid \in UidsOf(u, m.rows)
<1>16. /\ SavedAs(v, m, u, new) /\ \A n \in new : n.uid = Own(n.provider, uid, name)
       /\ \A n \in new : \E l \in all : SameLink(n, l) /\ (keep => l.provider = Local /\ l.uid # name)
  BY <1>15 DEF UidsSaved
<1>17. \A n \in new : \E l \in m.loaded \cup m.rows : SameLink(n, l)
  BY <1>16 DEF Of
(* No link that is saved has gone, nor a uid that someone else has. *)
<1>18. ASSUME \A n \in new : ~Conflict(u, n.provider, n.uid, rows) /\ \E l \in m.rows : l.id = n.id
       PROVE  v.ok
  <2>1. Unique(rows) /\ SavedAs(v, m, u, new)
    BY <1>2, <1>16
  <2>2. \A n \in new : n.uid = Own(n.provider, uid, name)
    BY <1>16
  <2>3. Savable(m, u, uid, name, new)
    BY <1>17, <1>18, <2>2 DEF Savable
  <2> HIDE DEF u, ps, uid, name, all, keep, current, lost
  <2> QED
    BY <1>13, <1>14, <2>1, <2>3, SaveFits
<1>19. CASE lost = {}
  <2>1. current \subseteq ps
    BY <1>4, <1>19 DEF ProvidersOf, Of
  <2>2. \A p \in ps : ~Conflict(u, p, uid, rows)
    BY <1>11, <2>1
  <2>3. \A l \in all : l \in m.rows /\ l.provider \in ps
    <3>1. \A l \in Of(u, b.rows) : l.provider \in ps /\ l \in m.rows
      BY <1>9, <2>1 DEF ProvidersOf, Of, MadeAs
    <3>2. \A l \in Of(u, m.rows) : l.provider \in ps /\ l \in m.rows
      BY <1>9 DEF ProvidersOf, Of, MadeAs
    <3> QED
      BY <1>4, <1>14, <3>1, <3>2
  <2>4. \A n \in new : (\E l \in m.rows : l.id = n.id) /\ n.provider \in ps
    BY <1>16, <2>3 DEF SameLink
  <2>5. \A n \in new : ~Conflict(u, n.provider, n.uid, rows)
    BY <1>2, <1>16, <2>2, <2>4 DEF Own
  <2>6. v.ok
    BY <1>18, <2>4, <2>5
  <2> QED
    BY <2>6 DEF v
<1>20. CASE lost # {}
  <2> DEFINE left == {IF l.provider = Local THEN name ELSE l.uid : l \in q.rows \ lost} \cup
                     {IF p = Local THEN name ELSE uid : p \in ps \ ProvidersOf(u, rows)}
  <2>1. uid \in left /\ Matching(u)
    BY <1>20 DEF Foreseen, Unforeseen, MeetsRemoved
  <2>2. q.username # None
    BY <1>1, <1>20
  <2>3. \A k \in Of(u, b.rows) : k.provider = Local => k.uid = name
    BY <1>3, <1>4, <1>5, <1>10, <2>1, <2>2 DEF Matching
  <2>4. uid \in UidsOf(u, m.rows)
    <3>1. CASE \E l \in q.rows \ lost : uid = IF l.provider = Local THEN name ELSE l.uid
      <4>1. PICK l \in q.rows \ lost : uid = IF l.provider = Local THEN name ELSE l.uid
        BY <3>1
      <4>2. l.provider \in ps /\ l.provider \in current
        BY <1>4, <1>5 DEF ProvidersOf, Of
      <4>3. PICK k \in Of(u, b.rows) : k.provider = l.provider
        BY <4>2 DEF ProvidersOf
      <4>4. k.uid = uid
        BY <1>2, <1>4, <2>3, <4>1, <4>3
      <4>5. k \in m.rows /\ k.user = u
        BY <1>9, <4>2, <4>3 DEF MadeAs, Of
      <4> QED
        BY <4>4, <4>5 DEF UidsOf, Of
    <3>2. CASE \E p \in ps \ ProvidersOf(u, rows) : uid = IF p = Local THEN name ELSE uid
      <4>1. PICK p \in ps \ ProvidersOf(u, rows) : uid = IF p = Local THEN name ELSE uid
        BY <3>2
      <4>2. ProvidersOf(u, m.rows) = ps
        BY <1>9 DEF MadeAs
      <4>3. PICK k \in Of(u, m.rows) : k.provider = p
        BY <4>2 DEF ProvidersOf
      <4>4. k \notin b.rows
        BY <1>6, <4>3 DEF ProvidersOf, Of
      <4>5. k.uid = Own(p, uid, name)
        BY <1>9, <4>3, <4>4 DEF MadeAs, Of
      <4> QED
        BY <4>1, <4>3, <4>5 DEF UidsOf, Own
    <3> QED
      BY <2>1, <3>1, <3>2
  <2>5. new = {}
    BY <1>4, <1>14, <1>16, <2>2, <2>3, <2>4
  <2>6. v.ok
    BY <1>18, <2>5
  <2> QED
    BY <2>6 DEF v
<1> QED
  BY <1>19, <1>20

(* A request with the new field alone.                                     *)
LEMMA AssociatedApplied ==
  ASSUME AccountsInv, NEW q \in pending, Foreseen(q), q.req.associated # None
  PROVE  Outcome(q).ok
<1> DEFINE u == q.req.user
           a == q.req.associated
           name == NewName(q)
           w == LegacyDone(q)
           o == Outcome(q)
<1>1. /\ u \in Users /\ name \in Names /\ name # None
      /\ DOMAIN a \subseteq Providers /\ \A p \in DOMAIN a : a[p] \in Uids /\ a[p] # None
  <2>1. Sound(q)
    BY DEF AccountsInv
  <2> QED
    BY <2>1, SoundFacts, NamesAreGiven
<1>2. /\ Current(q) /\ AssociatedValid(q.req, rows) /\ q.uid \in EffectiveUids(q.req, username, rows)
      /\ ~Conflict(u, Local, name, rows) /\ Unique(rows)
  BY ForeseenFacts DEF Valid
<1>3. w = Start(q)
  <2>1. q.authenticators = None /\ q.uid = None
    BY DEF Foreseen, Unforeseen
  <2>3. Begun(q) = Start(q)
    BY DEF Begun, Renaming
  <2> QED
    BY <2>1, <2>3, AccountsAssumption DEF LegacyDone, LegacyProcessed
<1>4. PendingFinite /\ Sane(w, u) /\ w.rows = rows /\ w.ok
  BY <1>3, StartFacts
<1>5. o = AssociatedProcessed(w, u, a, name)
  <2>1. NameAfter(q) = name
    BY AccountsAssumption DEF Foreseen, Unforeseen, NameAfter
  <2> QED
    BY <2>1, OutcomeStages
<1>6. NoConflicts(u, a, rows)
  <2>1. CASE DOMAIN a = {}
    BY <2>1 DEF NoConflicts
  <2>2. CASE {<<p, a[p]>> : p \in DOMAIN a} = Associated(u, rows)
    <3> SUFFICES ASSUME NEW p \in DOMAIN a PROVE ~Conflict(u, p, a[p], rows)
      BY DEF NoConflicts
    <3>1. <<p, a[p]>> \in Associated(u, rows)
      BY <2>2
    <3>2. PICK l \in Of(u, rows) : <<l.provider, l.uid>> = <<p, a[p]>>
      BY <3>1 DEF Associated
    <3> QED
      BY <1>2, <3>2 DEF Of, Conflict, Unique
  <2> QED
    BY <1>2, <2>1, <2>2 DEF AssociatedValid
<1> HIDE DEF u, a, name, w, o
<1>7. PICK y : /\ y.rows = {l \in w.rows : l.user # u} /\ (y.ok <=> w.ok /\ NoConflicts(u, a, w.rows))
               /\ ProvidersOf(u, y.rows) = {} /\ Extends(o, y, u, DOMAIN a, a, name)
  <2>1. a # None /\ \A p \in DOMAIN a : a[p] \in Uids
    BY <1>1 DEF a
  <2> QED
    BY <1>1, <1>4, <1>5, <2>1, AssociatedFacts
<1>8. y.ok /\ y.rows = Others(rows, u)
  BY <1>4, <1>6, <1>7 DEF Others
<1>9. /\ y.rows \subseteq o.rows
      /\ \A k \in o.rows \ y.rows : k.user = u /\ k.provider \in DOMAIN a /\ k.uid = Own(k.provider, a[k.provider], name)
      /\ \A k, m \in o.rows \ y.rows : k.provider = m.provider => k = m
  BY <1>7 DEF Extends
<1>10. Others(o.rows, u) = Others(rows, u) /\ \A k \in Of(u, o.rows) : k \in o.rows \ y.rows
  BY <1>8, <1>9 DEF Others, Of
<1>11. \A k \in Of(u, o.rows) : ~Conflict(u, k.provider, k.uid, rows)
  BY <1>2, <1>6, <1>9, <1>10 DEF Own, NoConflicts, u, name
<1>12. Fit(o.rows, u)
  BY <1>9, <1>10, <1>11 DEF Fit
<1>13. Unique(o.rows)
  BY <1>2, <1>12, FitUnique
<1>14. \A p \in DOMAIN a : ~Conflict(u, p, a[p], y.rows) /\ Own(p, a[p], name) # None
  BY <1>1, <1>6, <1>8 DEF NoConflicts, Conflict, Others, Own
<1>15. o.ok
  BY <1>7, <1>8, <1>13, <1>14 DEF Extends
<1> QED
  BY <1>15 DEF o

LEMMA ForeseenCommits ==
  ASSUME AccountsInv, NEW q \in pending, Foreseen(q)
  PROVE  Commits(q)
<1>1. Outcome(q).ok
  <2>1. CASE q.req.associated # None
    BY <2>1, AssociatedApplied
  <2>2. CASE q.req.associated = None
    <3>1. Outcome(q) = LegacyDone(q)
      BY <2>2, OutcomeStages DEF AssociatedProcessed
    <3>2. Begun(q).ok /\ Sane(Begun(q), q.req.user)
      BY BegunFits, BegunSane
    <3>3. CASE q.authenticators = {}
      <4> DEFINE ps == ProvidersOf(q.req.user, Begun(q).rows)
                 u == q.req.user
                 b == Begun(q)
      <4>1. LegacyDone(q) = Removed(b, u, ps)
        BY <3>3 DEF LegacyDone, LegacyProcessed
      <4> HIDE DEF ps, u, b
      <4>2. Removed(b, u, ps).ok <=> b.ok
        BY <3>2, RemovedFacts DEF b, u
      <4> QED
        BY <3>1, <3>2, <4>1, <4>2 DEF b
    <3>4. CASE q.authenticators = None
      <4>2. q.uid = None
        BY <2>2, <3>4 DEF Foreseen, Unforeseen
      <4>3. LegacyDone(q) = Begun(q)
        BY <3>4, <4>2, AccountsAssumption DEF LegacyDone, LegacyProcessed
      <4> QED
        BY <3>1, <3>2, <4>3
    <3>5. CASE q.authenticators \notin {{}, None}
      BY <2>2, <3>1, <3>5, AuthenticatorsApplied
    <3> QED
      BY <3>3, <3>4, <3>5
  <2> QED
    BY <2>1, <2>2
<1>2. /\ q.req.user \in Users /\ NewName(q) \in Names /\ NewName(q) # None
      /\ username[q.req.user] = q.username /\ Valid(q.req, username, rows)
  <2>1. Sound(q)
    BY DEF AccountsInv
  <2>2. q.req.user \in Users /\ NewName(q) \in Names /\ NewName(q) # None
    BY <2>1, SoundFacts, NamesAreGiven
  <2> QED
    BY <2>2, ForeseenFacts DEF Current
<1>3. SavedName(q) = NewName(q) /\ NameAfter(q) # None
  BY <1>2 DEF SavedName, NameAfter, NewName
<1>4. \A x \in Users \ {q.req.user} : username[x] # NewName(q)
  <2>1. CASE q.req.username = None
    <3>1. NewName(q) = username[q.req.user]
      BY <1>2, <2>1 DEF NewName
    <3> QED
      BY <1>2, <3>1 DEF AccountsInv, DatabaseOK
  <2>2. CASE q.req.username # None
    BY <1>2, <2>2 DEF NewName, Valid
  <2> QED
    BY <2>1, <2>2
<1> QED
  BY <1>1, <1>2, <1>3, <1>4 DEF Commits

(***************************************************************************)
(* For every set of users, names and requests: a request that validate()   *)
(* accepts is carried out if nothing is committed in between, but for the  *)
(* cases that Unforeseen lists (UserSerializer.validate with the unique    *)
(* constraints of the models).                                             *)
(***************************************************************************)
THEOREM WhatIsValidIsApplied == AccountsSpec => ValidIsApplied
<1> DEFINE Step == \A q \in pending : Applied(q) /\ Alone(q) => Commits(q) \/ Unforeseen(q)
<1>1. AccountsInv => [Step]_accountVars
  BY ForeseenCommits DEF Foreseen
<1>2. AccountsSpec => [][Step]_accountVars
  BY <1>1, AccountsInvariant, PTL DEF AccountsSpec
<1> QED
  BY <1>2 DEF ValidIsApplied

-----------------------------------------------------------------------------
(* The resource client: the inductive invariant.                           *)

(* The content that a task, when it is carried out, leaves of its items. *)
LeftBy(t) == IF t.op \in {"delete", "unassign"} THEN 0 ELSE t.n

(* Changes are numbered in the order in which they begin. *)
Numbered ==
  /\ \A i \in Items : ver[i] <= changes
  /\ \A p \in Processes :
       /\ proc[p].pc \in {"open", "login", "flush"} => proc[p].n <= changes
       /\ \A t \in pool[p] : t.n <= changes
       /\ proc[p].pc = "open" => ver[proc[p].item] < proc[p].n

(* An item's row is locked by the transaction that changes it. *)
Locked ==
  \A p, q \in Processes :
    (proc[p].pc = "open" /\ proc[q].pc = "open" /\ proc[p].item = proc[q].item) => p = q

(* A task, and a login that has not handed its lists over, agree with the  *)
(* row about the change they are about.                                    *)
TasksTrue ==
  \A p \in Processes : \A t \in pool[p] : \A i \in t.items :
    /\ t.n = ver[i] => gateway[i] = LeftBy(t)
    /\ \A q \in Processes :
         (proc[q].pc = "open" /\ proc[q].item = i /\ proc[q].n = t.n) => proc[q].val = LeftBy(t)

LoginsTrue ==
  \A p \in Processes : proc[p].pc \in {"login", "flush"} =>
    /\ proc[p].pc = "flush" => proc[p].give = {}
    /\ \A i \in proc[p].give \cup proc[p].take :
         /\ proc[p].n = ver[i] => gateway[i] = IF i \in proc[p].give THEN proc[p].n ELSE 0
         /\ i \notin proc[p].give \cap proc[p].take
         /\ \A q \in Processes : (proc[q].pc = "open" /\ proc[q].item = i) => proc[q].n # proc[p].n

(* Process q has a transaction about i open and has told the services. *)
Tells(q, i) == proc[q].pc = "open" /\ proc[q].item = i /\ proc[q].told

(* The newest change of i that is committed or that the services are told  *)
(* of is n, and val is what it makes of it.                                *)
IsNewest(i, n, val) ==
  \/ (\A q \in Processes : ~Tells(q, i)) /\ n = ver[i] /\ val = gateway[i]
  \/ \E q \in Processes : Tells(q, i) /\ n = proc[q].n /\ val = proc[q].val

(* The newest change of i is still to be sent to s. *)
OnItsWay(s, i, n) ==
  \E p \in Processes :
    \/ \E t \in pool[p] : t.svc = s /\ i \in t.items /\ t.n = n
    \/ proc[p].pc \in {"login", "flush"} /\ i \in proc[p].give \cup proc[p].take /\ proc[p].n = n

(* A copy is as the newest change makes it, or the change is on its way,   *)
(* or there is an excuse.                                                  *)
CopiesAccounted ==
  \A s \in Services, i \in Items, n, val \in 0..MaxChanges :
    IsNewest(i, n, val) => \/ i \in excuse[s]
                           \/ OnItsWay(s, i, n)
                           \/ Alike(i, service[s][i], val)

(* While an owner is asked for a new assignment it has it, unless another  *)
(* request asks or asked for its removal; who is alone has no rival.       *)
OwnersAsked ==
  \A p \in Processes : proc[p].pc = "owned" =>
    /\ proc[p].val => owned[proc[p].item].service \/ (~proc[p].alone /\ proc[p].item \in broken)
    /\ proc[p].alone => \A q \in Processes :
         (proc[q].pc = "owned" /\ proc[q].item = proc[p].item) => proc[q].val = proc[p].val

(* Everything that is stored or on its way was put forward by a request. *)
AllOffered ==
  /\ \A i \in Items : gateway[i] \in offered[i]
  /\ \A p \in Processes :
       /\ \A t \in pool[p] : \A i \in t.items : LeftBy(t) \in offered[i]
       /\ proc[p].pc = "open" => proc[p].val \in offered[proc[p].item]
       /\ proc[p].pc \in {"login", "flush"} =>
            /\ \A i \in proc[p].give : proc[p].n \in offered[i]
            /\ \A i \in proc[p].take : 0 \in offered[i]

ClientInv ==
  /\ ClientTypeOK /\ Numbered /\ Locked /\ TasksTrue /\ LoginsTrue /\ CopiesAccounted
  /\ OwnersAsked /\ OwnedIsBacked /\ AllOffered

-----------------------------------------------------------------------------
(* Types.                                                                  *)

LEMMA ClientTypeInit == ClientInit => ClientTypeOK
  BY ClientAssumption DEF ClientInit, ClientTypeOK, ProcessStates, Idle

(* The fields of what a process may be doing. *)
LEMMA ProcessFields ==
  ASSUME ClientTypeOK, NEW p \in Processes
  PROVE  /\ proc[p].pc \in {"idle", "loaded", "open", "login", "flush", "owned"}
         /\ proc[p].pc = "idle" => proc[p] = Idle
         /\ proc[p].pc = "loaded" => proc[p].item \in Items \cup Owned /\ proc[p].val \in 0..MaxChanges
         /\ proc[p].pc = "open" => /\ proc[p].item \in Items /\ proc[p].n \in 1..MaxChanges
                                   /\ proc[p].val \in 0..MaxChanges /\ proc[p].told \in BOOLEAN
         /\ proc[p].pc \in {"login", "flush"} =>
              proc[p].n \in 1..MaxChanges /\ proc[p].give \subseteq Items /\ proc[p].take \subseteq Items
         /\ proc[p].pc = "owned" =>
              proc[p].item \in Owned /\ proc[p].val \in BOOLEAN /\ proc[p].alone \in BOOLEAN
  BY DEF ClientTypeOK, ProcessStates, Idle

LEMMA TasksType ==
  ASSUME NEW n \in 1..MaxChanges, NEW op \in Ops, NEW items \in SUBSET Items
  PROVE  Tasks(n, op, items) \subseteq TaskSet
  BY DEF Tasks, TaskSet

LEMMA TaskFields ==
  ASSUME NEW n, NEW op, NEW items
  PROVE  /\ \A t \in Tasks(n, op, items) : t.n = n /\ t.op = op /\ t.items = items
         /\ \A s \in Services : \E t \in Tasks(n, op, items) : t.svc = s
<1>1. \A t \in Tasks(n, op, items) : t.n = n /\ t.op = op /\ t.items = items
  BY DEF Tasks
<1>2. ASSUME NEW s \in Services PROVE \E t \in Tasks(n, op, items) : t.svc = s
  <2> DEFINE t == [svc |-> s, n |-> n, op |-> op, items |-> items]
  <2>1. t \in Tasks(n, op, items) /\ t.svc = s
    BY DEF Tasks
  <2> QED
    BY <2>1
<1> QED
  BY <1>1, <1>2

LEMMA Numbers ==
  ASSUME ClientTypeOK
  PROVE  /\ changes \in Nat /\ \A i \in Items : ver[i] \in Nat
         /\ \A p \in Processes :
              /\ proc[p].pc = "open" => proc[p].n \in Nat /\ proc[p].item \in Items
              /\ proc[p].pc \in {"login", "flush"} => proc[p].n \in Nat
              /\ \A t \in pool[p] : t.n \in Nat /\ t.items \subseteq Items
<1>1. changes \in Nat /\ \A i \in Items : ver[i] \in Nat
  BY ClientAssumption DEF ClientTypeOK
<1>2. \A p \in Processes : \A t \in pool[p] : t.n \in Nat /\ t.items \subseteq Items
  BY ClientAssumption DEF ClientTypeOK, TaskSet
<1>3. \A p \in Processes : /\ proc[p].pc = "open" => proc[p].n \in Nat /\ proc[p].item \in Items
                           /\ proc[p].pc \in {"login", "flush"} => proc[p].n \in Nat
  BY ProcessFields, ClientAssumption
<1> QED
  BY <1>1, <1>2, <1>3

-----------------------------------------------------------------------------
(* What the steps do, each as the later lemmas need it.                    *)

(* Requests that are refused or about owned assignments, and stuttering.   *)
Aside ==
  /\ UNCHANGED <<gateway, service, pool, ver, excuse, offered>>
  /\ changes' \in {changes, changes + 1}
  /\ \A p \in Processes : \/ proc'[p] = proc[p]
                          \/ /\ proc[p].pc \in {"idle", "loaded", "owned"}
                             /\ proc'[p].pc \in {"idle", "loaded", "owned"}

(* A request that begins to change an item. *)
Opened(p, i, n, val, told, sent) ==
  /\ n = changes + 1 /\ changes' = n /\ n \in 1..MaxChanges
  /\ proc[p].pc \in {"idle", "loaded"}
  /\ \A q \in Processes : ~(proc[q].pc = "open" /\ proc[q].item = i)
  /\ proc'[p] = [pc |-> "open", item |-> i, n |-> n, val |-> val, told |-> told]
  /\ \A q \in Processes \ {p} : proc'[q] = proc[q] /\ pool'[q] = pool[q]
  /\ pool'[p] = pool[p] \cup sent
  /\ proc' = [q \in Processes |-> proc'[q]] /\ pool' = [q \in Processes |-> pool'[q]]
  /\ \A t \in sent : t.n = n /\ t.items = {i} /\ LeftBy(t) = val
  /\ told => \A s \in Services : \E t \in sent : t.svc = s
  /\ offered' = [offered EXCEPT ![i] = @ \cup {val}]
  /\ UNCHANGED <<gateway, service, owned, ver, excuse, broken>>

(* A login that hands a list over, or gives up with it. *)
Handed(p, items, left, sent) ==
  /\ proc[p].pc \in {"login", "flush"}
  /\ items \subseteq proc[p].give \cup proc[p].take
  /\ proc[p].give \cup proc[p].take \subseteq items \cup left
  /\ left \subseteq proc[p].take
  /\ \/ left = {} /\ proc'[p] = Idle
     \/ proc'[p] = [pc |-> "flush", n |-> proc[p].n, give |-> {}, take |-> left]
  /\ \A q \in Processes \ {p} : proc'[q] = proc[q] /\ pool'[q] = pool[q]
  /\ pool'[p] = pool[p] \cup sent
  /\ proc' = [q \in Processes |-> proc'[q]] /\ pool' = [q \in Processes |-> pool'[q]]
  /\ \A t \in sent : /\ t.n = proc[p].n /\ t.items = items
                     /\ \/ t.op = "assign" /\ items = proc[p].give
                        \/ t.op = "unassign" /\ items = proc[p].take
  /\ \A s \in Services : \/ excuse'[s] = excuse[s] /\ (items = {} \/ \E t \in sent : t.svc = s)
                         \/ excuse'[s] = excuse[s] \cup items
  /\ excuse' = [s \in Services |-> excuse'[s]]
  /\ UNCHANGED <<gateway, service, owned, changes, ver, broken, offered>>

LEMMA ChangeBegins ==
  ASSUME ClientTypeOK, NEW p \in Processes, NEW i \in Items, NEW op \in Ops,
         NEW original \in 0..MaxChanges, NEW val \in 0..MaxChanges, Change(p, i, op, original, val)
  PROVE  \E n \in 1..MaxChanges, told \in BOOLEAN, sent \in SUBSET TaskSet : Opened(p, i, n, val, told, sent)
<1> DEFINE n == changes + 1
           told == val # original
           sent == Published(n, op, i, original, val)
<1>1. n \in 1..MaxChanges /\ told \in BOOLEAN /\ proc[p].pc \in {"idle", "loaded"}
  BY ClientAssumption DEF Change, ClientTypeOK
<1>2. sent \in SUBSET TaskSet
  BY <1>1, TasksType DEF Published
<1>3. \A t \in sent : t.n = n /\ t.items = {i} /\ LeftBy(t) = val
  <2>1. SUFFICES ASSUME NEW t \in sent PROVE t.n = n /\ t.items = {i} /\ LeftBy(t) = val
    OBVIOUS
  <2>2. val # original /\ t \in Tasks(n, op, {i})
    BY <2>1 DEF Published
  <2>3. t.n = n /\ t.items = {i} /\ t.op = op
    BY <2>2, TaskFields
  <2>4. val = IF op \in {"delete", "unassign"} THEN 0 ELSE n
    BY <2>2 DEF Change, Contents, Ops
  <2> QED
    BY <2>3, <2>4 DEF LeftBy
<1>4. told => \A s \in Services : \E t \in sent : t.svc = s
  BY TaskFields DEF Published
<1>5. /\ proc' = [proc EXCEPT ![p] = [pc |-> "open", item |-> i, n |-> n, val |-> val, told |-> told]]
      /\ pool' = [pool EXCEPT ![p] = @ \cup sent]
      /\ changes' = n /\ Open(i) = {}
      /\ offered' = [offered EXCEPT ![i] = @ \cup {val}]
      /\ UNCHANGED <<gateway, service, owned, ver, excuse, broken>>
  BY DEF Change
<1> HIDE DEF told, sent
<1>6. Opened(p, i, n, val, told, sent)
  BY <1>1, <1>3, <1>4, <1>5 DEF Opened, Open, ClientTypeOK
<1> QED
  BY <1>1, <1>2, <1>6

LEMMA FlushHands ==
  ASSUME ClientTypeOK, LoginsTrue, NEW p \in Processes,
         \/ ClientFails(p)
         \/ \E sent \in SUBSET Services : FlushGrants(p, sent) \/ FlushRemovals(p, sent)
  PROVE  \E items, left \in SUBSET Items, sent \in SUBSET TaskSet : Handed(p, items, left, sent)
<1>1. ASSUME proc[p].pc \in {"login", "flush"}
      PROVE  /\ proc[p].n \in 1..MaxChanges /\ proc[p].give \in SUBSET Items /\ proc[p].take \in SUBSET Items
             /\ proc[p].pc = "flush" => proc[p].give = {}
  BY <1>1, ProcessFields DEF LoginsTrue
<1>2. CASE ClientFails(p)
  <2>1. Handed(p, proc[p].give \cup proc[p].take, {}, {})
    BY <1>1, <1>2 DEF ClientFails, Handed, ClientTypeOK
  <2> QED
    BY <1>1, <1>2, <2>1 DEF ClientFails
<1>3. ASSUME NEW sent \in SUBSET Services, NEW op \in Ops, NEW items \in SUBSET Items, proc[p].pc \in {"login", "flush"},
             HandOver(p, sent, op, items)
      PROVE  \E new \in SUBSET TaskSet :
               /\ \A q \in Processes \ {p} : pool'[q] = pool[q]
               /\ pool'[p] = pool[p] \cup new /\ pool' = [q \in Processes |-> pool'[q]]
               /\ \A t \in new : t.n = proc[p].n /\ t.items = items /\ t.op = op
               /\ \A s \in Services : \/ excuse'[s] = excuse[s] /\ (items = {} \/ \E t \in new : t.svc = s)
                                      \/ excuse'[s] = excuse[s] \cup items
               /\ excuse' = [s \in Services |-> excuse'[s]]
               /\ UNCHANGED <<gateway, service, owned, changes, ver, broken, offered>>
  <2> DEFINE all == Tasks(proc[p].n, op, items)
             new == {t \in all : t.svc \in sent /\ items # {}}
  <2>1. all \subseteq TaskSet
    BY <1>1, <1>3, TasksType
  <2>2. \A t \in new : t.n = proc[p].n /\ t.items = items /\ t.op = op
    BY TaskFields
  <2>3. ASSUME NEW s \in Services
        PROVE  \/ excuse'[s] = excuse[s] /\ (items = {} \/ \E t \in new : t.svc = s)
               \/ excuse'[s] = excuse[s] \cup items
    <3>1. \E t \in all : t.svc = s
      BY TaskFields
    <3>2. CASE s \in sent
      BY <1>3, <3>1, <3>2 DEF HandOver
    <3>3. CASE s \notin sent
      BY <1>3, <3>3 DEF HandOver
    <3> QED
      BY <3>2, <3>3
  <2>4. /\ pool' = [pool EXCEPT ![p] = @ \cup new] /\ excuse' = [s \in Services |-> excuse'[s]]
        /\ UNCHANGED <<gateway, service, owned, changes, ver, broken, offered>>
    BY <1>3 DEF HandOver
  <2> HIDE DEF new
  <2>5. new \in SUBSET TaskSet
    BY <2>1 DEF new
  <2> QED
    BY <2>2, <2>3, <2>4, <2>5 DEF ClientTypeOK
<1>4. ASSUME NEW sent \in SUBSET Services, FlushGrants(p, sent)
      PROVE  \E items, left \in SUBSET Items, new \in SUBSET TaskSet : Handed(p, items, left, new)
  <2>1. /\ proc[p].pc = "login" /\ HandOver(p, sent, "assign", proc[p].give)
        /\ proc'[p] = [pc |-> "flush", n |-> proc[p].n, give |-> {}, take |-> proc[p].take]
        /\ \A q \in Processes \ {p} : proc'[q] = proc[q]
        /\ proc' = [q \in Processes |-> proc'[q]]
    BY <1>4 DEF FlushGrants, ClientTypeOK
  <2>2. PICK new \in SUBSET TaskSet :
               /\ \A q \in Processes \ {p} : pool'[q] = pool[q]
               /\ pool'[p] = pool[p] \cup new /\ pool' = [q \in Processes |-> pool'[q]]
               /\ \A t \in new : t.n = proc[p].n /\ t.items = proc[p].give /\ t.op = "assign"
               /\ \A s \in Services : \/ excuse'[s] = excuse[s] /\ (proc[p].give = {} \/ \E t \in new : t.svc = s)
                                      \/ excuse'[s] = excuse[s] \cup proc[p].give
               /\ excuse' = [s \in Services |-> excuse'[s]]
               /\ UNCHANGED <<gateway, service, owned, changes, ver, broken, offered>>
    BY <1>1, <1>3, <2>1 DEF Ops
  <2>3. Handed(p, proc[p].give, proc[p].take, new)
    BY <2>1, <2>2 DEF Handed
  <2> QED
    BY <1>1, <2>1, <2>3
<1>5. ASSUME NEW sent \in SUBSET Services, FlushRemovals(p, sent)
      PROVE  \E items, left \in SUBSET Items, new \in SUBSET TaskSet : Handed(p, items, left, new)
  <2>1. /\ proc[p].pc = "flush" /\ HandOver(p, sent, "unassign", proc[p].take)
        /\ proc'[p] = Idle /\ \A q \in Processes \ {p} : proc'[q] = proc[q]
        /\ proc' = [q \in Processes |-> proc'[q]]
    BY <1>5 DEF FlushRemovals, ClientTypeOK
  <2>2. PICK new \in SUBSET TaskSet :
               /\ \A q \in Processes \ {p} : pool'[q] = pool[q]
               /\ pool'[p] = pool[p] \cup new /\ pool' = [q \in Processes |-> pool'[q]]
               /\ \A t \in new : t.n = proc[p].n /\ t.items = proc[p].take /\ t.op = "unassign"
               /\ \A s \in Services : \/ excuse'[s] = excuse[s] /\ (proc[p].take = {} \/ \E t \in new : t.svc = s)
                                      \/ excuse'[s] = excuse[s] \cup proc[p].take
               /\ excuse' = [s \in Services |-> excuse'[s]]
               /\ UNCHANGED <<gateway, service, owned, changes, ver, broken, offered>>
    BY <1>1, <1>3, <2>1 DEF Ops
  <2>3. Handed(p, proc[p].take, {}, new)
    BY <1>1, <2>1, <2>2 DEF Handed
  <2> QED
    BY <1>1, <2>1, <2>3
<1> QED
  BY <1>2, <1>4, <1>5

OwnedRequest(p) ==
  \/ \E i \in Items \cup Owned : Load(p, i)
  \/ Decline(p) \/ CommitOwned(p) \/ RollbackOwned(p)
  \/ \E o \in Owned, val \in BOOLEAN : CallOwner(p, o, val)

LEMMA AsideSteps ==
  ASSUME ClientTypeOK, NEW p \in Processes, OwnedRequest(p)
  PROVE  Aside
<1>1. CASE \E i \in Items \cup Owned : Load(p, i)
  BY <1>1 DEF Load, Aside, ClientTypeOK, data
<1>2. CASE Decline(p) \/ CommitOwned(p) \/ RollbackOwned(p)
  BY <1>2 DEF Decline, CommitOwned, RollbackOwned, Aside, ClientTypeOK, data, Idle
<1>3. ASSUME NEW o \in Owned, NEW val \in BOOLEAN, CallOwner(p, o, val) PROVE Aside
  <2>1. /\ proc[p].pc \in {"idle", "loaded"} /\ proc'[p].pc = "owned"
        /\ UNCHANGED <<gateway, service, pool, ver, excuse, offered>> /\ changes' = changes + 1
    BY <1>3 DEF CallOwner, data
  <2>2. ASSUME NEW q \in Processes \ {p}, q \in Rivals(o, val)
        PROVE  proc[q].pc = "owned" /\ proc'[q].pc = "owned"
    BY <1>3, <2>2 DEF CallOwner, Rivals, Asking
  <2>3. ASSUME NEW q \in Processes \ {p}, q \notin Rivals(o, val)
        PROVE  proc'[q] = proc[q]
    BY <1>3, <2>3 DEF CallOwner
  <2> QED
    BY <2>1, <2>2, <2>3 DEF Aside
<1> QED
  BY <1>1, <1>2, <1>3 DEF OwnedRequest

(* The kinds of steps that there are. *)
Kinds ==
  \/ Aside /\ (UNCHANGED vars \/ \E p \in Processes : OwnedRequest(p))
  \/ \E s \in Services : ReverseSync(s)
  \/ \E p \in Processes :
       \/ \E i \in Items, n \in 1..MaxChanges, val \in 0..MaxChanges, told \in BOOLEAN, sent \in SUBSET TaskSet :
            Opened(p, i, n, val, told, sent)
       \/ Commit(p) \/ Rollback(p) \/ ProcessDies(p)
       \/ \E i \in Grants : Associate(p, i)
       \/ \E give, take \in SUBSET Grants : Login(p, give, take)
       \/ \E items, left \in SUBSET Items, sent \in SUBSET TaskSet : Handed(p, items, left, sent)
       \/ \E t \in pool[p] : Deliver(p, t) \/ Lose(p, t)

LEMMA StepKinds ==
  ASSUME ClientTypeOK, LoginsTrue, [ClientNext]_vars
  PROVE  Kinds
<1>1. CASE UNCHANGED vars
  BY <1>1 DEF vars, Kinds, Aside
<1>2. CASE \E s \in Services : ReverseSync(s)
  BY <1>2 DEF Kinds
<1>3. ASSUME NEW p \in Processes, Request(p) PROVE Kinds
  BY <1>3, AsideSteps, ChangeBegins DEF Request, OwnedRequest, Kinds
<1>4. ASSUME NEW p \in Processes, Finish(p) PROVE Kinds
  BY <1>4, AsideSteps, FlushHands DEF Finish, OwnedRequest, Kinds
<1>5. ASSUME NEW p \in Processes, Send(p) \/ ProcessDies(p) PROVE Kinds
  BY <1>5 DEF Send, Kinds
<1> QED
  BY <1>1, <1>2, <1>3, <1>4, <1>5 DEF ClientNext

-----------------------------------------------------------------------------
(* Locks and numbers.                                                      *)

LEMMA LockedStep ==
  ASSUME ClientTypeOK, Locked, Kinds
  PROVE  Locked'
<1>1. CASE Aside
  BY <1>1 DEF Aside, Locked, ClientTypeOK, Idle, Open
<1>2. ASSUME NEW p \in Processes, NEW i \in Items, NEW n \in 1..MaxChanges, NEW val \in 0..MaxChanges,
             NEW told \in BOOLEAN, NEW sent \in SUBSET TaskSet, Opened(p, i, n, val, told, sent)
      PROVE  Locked'
  BY <1>2 DEF Opened, Locked, ClientTypeOK, Idle, Open
<1>3. ASSUME NEW p \in Processes, Commit(p) PROVE Locked'
  BY <1>3 DEF Commit, Locked, ClientTypeOK, Idle, Open
<1>4. ASSUME NEW p \in Processes, Rollback(p) PROVE Locked'
  BY <1>4 DEF Rollback, Locked, ClientTypeOK, Idle, Open
<1>5. ASSUME NEW p \in Processes, NEW i \in Grants, Associate(p, i) PROVE Locked'
  BY <1>5 DEF Associate, Locked, ClientTypeOK, Idle, Open
<1>6. ASSUME NEW p \in Processes, NEW give \in SUBSET Grants, NEW take \in SUBSET Grants, Login(p, give, take)
      PROVE  Locked'
  BY <1>6 DEF Login, Locked, ClientTypeOK, Idle, Open
<1>7. ASSUME NEW p \in Processes, NEW items \in SUBSET Items, NEW left \in SUBSET Items,
             NEW sent \in SUBSET TaskSet, Handed(p, items, left, sent)
      PROVE  Locked'
  BY <1>7 DEF Handed, Locked, ClientTypeOK, Idle, Open
<1>8. ASSUME NEW p \in Processes, NEW t \in pool[p], Deliver(p, t) PROVE Locked'
  BY <1>8 DEF Deliver, Locked, ClientTypeOK, Idle, Open
<1>9. ASSUME NEW p \in Processes, NEW t \in pool[p], Lose(p, t) PROVE Locked'
  BY <1>9 DEF Lose, Locked, ClientTypeOK, Idle, Open
<1>10. ASSUME NEW p \in Processes, ProcessDies(p) PROVE Locked'
  BY <1>10 DEF ProcessDies, Locked, ClientTypeOK, Idle, Open
<1>11. ASSUME NEW r \in Services, ReverseSync(r) PROVE Locked'
  BY <1>11 DEF ReverseSync, Locked, ClientTypeOK, Idle, Open
<1> QED
  BY <1>1, <1>2, <1>3, <1>4, <1>5, <1>6, <1>7, <1>8, <1>9, <1>10, <1>11 DEF Kinds

LEMMA NumberedStep ==
  ASSUME ClientTypeOK, Locked, Numbered, Kinds
  PROVE  Numbered'
<1>1. CASE Aside
  BY <1>1, Numbers DEF Aside, Numbered, ClientTypeOK, Idle
<1>2. ASSUME NEW p \in Processes, NEW i \in Items, NEW n \in 1..MaxChanges, NEW val \in 0..MaxChanges,
             NEW told \in BOOLEAN, NEW sent \in SUBSET TaskSet, Opened(p, i, n, val, told, sent)
      PROVE  Numbered'
  BY <1>2, Numbers DEF Opened, Numbered, ClientTypeOK, Idle
<1>3. ASSUME NEW p \in Processes, Commit(p) PROVE Numbered'
  <2>1. \A q \in Processes \ {p} : proc[q].pc = "open" => proc[q].item # proc[p].item
    BY <1>3 DEF Commit, Locked
  <2> QED
    BY <1>3, <2>1, Numbers DEF Commit, Numbered, ClientTypeOK, Idle
<1>4. ASSUME NEW p \in Processes, Rollback(p) PROVE Numbered'
  BY <1>4, Numbers DEF Rollback, Numbered, ClientTypeOK, Idle
<1>5. ASSUME NEW p \in Processes, NEW i \in Grants, Associate(p, i) PROVE Numbered'
  <2>1. \A q \in Processes : proc[q].pc = "open" => proc[q].item # i
    BY <1>5 DEF Associate, Open
  <2> QED
    BY <1>5, <2>1, Numbers DEF Associate, Numbered, ClientTypeOK
<1>6. ASSUME NEW p \in Processes, NEW give \in SUBSET Grants, NEW take \in SUBSET Grants, Login(p, give, take)
      PROVE  Numbered'
  <2>1. \A q \in Processes : proc[q].pc = "open" => proc[q].item \notin give \cup take
    BY <1>6 DEF Login, Open
  <2> QED
    BY <1>6, <2>1, Numbers DEF Login, Numbered, ClientTypeOK
<1>7. ASSUME NEW p \in Processes, NEW items \in SUBSET Items, NEW left \in SUBSET Items,
             NEW sent \in SUBSET TaskSet, Handed(p, items, left, sent)
      PROVE  Numbered'
  BY <1>7, Numbers DEF Handed, Numbered, ClientTypeOK, Idle
<1>8. ASSUME NEW p \in Processes, NEW t \in pool[p], Deliver(p, t) PROVE Numbered'
  BY <1>8, Numbers DEF Deliver, Numbered, ClientTypeOK, Idle
<1>9. ASSUME NEW p \in Processes, NEW t \in pool[p], Lose(p, t) PROVE Numbered'
  BY <1>9, Numbers DEF Lose, Numbered, ClientTypeOK, Idle
<1>10. ASSUME NEW p \in Processes, ProcessDies(p) PROVE Numbered'
  BY <1>10, Numbers DEF ProcessDies, Numbered, ClientTypeOK, Idle
<1>11. ASSUME NEW r \in Services, ReverseSync(r) PROVE Numbered'
  BY <1>11, Numbers DEF ReverseSync, Numbered, ClientTypeOK, Idle
<1> QED
  BY <1>1, <1>2, <1>3, <1>4, <1>5, <1>6, <1>7, <1>8, <1>9, <1>10, <1>11 DEF Kinds

-----------------------------------------------------------------------------
(* What tasks and logins carry.                                            *)

LEMMA TasksStep ==
  ASSUME ClientTypeOK, Numbered, LoginsTrue, TasksTrue, Kinds
  PROVE  TasksTrue'
<1>1. CASE Aside
  BY <1>1, Numbers DEF Aside, TasksTrue, LeftBy, ClientTypeOK, Idle
<1>2. ASSUME NEW p \in Processes, NEW i \in Items, NEW n \in 1..MaxChanges, NEW val \in 0..MaxChanges,
             NEW told \in BOOLEAN, NEW sent \in SUBSET TaskSet, Opened(p, i, n, val, told, sent)
      PROVE  TasksTrue'
  <2>1. ASSUME NEW q \in Processes, NEW t \in pool[q], NEW j \in t.items
        PROVE  /\ t.n = ver'[j] => gateway'[j] = LeftBy(t)
               /\ \A r \in Processes :
                    (proc'[r].pc = "open" /\ proc'[r].item = j /\ proc'[r].n = t.n) => proc'[r].val = LeftBy(t)
    <3>1. proc'[p].n # t.n /\ proc'[p].pc = "open"
      BY <1>2, Numbers DEF Opened, Numbered
    <3> QED
      BY <1>2, <3>1 DEF Opened, TasksTrue
  <2>2. ASSUME NEW t \in sent, NEW j \in t.items
        PROVE  /\ t.n = ver'[j] => gateway'[j] = LeftBy(t)
               /\ \A r \in Processes :
                    (proc'[r].pc = "open" /\ proc'[r].item = j /\ proc'[r].n = t.n) => proc'[r].val = LeftBy(t)
    <3>1. j = i /\ t.n = changes + 1 /\ LeftBy(t) = val /\ t.n # ver'[j]
      BY <1>2, Numbers DEF Opened, Numbered
    <3> QED
      BY <1>2, <3>1 DEF Opened
  <2> QED
    BY <1>2, <2>1, <2>2 DEF Opened, TasksTrue, LeftBy
<1>3. ASSUME NEW p \in Processes, Commit(p) PROVE TasksTrue'
  BY <1>3, Numbers DEF Commit, TasksTrue, LeftBy, ClientTypeOK, Idle
<1>4. ASSUME NEW p \in Processes, Rollback(p) PROVE TasksTrue'
  BY <1>4, Numbers DEF Rollback, TasksTrue, LeftBy, ClientTypeOK, Idle
<1>5. ASSUME NEW p \in Processes, NEW i \in Grants, Associate(p, i) PROVE TasksTrue'
  <2>1. \A q \in Processes : \A t \in pool[q] : t.n # changes + 1
    BY Numbers DEF Numbered
  <2> QED
    BY <1>5, <2>1, Numbers DEF Associate, TasksTrue, LeftBy, ClientTypeOK
<1>6. ASSUME NEW p \in Processes, NEW give \in SUBSET Grants, NEW take \in SUBSET Grants, Login(p, give, take)
      PROVE  TasksTrue'
  <2>1. \A q \in Processes : \A t \in pool[q] : t.n # changes + 1
    BY Numbers DEF Numbered
  <2> QED
    BY <1>6, <2>1, Numbers DEF Login, TasksTrue, LeftBy, ClientTypeOK
<1>7. ASSUME NEW p \in Processes, NEW items \in SUBSET Items, NEW left \in SUBSET Items,
             NEW sent \in SUBSET TaskSet, Handed(p, items, left, sent)
      PROVE  TasksTrue'
  <2>1. proc'[p].pc # "open" /\ \A q \in Processes \ {p} : proc'[q] = proc[q]
    BY <1>7 DEF Handed, Idle
  <2>2. ASSUME NEW q \in Processes, NEW t \in pool[q], NEW j \in t.items
        PROVE  /\ t.n = ver'[j] => gateway'[j] = LeftBy(t)
               /\ \A r \in Processes :
                    (proc'[r].pc = "open" /\ proc'[r].item = j /\ proc'[r].n = t.n) => proc'[r].val = LeftBy(t)
    BY <1>7, <2>1, Numbers DEF Handed, TasksTrue
  <2>3. ASSUME NEW t \in sent, NEW j \in t.items
        PROVE  /\ t.n = ver'[j] => gateway'[j] = LeftBy(t)
               /\ \A r \in Processes :
                    (proc'[r].pc = "open" /\ proc'[r].item = j /\ proc'[r].n = t.n) => proc'[r].val = LeftBy(t)
    <3>1. /\ proc[p].pc \in {"login", "flush"} /\ j \in proc[p].give \cup proc[p].take /\ t.n = proc[p].n
          /\ \/ t.op = "assign" /\ j \in proc[p].give
             \/ t.op = "unassign" /\ j \in proc[p].take
      BY <1>7 DEF Handed
    <3>2. /\ t.n = ver[j] => gateway[j] = LeftBy(t)
          /\ \A r \in Processes : (proc[r].pc = "open" /\ proc[r].item = j) => proc[r].n # t.n
      BY <3>1 DEF LoginsTrue, LeftBy
    <3> QED
      BY <1>7, <2>1, <3>2 DEF Handed
  <2> QED
    BY <1>7, <2>2, <2>3 DEF Handed, TasksTrue, LeftBy
<1>8. ASSUME NEW p \in Processes, NEW t \in pool[p], Deliver(p, t) PROVE TasksTrue'
  BY <1>8, Numbers DEF Deliver, TasksTrue, LeftBy, ClientTypeOK, Idle
<1>9. ASSUME NEW p \in Processes, NEW t \in pool[p], Lose(p, t) PROVE TasksTrue'
  BY <1>9, Numbers DEF Lose, TasksTrue, LeftBy, ClientTypeOK, Idle
<1>10. ASSUME NEW p \in Processes, ProcessDies(p) PROVE TasksTrue'
  BY <1>10, Numbers DEF ProcessDies, TasksTrue, LeftBy, ClientTypeOK, Idle
<1>11. ASSUME NEW r \in Services, ReverseSync(r) PROVE TasksTrue'
  BY <1>11, Numbers DEF ReverseSync, TasksTrue, LeftBy, ClientTypeOK, Idle
<1> QED
  BY <1>1, <1>2, <1>3, <1>4, <1>5, <1>6, <1>7, <1>8, <1>9, <1>10, <1>11 DEF Kinds

LEMMA LoginsStep ==
  ASSUME ClientTypeOK, Numbered, LoginsTrue, Kinds
  PROVE  LoginsTrue'
<1>1. CASE Aside
  <2>1. \A q \in Processes : proc'[q].pc \in {"open", "login", "flush"} => proc'[q] = proc[q]
    BY <1>1 DEF Aside
  <2> QED
    BY <1>1, <2>1 DEF Aside, LoginsTrue
<1>2. ASSUME NEW p \in Processes, NEW i \in Items, NEW n \in 1..MaxChanges, NEW val \in 0..MaxChanges,
             NEW told \in BOOLEAN, NEW sent \in SUBSET TaskSet, Opened(p, i, n, val, told, sent)
      PROVE  LoginsTrue'
  <2>1. /\ proc'[p].pc = "open" /\ proc'[p].n = changes + 1 /\ UNCHANGED <<ver, gateway>>
        /\ \A q \in Processes \ {p} : proc'[q] = proc[q]
    BY <1>2 DEF Opened
  <2>2. \A q \in Processes : proc[q].pc \in {"login", "flush"} => proc[q].n # changes + 1
    BY Numbers DEF Numbered
  <2> QED
    BY <2>1, <2>2 DEF LoginsTrue
<1>3. ASSUME NEW p \in Processes, Commit(p) PROVE LoginsTrue'
  BY <1>3, ProcessFields, Numbers DEF Commit, LoginsTrue, Numbered, ClientTypeOK, Idle
<1>4. ASSUME NEW p \in Processes, Rollback(p) PROVE LoginsTrue'
  BY <1>4, ProcessFields, Numbers DEF Rollback, LoginsTrue, Numbered, ClientTypeOK, Idle
<1>5. ASSUME NEW p \in Processes, NEW i \in Grants, Associate(p, i) PROVE LoginsTrue'
  <2>1. /\ \A q \in Processes : proc[q].pc \in {"login", "flush"} => proc[q].n # changes + 1
        /\ UNCHANGED proc /\ ver'[i] = changes + 1
        /\ \A j \in Items \ {i} : ver'[j] = ver[j] /\ gateway'[j] = gateway[j]
    BY <1>5, Numbers DEF Associate, Numbered, ClientTypeOK, Items
  <2>2. \A q \in Processes : proc[q].pc \in {"login", "flush"} => proc[q].give \cup proc[q].take \subseteq Items
    BY ProcessFields
  <2> QED
    BY <2>1, <2>2 DEF LoginsTrue
<1>6. ASSUME NEW p \in Processes, NEW give \in SUBSET Grants, NEW take \in SUBSET Grants, Login(p, give, take)
      PROVE  LoginsTrue'
  <2>1. /\ \A q \in Processes : proc[q].pc \in {"login", "flush"} => proc[q].n # changes + 1
        /\ \A q \in Processes \ {p} : proc'[q] = proc[q]
        /\ proc'[p] = [pc |-> "login", n |-> changes + 1, give |-> give, take |-> take]
        /\ \A j \in give \cup take : j \in Items /\ ver'[j] = changes + 1
        /\ \A j \in give : gateway[j] = 0 /\ gateway'[j] = changes + 1
        /\ \A j \in take : gateway[j] # 0
        /\ \A j \in Items \ (give \cup take) : ver'[j] = ver[j] /\ gateway'[j] = gateway[j]
    BY <1>6, Numbers DEF Login, Numbered, ClientTypeOK, Items
  <2>2. give \cap take = {} /\ \A j \in take : gateway'[j] = 0
    BY <1>6, <2>1 DEF Login
  <2>3. ASSUME NEW q \in Processes \ {p}, proc[q].pc \in {"login", "flush"}, NEW j \in proc[q].give \cup proc[q].take
        PROVE  /\ proc[q].n = ver'[j] => gateway'[j] = IF j \in proc[q].give THEN proc[q].n ELSE 0
               /\ j \notin proc[q].give \cap proc[q].take
               /\ \A r \in Processes : (proc'[r].pc = "open" /\ proc'[r].item = j) => proc'[r].n # proc[q].n
    BY <2>1, <2>3, ProcessFields DEF LoginsTrue
  <2>4. \A q \in Processes : proc'[q].pc = "open" => proc'[q].item \notin give \cup take
    BY <1>6, <2>1 DEF Login, Open
  <2> QED
    BY <2>1, <2>2, <2>3, <2>4 DEF LoginsTrue
<1>7. ASSUME NEW p \in Processes, NEW items \in SUBSET Items, NEW left \in SUBSET Items,
             NEW sent \in SUBSET TaskSet, Handed(p, items, left, sent)
      PROVE  LoginsTrue'
  <2>1. /\ UNCHANGED <<ver, gateway>> /\ \A q \in Processes \ {p} : proc'[q] = proc[q]
        /\ proc[p].pc \in {"login", "flush"} /\ left \subseteq proc[p].take
        /\ \/ proc'[p].pc = "idle"
           \/ proc'[p].pc = "flush" /\ proc'[p].n = proc[p].n /\ proc'[p].give = {} /\ proc'[p].take = left
    BY <1>7 DEF Handed, Idle
  <2>2. \A j \in left : /\ proc[p].n = ver[j] => gateway[j] = 0
                        /\ \A q \in Processes : (proc[q].pc = "open" /\ proc[q].item = j) => proc[q].n # proc[p].n
    BY <2>1 DEF LoginsTrue
  <2> QED
    BY <2>1, <2>2 DEF LoginsTrue
<1>8. ASSUME NEW p \in Processes, NEW t \in pool[p], Deliver(p, t) PROVE LoginsTrue'
  BY <1>8, ProcessFields, Numbers DEF Deliver, LoginsTrue, Numbered, ClientTypeOK, Idle
<1>9. ASSUME NEW p \in Processes, NEW t \in pool[p], Lose(p, t) PROVE LoginsTrue'
  BY <1>9, ProcessFields, Numbers DEF Lose, LoginsTrue, Numbered, ClientTypeOK, Idle
<1>10. ASSUME NEW p \in Processes, ProcessDies(p) PROVE LoginsTrue'
  BY <1>10, ProcessFields, Numbers DEF ProcessDies, LoginsTrue, Numbered, ClientTypeOK, Idle
<1>11. ASSUME NEW r \in Services, ReverseSync(r) PROVE LoginsTrue'
  BY <1>11, ProcessFields, Numbers DEF ReverseSync, LoginsTrue, Numbered, ClientTypeOK, Idle
<1> QED
  BY <1>1, <1>2, <1>3, <1>4, <1>5, <1>6, <1>7, <1>8, <1>9, <1>10, <1>11 DEF Kinds

LEMMA OfferedStep ==
  ASSUME ClientTypeOK, AllOffered, Kinds
  PROVE  AllOffered'
<1>1. CASE Aside
  BY <1>1, ProcessFields, Numbers DEF Aside, AllOffered, LeftBy, ClientTypeOK, Idle
<1>2. ASSUME NEW p \in Processes, NEW i \in Items, NEW n \in 1..MaxChanges, NEW val \in 0..MaxChanges,
             NEW told \in BOOLEAN, NEW sent \in SUBSET TaskSet, Opened(p, i, n, val, told, sent)
      PROVE  AllOffered'
  <2>1. val \in offered'[i] /\ \A j \in Items : offered[j] \subseteq offered'[j]
    BY <1>2 DEF Opened, ClientTypeOK
  <2>2. \A t \in sent : \A j \in t.items : LeftBy(t) \in offered'[j]
    BY <1>2, <2>1 DEF Opened
  <2> QED
    BY <1>2, <2>1, <2>2, Numbers, ProcessFields DEF Opened, AllOffered, LeftBy
<1>3. ASSUME NEW p \in Processes, Commit(p) PROVE AllOffered'
  BY <1>3, ProcessFields, Numbers DEF Commit, AllOffered, LeftBy, ClientTypeOK, Idle
<1>4. ASSUME NEW p \in Processes, Rollback(p) PROVE AllOffered'
  BY <1>4, ProcessFields, Numbers DEF Rollback, AllOffered, LeftBy, ClientTypeOK, Idle
<1>5. ASSUME NEW p \in Processes, NEW i \in Grants, Associate(p, i) PROVE AllOffered'
  <2>1. \A j \in Items : offered[j] \subseteq offered'[j] /\ gateway'[j] \in offered'[j]
    BY <1>5 DEF Associate, ClientTypeOK, AllOffered
  <2> QED
    BY <1>5, <2>1, Numbers, ProcessFields DEF Associate, AllOffered, LeftBy
<1>6. ASSUME NEW p \in Processes, NEW give \in SUBSET Grants, NEW take \in SUBSET Grants, Login(p, give, take)
      PROVE  AllOffered'
  <2>1. \A j \in Items : offered[j] \subseteq offered'[j] /\ gateway'[j] \in offered'[j]
    BY <1>6 DEF Login, ClientTypeOK
  <2>2. \A j \in give : j \in Items /\ gateway'[j] = changes + 1
    BY <1>6 DEF Login, Items
  <2>3. \A j \in take : j \in Items /\ gateway'[j] = 0
    BY <1>6 DEF Login, Items
  <2>4. /\ \A q \in Processes \ {p} : proc'[q] = proc[q]
        /\ proc'[p] = [pc |-> "login", n |-> changes + 1, give |-> give, take |-> take]
        /\ UNCHANGED pool
    BY <1>6 DEF Login, ClientTypeOK
  <2> QED
    BY <2>1, <2>2, <2>3, <2>4, Numbers, ProcessFields DEF AllOffered, LeftBy
<1>7. ASSUME NEW p \in Processes, NEW items \in SUBSET Items, NEW left \in SUBSET Items,
             NEW sent \in SUBSET TaskSet, Handed(p, items, left, sent)
      PROVE  AllOffered'
  <2>1. \A t \in sent : \A j \in t.items : LeftBy(t) \in offered[j]
    BY <1>7 DEF Handed, AllOffered, LeftBy
  <2> QED
    BY <1>7, <2>1, ProcessFields DEF Handed, AllOffered, LeftBy, Idle
<1>8. ASSUME NEW p \in Processes, NEW t \in pool[p], Deliver(p, t) PROVE AllOffered'
  BY <1>8, ProcessFields, Numbers DEF Deliver, AllOffered, LeftBy, ClientTypeOK, Idle
<1>9. ASSUME NEW p \in Processes, NEW t \in pool[p], Lose(p, t) PROVE AllOffered'
  BY <1>9, ProcessFields, Numbers DEF Lose, AllOffered, LeftBy, ClientTypeOK, Idle
<1>10. ASSUME NEW p \in Processes, ProcessDies(p) PROVE AllOffered'
  BY <1>10, ProcessFields, Numbers DEF ProcessDies, AllOffered, LeftBy, ClientTypeOK, Idle
<1>11. ASSUME NEW r \in Services, ReverseSync(r) PROVE AllOffered'
  BY <1>11, ProcessFields, Numbers DEF ReverseSync, AllOffered, LeftBy, ClientTypeOK, Idle
<1> QED
  BY <1>1, <1>2, <1>3, <1>4, <1>5, <1>6, <1>7, <1>8, <1>9, <1>10, <1>11 DEF Kinds

-----------------------------------------------------------------------------
(* The assignments that services own.                                      *)

(* A step that is not about owned assignments. *)
Elsewhere ==
  /\ UNCHANGED <<owned, broken>>
  /\ \A p \in Processes : proc'[p] = proc[p] \/ (proc[p].pc # "owned" /\ proc'[p].pc # "owned")

LEMMA ElsewhereSteps ==
  ASSUME ClientTypeOK, Kinds
  PROVE  \/ Elsewhere \/ \E p \in Processes : OwnedRequest(p) \/ ProcessDies(p)
<1>1. CASE UNCHANGED vars
  BY <1>1 DEF vars, Elsewhere
<1>2. ASSUME NEW p \in Processes, NEW i \in Items, NEW n \in 1..MaxChanges, NEW val \in 0..MaxChanges,
             NEW told \in BOOLEAN, NEW sent \in SUBSET TaskSet, Opened(p, i, n, val, told, sent)
      PROVE  Elsewhere
  BY <1>2, ProcessFields DEF Opened, Elsewhere, ClientTypeOK, Idle
<1>3. ASSUME NEW p \in Processes, Commit(p) PROVE Elsewhere
  BY <1>3, ProcessFields DEF Commit, Elsewhere, ClientTypeOK, Idle
<1>4. ASSUME NEW p \in Processes, Rollback(p) PROVE Elsewhere
  BY <1>4, ProcessFields DEF Rollback, Elsewhere, ClientTypeOK, Idle
<1>5. ASSUME NEW p \in Processes, NEW i \in Grants, Associate(p, i) PROVE Elsewhere
  BY <1>5, ProcessFields DEF Associate, Elsewhere, ClientTypeOK, Idle
<1>6. ASSUME NEW p \in Processes, NEW give \in SUBSET Grants, NEW take \in SUBSET Grants, Login(p, give, take)
      PROVE  Elsewhere
  BY <1>6, ProcessFields DEF Login, Elsewhere, ClientTypeOK, Idle
<1>7. ASSUME NEW p \in Processes, NEW items \in SUBSET Items, NEW left \in SUBSET Items,
             NEW sent \in SUBSET TaskSet, Handed(p, items, left, sent)
      PROVE  Elsewhere
  BY <1>7, ProcessFields DEF Handed, Elsewhere, ClientTypeOK, Idle
<1>8. ASSUME NEW p \in Processes, NEW t \in pool[p], Deliver(p, t) PROVE Elsewhere
  BY <1>8, ProcessFields DEF Deliver, Elsewhere, ClientTypeOK, Idle
<1>9. ASSUME NEW p \in Processes, NEW t \in pool[p], Lose(p, t) PROVE Elsewhere
  BY <1>9, ProcessFields DEF Lose, Elsewhere, ClientTypeOK, Idle
<1>11. ASSUME NEW r \in Services, ReverseSync(r) PROVE Elsewhere
  BY <1>11, ProcessFields DEF ReverseSync, Elsewhere, ClientTypeOK, Idle
<1> QED
  BY <1>1, <1>2, <1>3, <1>4, <1>5, <1>6, <1>7, <1>8, <1>9, <1>11 DEF Kinds

(* The request of p about an owned assignment ends, and with it what it    *)
(* asked for: the others have one rival less.                              *)
LEMMA OwnerLeaves ==
  ASSUME ClientTypeOK, OwnersAsked, OwnedIsBacked, NEW p \in Processes, NEW o \in Owned, NEW val \in BOOLEAN,
         NEW alone \in BOOLEAN,
         proc[p].pc = "owned", proc[p].item = o, proc[p].val = val, proc[p].alone = alone,
         proc'[p] = Idle, \A q \in Processes \ {p} : proc'[q] = proc[q],
         \A u \in Owned : owned'[u].service = owned[u].service,
         \A u \in Owned \ {o} : (owned'[u].gateway = owned[u].gateway) /\ (u \in broken' <=> u \in broken),
         \/ (o \in broken => o \in broken') /\ (owned'[o].gateway => owned[o].gateway) /\ (val \/ o \in broken')
         \/ /\ owned'[o].gateway <=> val
            /\ IF alone THEN o \notin broken' ELSE (o \in broken' <=> o \in broken)
  PROVE  (OwnersAsked /\ OwnedIsBacked)'
<1>1. \A q \in Processes : proc'[q].pc = "owned" => q # p /\ proc'[q] = proc[q] /\ proc[q].pc = "owned"
  BY DEF Idle
<1>2. \A q \in Processes : proc[q].pc = "owned" => /\ proc[q].item \in Owned /\ proc[q].val \in BOOLEAN
                                                    /\ proc[q].alone \in BOOLEAN
  BY ProcessFields
<1>3. val => owned[o].service \/ (~alone /\ o \in broken)
  BY DEF OwnersAsked
<1>4. ASSUME alone, NEW q \in Processes, proc[q].pc = "owned", proc[q].item = o
      PROVE  proc[q].val = val
  BY <1>4 DEF OwnersAsked
<1>5. ASSUME NEW q \in Processes, proc[q].pc = "owned", proc'[q].pc = "owned", proc[q].item = o, proc[q].val, o \in broken, o \notin broken'
      PROVE  owned[o].service
  BY <1>2, <1>3, <1>4, <1>5
<1>6. OwnersAsked'
  <2> SUFFICES ASSUME NEW q \in Processes, proc'[q].pc = "owned"
               PROVE  /\ proc'[q].val => owned'[proc'[q].item].service \/ (~proc'[q].alone /\ proc'[q].item \in broken')
                      /\ proc'[q].alone => \A r \in Processes :
                           (proc'[r].pc = "owned" /\ proc'[r].item = proc'[q].item) => proc'[r].val = proc'[q].val
    BY DEF OwnersAsked
  <2>1. proc'[q] = proc[q] /\ proc[q].pc = "owned" /\ proc[q].item \in Owned
    BY <1>1, <1>2
  <2>2. proc[q].val => owned[proc[q].item].service \/ (~proc[q].alone /\ proc[q].item \in broken)
    BY <2>1 DEF OwnersAsked
  <2>3. proc[q].alone => \A r \in Processes :
          (proc[r].pc = "owned" /\ proc[r].item = proc[q].item) => proc[r].val = proc[q].val
    BY <2>1 DEF OwnersAsked
  <2>4. proc[q].val => owned[proc[q].item].service \/ (~proc[q].alone /\ proc[q].item \in broken')
    <3>1. CASE proc[q].item # o
      BY <2>1, <2>2, <3>1
    <3>2. CASE proc[q].item = o
      BY <1>5, <2>1, <2>2, <3>2
    <3> QED
      BY <3>1, <3>2
  <2> QED
    BY <1>1, <2>1, <2>3, <2>4
<1>7. OwnedIsBacked'
  <2> SUFFICES ASSUME NEW u \in Owned, owned'[u].gateway,
                      \A q \in Processes : (proc'[q].pc = "owned" /\ proc'[q].item = u) => proc'[q].val = TRUE
               PROVE  owned'[u].service \/ u \in broken'
    BY DEF OwnedIsBacked, Rivals, Asking
  <2>1. ASSUME owned[u].gateway, \A q \in Processes : (proc[q].pc = "owned" /\ proc[q].item = u) => proc[q].val = TRUE
        PROVE  owned[u].service \/ u \in broken
    BY <2>1 DEF OwnedIsBacked, Rivals, Asking
  <2>2. CASE u # o
    BY <2>1, <2>2
  <2>3. CASE u = o /\ val = TRUE
    <3>1. \A q \in Processes : (proc[q].pc = "owned" /\ proc[q].item = u) => proc[q].val = TRUE
      BY <2>3
    <3>2. owned[u].gateway => owned[u].service \/ u \in broken
      BY <2>1, <3>1
    <3> QED
      BY <1>3, <2>3, <3>2
  <2>4. CASE u = o /\ val = FALSE
    BY <2>4
  <2> QED
    BY <2>2, <2>3, <2>4
<1> QED
  BY <1>6, <1>7

LEMMA OwnersStep ==
  ASSUME ClientTypeOK, OwnersAsked, OwnedIsBacked, Kinds
  PROVE  (OwnersAsked /\ OwnedIsBacked)'
<1>1. CASE Elsewhere
  BY <1>1 DEF Elsewhere, OwnersAsked, OwnedIsBacked, Rivals, Asking
<1>2. ASSUME NEW p \in Processes, NEW i \in Items \cup Owned, Load(p, i) PROVE (OwnersAsked /\ OwnedIsBacked)'
  <2>1. Elsewhere
    BY <1>2 DEF Load, Elsewhere, ClientTypeOK
  <2> QED
    BY <1>1, <2>1
<1>3. ASSUME NEW p \in Processes, Decline(p) PROVE (OwnersAsked /\ OwnedIsBacked)'
  <2>1. Elsewhere
    BY <1>3 DEF Decline, Elsewhere, ClientTypeOK, Idle
  <2> QED
    BY <1>1, <2>1
<1>4. ASSUME NEW p \in Processes, proc[p].pc = "owned"
      PROVE  /\ proc[p].item \in Owned /\ proc[p].val \in BOOLEAN /\ proc[p].alone \in BOOLEAN
             /\ \A o \in Owned : owned[o] \in [gateway : BOOLEAN, service : BOOLEAN]
  BY <1>4, ProcessFields DEF ClientTypeOK
<1>5. ASSUME NEW p \in Processes, CommitOwned(p) PROVE (OwnersAsked /\ OwnedIsBacked)'
  <2>1. PICK o \in Owned, val \in BOOLEAN, alone \in BOOLEAN :
          proc[p].item = o /\ proc[p].val = val /\ proc[p].alone = alone
    BY <1>4, <1>5 DEF CommitOwned
  <2>2. /\ proc[p].pc = "owned" /\ proc'[p] = Idle /\ \A q \in Processes \ {p} : proc'[q] = proc[q]
        /\ owned' = [owned EXCEPT ![o].gateway = val]
        /\ broken' = IF alone THEN broken \ {o} ELSE broken
    BY <1>5, <2>1 DEF CommitOwned, ClientTypeOK
  <2>3. /\ \A u \in Owned : owned'[u].service = owned[u].service
        /\ \A u \in Owned \ {o} : owned'[u].gateway = owned[u].gateway
        /\ owned'[o].gateway = val
    BY <1>4, <2>2 DEF ClientTypeOK
  <2>4. /\ \A u \in Owned \ {o} : (owned'[u].gateway = owned[u].gateway) /\ (u \in broken' <=> u \in broken)
        /\ owned'[o].gateway <=> val
        /\ IF alone THEN o \notin broken' ELSE (o \in broken' <=> o \in broken)
    BY <2>2, <2>3
  <2> QED
    BY <2>1, <2>2, <2>3, <2>4, OwnerLeaves
<1>6. ASSUME NEW p \in Processes, proc[p].pc = "owned", UNCHANGED owned,
             proc'[p] = Idle, \A q \in Processes \ {p} : proc'[q] = proc[q],
             broken' = IF proc[p].val THEN broken ELSE broken \cup {proc[p].item}
      PROVE  (OwnersAsked /\ OwnedIsBacked)'
  <2>1. PICK o \in Owned, val \in BOOLEAN, alone \in BOOLEAN :
          proc[p].item = o /\ proc[p].val = val /\ proc[p].alone = alone
    BY <1>4, <1>6
  <2>2. /\ \A u \in Owned \ {o} : (owned'[u].gateway = owned[u].gateway) /\ (u \in broken' <=> u \in broken)
        /\ (o \in broken => o \in broken') /\ (owned'[o].gateway => owned[o].gateway) /\ (val \/ o \in broken')
        /\ \A u \in Owned : owned'[u].service = owned[u].service
    BY <1>6, <2>1
  <2> QED
    BY <1>6, <2>1, <2>2, OwnerLeaves
<1>7. ASSUME NEW p \in Processes, RollbackOwned(p) PROVE (OwnersAsked /\ OwnedIsBacked)'
  BY <1>6, <1>7 DEF RollbackOwned, ClientTypeOK
<1>8. ASSUME NEW p \in Processes, ProcessDies(p) PROVE (OwnersAsked /\ OwnedIsBacked)'
  <2>1. /\ UNCHANGED owned /\ proc'[p] = Idle /\ \A q \in Processes \ {p} : proc'[q] = proc[q]
        /\ broken' = IF proc[p].pc = "owned" /\ ~proc[p].val THEN broken \cup {proc[p].item} ELSE broken
    BY <1>8 DEF ProcessDies, ClientTypeOK
  <2>2. CASE proc[p].pc = "owned"
    BY <1>6, <2>1, <2>2
  <2>3. CASE proc[p].pc # "owned"
    BY <1>1, <2>1, <2>3 DEF Elsewhere, Idle
  <2> QED
    BY <2>2, <2>3
<1>9. ASSUME NEW p \in Processes, NEW o \in Owned, NEW val \in BOOLEAN, CallOwner(p, o, val)
      PROVE  (OwnersAsked /\ OwnedIsBacked)'
  <2> DEFINE alone == Rivals(o, val) = {}
  <2>1. alone \in BOOLEAN
    OBVIOUS
  <2>2. /\ proc[p].pc # "owned" /\ owned' = [owned EXCEPT ![o].service = val]
        /\ proc'[p] = [pc |-> "owned", item |-> o, val |-> val, alone |-> alone]
        /\ broken' = IF alone THEN broken ELSE broken \cup {o}
    BY <1>9 DEF CallOwner
  <2>3. ASSUME NEW q \in Processes \ {p}
        PROVE  IF proc[q].pc = "owned" /\ proc[q].item = o /\ proc[q].val # val
                 THEN proc'[q] = [pc |-> "owned", item |-> o, val |-> ~val, alone |-> FALSE]
                 ELSE proc'[q] = proc[q]
    BY <1>9 DEF CallOwner, Rivals, Asking
  <2>4. alone <=> \A q \in Processes \ {p} : (proc[q].pc = "owned" /\ proc[q].item = o) => proc[q].val = val
    BY <2>2 DEF Rivals, Asking
  <2> HIDE DEF alone
  <2>5. /\ \A u \in Owned : owned'[u].gateway = owned[u].gateway
        /\ \A u \in Owned \ {o} : owned'[u].service = owned[u].service
        /\ owned'[o].service = val
    BY <2>2 DEF ClientTypeOK
  <2>6. OwnersAsked'
    <3> SUFFICES ASSUME NEW q \in Processes, proc'[q].pc = "owned"
                 PROVE  /\ proc'[q].val => owned'[proc'[q].item].service \/ (~proc'[q].alone /\ proc'[q].item \in broken')
                        /\ proc'[q].alone => \A r \in Processes :
                             (proc'[r].pc = "owned" /\ proc'[r].item = proc'[q].item) => proc'[r].val = proc'[q].val
      BY DEF OwnersAsked
    <3>1. CASE q = p
      <4>1. proc'[q].item = o /\ proc'[q].val = val /\ proc'[q].alone = alone
        BY <2>2, <3>1
      <4>2. ASSUME alone, NEW r \in Processes, proc'[r].pc = "owned", proc'[r].item = o PROVE proc'[r].val = val
        BY <2>2, <2>3, <2>4, <4>2
      <4> QED
        BY <2>5, <4>1, <4>2
    <3>2. CASE q # p /\ proc[q].pc = "owned" /\ proc[q].item = o /\ proc[q].val # val
      <4>1. proc'[q].item = o /\ proc'[q].val = ~val /\ proc'[q].alone = FALSE
        BY <2>3, <3>2
      <4>2. o \in broken'
        BY <2>2, <2>4, <3>2
      <4> QED
        BY <4>1, <4>2
    <3>3. CASE q # p /\ ~(proc[q].pc = "owned" /\ proc[q].item = o /\ proc[q].val # val)
      <4>1. proc'[q] = proc[q] /\ proc[q].pc = "owned" /\ proc[q].item \in Owned
        BY <1>4, <2>3, <3>3
      <4>2. proc[q].val => owned[proc[q].item].service \/ (~proc[q].alone /\ proc[q].item \in broken)
        BY <4>1 DEF OwnersAsked
      <4>3. proc[q].alone => \A r \in Processes :
              (proc[r].pc = "owned" /\ proc[r].item = proc[q].item) => proc[r].val = proc[q].val
        BY <4>1 DEF OwnersAsked
      <4>4. proc[q].val => owned'[proc[q].item].service \/ (~proc[q].alone /\ proc[q].item \in broken')
        <5>1. CASE proc[q].item = o
          BY <2>5, <3>3, <4>1, <5>1
        <5>2. CASE proc[q].item # o
          BY <2>2, <2>5, <4>1, <4>2, <5>2
        <5> QED
          BY <5>1, <5>2
      <4>5. ASSUME proc[q].alone, NEW r \in Processes, proc'[r].pc = "owned", proc'[r].item = proc[q].item
            PROVE  proc'[r].val = proc[q].val
        <5>1. CASE r = p
          BY <2>2, <3>3, <4>1, <4>5, <5>1
        <5>2. CASE r # p /\ proc[r].pc = "owned" /\ proc[r].item = o /\ proc[r].val # val
          BY <2>3, <3>3, <4>1, <4>3, <4>5, <5>2
        <5>3. CASE r # p /\ ~(proc[r].pc = "owned" /\ proc[r].item = o /\ proc[r].val # val)
          BY <2>3, <4>3, <4>5, <5>3
        <5> QED
          BY <5>1, <5>2, <5>3
      <4> QED
        BY <4>1, <4>4, <4>5
    <3> QED
      BY <3>1, <3>2, <3>3
  <2>7. OwnedIsBacked'
    <3> SUFFICES ASSUME NEW u \in Owned, owned'[u].gateway,
                        \A q \in Processes : (proc'[q].pc = "owned" /\ proc'[q].item = u) => proc'[q].val = TRUE
                 PROVE  owned'[u].service \/ u \in broken'
      BY DEF OwnedIsBacked, Rivals, Asking
    <3>1. CASE u = o
      BY <2>2, <2>5, <3>1
    <3>2. CASE u # o
      <4>1. \A q \in Processes : (proc[q].pc = "owned" /\ proc[q].item = u) => proc[q].val = TRUE
        BY <2>2, <2>3, <3>2
      <4>2. owned[u].gateway => owned[u].service \/ u \in broken
        BY <4>1 DEF OwnedIsBacked, Rivals, Asking
      <4> QED
        BY <2>2, <2>5, <3>2, <4>2
    <3> QED
      BY <3>1, <3>2
  <2> QED
    BY <2>6, <2>7
<1> QED
  BY <1>1, <1>2, <1>3, <1>5, <1>7, <1>8, <1>9, ElsewhereSteps DEF OwnedRequest

-----------------------------------------------------------------------------
(* Types are kept, and the copies.                                         *)

LEMMA ClientTypeStep ==
  ASSUME ClientTypeOK, Kinds
  PROVE  ClientTypeOK'
<1> USE ClientAssumption
<1>1. CASE UNCHANGED vars
  BY <1>1 DEF vars, ClientTypeOK
<1>2. ASSUME NEW p \in Processes, NEW i \in Items, NEW n \in 1..MaxChanges, NEW val \in 0..MaxChanges,
             NEW told \in BOOLEAN, NEW sent \in SUBSET TaskSet, Opened(p, i, n, val, told, sent)
      PROVE  ClientTypeOK'
  <2>1. proc' \in [Processes -> ProcessStates] /\ pool' \in [Processes -> SUBSET TaskSet]
    <3>1. [pc |-> "open", item |-> i, n |-> n, val |-> val, told |-> told] \in ProcessStates
      BY DEF ProcessStates
    <3>2. \A q \in Processes : proc'[q] \in ProcessStates /\ pool'[q] \in SUBSET TaskSet
      BY <1>2, <3>1 DEF Opened, ClientTypeOK
    <3> QED
      BY <1>2, <3>2 DEF Opened
  <2>2. offered' \in [Items -> SUBSET (0..MaxChanges)]
    BY <1>2 DEF Opened, ClientTypeOK
  <2> QED
    BY <1>2, <2>1, <2>2 DEF Opened, ClientTypeOK
<1>3. ASSUME NEW p \in Processes, Commit(p) PROVE ClientTypeOK'
  <2>1. proc[p].item \in Items /\ proc[p].n \in 1..MaxChanges /\ proc[p].val \in 0..MaxChanges
    BY <1>3, ProcessFields DEF Commit
  <2> QED
    BY <1>3, <2>1 DEF Commit, ClientTypeOK, ProcessStates
<1>4. ASSUME NEW p \in Processes, Rollback(p) PROVE ClientTypeOK'
  <2>1. proc[p].item \in Items
    BY <1>4, ProcessFields DEF Rollback
  <2> QED
    BY <1>4, <2>1 DEF Rollback, ClientTypeOK, ProcessStates
<1>5. ASSUME NEW p \in Processes, NEW i \in Grants, Associate(p, i) PROVE ClientTypeOK'
  <2>1. changes + 1 \in 1..MaxChanges /\ i \in Items
    BY <1>5 DEF Associate, ClientTypeOK, Items
  <2>2. gateway' \in [Items -> 0..MaxChanges]
    BY <1>5, <2>1 DEF Associate, ClientTypeOK
  <2>3. offered' \in [Items -> SUBSET (0..MaxChanges)]
    BY <1>5, <2>1 DEF Associate, ClientTypeOK
  <2>4. excuse' \in [Services -> SUBSET Items]
    BY <1>5, <2>1 DEF Associate, ClientTypeOK
  <2> QED
    BY <1>5, <2>1, <2>2, <2>3, <2>4 DEF Associate, ClientTypeOK
<1>6. ASSUME NEW p \in Processes, NEW give \in SUBSET Grants, NEW take \in SUBSET Grants, Login(p, give, take)
      PROVE  ClientTypeOK'
  <2>1. changes + 1 \in 1..MaxChanges /\ give \subseteq Items /\ take \subseteq Items
    BY <1>6 DEF Login, ClientTypeOK, Items
  <2>2. gateway' \in [Items -> 0..MaxChanges] /\ ver' \in [Items -> 0..MaxChanges]
    BY <1>6, <2>1 DEF Login, ClientTypeOK
  <2>3. offered' \in [Items -> SUBSET (0..MaxChanges)]
    BY <1>6, <2>2 DEF Login, ClientTypeOK
  <2>4. proc' \in [Processes -> ProcessStates]
    BY <1>6, <2>1 DEF Login, ClientTypeOK, ProcessStates
  <2> QED
    BY <1>6, <2>1, <2>2, <2>3, <2>4 DEF Login, ClientTypeOK
<1>7. ASSUME NEW p \in Processes, NEW items \in SUBSET Items, NEW left \in SUBSET Items,
             NEW sent \in SUBSET TaskSet, Handed(p, items, left, sent)
      PROVE  ClientTypeOK'
  <2>1. proc[p].n \in 1..MaxChanges
    BY <1>7, ProcessFields DEF Handed
  <2>2. Idle \in ProcessStates /\ [pc |-> "flush", n |-> proc[p].n, give |-> {}, take |-> left] \in ProcessStates
    BY <2>1 DEF ProcessStates
  <2>3. proc' \in [Processes -> ProcessStates] /\ pool' \in [Processes -> SUBSET TaskSet]
    <3>1. \A q \in Processes : proc'[q] \in ProcessStates /\ pool'[q] \in SUBSET TaskSet
      BY <1>7, <2>2 DEF Handed, ClientTypeOK
    <3> QED
      BY <1>7, <3>1 DEF Handed
  <2>4. excuse' \in [Services -> SUBSET Items]
    BY <1>7 DEF Handed, ClientTypeOK
  <2> QED
    BY <1>7, <2>3, <2>4 DEF Handed, ClientTypeOK
<1>8. ASSUME NEW p \in Processes, NEW t \in pool[p], Deliver(p, t) PROVE ClientTypeOK'
  <2>1. t \in TaskSet
    BY DEF ClientTypeOK
  <2>2. \A i \in Items : Result(t, i) \in 0..MaxChanges
    BY <2>1 DEF Result, ClientTypeOK, TaskSet
  <2> QED
    BY <1>8, <2>1, <2>2 DEF Deliver, ClientTypeOK, TaskSet
<1>9. ASSUME NEW p \in Processes, NEW t \in pool[p], Lose(p, t) PROVE ClientTypeOK'
  BY <1>9 DEF Lose, ClientTypeOK, TaskSet
<1>10. ASSUME NEW p \in Processes, ProcessDies(p) PROVE ClientTypeOK'
  <2> DEFINE held == CASE proc[p].pc = "open" -> IF proc[p].told THEN {proc[p].item} ELSE {}
                      [] proc[p].pc \in {"login", "flush"} -> proc[p].give \cup proc[p].take
                      [] OTHER -> {}
  <2>1. held \subseteq Items
    BY ProcessFields
  <2>2. \A s \in Services : UNION {t.items : t \in {u \in pool[p] : u.svc = s}} \subseteq Items
    BY DEF ClientTypeOK, TaskSet
  <2>3. proc[p].pc = "owned" => proc[p].item \in Owned
    BY ProcessFields
  <2> HIDE DEF held
  <2>4. excuse' = [s \in Services |-> excuse[s] \cup held \cup UNION {t.items : t \in {u \in pool[p] : u.svc = s}}]
    BY <1>10 DEF ProcessDies, held
  <2>5. excuse' \in [Services -> SUBSET Items]
    BY <2>1, <2>2, <2>4 DEF ClientTypeOK
  <2> QED
    BY <1>10, <2>3, <2>5 DEF ProcessDies, ClientTypeOK, ProcessStates
<1>11. ASSUME NEW r \in Services, ReverseSync(r) PROVE ClientTypeOK'
  BY <1>11 DEF ReverseSync, ClientTypeOK
<1>12. ASSUME NEW p \in Processes, NEW i \in Items \cup Owned, Load(p, i) PROVE ClientTypeOK'
  BY <1>12 DEF Load, ClientTypeOK, ProcessStates, data
<1>13. ASSUME NEW p \in Processes, Decline(p) PROVE ClientTypeOK'
  BY <1>13 DEF Decline, ClientTypeOK, ProcessStates, data
<1>14. ASSUME NEW p \in Processes, NEW o \in Owned, NEW val \in BOOLEAN, CallOwner(p, o, val) PROVE ClientTypeOK'
  <2> DEFINE alone == Rivals(o, val) = {}
  <2>a. changes' \in 1..MaxChanges
    BY <1>14 DEF CallOwner, ClientTypeOK
  <2>b. owned' \in [Owned -> [gateway : BOOLEAN, service : BOOLEAN]]
    BY <1>14 DEF CallOwner, ClientTypeOK
  <2>2. \A b \in BOOLEAN, c \in BOOLEAN : [pc |-> "owned", item |-> o, val |-> b, alone |-> c] \in ProcessStates
    BY DEF ProcessStates
  <2>3. alone \in BOOLEAN
    OBVIOUS
  <2>4. /\ proc' = [q \in Processes |->
             CASE q = p -> [pc |-> "owned", item |-> o, val |-> val, alone |-> alone]
               [] q # p /\ q \in Rivals(o, val) -> [pc |-> "owned", item |-> o, val |-> ~val, alone |-> FALSE]
               [] OTHER -> proc[q]]
        /\ UNCHANGED <<gateway, service, pool, ver, excuse, offered>> /\ broken' \subseteq Owned
    BY <1>14 DEF CallOwner, data, ClientTypeOK
  <2> HIDE DEF alone
  <2>5. proc' \in [Processes -> ProcessStates]
    BY <2>2, <2>3, <2>4 DEF ClientTypeOK
  <2> QED
    BY <2>a, <2>b, <2>4, <2>5 DEF ClientTypeOK
<1>15. ASSUME NEW p \in Processes, CommitOwned(p) PROVE ClientTypeOK'
  <2>1. proc[p].item \in Owned /\ proc[p].val \in BOOLEAN
    BY <1>15, ProcessFields DEF CommitOwned
  <2> QED
    BY <1>15, <2>1 DEF CommitOwned, ClientTypeOK, ProcessStates, data
<1>16. ASSUME NEW p \in Processes, RollbackOwned(p) PROVE ClientTypeOK'
  <2>1. proc[p].item \in Owned
    BY <1>16, ProcessFields DEF RollbackOwned
  <2> QED
    BY <1>16, <2>1 DEF RollbackOwned, ClientTypeOK, ProcessStates, data
<1> QED
  BY <1>1, <1>2, <1>3, <1>4, <1>5, <1>6, <1>7, <1>8, <1>9, <1>10, <1>11, <1>12, <1>13, <1>14, <1>15, <1>16
     DEF Kinds, OwnedRequest

LEMMA NewestIs ==
  ASSUME Locked, NEW i \in Items, NEW n, NEW val, IsNewest(i, n, val)
  PROVE  n = Newest(i)
<1>1. \A q : q \in Told(i) <=> q \in Processes /\ Tells(q, i)
  BY DEF Told, Open, Tells
<1>2. CASE Told(i) = {}
  BY <1>1, <1>2 DEF IsNewest, Newest
<1>3. CASE Told(i) # {}
  <2>1. PICK q \in Processes : Tells(q, i) /\ n = proc[q].n
    BY <1>1, <1>3 DEF IsNewest
  <2>2. (CHOOSE p \in Told(i) : TRUE) \in Told(i)
    BY <1>3
  <2>3. \A p \in Told(i) : p = q
    BY <1>1, <2>1 DEF Tells, Locked
  <2> QED
    BY <1>3, <2>1, <2>2, <2>3 DEF Newest
<1> QED
  BY <1>2, <1>3

(* A step that leaves the row of an item and the transaction that told the *)
(* services of it alone leaves its newest change alone.                    *)
LEMMA NewestKept ==
  ASSUME NEW i \in Items, NEW n, NEW val, IsNewest(i, n, val)',
         ver'[i] = ver[i], gateway'[i] = gateway[i],
         \A q \in Processes : Tells(q, i) \/ Tells(q, i)' => proc'[q] = proc[q]
  PROVE  IsNewest(i, n, val)
  BY DEF IsNewest, Tells

LEMMA AlikeItself ==
  ASSUME NEW i, NEW a PROVE Alike(i, a, a)
  BY DEF Alike

LEMMA CopiesStep ==
  ASSUME ClientTypeOK, Locked, TasksTrue, CopiesAccounted, Kinds
  PROVE  CopiesAccounted'
<1> SUFFICES ASSUME NEW s \in Services, NEW j \in Items, NEW m \in 0..MaxChanges, NEW v \in 0..MaxChanges,
                    IsNewest(j, m, v)'
             PROVE  j \in excuse'[s] \/ OnItsWay(s, j, m)' \/ Alike(j, service'[s][j], v)
  BY DEF CopiesAccounted, Alike
<1> DEFINE Accounted == j \in excuse'[s] \/ OnItsWay(s, j, m)' \/ Alike(j, service'[s][j], v)
<1>a. ASSUME IsNewest(j, m, v), service'[s][j] = service[s][j], j \in excuse[s] => j \in excuse'[s],
             OnItsWay(s, j, m) => OnItsWay(s, j, m)' \/ j \in excuse'[s]
      PROVE  Accounted
  BY <1>a DEF CopiesAccounted
<1>1. ASSUME Aside PROVE Accounted
  <2>1. \A q \in Processes : proc[q].pc \in {"open", "login", "flush"} \/ proc'[q].pc \in {"open", "login", "flush"}
                               => proc'[q] = proc[q]
    BY <1>1 DEF Aside
  <2>2. IsNewest(j, m, v)
    <3>1. \A q \in Processes : Tells(q, j) \/ Tells(q, j)' => proc'[q] = proc[q]
      BY <2>1 DEF Tells
    <3> QED
      BY <1>1, <3>1, NewestKept DEF Aside
  <2>3. OnItsWay(s, j, m) => OnItsWay(s, j, m)'
    BY <1>1, <2>1 DEF Aside, OnItsWay
  <2> QED
    BY <1>1, <1>a, <2>2, <2>3 DEF Aside
<1>2. ASSUME NEW p \in Processes, NEW i \in Items, NEW n \in 1..MaxChanges, NEW val \in 0..MaxChanges,
             NEW told \in BOOLEAN, NEW sent \in SUBSET TaskSet, Opened(p, i, n, val, told, sent)
      PROVE  Accounted
  <2>1. /\ UNCHANGED <<gateway, ver, service, excuse>>
        /\ \A q \in Processes \ {p} : proc'[q] = proc[q]
        /\ \A q \in Processes : pool[q] \subseteq pool'[q]
        /\ proc[p].pc \in {"idle", "loaded"}
    BY <1>2 DEF Opened
  <2>2. OnItsWay(s, j, m) => OnItsWay(s, j, m)'
    BY <2>1 DEF OnItsWay
  <2>3. CASE j = i /\ told
    <3>1. \A q \in Processes : Tells(q, j)' => q = p
      BY <1>2, <2>3 DEF Opened, Tells
    <3>2. Tells(p, j)' /\ proc'[p].n = n
      BY <1>2, <2>3 DEF Opened, Tells
    <3>3. m = n
      BY <3>1, <3>2 DEF IsNewest
    <3>4. \E t \in pool'[p] : t.svc = s /\ j \in t.items /\ t.n = m
      BY <1>2, <2>3, <3>3 DEF Opened
    <3> QED
      BY <3>4 DEF OnItsWay
  <2>4. CASE ~(j = i /\ told)
    <3>1. ~Tells(p, j) /\ ~Tells(p, j)'
      BY <1>2, <2>4 DEF Opened, Tells
    <3>2. IsNewest(j, m, v)
      BY <2>1, <3>1, NewestKept
    <3> QED
      BY <1>a, <2>1, <2>2, <3>2
  <2> QED
    BY <2>3, <2>4
<1>3. ASSUME NEW p \in Processes, Commit(p) PROVE Accounted
  <2>1. /\ proc'[p] = Idle /\ \A q \in Processes \ {p} : proc'[q] = proc[q]
        /\ proc[p].pc = "open" /\ proc[p].item \in Items
        /\ gateway'[proc[p].item] = proc[p].val /\ ver'[proc[p].item] = proc[p].n
        /\ \A i \in Items \ {proc[p].item} : gateway'[i] = gateway[i] /\ ver'[i] = ver[i]
        /\ UNCHANGED <<service, pool>> /\ (j \in excuse[s] => j \in excuse'[s])
        /\ ~proc[p].told => proc[p].item \in excuse'[s]
    BY <1>3, ProcessFields DEF Commit, ClientTypeOK
  <2>2. OnItsWay(s, j, m) => OnItsWay(s, j, m)'
    BY <2>1 DEF OnItsWay
  <2>3. CASE j = proc[p].item /\ ~proc[p].told
    BY <2>1, <2>3
  <2>4. CASE j = proc[p].item /\ proc[p].told
    <3>1. \A q \in Processes : ~Tells(q, j)'
      BY <2>1, <2>4 DEF Tells, Locked, Idle
    <3>2. m = proc[p].n /\ v = proc[p].val
      BY <2>1, <2>4, <3>1 DEF IsNewest
    <3>3. IsNewest(j, m, v)
      BY <2>1, <2>4, <3>2 DEF IsNewest, Tells
    <3> QED
      BY <1>a, <2>1, <2>2, <3>3
  <2>5. CASE j # proc[p].item
    <3>1. ~Tells(p, j) /\ ~Tells(p, j)'
      BY <2>1, <2>5 DEF Tells, Idle
    <3>2. IsNewest(j, m, v)
      BY <2>1, <2>5, <3>1, NewestKept
    <3> QED
      BY <1>a, <2>1, <2>2, <3>2
  <2> QED
    BY <2>3, <2>4, <2>5
<1>4. ASSUME NEW p \in Processes, Rollback(p) PROVE Accounted
  <2>1. /\ proc'[p] = Idle /\ \A q \in Processes \ {p} : proc'[q] = proc[q]
        /\ proc[p].pc = "open" /\ (j \in excuse[s] => j \in excuse'[s])
        /\ proc[p].told => proc[p].item \in excuse'[s]
        /\ UNCHANGED <<gateway, ver, service, pool>>
    BY <1>4, ProcessFields DEF Rollback, ClientTypeOK
  <2>2. CASE Tells(p, j)
    BY <2>1, <2>2 DEF Tells
  <2>3. CASE ~Tells(p, j)
    <3>1. IsNewest(j, m, v)
      BY <2>1, <2>3, NewestKept DEF Idle, Tells
    <3>2. OnItsWay(s, j, m) => OnItsWay(s, j, m)'
      BY <2>1 DEF OnItsWay
    <3> QED
      BY <1>a, <2>1, <3>1, <3>2
  <2> QED
    BY <2>2, <2>3
<1>5. ASSUME NEW p \in Processes, NEW i \in Grants, Associate(p, i) PROVE Accounted
  <2>1. /\ UNCHANGED <<proc, pool, service>> /\ excuse'[s] = excuse[s] \cup {i}
        /\ \A k \in Items \ {i} : gateway'[k] = gateway[k] /\ ver'[k] = ver[k]
    BY <1>5 DEF Associate, ClientTypeOK, Items
  <2>2. CASE j = i
    BY <2>1, <2>2
  <2>3. CASE j # i
    <3>1. IsNewest(j, m, v)
      BY <2>1, <2>3, NewestKept
    <3>2. OnItsWay(s, j, m) => OnItsWay(s, j, m)'
      BY <2>1 DEF OnItsWay
    <3> QED
      BY <1>a, <2>1, <3>1, <3>2
  <2> QED
    BY <2>2, <2>3
<1>6. ASSUME NEW p \in Processes, NEW give \in SUBSET Grants, NEW take \in SUBSET Grants, Login(p, give, take)
      PROVE  Accounted
  <2>1. /\ \A q \in Processes \ {p} : proc'[q] = proc[q]
        /\ proc'[p] = [pc |-> "login", n |-> changes + 1, give |-> give, take |-> take]
        /\ proc[p].pc = "idle"
        /\ \A k \in Items : ver'[k] = IF k \in give \cup take THEN changes + 1 ELSE ver[k]
        /\ \A k \in Items \ (give \cup take) : gateway'[k] = gateway[k]
        /\ UNCHANGED <<service, excuse, pool>>
    BY <1>6 DEF Login, ClientTypeOK
  <2>2. CASE j \in give \cup take
    <3>1. \A q \in Processes : ~Tells(q, j)'
      BY <1>6, <2>1, <2>2 DEF Login, Open, Tells
    <3>2. m = changes + 1
      BY <2>1, <2>2, <3>1 DEF IsNewest
    <3> QED
      BY <2>1, <2>2, <3>2 DEF OnItsWay
  <2>3. CASE j \notin give \cup take
    <3>1. IsNewest(j, m, v)
      BY <2>1, <2>3, NewestKept DEF Tells
    <3>2. OnItsWay(s, j, m) => OnItsWay(s, j, m)'
      BY <2>1 DEF OnItsWay
    <3> QED
      BY <1>a, <2>1, <3>1, <3>2
  <2> QED
    BY <2>2, <2>3
<1>7. ASSUME NEW p \in Processes, NEW items \in SUBSET Items, NEW left \in SUBSET Items,
             NEW sent \in SUBSET TaskSet, Handed(p, items, left, sent)
      PROVE  Accounted
  <2>1. /\ \A q \in Processes \ {p} : proc'[q] = proc[q] /\ pool'[q] = pool[q]
        /\ proc[p].pc \in {"login", "flush"} /\ proc'[p].pc \in {"idle", "flush"}
        /\ \A q \in Processes : pool[q] \subseteq pool'[q]
        /\ UNCHANGED <<gateway, ver, service>> /\ (j \in excuse[s] => j \in excuse'[s])
    BY <1>7 DEF Handed, Idle
  <2>2. IsNewest(j, m, v)
    BY <2>1, NewestKept DEF Tells
  <2>3. ASSUME j \in items, proc[p].n = m PROVE OnItsWay(s, j, m)' \/ j \in excuse'[s]
    <3>1. j \in excuse'[s] \/ \E t \in pool'[p] : t.svc = s /\ j \in t.items /\ t.n = m
      BY <1>7, <2>3 DEF Handed
    <3> QED
      BY <3>1 DEF OnItsWay
  <2>4. ASSUME j \in left, proc[p].n = m PROVE OnItsWay(s, j, m)'
    <3>1. proc'[p].pc = "flush" /\ j \in proc'[p].take /\ proc'[p].n = m
      BY <1>7, <2>4 DEF Handed
    <3> QED
      BY <3>1 DEF OnItsWay
  <2>5. OnItsWay(s, j, m) => OnItsWay(s, j, m)' \/ j \in excuse'[s]
    <3> SUFFICES ASSUME OnItsWay(s, j, m) PROVE OnItsWay(s, j, m)' \/ j \in excuse'[s]
      OBVIOUS
    <3>1. PICK q \in Processes :
            \/ \E t \in pool[q] : t.svc = s /\ j \in t.items /\ t.n = m
            \/ proc[q].pc \in {"login", "flush"} /\ j \in proc[q].give \cup proc[q].take /\ proc[q].n = m
      BY DEF OnItsWay
    <3>2. CASE \E t \in pool[q] : t.svc = s /\ j \in t.items /\ t.n = m
      BY <2>1, <3>2 DEF OnItsWay
    <3>3. CASE q # p /\ proc[q].pc \in {"login", "flush"} /\ j \in proc[q].give \cup proc[q].take /\ proc[q].n = m
      BY <2>1, <3>3 DEF OnItsWay
    <3>4. CASE q = p /\ j \in proc[q].give \cup proc[q].take /\ proc[q].n = m
      BY <1>7, <2>3, <2>4, <3>4 DEF Handed
    <3> QED
      BY <3>1, <3>2, <3>3, <3>4
  <2> QED
    BY <1>a, <2>1, <2>2, <2>5
<1>8. ASSUME NEW p \in Processes, NEW t \in pool[p], Deliver(p, t) PROVE Accounted
  <2>1. /\ UNCHANGED <<gateway, ver, proc>>
        /\ \A q \in Processes : \A u \in pool[q] : u # t => u \in pool'[q]
    BY <1>8 DEF Deliver, ClientTypeOK
  <2>2. IsNewest(j, m, v)
    BY <2>1, NewestKept
  <2>3. CASE ~(s = t.svc /\ j \in t.items)
    <3>1. service'[s][j] = service[s][j] /\ (j \in excuse[s] => j \in excuse'[s])
      BY <1>8, <2>3 DEF Deliver, ClientTypeOK
    <3>2. OnItsWay(s, j, m) => OnItsWay(s, j, m)'
      BY <2>1, <2>3 DEF OnItsWay
    <3> QED
      BY <1>a, <2>2, <3>1, <3>2
  <2>4. CASE s = t.svc /\ j \in t.items
    <3>1. /\ service'[s][j] = Result(t, j)
          /\ (t.n # Newest(j) \/ (Refused(t, j) /\ service[s][j] # t.n)) => j \in excuse'[s]
      BY <1>8, <2>4 DEF Deliver, ClientTypeOK
    <3>2. m = Newest(j)
      BY <2>2, NewestIs
    <3>3. t.n = m => v = LeftBy(t)
      BY <2>2, <2>4 DEF TasksTrue, IsNewest, Tells
    <3>4. CASE t.n = m /\ ~Refused(t, j)
      <4>1. Result(t, j) = LeftBy(t)
        BY <3>4 DEF Result, LeftBy
      <4> QED
        BY <3>1, <3>3, <3>4, <4>1, AlikeItself
    <3>5. CASE t.n = m /\ Refused(t, j) /\ service[s][j] = t.n
      <4>1. t.op = "create"
        BY <2>4, <3>5, ClientAssumption DEF Refused, ClientTypeOK, TaskSet
      <4>2. Result(t, j) = t.n /\ LeftBy(t) = t.n
        BY <2>4, <3>5, <4>1 DEF Result, LeftBy
      <4> QED
        BY <3>1, <3>3, <3>5, <4>2, AlikeItself
    <3> QED
      BY <3>1, <3>2, <3>4, <3>5
  <2> QED
    BY <2>3, <2>4
<1>9. ASSUME NEW p \in Processes, NEW t \in pool[p], Lose(p, t) PROVE Accounted
  <2>1. /\ UNCHANGED <<gateway, ver, proc, service>>
        /\ \A q \in Processes : \A u \in pool[q] : u # t => u \in pool'[q]
        /\ j \in excuse[s] => j \in excuse'[s]
        /\ s = t.svc /\ j \in t.items /\ t.n = Newest(j) => j \in excuse'[s]
    BY <1>9 DEF Lose, ClientTypeOK
  <2>2. IsNewest(j, m, v)
    BY <2>1, NewestKept
  <2>3. m = Newest(j)
    BY <2>2, NewestIs
  <2>4. OnItsWay(s, j, m) => OnItsWay(s, j, m)' \/ j \in excuse'[s]
    BY <2>1, <2>3 DEF OnItsWay
  <2> QED
    BY <1>a, <2>1, <2>2, <2>4
<1>10. ASSUME NEW p \in Processes, ProcessDies(p) PROVE Accounted
  <2>1. /\ proc'[p] = Idle /\ \A q \in Processes \ {p} : proc'[q] = proc[q] /\ pool'[q] = pool[q]
        /\ UNCHANGED <<gateway, ver, service>>
        /\ proc[p].pc = "open" /\ proc[p].told => proc[p].item \in excuse'[s]
        /\ proc[p].pc \in {"login", "flush"} => proc[p].give \cup proc[p].take \subseteq excuse'[s]
        /\ \A t \in pool[p] : t.svc = s => t.items \subseteq excuse'[s]
        /\ j \in excuse[s] => j \in excuse'[s]
    BY <1>10 DEF ProcessDies, ClientTypeOK
  <2>2. CASE j \in excuse'[s]
    BY <2>2
  <2>3. CASE j \notin excuse'[s]
    <3>1. ~Tells(p, j) /\ ~Tells(p, j)'
      BY <2>1, <2>3 DEF Tells, Idle
    <3>2. IsNewest(j, m, v)
      BY <2>1, <3>1, NewestKept
    <3>3. OnItsWay(s, j, m) => OnItsWay(s, j, m)'
      BY <2>1, <2>3 DEF OnItsWay
    <3> QED
      BY <1>a, <2>1, <3>2, <3>3
  <2> QED
    BY <2>2, <2>3
<1>11. ASSUME NEW r \in Services, ReverseSync(r) PROVE Accounted
  <2>1. UNCHANGED <<gateway, ver, proc, pool>>
    BY <1>11 DEF ReverseSync
  <2>2. IsNewest(j, m, v)
    BY <2>1, NewestKept
  <2>3. CASE s # r
    <3>1. service'[s] = service[s] /\ excuse'[s] = excuse[s]
      BY <1>11, <2>3 DEF ReverseSync, ClientTypeOK
    <3>2. OnItsWay(s, j, m) => OnItsWay(s, j, m)'
      BY <2>1 DEF OnItsWay
    <3> QED
      BY <1>a, <2>2, <3>1, <3>2
  <2>4. CASE s = r
    <3>1. service'[s] = gateway /\ (Told(j) # {} => j \in excuse'[s])
      BY <1>11, <2>4 DEF ReverseSync, ClientTypeOK
    <3>2. Told(j) = {} => v = gateway[j]
      BY <2>2 DEF IsNewest, Told, Open, Tells
    <3> QED
      BY <3>1, <3>2, AlikeItself
  <2> QED
    BY <2>3, <2>4
<1> QED
  BY <1>1, <1>2, <1>3, <1>4, <1>5, <1>6, <1>7, <1>8, <1>9, <1>10, <1>11 DEF Kinds

-----------------------------------------------------------------------------
(* The theorems.                                                           *)

LEMMA ClientInvInit == ClientInit => ClientInv
<1> SUFFICES ASSUME ClientInit PROVE ClientInv
  OBVIOUS
<1>1. ClientTypeOK
  BY ClientTypeInit
<1>2. \A p \in Processes : proc[p].pc = "idle" /\ pool[p] = {}
  BY DEF ClientInit, Idle
<1>3. Numbered
  BY <1>2 DEF ClientInit, Numbered
<1>4. Locked /\ TasksTrue /\ LoginsTrue
  BY <1>2 DEF Locked, TasksTrue, LoginsTrue
<1>5. CopiesAccounted
  <2>1. \A s \in Services, i \in Items : service[s][i] = gateway[i]
    BY DEF ClientInit
  <2>2. \A i \in Items, n, val \in 0..MaxChanges : IsNewest(i, n, val) => val = gateway[i]
    BY <1>2 DEF IsNewest, Tells
  <2> QED
    BY <2>1, <2>2, AlikeItself DEF CopiesAccounted
<1>6. OwnersAsked
  BY <1>2 DEF OwnersAsked
<1>8. OwnedIsBacked
  <2>1. \A o \in Owned : \E b \in BOOLEAN : owned[o] = [gateway |-> b, service |-> b]
    BY DEF ClientInit
  <2>2. ASSUME NEW o \in Owned PROVE owned[o].gateway => owned[o].service
    <3>1. PICK b \in BOOLEAN : owned[o] = [gateway |-> b, service |-> b]
      BY <2>1
    <3>2. owned[o].gateway = b /\ owned[o].service = b
      BY <3>1
    <3> QED
      BY <3>2
  <2> QED
    BY <2>2 DEF OwnedIsBacked
<1>7. AllOffered
  BY <1>2 DEF ClientInit, AllOffered
<1> QED
  BY <1>1, <1>3, <1>4, <1>5, <1>6, <1>7, <1>8 DEF ClientInv

LEMMA ClientInvStep == ClientInv /\ [ClientNext]_vars => ClientInv'
<1> SUFFICES ASSUME ClientInv, [ClientNext]_vars PROVE ClientInv'
  OBVIOUS
<1>1. Kinds
  BY StepKinds DEF ClientInv
<1> QED
  BY <1>1, ClientTypeStep, NumberedStep, LockedStep, TasksStep, LoginsStep, CopiesStep, OwnersStep, OfferedStep
     DEF ClientInv

LEMMA ClientInvariant == ClientSpec => []ClientInv
  BY ClientInvInit, ClientInvStep, PTL DEF ClientSpec

(* Types of the client's rows, requests and tasks. *)
THEOREM ClientTypeCorrect == ClientSpec => []ClientTypeOK
<1>1. ClientInv => ClientTypeOK
  BY DEF ClientInv
<1> QED
  BY <1>1, ClientInvariant, PTL

(* Whatever is lost, refused, overtaken or rolled back, and whenever a     *)
(* process dies: where nothing is on its way, gateway and service agree or *)
(* one of the known reasons applies, and an owned assignment is backed by  *)
(* its service (AllServicesClient, the API views' mixins, ReconcileUser).  *)
THEOREM DivergenceHasAReason == ClientSpec => []DivergenceExplained
<1>1. ClientInv => DivergenceExplained
  <2> SUFFICES ASSUME ClientInv PROVE DivergenceExplained
    OBVIOUS
  <2>1. OwnedIsBacked
    BY DEF ClientInv
  <2>2. ASSUME NEW s \in Services, NEW i \in Items, Settled(i)
        PROVE  Alike(i, service[s][i], gateway[i]) \/ i \in excuse[s]
    <3>1. ver[i] \in 0..MaxChanges /\ gateway[i] \in 0..MaxChanges
      BY DEF ClientInv, ClientTypeOK
    <3>2. IsNewest(i, ver[i], gateway[i])
      BY <2>2 DEF Settled, IsNewest, Tells, Open
    <3>3. ~OnItsWay(s, i, ver[i])
      BY <2>2 DEF Settled, OnItsWay
    <3> QED
      BY <3>1, <3>2, <3>3 DEF ClientInv, CopiesAccounted
  <2> QED
    BY <2>1, <2>2 DEF DivergenceExplained, CopiesExplained
<1> QED
  BY <1>1, ClientInvariant, PTL

(* A step of the client is a step of the registry: only requests put       *)
(* contents forward and only commits adopt them, and a copy follows with   *)
(* contents that were put forward (SharedRegistry).                        *)
LEMMA RegistryStep ==
  ClientInv /\ [ClientNext]_vars => [Registry!Next]_<<gateway, service, offered>>
<1> SUFFICES ASSUME ClientInv, [ClientNext]_vars
             PROVE  Registry!Next \/ UNCHANGED <<gateway, service, offered>>
  OBVIOUS
<1> USE DEF Registry!Next, Registry!Propose, Registry!Adopt, Registry!Follow
<1>a. ClientTypeOK /\ AllOffered
  BY DEF ClientInv
<1>b. AllOffered'
  BY ClientInvStep DEF ClientInv
<1>c. \A i \in Items : gateway'[i] \in offered'[i]
  BY <1>b DEF AllOffered
<1>d. Kinds
  BY StepKinds DEF ClientInv
<1> DEFINE Step == Registry!Next \/ UNCHANGED <<gateway, service, offered>>
<1>1. CASE Aside
  BY <1>1 DEF Aside
<1>2. ASSUME NEW p \in Processes, NEW i \in Items, NEW n \in 1..MaxChanges, NEW val \in 0..MaxChanges,
             NEW told \in BOOLEAN, NEW sent \in SUBSET TaskSet, Opened(p, i, n, val, told, sent)
      PROVE  Step
  BY <1>2, <1>a, <1>c DEF Opened, ClientTypeOK
<1>3. ASSUME NEW p \in Processes, Commit(p) PROVE Step
  BY <1>3, <1>a, <1>c DEF Commit, ClientTypeOK
<1>4. ASSUME NEW p \in Processes, Rollback(p) PROVE Step
  BY <1>4 DEF Rollback
<1>5. ASSUME NEW p \in Processes, NEW i \in Grants, Associate(p, i) PROVE Step
  BY <1>5, <1>a, <1>c DEF Associate, ClientTypeOK
<1>6. ASSUME NEW p \in Processes, NEW give \in SUBSET Grants, NEW take \in SUBSET Grants, Login(p, give, take)
      PROVE  Step
  BY <1>6, <1>a, <1>c DEF Login, ClientTypeOK
<1>7. ASSUME NEW p \in Processes, NEW items \in SUBSET Items, NEW left \in SUBSET Items,
             NEW sent \in SUBSET TaskSet, Handed(p, items, left, sent)
      PROVE  Step
  BY <1>7 DEF Handed
<1>8. ASSUME NEW p \in Processes, NEW t \in pool[p], Deliver(p, t) PROVE Step
  <2>1. \A i \in t.items : Result(t, i) \in {service[t.svc][i]} \cup offered[i]
    BY <1>a DEF Result, AllOffered, LeftBy
  <2>2. \A s \in Services, i \in Items : service'[s][i] \in {service[s][i]} \cup offered[i]
    BY <1>8, <1>a, <2>1 DEF Deliver, ClientTypeOK
  <2> QED
    BY <1>8, <2>2 DEF Deliver
<1>9. ASSUME NEW p \in Processes, NEW t \in pool[p], Lose(p, t) PROVE Step
  BY <1>9 DEF Lose
<1>10. ASSUME NEW p \in Processes, ProcessDies(p) PROVE Step
  BY <1>10 DEF ProcessDies
<1>11. ASSUME NEW r \in Services, ReverseSync(r) PROVE Step
  <2>1. \A s \in Services, i \in Items : service'[s][i] \in {service[s][i]} \cup offered[i]
    BY <1>11, <1>a DEF ReverseSync, ClientTypeOK, AllOffered
  <2> QED
    BY <1>11, <2>1 DEF ReverseSync
<1> QED
  BY <1>d, <1>1, <1>2, <1>3, <1>4, <1>5, <1>6, <1>7, <1>8, <1>9, <1>10, <1>11 DEF Kinds

(* The safety part of the refinement: no service ever holds a content that *)
(* no request put forward, through reordering, loss, phantom messages and  *)
(* crashes.  That each is again and again brought up to date is checked by *)
(* TLC (ImplementsRegistry).                                               *)
THEOREM ClientRefinesRegistry ==
  ClientSpec => Registry!Init /\ [][Registry!Next]_<<gateway, service, offered>>
<1>1. ClientInit => Registry!Init
  BY DEF ClientInit, Registry!Init
<1> QED
  BY <1>1, ClientInvariant, RegistryStep, PTL DEF ClientSpec
=============================================================================
