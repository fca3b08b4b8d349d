----------------------------- MODULE UserAccounts -----------------------------
(***************************************************************************)
(* The user API where it changes usernames and the links of users to       *)
(* authenticators (serializers/user.py, models/user.py).                   *)
(*                                                                         *)
(* A request loads the user with its links (with_auth_prefetch) and is     *)
(* validated; later its changes are made in one transaction.  In between   *)
(* other requests commit.  What was loaded is still used: the User object  *)
(* is saved with all its fields, and authenticator_users.all() answers     *)
(* with the rows as loaded.                                                *)
(***************************************************************************)
EXTENDS Naturals, FiniteSets

CONSTANTS
  Users,
  Names,
  Local, Sso,     \* the authenticators, one of type local and one of another
  Joined,         \* a text that names several uids,
  JoinedUids,     \* these: ', '.join(JoinedUids)
  None,           \* a field that the request does not have, no user, no uid
  Null,           \* null for a field
  Requests,       \* the requests that may come
  MaxRequests,
  Accounts        \* the usernames, links and last logins to begin with

Providers == {Local, Sso}
Uids == Names \cup {Joined, ""}
Links == [id : Nat, user : Users, provider : Providers, uid : Uids]

(* What the database promises: every link has its user, no two share an    *)
(* authenticator and a uid, no two users a username.                       *)
Unique(rs) == \A l, m \in rs : l.provider = m.provider /\ l.uid = m.uid => l = m

DatabaseOK(names, rs, from) ==
  /\ names \in [Users -> Names \cup {None}] /\ from \in [Users -> Providers \cup {None}]
  /\ \A u, v \in Users : u # v /\ names[u] # None => names[u] # names[v]
  /\ IsFiniteSet(rs) /\ \A l \in rs : l \in Links /\ names[l.user] # None
  /\ Unique(rs) /\ \A l, m \in rs : l.id = m.id => l = m

(* A request: a user, and the fields of the form.  "associated" maps some  *)
(* of the authenticators to uids.                                          *)
ASSUME AccountsAssumption ==
  /\ Local # Sso /\ MaxRequests \in Nat
  /\ None \notin Uids \cup Providers \cup {Null} /\ \A S \in SUBSET Providers : S \notin {None, Null}
  /\ \A a \in Accounts : DatabaseOK(a.username, a.rows, a.lastFrom)
  /\ \A r \in Requests :
       /\ r.user \in Users /\ r.partial \in BOOLEAN /\ r.superuser \in BOOLEAN
       /\ r.username \in Names \cup {None}
       /\ r.authenticators \in (SUBSET Providers) \cup {None, Null}
       /\ r.uid \in Uids \cup {None}
       /\ r.associated = None \/ (DOMAIN r.associated \subseteq Providers
                                  /\ \A p \in DOMAIN r.associated : r.associated[p] \in Uids)

VARIABLES
  username,     \* user -> username, or None if there is no such user
  rows,         \* AuthenticatorUser: records [id, user, provider, uid]
  lastFrom,     \* user -> last_login_from, or None
  pending,      \* validated requests, with what they have loaded
  received

accountVars == <<username, rows, lastFrom, pending, received>>

AccountsInit ==
  /\ \E a \in Accounts : username = a.username /\ rows = a.rows /\ lastFrom = a.lastFrom
  /\ pending = {} /\ received = 0

-----------------------------------------------------------------------------
Of(u, rs) == {l \in rs : l.user = u}
UidsOf(u, rs) == {l.uid : l \in Of(u, rs)}
ProvidersOf(u, rs) == {l.provider : l \in Of(u, rs)}
Associated(u, rs) == {<<l.provider, l.uid>> : l \in Of(u, rs)}

(* Field values that Python takes for true. *)
Given(v) == v \notin {None, ""}

(* A faulty variant that looks at the user's own links. *)
ConflictOwn(u, p, uid, rs) == \E l \in Of(u, rs) : l.provider = p /\ l.uid = uid

(* _check_uid_conflict *)
Conflict(u, p, uid, rs) == \E l \in rs : l.user # u /\ l.provider = p /\ l.uid = uid

(* _validate_associated_authenticators_conflicts *)
NoConflicts(u, associated, rs) == \A p \in DOMAIN associated : ~Conflict(u, p, associated[p], rs)

(* _is_authenticator_uid_unchanged: the value is split at commas. *)
Unchanged(uid, u, rs) == (IF uid = Joined THEN JoinedUids ELSE {uid}) = UidsOf(u, rs)

(* validate_associated_authenticators: no entries and the entries there    *)
(* are pass at once.                                                       *)
AssociatedValid(r, rs) ==
  \/ r.associated = None \/ DOMAIN r.associated = {}
  \/ {<<p, r.associated[p]>> : p \in DOMAIN r.associated} = Associated(r.user, rs)
  \/ /\ r.superuser
     /\ \A p \in DOMAIN r.associated : r.associated[p] # ""
     /\ NoConflicts(r.user, r.associated, rs)

(* data.get('authenticators'): null is as if it were not there. *)
Asked(r) == IF r.authenticators = Null THEN None ELSE r.authenticators

(* validate: the deprecated fields, unless the new one is there. *)
LegacyValid(r, names, rs) ==
  LET current == ProvidersOf(r.user, rs)
      adding  == Asked(r) \ current
      onlyRemoving == Asked(r) \subseteq current /\ Asked(r) # current
  IN \/ r.associated # None \/ Asked(r) = None
     \/ Asked(r) = {} /\ ~Given(r.uid)
     \/ /\ Asked(r) # {}
        /\ \/ onlyRemoving
           \/ /\ Given(r.uid)
              /\ \A p \in Asked(r) : ~Conflict(r.user, p, r.uid, rs)
              /\ \/ Cardinality(Asked(r)) = 1 \/ names[r.user] = None
                 \/ adding = {} /\ Unchanged(r.uid, r.user, rs)

(* The username must be free (the unique validator of the field). *)
Valid(r, names, rs) ==
  /\ \A u \in Users \ {r.user} : names[u] = None \/ names[u] # r.username
  /\ AssociatedValid(r, rs) /\ LegacyValid(r, names, rs)

(* _handle_partial_update: the first uid the database returns, also when   *)
(* authenticators is null; there is no such value if the user has none,    *)
(* and the request fails.                                                  *)
EffectiveUids(r, names, rs) ==
  IF r.partial /\ r.authenticators # None /\ r.uid = None /\ names[r.user] # None
    THEN UidsOf(r.user, rs) ELSE {r.uid}

(* A user that has been deleted is not found; a new one has another id,    *)
(* so a name of the model is not reused while a request still refers to it.*)
Receive(r) ==
  /\ received < MaxRequests
  /\ username[r.user] = None => /\ r.username # None /\ ~r.partial
                                /\ \A q \in pending : q.req.user # r.user
  /\ received' = received + 1
  /\ IF Valid(r, username, rows)
       THEN \/ \E uid \in EffectiveUids(r, username, rows) :
                 pending' = pending \cup
                   {[id |-> received', req |-> r, authenticators |-> Asked(r), uid |-> uid,
                     username |-> username[r.user], lastFrom |-> lastFrom[r.user],
                     rows |-> Of(r.user, rows), at |-> <<username, rows, lastFrom>>]}
            \/ EffectiveUids(r, username, rows) = {} /\ UNCHANGED pending
       ELSE UNCHANGED pending
  /\ UNCHANGED <<username, rows, lastFrom>>

-----------------------------------------------------------------------------
(* The transaction works on a record w: the table, the rows as loaded (of  *)
(* which the code may have changed the uids), and whether all went well.   *)
Changed(w, rs, loaded, fine) ==
  [rows |-> rs, loaded |-> loaded, prefetched |-> w.prefetched, ok |-> w.ok /\ fine /\ Unique(rs)]

Fresh(w) ==
  LET used == {l.id : l \in w.rows \cup w.loaded \cup UNION {q.rows : q \in pending}}
  IN CHOOSE i \in 1..(Cardinality(used) + 1) : i \notin used

SetUid(l, uid) == [l EXCEPT !.uid = uid]

(* save(update_fields=['uid']) of loaded rows: it fails for a row that has *)
(* gone.                                                                   *)
SaveUids(w, new) ==
  LET ids == {l.id : l \in new} IN
  Changed(w, {IF l.id \in ids THEN SetUid(l, (CHOOSE n \in new : n.id = l.id).uid) ELSE l : l \in w.rows},
             {l \in w.loaded : l.id \notin ids} \cup new, ids \subseteq {l.id : l \in w.rows})

(* determine_username_from_uid of the authentication library: the name of  *)
(* the user who has this uid there, or the uid itself; if another user has *)
(* that name, a made-up one, and the transaction fails later on.           *)
Determined(p, name, rs) ==
  IF \E l \in rs : l.provider = p /\ l.uid = name
    THEN username[(CHOOSE l \in rs : l.provider = p /\ l.uid = name).user] ELSE name

(* A plain save() of loaded rows: it inserts a row that has gone.  There   *)
(* is no uid if the username was that of a user who has gone.              *)
Saved(w, new) ==
  LET ids == {l.id : l \in new} IN
  Changed(w, {l \in w.rows : l.id \notin ids} \cup new, {l \in w.loaded : l.id \notin ids} \cup new,
          \A l \in new : l.uid # None)

(* update_local_authenticator_uid_from_username: one local link after the  *)
(* other.  What the second finds, the others find too, and then two of     *)
(* them have the same uid.                                                 *)
Renamed(w, name) ==
  LET local == {l \in w.loaded : l.provider = Local}
      first == {l \in local : \A k \in local : l.id <= k.id}
      v == Saved(w, {SetUid(l, Determined(Local, name, w.rows)) : l \in first})
  IN Saved(v, {SetUid(l, Determined(Local, name, v.rows)) : l \in local \ first})

Removed(w, u, ps) == Changed(w, {l \in w.rows : ~(l.user = u /\ l.provider \in ps)}, w.loaded, TRUE)

(* _create_authenticator_user: a conflict is an error, and so is a row     *)
(* without a uid.                                                          *)
Created(w, u, p, uid, name) ==
  LET own == IF p = Local THEN name ELSE uid IN
  Changed(w, w.rows \cup {[id |-> Fresh(w), user |-> u, provider |-> p, uid |-> own]}, w.loaded,
          ~Conflict(u, p, uid, w.rows) /\ own # None)

(* One authenticator after the other; each is Local or Sso. *)
AllCreated(w, u, uids, name) ==
  LET v == IF Local \in DOMAIN uids THEN Created(w, u, Local, uids[Local], name) ELSE w
  IN IF Sso \in DOMAIN uids THEN Created(v, u, Sso, uids[Sso], name) ELSE v

(* _update_authenticator_uids: a uid that the user already has changes     *)
(* nothing but the links that must have the username.                      *)
UidsUpdated(w, u, uid, name) ==
  LET all == IF w.prefetched THEN w.loaded ELSE Of(u, w.rows) IN
  SaveUids(w, IF uid = None \/ uid \in UidsOf(u, w.rows)
                THEN {SetUid(l, name) : l \in {k \in all : k.provider = Local /\ k.uid # name}}
                ELSE {SetUid(l, IF l.provider = Local THEN name ELSE uid) : l \in all})

(* _update_legacy_authenticator_uid: the link of the last login. *)
LastUpdated(w, u, uid, name, last) ==
  LET target == {l \in Of(u, w.rows) : l.provider = last} IN
  IF Cardinality(target) > 1 THEN Changed(w, w.rows, w.loaded, FALSE)
  ELSE SaveUids(w, {SetUid(l, IF last = Local THEN name ELSE uid) : l \in target})

(* _process_legacy_authenticator_fields *)
LegacyProcessed(w, u, authenticators, uid, name, last) ==
  LET current == ProvidersOf(u, w.rows) IN
  IF authenticators = {} THEN Removed(w, u, current)
  ELSE IF authenticators # None
    THEN UidsUpdated(AllCreated(Removed(w, u, current \ authenticators),
                                u, [p \in authenticators \ current |-> uid], name), u, uid, name)
  ELSE IF uid # None THEN LastUpdated(w, u, uid, name, last) ELSE w

(* _process_associated_authenticators_field: the links are made anew. *)
AssociatedProcessed(w, u, associated, name) ==
  IF associated = None THEN w
  ELSE AllCreated(Removed(Changed(w, w.rows, w.loaded, NoConflicts(u, associated, w.rows)),
                          u, Providers), u, associated, name)

(* The username for the rest of the transaction, as loaded unless given. *)
NewName(q) == IF q.req.username = None THEN q.username ELSE q.req.username

(* Removing all links refreshes the user: until it is saved it has the     *)
(* name in the database again, which create() has written already.         *)
NameAfter(q) ==
  IF q.authenticators = {} /\ q.username # None THEN username[q.req.user] ELSE NewName(q)

(* A faulty variant with the deprecated fields last. *)
ProcessedReversed(w, q) ==
  LegacyProcessed(AssociatedProcessed(w, q.req.user, q.req.associated, NewName(q)),
                  q.req.user, q.authenticators, q.uid, NewName(q), q.lastFrom)

(* _update_users_authenticators: the new field comes last and prevails. *)
Processed(w, q) ==
  AssociatedProcessed(LegacyProcessed(w, q.req.user, q.authenticators, q.uid, NewName(q), q.lastFrom),
                      q.req.user, q.req.associated, NameAfter(q))

(* update() and create() *)
Outcome(q) ==
  LET w == [rows |-> rows, loaded |-> q.rows, prefetched |-> q.username # None, ok |-> TRUE]
      renaming == q.username # None /\ NewName(q) # q.username /\ q.req.associated = None
  IN Processed(IF renaming THEN Renamed(w, NewName(q)) ELSE w, q)

SavedName(q) == IF q.req.username = None THEN NameAfter(q) ELSE q.req.username

(* A user that has gone cannot be refreshed. *)
Commits(q) ==
  /\ Outcome(q).ok
  /\ NameAfter(q) # None
  /\ \A u \in Users \ {q.req.user} : username[u] # SavedName(q)

(* save() inserts a user that has gone. *)
Apply(q) ==
  /\ q \in pending
  /\ pending' = pending \ {q}
  /\ IF Commits(q)
       THEN /\ rows' = Outcome(q).rows
            /\ username' = [username EXCEPT ![q.req.user] = SavedName(q)]
            /\ lastFrom' = [lastFrom EXCEPT ![q.req.user] = q.lastFrom]
       ELSE UNCHANGED <<rows, username, lastFrom>>
  /\ UNCHANGED received

(* perform_destroy, with the rows that refer to the user. *)
Destroy(u) ==
  /\ received < MaxRequests /\ username[u] # None
  /\ received' = received + 1
  /\ username' = [username EXCEPT ![u] = None]
  /\ lastFrom' = [lastFrom EXCEPT ![u] = None]
  /\ rows' = rows \ Of(u, rows)
  /\ UNCHANGED pending

AccountsNext ==
  \/ \E r \in Requests : Receive(r)
  \/ \E q \in pending : Apply(q)
  \/ \E u \in Users : Destroy(u)

AccountsSpec == AccountsInit /\ [][AccountsNext]_accountVars

-----------------------------------------------------------------------------
(* What a request has loaded still holds, for its user. *)
Current(q) ==
  /\ username[q.req.user] = q.username /\ lastFrom[q.req.user] = q.lastFrom
  /\ Of(q.req.user, rows) = q.rows

(* Nothing has been committed since the request was validated. *)
Alone(q) == q.at = <<username, rows, lastFrom>>

Applied(q) == q \in pending /\ q \notin pending'

Matching(u) == \A l \in Of(u, rows) : l.provider = Local => l.uid = username[u]

(* The types, and what the database promises. *)
AccountsTypeOK ==
  DatabaseOK(username, rows, lastFrom) /\ received \in 0..MaxRequests

(* A request that renames the user, removes all links and makes a local    *)
(* one anew: the link is made while the user has its old name again.       *)
RenamedTooLate(q) ==
  /\ q.authenticators = {} /\ NameAfter(q) # SavedName(q)
  /\ q.req.associated # None /\ Local \in DOMAIN q.req.associated

(***************************************************************************)
(* "uid must match username for local authenticator users": whatever       *)
(* fields a request combines, it does not part the two where they agreed   *)
(* for all users, but for the case above.                                  *)
(***************************************************************************)
LocalUidKept(q) ==
  (\A u \in Users : Matching(u)) => Matching(q.req.user)' \/ RenamedTooLate(q)

(***************************************************************************)
(* A request that is carried out leaves the user with exactly the          *)
(* authenticators it names, those of the new field if both are there, and  *)
(* with the ones it had if it names none (_update_users_authenticators).   *)
(***************************************************************************)
ProvidersAsAsked(q) ==
  LET r == q.req IN
  Commits(q) =>
    ProvidersOf(r.user, rows') =
      IF r.associated # None THEN DOMAIN r.associated
      ELSE IF q.authenticators # None THEN q.authenticators
      ELSE ProvidersOf(r.user, q.rows)

(***************************************************************************)
(* A request that names no uid changes none, but for those that follow the *)
(* username, and for null instead of authenticators, which puts the user's *)
(* first uid on the link of the last login (_handle_partial_update with    *)
(* _update_authenticator_uids and _update_legacy_authenticator_uid).       *)
(***************************************************************************)
UidsAsAsked(q) ==
  q.req.uid = None /\ q.req.associated = None =>
    \A l \in Of(q.req.user, rows)' :
      \/ l.provider = Local \/ l \in rows
      \/ q.req.authenticators = Null /\ l.provider = q.lastFrom /\ l.uid = q.uid

(***************************************************************************)
(* Whatever fields a request combines, and in whatever order they are      *)
(* applied, what is stored for its user is what it asked for, unless       *)
(* another request changed the user in between (UserSerializer.update).    *)
(***************************************************************************)
StoredAsAsked ==
  [][\A q \in pending : Applied(q) /\ Current(q) =>
       LocalUidKept(q) /\ ProvidersAsAsked(q) /\ UidsAsAsked(q)]_accountVars

(* _update_authenticator_uids goes through the links as they were loaded   *)
(* and may meet one that the request has removed: when the uid is none of  *)
(* those left, or when a local link did not have the username before.      *)
MeetsRemoved(q) ==
  LET asked == q.authenticators
      lost  == {l \in q.rows : l.provider \notin asked}
      left  == {IF l.provider = Local THEN NewName(q) ELSE l.uid : l \in q.rows \ lost} \cup
               {IF p = Local THEN NewName(q) ELSE q.uid : p \in asked \ ProvidersOf(q.req.user, rows)}
  IN /\ asked \notin {None, {}} /\ lost # {}
     /\ q.uid \notin left \/ ~Matching(q.req.user)

(* What validate() does not foresee: that case, deprecated fields beside   *)
(* the new one, a uid alone (that of a null for authenticators included),  *)
(* another user with the username as uid, and two links with one           *)
(* authenticator (one was removed and made again while a request was to    *)
(* rename it, which has brought it back).                                  *)
Unforeseen(q) ==
  LET r == q.req IN
  \/ r.associated # None /\ (q.authenticators # None \/ q.uid # None)
  \/ r.associated = None /\ q.authenticators = None /\ q.uid # None
  \/ r.associated = None /\ MeetsRemoved(q)
  \/ \E l \in rows : l.user # r.user /\ l.provider = Local /\ l.uid \in {q.username, NewName(q)}
  \/ \E l, m \in q.rows : l # m /\ l.provider = m.provider

(***************************************************************************)
(* A request that was found valid is carried out when nothing has changed  *)
(* since: but for the cases above, a client is told what is wrong before   *)
(* the transaction begins (validate, with the constraints of the database).*)
(***************************************************************************)
ValidIsApplied ==
  [][\A q \in pending : Applied(q) /\ Alone(q) => Commits(q) \/ Unforeseen(q)]_accountVars
=============================================================================
