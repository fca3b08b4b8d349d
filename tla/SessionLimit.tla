----------------------------- MODULE SessionLimit -----------------------------
(***************************************************************************)
(* track_user_session and get_active_memberships_over_limit: a login       *)
(* stores its session and a membership row, then evicts the sessions of    *)
(* the same user beyond MAX_EXTRA_SESSIONS_PER_USER, in one transaction.   *)
(*                                                                         *)
(* The database runs at READ COMMITTED.  The query over the memberships is *)
(* a SELECT ... ORDER BY created DESC, id DESC OFFSET n FOR UPDATE: it     *)
(* sees the rows committed when it starts and its own, then locks them one *)
(* by one in that order, the ones under the offset too.  A row that another*)
(* transaction has locked is waited for, and skipped if it is gone then.   *)
(*                                                                         *)
(* One user is modelled; users do not interact.  Sessions are numbered in  *)
(* the order of their membership rows.                                     *)
(***************************************************************************)
EXTENDS Integers, FiniteSets

CONSTANTS
  Worker,       \* gateway workers that can serve a login at the same time
  MaxSession,   \* bound: logins in a behaviour
  Limits        \* values of MAX_EXTRA_SESSIONS_PER_USER; -1, no limit

ASSUME SessionAssumption ==
  /\ IsFiniteSet(Worker) /\ Worker # {}
  /\ MaxSession \in Nat
  /\ Limits \subseteq Nat \cup {-1}

Session == 1..MaxSession

VARIABLES
  limit,    \* the setting; unset counts as -1
  count,    \* logins begun
  members,  \* committed membership rows
  expired,  \* sessions whose expire_date has passed
  wpc,      \* what each worker does
  mine,     \* the session it is storing
  toLock,   \* rows of its query not yet locked
  kept      \* rows of its query locked so far

sessionVars == <<limit, count, members, expired, wpc, mine, toLock, kept>>

SessionInit ==
  /\ limit \in Limits
  /\ count = 0 /\ members = {} /\ expired = {}
  /\ wpc = [w \in Worker |-> "idle"]
  /\ mine = [w \in Worker |-> 0]
  /\ toLock = [w \in Worker |-> {}]
  /\ kept = [w \in Worker |-> {}]

Active == members \ expired

(* The worker whose transaction holds the lock on row s, if any. *)
LockedByOther(w, s) == \E v \in Worker \ {w} : s \in kept[v]

(* A login stores the session and get_or_create inserts its membership. *)
Login(w) ==
  /\ wpc[w] = "idle"
  /\ count < MaxSession
  /\ count' = count + 1
  /\ mine' = [mine EXCEPT ![w] = count + 1]
  /\ wpc' = [wpc EXCEPT ![w] = "inserted"]
  /\ UNCHANGED <<limit, members, expired, toLock, kept>>

(* A faulty variant that locks in no particular order. *)
NextToLockAny(w) == toLock[w]

(* The row the query locks next: the newest left. *)
NextToLock(w) == {s \in toLock[w] : \A x \in toLock[w] : x <= s}

(* What the query of worker w sees. *)
Snapshot(w) == Active \cup {mine[w]}

(* get_active_memberships_over_limit starts its query. *)
Select(w) ==
  /\ wpc[w] = "inserted"
  /\ limit # -1
  /\ toLock' = [toLock EXCEPT ![w] = Snapshot(w)]
  /\ wpc' = [wpc EXCEPT ![w] = "locking"]
  /\ UNCHANGED <<limit, count, members, expired, mine, kept>>

(* A faulty variant with SKIP LOCKED: rows that others hold are left out. *)
LockRowSkipLocked(w) ==
  /\ wpc[w] = "locking"
  /\ \E s \in NextToLock(w) :
       /\ toLock' = [toLock EXCEPT ![w] = @ \ {s}]
       /\ kept' = [kept EXCEPT ![w] =
                     IF s \in members \cup {mine[w]} /\ ~LockedByOther(w, s)
                     THEN @ \cup {s} ELSE @]
  /\ UNCHANGED <<limit, count, members, expired, wpc, mine>>

(* The next row is locked, or found gone. *)
LockRow(w) ==
  /\ wpc[w] = "locking"
  /\ \E s \in NextToLock(w) :
       /\ ~LockedByOther(w, s)
       /\ toLock' = [toLock EXCEPT ![w] = @ \ {s}]
       /\ kept' = [kept EXCEPT ![w] =
                     IF s \in members \cup {mine[w]} THEN @ \cup {s} ELSE @]
  /\ UNCHANGED <<limit, count, members, expired, wpc, mine>>

(* active[allowed:]: all rows but the limit + 1 newest. *)
OverLimit(rows) ==
  {s \in rows : Cardinality({x \in rows : x > s}) >= limit + 1}

Finish(w) ==
  /\ wpc' = [wpc EXCEPT ![w] = "idle"]
  /\ mine' = [mine EXCEPT ![w] = 0]
  /\ kept' = [kept EXCEPT ![w] = {}]
  /\ UNCHANGED <<limit, count, expired, toLock>>

(* The sessions over the limit are deleted and the transaction commits. *)
EvictAndCommit(w) ==
  /\ wpc[w] = "locking"
  /\ toLock[w] = {}
  /\ members' = (members \cup {mine[w]}) \ OverLimit(kept[w])
  /\ Finish(w)

(* No limit is configured. *)
CommitUnlimited(w) ==
  /\ wpc[w] = "inserted"
  /\ limit = -1
  /\ members' = members \cup {mine[w]}
  /\ Finish(w)

(* A session's time is up; its rows stay until they are cleared. *)
Expire(s) ==
  /\ s \in Active
  /\ expired' = expired \cup {s}
  /\ UNCHANGED <<limit, count, members, wpc, mine, toLock, kept>>

(* A logout deletes the session, once no transaction holds its row. *)
Logout(s) ==
  /\ s \in members
  /\ \A w \in Worker : s \notin kept[w]
  /\ members' = members \ {s}
  /\ UNCHANGED <<limit, count, expired, wpc, mine, toLock, kept>>

LoginStep(w) ==
  Select(w) \/ LockRow(w) \/ EvictAndCommit(w) \/ CommitUnlimited(w)

SessionNext ==
  \/ \E w \in Worker : Login(w) \/ LoginStep(w)
  \/ \E s \in Session : Expire(s) \/ Logout(s)

(* Every transaction goes on when the row it waits for is released. *)
SessionSpec == SessionInit /\ [][SessionNext]_sessionVars /\ \A w \in Worker : WF_sessionVars(LoginStep(w))

-----------------------------------------------------------------------------
(* Types; no row is locked by two logins (select_for_update).              *)
SessionTypeOK ==
  /\ limit \in Limits
  /\ count \in 0..MaxSession
  /\ members \subseteq Session
  /\ expired \subseteq Session
  /\ wpc \in [Worker -> {"idle", "inserted", "locking"}]
  /\ mine \in [Worker -> Session \cup {0}]
  /\ toLock \in [Worker -> SUBSET Session]
  /\ kept \in [Worker -> SUBSET Session]
  /\ \A v, w \in Worker : v # w => kept[v] \cap kept[w] = {}

(***************************************************************************)
(* The row locks of get_active_memberships_over_limit do not cover a       *)
(* membership that another login has not committed: overlapping logins can *)
(* exceed the limit, but never by more than one session per additional     *)
(* worker, however long the overlap goes on.                               *)
(***************************************************************************)
ExcessBounded == limit # -1 => Cardinality(Active) <= limit + Cardinality(Worker)

(***************************************************************************)
(* Logins do not wait for each other forever: the row locks are taken in   *)
(* one order.                                                              *)
(***************************************************************************)
LoginCompletes == \A w \in Worker : (wpc[w] # "idle") ~> (wpc[w] = "idle")
=============================================================================
