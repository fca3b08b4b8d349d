----------------------------- MODULE UserMerge -----------------------------
(***************************************************************************)
(* The merge of partially migrated users, which migrate_service_data does  *)
(* before it migrates anything (_migrate_service_data/user_merge.py), with *)
(* link_account and migrate_account (utils/user_migration.py).             *)
(*                                                                         *)
(* A release that preceded this one gave every account of a service an     *)
(* account of its own in the gateway, with a prefix where the name was     *)
(* taken, and left it owned by its service.  The merge groups the accounts *)
(* by their name without the prefix, links all accounts of a group to the  *)
(* first and takes that one over.  Each link is one database transaction   *)
(* that also sends requests to the services, which are not rolled back.    *)
(***************************************************************************)
EXTENDS Naturals, Sequences, FiniteSets

CONSTANTS
  Accounts,      \* gateway accounts, each also standing for its ansible_id
  ServiceOrder,  \* sequence of services: SERVICE_TYPE_ORDER
  Histories,     \* what earlier releases may have left behind: the username of
                 \* each account, a sequence of name parts, and the accounts
                 \* that were taken over before, one by one
  Home,          \* account -> the service that owns the gateway's resource
  Originals,     \* account -> the services it has an original account in
  ServicePrefixes,
  UpstreamFails, \* requests may fail and answers get lost
  MaxRuns        \* bound: invocations of the command

Services == {ServiceOrder[i] : i \in DOMAIN ServiceOrder}

\* The requests name accounts; a row that is nobody's original is a Copy.
Copy == "copy"

ASSUME AccountsAssumption ==
  /\ IsFiniteSet(Accounts) /\ Accounts # {}
  /\ Copy \notin Accounts
  /\ ServiceOrder \in Seq(Services) /\ ServiceOrder # <<>>
  /\ Home \in [Accounts -> Services]
  /\ Originals \in [Accounts -> SUBSET Services]
  /\ \A a \in Accounts : Home[a] \in Originals[a]
  /\ \A h \in Histories : /\ h.early \subseteq Accounts
                          /\ \A a \in Accounts : h.username[a] # <<>>
  /\ UpstreamFails \in BOOLEAN
  /\ MaxRuns \in Nat

VARIABLES
  history,  \* the one of Histories that happened; never changes
  gateway,  \* the committed database: users, their originals, the ones taken over
  rows,     \* user rows of the services' registries
  pc,
  tx,       \* the gateway as the open transaction sees it
  todo,     \* groups (base usernames) not yet merged
  main,     \* main_account of the group at hand
  others,   \* other_users of the group that are still to be linked
  pending,  \* services the open transaction has still to write to
  target,   \* the service it is writing to
  merged,   \* total_merged
  total,    \* total_partially_migrated_users
  mergedCount,  \* merged_count of the group at hand
  runs

\* What the command keeps in memory.
job == <<todo, main, others, pending, target, mergedCount, merged, total>>

vars == <<history, gateway, rows, pc, tx, runs, job>>

Databases == [users : SUBSET Accounts,
              originals : [Accounts -> SUBSET Services],
              taken : SUBSET Accounts]

Rows == [service : Services, of : Accounts \cup {Copy}, aid : Accounts, ours : BOOLEAN]

\* The services have the accounts they gave to the gateway and may have been
\* sent copies of others.
Init ==
  /\ history \in Histories
  /\ gateway = [users |-> Accounts, originals |-> Originals, taken |-> history.early]
  /\ \E copied \in SUBSET (Services \X Accounts) :
       /\ \A p \in copied : p[1] \notin Originals[p[2]]
       /\ rows = {[service |-> p[1], of |-> IF p \in copied THEN Copy ELSE p[2],
                   aid |-> p[2], ours |-> p[2] \in history.early] :
                    p \in copied \cup {q \in Services \X Accounts : q[1] \in Originals[q[2]]}}
  /\ pc = "idle"
  /\ tx = gateway
  /\ todo = {} /\ main = (CHOOSE a \in Accounts : TRUE) /\ others = <<>>
  /\ pending = {} /\ target = ServiceOrder[1]
  /\ merged = 0 /\ total = 0 /\ mergedCount = 0 /\ runs = 0

----------------------------------------------------------------------------
(* Grouping.                                                               *)

\* The first known prefix is cut off, once.
BaseUsername(a) ==
  LET name == history.username[a]
  IN  IF Len(name) > 1 /\ name[1] \in ServicePrefixes THEN Tail(name) ELSE name

PartiallyMigrated == gateway.users \ gateway.taken

Group(base) == {a \in PartiallyMigrated : BaseUsername(a) = base}

Position(a) == CHOOSE i \in DOMAIN ServiceOrder : ServiceOrder[i] = Home[a]

\* The accounts of a group in the order of their services.  Accounts of one
\* service come as the database lists them.
Arrangements(group) ==
  {order \in [1 .. Cardinality(group) -> group] :
     /\ \A i, j \in DOMAIN order : order[i] = order[j] => i = j
     /\ \A i, j \in DOMAIN order : i < j => Position(order[i]) =< Position(order[j])}

\* The groups in any order; their order has no influence on each other.
Start ==
  /\ pc = "idle" /\ runs < MaxRuns
  /\ runs' = runs + 1
  /\ todo' = {BaseUsername(a) : a \in PartiallyMigrated}
  /\ total' = Cardinality(PartiallyMigrated)
  /\ merged' = 0
  /\ pc' = "groups"
  /\ UNCHANGED <<history, gateway, rows, tx, main, others, pending, target, mergedCount>>

\* A service that owns an account need not be registered yet: RuntimeError.
UnknownService ==
  /\ pc = "idle" /\ runs < MaxRuns
  /\ PartiallyMigrated # {}
  /\ runs' = runs + 1
  /\ pc' = "unregistered"
  /\ UNCHANGED <<history, gateway, rows, tx, job>>

\* can_accounts_be_merged of every other account with the main account raises
\* on a conflict, and nothing catches it.
Mergeable(a, group) ==
  \A b \in group \ {a} : gateway.originals[a] \cap gateway.originals[b] = {}

MergeGroup ==
  /\ pc = "groups"
  /\ \E base \in todo :
       /\ todo' = todo \ {base}
       /\ \E order \in Arrangements(Group(base)) :
            /\ main' = order[1]
            /\ others' = Tail(order)
            /\ pc' = IF Mergeable(order[1], Group(base)) THEN "link" ELSE "rejected"
  /\ mergedCount' = 0
  /\ UNCHANGED <<history, gateway, rows, tx, runs, pending, target, merged, total>>

Finish ==
  /\ pc = "groups" /\ todo = {}
  /\ pc' = IF merged = total THEN "returned" ELSE "miscounted"
  /\ UNCHANGED <<history, gateway, rows, tx, runs, job>>

----------------------------------------------------------------------------
(* link_account: one transaction.                                          *)

ToMerge == Head(others)

\* Mutant: the merged account is deleted first.
RelinkAfterDelete(db, a, b) ==
  [users |-> db.users \ {b}, originals |-> [db.originals EXCEPT ![b] = {}], taken |-> db.taken]

\* The originals are moved to the main account before the account they came
\* from is deleted, which would delete them too.
Relink(db, a, b) ==
  [users |-> db.users \ {b},
   originals |-> [db.originals EXCEPT ![a] = @ \cup db.originals[b], ![b] = {}],
   taken |-> db.taken \ {b}]

LinkAccount ==
  /\ pc = "link" /\ others # <<>>
  /\ gateway.originals[main] \cap gateway.originals[ToMerge] = {}
  /\ tx' = Relink(gateway, main, ToMerge)
  /\ pending' = gateway.originals[ToMerge]
  /\ pc' = "remove"
  /\ UNCHANGED <<history, gateway, rows, runs, todo, main, others, target, mergedCount, merged, total>>

\* MigratedUserMetadata is unique for user and service.
LinkConflict ==
  /\ pc = "link" /\ others # <<>>
  /\ gateway.originals[main] \cap gateway.originals[ToMerge] # {}
  /\ pc' = "conflict"
  /\ UNCHANGED <<history, gateway, rows, tx, runs, job>>

WithAid(s, a) == {r \in rows : r.service = s /\ r.aid = a}

\* An exception of any kind leaves the transaction, whose writes to the database
\* are rolled back, and ends the command.
RollBack ==
  /\ pc' = "failed"
  /\ tx' = gateway
  /\ UNCHANGED <<history, gateway, runs, job>>

\* delete_resource removes the row with the main account's ansible_id, if any:
\* an answer of 404 is ignored.
Removed(s) == rows \ WithAid(s, main)

RemoveMain ==
  /\ pc = "remove"
  /\ \E s \in pending :
       /\ rows' = Removed(s)
       /\ \/ /\ target' = s
             /\ pc' = "update"
             /\ UNCHANGED <<history, gateway, tx, todo, main, others, pending, merged, total, mergedCount, runs>>
          \/ UpstreamFails /\ RollBack

\* update_resource gives the row of the merged account the ansible_id of the main
\* account and takes it over.
Repointed(s) ==
  (rows \ WithAid(s, ToMerge))
    \cup {[r EXCEPT !.aid = main, !.ours = TRUE] : r \in WithAid(s, ToMerge)}

UpdateMerged ==
  /\ pc = "update" /\ WithAid(target, ToMerge) # {}
  /\ rows' = Repointed(target)
  /\ \/ /\ pending' = pending \ {target}
        /\ pc' = "remove"
        /\ UNCHANGED <<history, gateway, tx, todo, main, others, target, merged, total,
                       mergedCount, runs>>
     \/ UpstreamFails /\ RollBack

\* 404 is an error here.
UpdateMissing ==
  /\ pc = "update" /\ WithAid(target, ToMerge) = {}
  /\ RollBack
  /\ UNCHANGED rows

CommitLink ==
  /\ pc = "remove" /\ pending = {}
  /\ gateway' = tx
  /\ mergedCount' = mergedCount + 1
  /\ others' = Tail(others)
  /\ pc' = "link"
  /\ UNCHANGED <<history, rows, tx, todo, main, pending, target, merged, total, runs>>

----------------------------------------------------------------------------
(* migrate_account: one transaction.                                       *)

\* Mutant: the services are not told.
TakeoverEmpty ==
  /\ pc = "link" /\ others = <<>>
  /\ tx' = [gateway EXCEPT !.taken = @ \cup {main}]
  /\ pending' = {}
  /\ pc' = "takeover"
  /\ UNCHANGED <<history, gateway, rows, todo, main, others, target, merged, total, mergedCount, runs>>

Takeover ==
  /\ pc = "link" /\ others = <<>>
  /\ tx' = [gateway EXCEPT !.taken = @ \cup {main}]
  /\ pending' = gateway.originals[main]
  /\ pc' = "takeover"
  /\ UNCHANGED <<history, gateway, rows, todo, main, others, target, merged, total, mergedCount, runs>>

\* 404 is an error here too.
UpdateMain ==
  /\ pc = "takeover"
  /\ \E s \in pending :
       /\ rows' = (rows \ WithAid(s, main))
                     \cup {[r EXCEPT !.ours = TRUE] : r \in WithAid(s, main)}
       /\ \/ /\ WithAid(s, main) # {}
             /\ pending' = pending \ {s}
             /\ UNCHANGED <<history, gateway, pc, tx, todo, main, others, target, merged, total,
                            mergedCount, runs>>
          \/ /\ WithAid(s, main) = {} \/ UpstreamFails
             /\ RollBack

CommitTakeover ==
  /\ pc = "takeover" /\ pending = {}
  /\ gateway' = tx
  /\ merged' = merged + mergedCount + 1
  /\ pc' = "groups"
  /\ UNCHANGED <<history, rows, tx, todo, main, others, pending, target, total, mergedCount, runs>>

----------------------------------------------------------------------------

\* A request that fails before it has an effect, or a command that is killed.
RequestFails ==
  /\ UpstreamFails
  /\ pc \in {"remove", "update", "takeover"}
  /\ RollBack
  /\ UNCHANGED rows

\* Whoever runs the upgrade runs the command again.
Ended == {"unregistered", "returned", "miscounted", "rejected", "conflict", "failed"}

Again ==
  /\ pc \in Ended /\ runs < MaxRuns
  /\ pc' = "idle"
  /\ UNCHANGED <<history, gateway, rows, tx, runs, job>>

Link == LinkAccount \/ LinkConflict \/ RemoveMain \/ UpdateMerged \/ UpdateMissing \/ CommitLink

Migrate == Takeover \/ UpdateMain \/ CommitTakeover

Command == Start \/ UnknownService \/ MergeGroup \/ Finish \/ Link \/ Migrate

Next == Command \/ RequestFails \/ Again

Spec == Init /\ [][Next]_vars

----------------------------------------------------------------------------
(* Properties.                                                             *)

\* Types, and the unique ansible_id of a service's registry, which the deletion in
\* link_account makes room for.
TypeOK ==
  /\ history \in Histories
  /\ gateway \in Databases /\ tx \in Databases
  /\ rows \subseteq Rows
  /\ \A q, r \in rows : q.service = r.service /\ q.aid = r.aid => q = r
  /\ pc \in Ended \cup {"idle", "groups", "link", "remove", "update", "takeover"}
  /\ main \in Accounts /\ others \in Seq(Accounts) /\ target \in Services
  /\ pending \subseteq Services
  /\ mergedCount \in Nat /\ merged \in Nat /\ total \in Nat /\ runs \in 0 .. MaxRuns

\* An account that the gateway has taken over is the gateway's in every service
\* it came from, under the gateway's ansible_id (migrate_account), although the
\* services are told before the transaction commits and any request may fail.
TakenOverEverywhere ==
  \A a \in gateway.taken : \A s \in gateway.originals[a] :
    \E r \in rows : r.service = s /\ r.aid = a /\ r.ours

\* link_account moves the original accounts before it deletes the merged user,
\* whose deletion cascades to them: no original account is ever dropped by the
\* gateway, and each stays with its own group.
OriginalsKept ==
  \A a \in Accounts : \A s \in Originals[a] :
    \E b \in gateway.users : BaseUsername(b) = BaseUsername(a) /\ s \in gateway.originals[b]

\* When the merge returns without an exception each group is one account, but for
\* accounts migrated before, and all are migrated: the count compared at the end
\* of _merge_partially_migrated_users does tell.
ReturnMeansMerged ==
  /\ pc # "miscounted"
  /\ pc = "returned" =>
       /\ gateway.taken = gateway.users
       /\ \A a, b \in gateway.users \ history.early : BaseUsername(a) = BaseUsername(b) => a = b

\* link_account deletes copies of the main account only: the first attempt to merge,
\* however it ends, removes no account from the service that had it.  An attempt
\* after one whose answer was lost may: the ansible_id of the main account is then
\* that of the account which was handed over.
FirstAttemptSpares ==
  runs =< 1 => \A a \in Accounts : \A s \in Originals[a] : \E r \in rows : r.service = s /\ r.of = a

\* What counts as merged is merged, in the gateway and in the services, although no
\* transaction spans them (migrate_account, _merge_partially_migrated_users).
MergeIsComplete == TakenOverEverywhere /\ ReturnMeansMerged

\* Merging loses nobody: the gateway keeps every original account, and the services
\* keep theirs through a first attempt, wherever it breaks off (link_account).
NoAccountDropped == OriginalsKept /\ FirstAttemptSpares
============================================================================
