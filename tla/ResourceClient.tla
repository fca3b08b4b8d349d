---------------------------- MODULE ResourceClient ----------------------------
(***************************************************************************)
(* How changes of shared resources and role assignments reach the services *)
(* (utils/resources_client.py and its users: the API views' mixins and the *)
(* reconciliation of authenticator maps at login).                         *)
(*                                                                         *)
(* A request loads a row, changes it in a transaction and hands tasks to   *)
(* its worker process's thread pool while the transaction is still open.   *)
(* The pool sends them without an order and without a second try; a        *)
(* service's own reverse sync, every 15 minutes, is what repairs the rest. *)
(* Assignments of roles that a service owns go to that service             *)
(* synchronously, inside the transaction.                                  *)
(***************************************************************************)
EXTENDS Integers, FiniteSets

CONSTANTS
  Processes,   \* uWSGI workers, each with its own pool
  Services,
  Resources,   \* shared resources, created, updated and deleted
  Grants,      \* role assignments the gateway owns
  Owned,       \* role assignments a service owns
  Owner,       \* owned assignment -> its service
  PoolSize,    \* max_workers of the pool
  MaxChanges   \* bound: number of the last change

ASSUME ClientAssumption ==
  /\ Owner \in [Owned -> Services] /\ PoolSize \in Nat \ {0} /\ MaxChanges \in Nat \ {0}
  /\ (Resources \cup Grants) \cap Owned = {}

Items == Resources \cup Grants

VARIABLES
  gateway,   \* item -> number of the change that made its content; 0: absent
  service,   \* service -> item -> the same
  owned,     \* owned assignment -> is it in [gateway, service]
  proc,      \* process -> the request it serves
  pool,      \* process -> tasks not yet finished
  changes,   \* number of changes so far
  ver,       \* item -> the last change that was committed (history)
  excuse,    \* service -> items whose copy may be wrong (history)
  broken,    \* owned assignments about which the two may differ (history)
  offered    \* item -> contents that requests put forward (history)

vars == <<gateway, service, owned, proc, pool, changes, ver, excuse, broken, offered>>
data == <<gateway, service, ver, excuse, offered>>

Idle == [pc |-> "idle"]

ClientInit ==
  /\ gateway \in [Items -> {0, 1}]
  /\ service = [s \in Services |-> gateway]
  /\ owned \in [Owned -> {[gateway |-> b, service |-> b] : b \in BOOLEAN}]
  /\ proc = [p \in Processes |-> Idle]
  /\ pool = [p \in Processes |-> {}]
  /\ changes = 1
  /\ ver = gateway
  /\ excuse = [s \in Services |-> {}]
  /\ broken = {}
  /\ offered = [i \in Items |-> {gateway[i]}]

Open(i) == {p \in Processes : proc[p].pc = "open" /\ proc[p].item = i}

(* Those of them that have told the services. *)
Told(i) == {p \in Open(i) : proc[p].told}

(* The newest change of an item that the services are or were told of,     *)
(* that of an open transaction included, or that is committed.             *)
Newest(i) == IF Told(i) = {} THEN ver[i] ELSE proc[CHOOSE p \in Told(i) : TRUE].n

(* _get_services, and one task per service. *)
Tasks(n, op, items) == {[svc |-> s, n |-> n, op |-> op, items |-> items] : s \in Services}

-----------------------------------------------------------------------------
(* A PUT, PATCH or DELETE loads the row, before it opens a transaction. *)
Load(p, i) ==
  /\ proc[p].pc = "idle"
  /\ IF i \in Items THEN gateway[i] # 0 ELSE owned[i].gateway
  /\ proc' = [proc EXCEPT ![p] =
       [pc |-> "loaded", item |-> i, val |-> IF i \in Items THEN gateway[i] ELSE 0]]
  /\ UNCHANGED <<data, owned, pool, changes, broken>>

(* The request is refused, fails, or writes what is there already. *)
Decline(p) ==
  /\ proc[p].pc = "loaded"
  /\ proc' = [proc EXCEPT ![p] = Idle]
  /\ UNCHANGED <<data, owned, pool, changes, broken>>

(* A faulty variant that does not tell the services of a removal. *)
PublishedCreatesOnly(n, op, i, original, val) == IF op = "create" THEN Tasks(n, op, {i}) ELSE {}

(* An update is published if the result differs from the row as the        *)
(* request had loaded it; creations and removals always do.                *)
Published(n, op, i, original, val) == IF val = original THEN {} ELSE Tasks(n, op, {i})

(* What an operation makes of a row: the row is written as a whole, with   *)
(* the request's changes or, if it has none, as it was loaded.             *)
Contents(op, n, original) ==
  CASE op \in {"create", "assign"} -> {n}
    [] op \in {"delete", "unassign"} -> {0}
    [] op = "update" -> {n, original}

(* perform_create, perform_update, perform_destroy: the row is changed,    *)
(* which locks it, and the tasks are handed to the pool.  A row that was   *)
(* deleted after it was loaded is inserted again by an update.             *)
Change(p, i, op, original, val) ==
  LET n == changes + 1 IN
  /\ changes < MaxChanges /\ Open(i) = {}
  /\ op \in IF i \in Grants THEN {"assign", "unassign"} ELSE {"create", "update", "delete"}
  /\ IF op \in {"create", "assign"}
       THEN proc[p].pc = "idle" /\ gateway[i] = 0 /\ original = 0
       ELSE proc[p].pc = "loaded" /\ proc[p].item = i /\ original = proc[p].val
  /\ val \in Contents(op, n, original) /\ ~(val = original /\ val = gateway[i])
  /\ changes' = n
  /\ proc' = [proc EXCEPT ![p] = [pc |-> "open", item |-> i, n |-> n, val |-> val, told |-> val # original]]
  /\ pool' = [pool EXCEPT ![p] = @ \cup Published(n, op, i, original, val)]
  /\ offered' = [offered EXCEPT ![i] = @ \cup {val}]
  /\ UNCHANGED <<gateway, service, owned, ver, excuse, broken>>

(* The services are never told of a row that was written as it was loaded. *)
Commit(p) ==
  /\ proc[p].pc = "open"
  /\ gateway' = [gateway EXCEPT ![proc[p].item] = proc[p].val]
  /\ ver' = [ver EXCEPT ![proc[p].item] = proc[p].n]
  /\ excuse' = IF proc[p].told THEN excuse
                ELSE [s \in Services |-> excuse[s] \cup {proc[p].item}]
  /\ proc' = [proc EXCEPT ![p] = Idle]
  /\ UNCHANGED <<service, owned, pool, changes, broken, offered>>

(* The transaction fails, maybe after the tasks were handed over. *)
Rollback(p) ==
  /\ proc[p].pc = "open"
  /\ excuse' = IF proc[p].told THEN [s \in Services |-> excuse[s] \cup {proc[p].item}]
                ELSE excuse
  /\ proc' = [proc EXCEPT ![p] = Idle]
  /\ UNCHANGED <<gateway, service, owned, pool, changes, ver, broken, offered>>

(* The deprecated users and admins sublists change assignments and tell    *)
(* nobody.                                                                 *)
Associate(p, i) ==
  LET n == changes + 1
      val == IF gateway[i] = 0 THEN n ELSE 0
  IN
  /\ proc[p].pc = "idle" /\ changes < MaxChanges /\ i \in Grants /\ Open(i) = {}
  /\ changes' = n
  /\ gateway' = [gateway EXCEPT ![i] = val]
  /\ ver' = [ver EXCEPT ![i] = n]
  /\ offered' = [offered EXCEPT ![i] = @ \cup {val}]
  /\ excuse' = [s \in Services |-> excuse[s] \cup {i}]
  /\ UNCHANGED <<service, owned, proc, pool, broken>>

-----------------------------------------------------------------------------
(* A login: the maps give and take assignments, which is committed; then   *)
(* the grants and the removals are published, one task each.               *)
Login(p, give, take) ==
  LET n == changes + 1 IN
  /\ proc[p].pc = "idle" /\ changes < MaxChanges
  /\ give \cup take # {} /\ \A i \in give \cup take : Open(i) = {}
  /\ \A i \in give : gateway[i] = 0
  /\ \A i \in take : gateway[i] # 0
  /\ changes' = n
  /\ gateway' = [i \in Items |-> IF i \in give THEN n ELSE IF i \in take THEN 0 ELSE gateway[i]]
  /\ ver' = [i \in Items |-> IF i \in give \cup take THEN n ELSE ver[i]]
  /\ offered' = [i \in Items |-> offered[i] \cup {gateway'[i]}]
  /\ proc' = [proc EXCEPT ![p] = [pc |-> "login", n |-> n, give |-> give, take |-> take]]
  /\ UNCHANGED <<service, owned, pool, excuse, broken>>

(* The client cannot be made, which is logged, and so are the next two. *)
ClientFails(p) ==
  /\ proc[p].pc = "login"
  /\ excuse' = [s \in Services |-> excuse[s] \cup proc[p].give \cup proc[p].take]
  /\ proc' = [proc EXCEPT ![p] = Idle]
  /\ UNCHANGED <<gateway, service, owned, pool, changes, ver, broken, offered>>

(* A list is queued for all services, or an exception breaks this off.     *)
HandOver(p, sent, op, items) ==
  /\ pool' = [pool EXCEPT ![p] = @ \cup
       {t \in Tasks(proc[p].n, op, items) : t.svc \in sent /\ items # {}}]
  /\ excuse' = [s \in Services |-> IF s \in sent THEN excuse[s] ELSE excuse[s] \cup items]
  /\ UNCHANGED <<gateway, service, owned, changes, ver, broken, offered>>

FlushGrants(p, sent) ==
  /\ proc[p].pc = "login"
  /\ HandOver(p, sent, "assign", proc[p].give)
  /\ proc' = [proc EXCEPT ![p] = [pc |-> "flush", n |-> @.n, give |-> {}, take |-> @.take]]

(* The removals are tried whatever became of the grants. *)
FlushRemovals(p, sent) ==
  /\ proc[p].pc = "flush"
  /\ HandOver(p, sent, "unassign", proc[p].take)
  /\ proc' = [proc EXCEPT ![p] = Idle]

-----------------------------------------------------------------------------
(* The tasks of a pool that its threads work on. *)
InWork(p) ==
  {t \in pool[p] : Cardinality({u \in pool[p] : u.n < t.n}) < PoolSize}

(* A service answers a creation of what it has and an update of what it    *)
(* does not have with an error.                                            *)
Refused(t, i) ==
  \/ t.op = "create" /\ service[t.svc][i] # 0
  \/ t.op = "update" /\ service[t.svc][i] = 0

Result(t, i) ==
  IF Refused(t, i) THEN service[t.svc][i]
  ELSE IF t.op \in {"delete", "unassign"} THEN 0 ELSE t.n

(* A faulty variant that sends every batch of assignments to one endpoint. *)
DeliverNeverUnassigns(p, t) ==
  /\ t \in InWork(p)
  /\ service' = [service EXCEPT ![t.svc] = [i \in Items |->
                   IF i \in t.items THEN IF t.op = "delete" THEN 0 ELSE t.n ELSE @[i]]]
  /\ excuse' = [excuse EXCEPT ![t.svc] = @ \cup t.items]
  /\ pool' = [pool EXCEPT ![p] = @ \ {t}]
  /\ UNCHANGED <<gateway, owned, proc, changes, ver, broken, offered>>

(* The request reaches the service, whether or not its answer does. *)
Deliver(p, t) ==
  /\ t \in InWork(p)
  /\ service' = [service EXCEPT ![t.svc] = [i \in Items |->
                   IF i \in t.items THEN Result(t, i) ELSE @[i]]]
  /\ excuse' = [excuse EXCEPT ![t.svc] =
       (@ \ t.items) \cup {i \in t.items : t.n # Newest(i) \/ (Refused(t, i) /\ service[t.svc][i] # t.n)}]
  /\ pool' = [pool EXCEPT ![p] = @ \ {t}]
  /\ UNCHANGED <<gateway, owned, proc, changes, ver, broken, offered>>

(* It does not: a timeout or another error, which is logged. *)
Lose(p, t) ==
  /\ t \in InWork(p)
  /\ excuse' = [excuse EXCEPT ![t.svc] = @ \cup {i \in t.items : t.n = Newest(i)}]
  /\ pool' = [pool EXCEPT ![p] = @ \ {t}]
  /\ UNCHANGED <<gateway, service, owned, proc, changes, ver, broken, offered>>

(* The process is recycled or killed: its request and its pool are gone. *)
ProcessDies(p) ==
  /\ proc[p].pc # "idle" \/ pool[p] # {}
  /\ LET held == CASE proc[p].pc = "open" -> IF proc[p].told THEN {proc[p].item} ELSE {}
                   [] proc[p].pc \in {"login", "flush"} -> proc[p].give \cup proc[p].take
                   [] OTHER -> {}
     IN excuse' = [s \in Services |->
          excuse[s] \cup held \cup UNION {t.items : t \in {u \in pool[p] : u.svc = s}}]
  /\ broken' = IF proc[p].pc = "owned" /\ ~proc[p].val THEN broken \cup {proc[p].item} ELSE broken
  /\ proc' = [proc EXCEPT ![p] = Idle]
  /\ pool' = [pool EXCEPT ![p] = {}]
  /\ UNCHANGED <<gateway, service, owned, changes, ver, offered>>

(* A service's periodic reverse sync fetches what is committed. *)
ReverseSync(s) ==
  /\ service' = [service EXCEPT ![s] = gateway]
  /\ excuse' = [excuse EXCEPT ![s] = {i \in Items : Told(i) # {}}]
  /\ UNCHANGED <<gateway, owned, proc, pool, changes, ver, broken, offered>>

-----------------------------------------------------------------------------
(* Assignments a service owns.  The owner is asked first; its refusal is   *)
(* passed on and nothing changes here.  Nothing keeps two requests about   *)
(* one assignment apart.                                                   *)
Asking(o) == {p \in Processes : proc[p].pc = "owned" /\ proc[p].item = o}
Rivals(o, val) == {p \in Asking(o) : proc[p].val # val}

CallOwner(p, o, val) ==
  /\ IF val THEN proc[p].pc = "idle" ELSE proc[p].pc = "loaded" /\ proc[p].item = o
  /\ changes < MaxChanges
  /\ changes' = changes + 1
  /\ owned' = [owned EXCEPT ![o].service = val]
  /\ proc' = [q \in Processes |->
       CASE q = p -> [pc |-> "owned", item |-> o, val |-> val, alone |-> Rivals(o, val) = {}]
         [] q # p /\ q \in Rivals(o, val) -> [pc |-> "owned", item |-> o, val |-> ~val, alone |-> FALSE]
         [] OTHER -> proc[q]]
  /\ broken' = IF Rivals(o, val) = {} THEN broken ELSE broken \cup {o}
  /\ UNCHANGED <<data, pool>>

(* The answer is a success and the transaction commits. *)
CommitOwned(p) ==
  /\ proc[p].pc = "owned"
  /\ owned' = [owned EXCEPT ![proc[p].item].gateway = proc[p].val]
  /\ broken' = IF proc[p].alone THEN broken \ {proc[p].item} ELSE broken
  /\ proc' = [proc EXCEPT ![p] = Idle]
  /\ UNCHANGED <<data, pool, changes>>

(* The answer is lost, or the local change or the commit fails. *)
RollbackOwned(p) ==
  /\ proc[p].pc = "owned"
  /\ broken' = IF proc[p].val THEN broken ELSE broken \cup {proc[p].item}
  /\ proc' = [proc EXCEPT ![p] = Idle]
  /\ UNCHANGED <<data, owned, pool, changes>>

-----------------------------------------------------------------------------
Ops == {"create", "update", "delete", "assign", "unassign"}

Request(p) ==
  \/ \E i \in Items \cup Owned : Load(p, i)
  \/ \E i \in Items, op \in Ops, original, val \in 0..MaxChanges : Change(p, i, op, original, val)
  \/ \E i \in Grants : Associate(p, i)
  \/ \E give, take \in SUBSET Grants : Login(p, give, take)
  \/ \E o \in Owned, val \in BOOLEAN : CallOwner(p, o, val)

(* What a request that was begun does next, and the pool's work. *)
Finish(p) ==
  \/ Decline(p) \/ Commit(p) \/ Rollback(p)
  \/ ClientFails(p) \/ \E sent \in SUBSET Services : FlushGrants(p, sent) \/ FlushRemovals(p, sent)
  \/ CommitOwned(p) \/ RollbackOwned(p)
Send(p) == \E t \in pool[p] : Deliver(p, t) \/ Lose(p, t)

ClientNext ==
  \/ \E p \in Processes : Request(p) \/ Finish(p) \/ Send(p) \/ ProcessDies(p)
  \/ \E s \in Services : ReverseSync(s)

(* Requests and tasks end, because every call of theirs has a timeout; the *)
(* services keep running their reverse sync.  Nothing makes new requests.  *)
ClientFairness ==
  /\ \A p \in Processes : WF_vars(Finish(p)) /\ WF_vars(Send(p))
  /\ \A s \in Services : WF_vars(ReverseSync(s))

ClientSpec == ClientInit /\ [][ClientNext]_vars /\ ClientFairness

-----------------------------------------------------------------------------
(* What a process may be doing, and the tasks of its pool. *)
ProcessStates ==
  {Idle} \cup [pc : {"loaded"}, item : Items \cup Owned, val : 0..MaxChanges]
         \cup [pc : {"open"}, item : Items, n : 1..MaxChanges, val : 0..MaxChanges, told : BOOLEAN]
         \cup [pc : {"login", "flush"}, n : 1..MaxChanges, give : SUBSET Items, take : SUBSET Items]
         \cup [pc : {"owned"}, item : Owned, val : BOOLEAN, alone : BOOLEAN]

TaskSet == [svc : Services, n : 1..MaxChanges, op : Ops, items : SUBSET Items]

(* Types of the rows, the copies, the requests and the tasks. *)
ClientTypeOK ==
  /\ gateway \in [Items -> 0..MaxChanges] /\ service \in [Services -> [Items -> 0..MaxChanges]]
  /\ owned \in [Owned -> [gateway : BOOLEAN, service : BOOLEAN]]
  /\ proc \in [Processes -> ProcessStates] /\ pool \in [Processes -> SUBSET TaskSet]
  /\ changes \in 1..MaxChanges /\ ver \in [Items -> 0..MaxChanges]
  /\ excuse \in [Services -> SUBSET Items] /\ broken \subseteq Owned
  /\ offered \in [Items -> SUBSET (0..MaxChanges)]

Alike(i, a, b) == IF i \in Grants THEN (a = 0) = (b = 0) ELSE a = b
Settled(i) == Open(i) = {} /\ \A p \in Processes :
  /\ \A t \in pool[p] : i \notin t.items
  /\ proc[p].pc \in {"login", "flush"} => i \notin proc[p].give \cup proc[p].take

(***************************************************************************)
(* When no change of an item is on its way, a service's copy differs from  *)
(* the gateway only if a request was lost, refused or overtaken by a newer *)
(* one, if the transaction that had published it was rolled back, if a     *)
(* reverse sync ran while it was open, if the process died, if a list      *)
(* could not be queued, if a request wrote a row back as it had loaded it  *)
(* over another's change, or if the change was never published             *)
(* (AllServicesClient, ResourceAPIUpdateMixin, ReconcileUser).             *)
(***************************************************************************)
CopiesExplained ==
  \A s \in Services, i \in Items :
    Settled(i) => Alike(i, service[s][i], gateway[i]) \/ i \in excuse[s]

(***************************************************************************)
(* An assignment of a role that a service owns is in the gateway only if   *)
(* the service has it too or is being asked to remove it, unless a removal *)
(* broke off after the service had carried it out, or a removal and a      *)
(* creation overlapped (AssignmentSyncMixin).                              *)
(***************************************************************************)
OwnedIsBacked ==
  \A o \in Owned : owned[o].gateway /\ Rivals(o, TRUE) = {} => owned[o].service \/ o \in broken

(***************************************************************************)
(* Gateway and services agree on everything that is not under way, unless  *)
(* one of the reasons above applies.                                       *)
(***************************************************************************)
DivergenceExplained == CopiesExplained /\ OwnedIsBacked

Registry == INSTANCE SharedRegistry WITH
  source <- gateway, copies <- service, proposed <- offered

(***************************************************************************)
(* The client implements the abstract registry: through reordering, loss,  *)
(* phantom messages and crashes, no service holds a content that no        *)
(* request put forward, and each is again and again brought to the         *)
(* gateway's state: "the 15-minute reverse sync in each service catches    *)
(* any delivery failures" (_make_async_request).                           *)
(***************************************************************************)
ImplementsRegistry == Registry!Spec
=============================================================================
